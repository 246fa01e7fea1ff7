------------------------------- MODULE Elapsed -------------------------------
(***************************************************************************)
(* How an elapsed time is shown (format_elapsed of                         *)
(* src/backend/internal.hpp): hours and minutes only when there are some.  *)
(* Times are milliseconds; the nanoseconds below are dropped there.        *)
(***************************************************************************)
EXTENDS Integers

Hour == 60 * 60 * 1000
Minute == 60 * 1000
Second == 1000

\* what format_elapsed prints: its layout and fields
ElapsedFields == [layout : {"h", "m", "s"}, hours : Nat, minutes : Nat, seconds : Nat, millis : Nat]

\* Mutant: the minutes are not reduced by the hours.
FormatElapsedUnreduced(elapsed) ==
    [layout |-> IF elapsed >= Hour THEN "h" ELSE IF elapsed >= Minute THEN "m" ELSE "s",
     hours |-> elapsed \div Hour, minutes |-> elapsed \div Minute,
     seconds |-> (elapsed \div Second) % 60, millis |-> elapsed % Second]

\* format_elapsed: the layout, and the fields, those left out as 0; a time below zero
\* is shown as zero
FormatElapsed(elapsed) ==
    LET ms == IF elapsed < 0 THEN 0 ELSE elapsed
        hours == ms \div Hour
        minutes == (ms \div Minute) % 60
        seconds == (ms \div Second) % 60
        millis == ms % Second
    IN  IF hours > 0
        THEN [layout |-> "h", hours |-> hours, minutes |-> minutes, seconds |-> seconds, millis |-> millis]
        ELSE IF minutes > 0
        THEN [layout |-> "m", hours |-> 0, minutes |-> minutes, seconds |-> seconds, millis |-> millis]
        ELSE [layout |-> "s", hours |-> 0, minutes |-> 0, seconds |-> ms \div Second, millis |-> millis]
-----------------------------------------------------------------------------
\* the time that a reader takes from the fields
ReadElapsed(shown) ==
    shown.hours * Hour + shown.minutes * Minute + shown.seconds * Second + shown.millis

\* each field fits the digits it is printed with, and nothing that is left out matters
WellFormed(shown) ==
    /\ shown.minutes \in 0 .. 59 /\ shown.seconds \in 0 .. 59 /\ shown.millis \in 0 .. 999
    /\ shown.layout = "h" => shown.hours > 0
    /\ shown.layout = "m" => shown.hours = 0 /\ shown.minutes > 0
    /\ shown.layout = "s" => shown.hours = 0 /\ shown.minutes = 0
=============================================================================
