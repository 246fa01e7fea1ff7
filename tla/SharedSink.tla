----------------------------- MODULE SharedSink -----------------------------
(***************************************************************************)
(* A sink of mode multi_consumer (ostream_sink_mc and file_sink_mc of      *)
(* backend/sinks.hpp), which takes its mutex because several threads may   *)
(* write to it.  The lock_guard is declared in the block of the            *)
(* if constexpr, so its scope, and the lock, end before the stream is      *)
(* used.                                                                   *)
(*                                                                         *)
(* The stream takes a line in parts: two threads inside it at once are a   *)
(* data race, and any interleaving of their parts may come of it.          *)
(***************************************************************************)
EXTENDS Naturals, Sequences

CONSTANTS
    Threads,    \* consumers that share the sink
    LineSize,   \* parts of a line
    MaxLines    \* bound on the lines of each thread

VARIABLES
    pc,         \* "idle", "locked", "unlocked" or "writing"
    off,        \* parts written of the line in hand
    lines,      \* lines begun by each thread
    holder,     \* threads that hold the mutex
    out         \* parts in the stream

vars == <<pc, off, lines, holder, out>>

Init ==
    /\ pc = [t \in Threads |-> "idle"]
    /\ off = [t \in Threads |-> 0]
    /\ lines = [t \in Threads |-> 0]
    /\ holder = {}
    /\ out = <<>>

Goto(t, from, to) == pc[t] = from /\ pc' = [pc EXCEPT ![t] = to]

\* std::lock_guard lock{mutex_}
Lock(t) ==
    /\ lines[t] < MaxLines
    /\ holder = {}
    /\ Goto(t, "idle", "locked")
    /\ holder' = {t}
    /\ lines' = [lines EXCEPT ![t] = @ + 1]
    /\ UNCHANGED <<off, out>>

\* the end of the if constexpr's block
Unlock(t) ==
    /\ Goto(t, "locked", "unlocked")
    /\ holder' = {}
    /\ UNCHANGED <<off, lines, out>>

\* operator<< begins
BeginWrite(t) ==
    /\ Goto(t, "unlocked", "writing")
    /\ UNCHANGED <<off, lines, holder, out>>

\* and hands over the line, part after part
WritePart(t) ==
    /\ out' = Append(out, <<t, lines[t], off[t] + 1>>)
    /\ off' = [off EXCEPT ![t] = (@ + 1) % LineSize]
    /\ Goto(t, "writing", IF off[t] + 1 = LineSize THEN "idle" ELSE "writing")
    /\ UNCHANGED <<lines, holder>>

Next == \E t \in Threads : Lock(t) \/ Unlock(t) \/ BeginWrite(t) \/ WritePart(t)

Spec == Init /\ [][Next]_vars
-----------------------------------------------------------------------------
\* "static constexpr bool threadsafe{Mode == sink_mode::multi_consumer}": a line
\* that has been begun is finished before another one is.
LinesWhole ==
    \A i \in 1 .. Len(out) - 1 :
        LET p == out[i]
            next == out[i + 1]
        IN  IF p[3] < LineSize THEN next = <<p[1], p[2], p[3] + 1>> ELSE next[3] = 1
=============================================================================
