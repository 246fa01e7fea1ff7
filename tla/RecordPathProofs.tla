--------------------------- MODULE RecordPathProofs ---------------------------
(***************************************************************************)
(* What holds of every record, for all channels, clocks, payload and queue *)
(* sizes and times: what format_elapsed shows, what a slot holds and what  *)
(* the sinks are given.                                                    *)
(***************************************************************************)
EXTENDS RecordPath, PatternProofs

-----------------------------------------------------------------------------
(* format_elapsed *)

\* The divisions of format_elapsed lose nothing: minutes and seconds are what is
\* left of the hours and the minutes.
LEMMA Division ==
    ASSUME NEW ms \in Nat
    PROVE  /\ ms \div Hour \in Nat /\ ms \div Minute \in Nat /\ ms \div Second \in Nat
           /\ (ms \div Minute) % 60 \in 0 .. 59
           /\ (ms \div Second) % 60 \in 0 .. 59
           /\ ms % Second \in 0 .. 999
           /\ ms = (ms \div Hour) * Hour + ((ms \div Minute) % 60) * Minute
                     + ((ms \div Second) % 60) * Second + (ms % Second)
<1> DEFINE s == ms \div 1000
           m == s \div 60
<1>1. s \in Nat /\ ms % 1000 \in 0 .. 999 /\ ms = s * 1000 + (ms % 1000)
  OBVIOUS
<1>2. m \in Nat /\ s % 60 \in 0 .. 59 /\ s = m * 60 + (s % 60)
  BY <1>1
<1>3. m \div 60 \in Nat /\ m % 60 \in 0 .. 59 /\ m = (m \div 60) * 60 + (m % 60)
  BY <1>2
<1>4. ms \div 60000 = m
  BY <1>1, <1>2
<1>5. ms \div 3600000 = m \div 60
  BY <1>1, <1>2, <1>3
<1>6. Hour = 3600000 /\ Minute = 60000 /\ Second = 1000
  BY DEF Hour, Minute, Second
<1> QED
  BY <1>1, <1>2, <1>3, <1>4, <1>5, <1>6

\* An elapsed time is shown as what it is, to the millisecond, and nothing that is
\* shown overflows its digits or was left out although it is not zero (format_elapsed).
THEOREM ElapsedExact ==
    ASSUME NEW elapsed \in Int
    PROVE  /\ WellFormed(FormatElapsed(elapsed))
           /\ ReadElapsed(FormatElapsed(elapsed)) = IF elapsed < 0 THEN 0 ELSE elapsed
<1> DEFINE ms == IF elapsed < 0 THEN 0 ELSE elapsed
           hours == ms \div Hour
           minutes == (ms \div Minute) % 60
           seconds == (ms \div Second) % 60
           millis == ms % Second
           shown == FormatElapsed(elapsed)
<1>1. ms \in Nat
  OBVIOUS
<1>2. /\ ms \div Second \in Nat
      /\ hours \in Nat /\ minutes \in 0 .. 59 /\ seconds \in 0 .. 59 /\ millis \in 0 .. 999
      /\ ms = hours * Hour + minutes * Minute + seconds * Second + millis
  <2> HIDE DEF ms
  <2> QED
    BY <1>1, Division
<1>3. shown = IF hours > 0
              THEN [layout |-> "h", hours |-> hours, minutes |-> minutes, seconds |-> seconds, millis |-> millis]
              ELSE IF minutes > 0
              THEN [layout |-> "m", hours |-> 0, minutes |-> minutes, seconds |-> seconds, millis |-> millis]
              ELSE [layout |-> "s", hours |-> 0, minutes |-> 0, seconds |-> ms \div Second, millis |-> millis]
  BY DEF FormatElapsed
<1>4. hours <= 0 /\ minutes <= 0 => ms \div Second = seconds
  <2>1. SUFFICES ASSUME hours <= 0, minutes <= 0
                 PROVE  ms \div Second = seconds
    OBVIOUS
  <2>2. hours = 0 /\ minutes = 0
    BY <1>2, <2>1
  <2>3. ms = seconds * 1000 + millis
    <3> HIDE DEF ms, hours, minutes, seconds, millis
    <3> QED
      BY <1>1, <1>2, <2>2 DEF Second, Hour, Minute
  <2> HIDE DEF ms, seconds, millis
  <2> QED
    BY <1>1, <1>2, <2>3 DEF Second
<1> HIDE DEF ms, hours, minutes, seconds, millis, shown
<1>5. CASE hours > 0
  BY <1>2, <1>3, <1>5 DEF WellFormed, ReadElapsed, shown, ms
<1>6. CASE hours <= 0 /\ minutes > 0
  BY <1>2, <1>3, <1>6 DEF WellFormed, ReadElapsed, shown, ms, Hour
<1>7. CASE hours <= 0 /\ minutes <= 0
  BY <1>2, <1>3, <1>4, <1>7 DEF WellFormed, ReadElapsed, shown, ms, Hour, Minute
<1> QED
  BY <1>2, <1>5, <1>6, <1>7

-----------------------------------------------------------------------------
(* Sequences and counts *)

LEMMA SeqFacts ==
    ASSUME NEW S, NEW q \in Seq(S)
    PROVE  /\ Len(q) \in Nat
           /\ \A k \in 1 .. Len(q) : q[k] \in S
           /\ \A e \in S : /\ Append(q, e) \in Seq(S) /\ Len(Append(q, e)) = Len(q) + 1
                           /\ \A k \in 1 .. Len(q) : Append(q, e)[k] = q[k]
                           /\ Append(q, e)[Len(q) + 1] = e
           /\ q # <<>> => /\ Len(q) > 0 /\ Head(q) = q[1] /\ Head(q) \in S
                          /\ Tail(q) \in Seq(S) /\ Len(Tail(q)) = Len(q) - 1
                          /\ \A k \in 1 .. Len(q) - 1 : Tail(q)[k] = q[k + 1]
<1>1. Len(q) \in Nat /\ \A k \in 1 .. Len(q) : q[k] \in S
  BY LenProperties, ElementOfSeq
<1>2. ASSUME NEW e \in S
      PROVE  /\ Append(q, e) \in Seq(S) /\ Len(Append(q, e)) = Len(q) + 1
             /\ \A k \in 1 .. Len(q) : Append(q, e)[k] = q[k]
             /\ Append(q, e)[Len(q) + 1] = e
  OBVIOUS
<1>3. ASSUME q # <<>>
      PROVE  /\ Len(q) > 0 /\ Head(q) = q[1] /\ Head(q) \in S
             /\ Tail(q) \in Seq(S) /\ Len(Tail(q)) = Len(q) - 1
             /\ \A k \in 1 .. Len(q) - 1 : Tail(q)[k] = q[k + 1]
  BY <1>1, <1>3, HeadTailProperties, EmptySeq
<1> QED
  BY <1>1, <1>2, <1>3

\* What is put at the end of a sequence adds itself to what is counted in it.
LEMMA CountAppend ==
    ASSUME NEW n \in Nat, NEW A \in SUBSET (1 .. n), NEW cond \in BOOLEAN
    PROVE  /\ Cardinality(A) \in Nat
           /\ Cardinality(A \cup {k \in {n + 1} : cond}) = Cardinality(A) + Count(cond)
<1>1. IsFiniteSet(A) /\ Cardinality(A) \in Nat
  <2>1. IsFiniteSet(1 .. n)
    BY FS_Interval
  <2>2. A \in SUBSET (1 .. n)
    OBVIOUS
  <2> QED
    BY <2>1, <2>2, FS_Subset, FS_CardinalityType
<1>2. CASE cond
  <2>1. A \cup {k \in {n + 1} : cond} = A \cup {n + 1} /\ n + 1 \notin A
    BY <1>2
  <2> QED
    BY <1>1, <1>2, <2>1, FS_AddElement DEF Count
<1>3. CASE ~cond
  <2>1. A \cup {k \in {n + 1} : cond} = A
    BY <1>3
  <2> QED
    BY <1>1, <1>3, <2>1 DEF Count
<1> QED
  BY <1>1, <1>2, <1>3

\* Taking the head off a sequence takes it off what is counted.
LEMMA CountTail ==
    ASSUME NEW n \in Nat, n > 0, NEW A \in SUBSET (1 .. n),
           NEW B, B = {k \in 1 .. n - 1 : k + 1 \in A}
    PROVE  Cardinality(A) = Cardinality(B) + Count(1 \in A)
<1>1. IsFiniteSet(A) /\ Cardinality(A) \in Nat
  <2>1. IsFiniteSet(1 .. n)
    BY FS_Interval
  <2>2. A \in SUBSET (1 .. n)
    OBVIOUS
  <2> QED
    BY <2>1, <2>2, FS_Subset, FS_CardinalityType
<1>2. IsFiniteSet(B) /\ Cardinality(B) \in Nat
  <2>1. IsFiniteSet(1 .. n - 1)
    BY FS_Interval
  <2>2. B \in SUBSET (1 .. n - 1)
    OBVIOUS
  <2> QED
    BY <2>1, <2>2, FS_Subset, FS_CardinalityType
<1> DEFINE f == [k \in B |-> k + 1]
<1>3. f \in [B -> A \ {1}] /\ \A a, b \in B : f[a] = f[b] => a = b
  OBVIOUS
<1>4. \A t \in A \ {1} : \E s \in B : f[s] = t
  <2> TAKE t \in A \ {1}
  <2>1. t - 1 \in B
    OBVIOUS
  <2> WITNESS t - 1 \in B
  <2> QED
    BY <2>1
<1>5. ExistsBijection(B, A \ {1})
  <2> DEFINE T == A \ {1}
  <2> HIDE DEF f, T
  <2>1. f \in [B -> T] /\ (\A a, b \in B : f[a] = f[b] => a = b) /\ \A t \in T : \E s \in B : f[s] = t
    BY <1>3, <1>4 DEF T
  <2>2. f \in Bijection(B, T)
    BY <2>1, Fun_IsBij
  <2> QED
    BY <2>2 DEF ExistsBijection, T
<1>6. Cardinality(A \ {1}) = Cardinality(B)
  <2> DEFINE T == A \ {1}
  <2>1. ExistsBijection(B, T)
    BY <1>5
  <2> HIDE DEF T
  <2>2. Cardinality(T) = Cardinality(B)
    BY <1>2, <2>1, FS_Bijection
  <2> QED
    BY <2>2 DEF T
<1>7. Cardinality(A \ {1}) = IF 1 \in A THEN Cardinality(A) - 1 ELSE Cardinality(A)
  BY <1>1, FS_RemoveElement
<1> QED
  BY <1>1, <1>2, <1>6, <1>7 DEF Count

-----------------------------------------------------------------------------
(* One record and its line *)

\* the values of the constants and of the setup that the steps below use
LEMMA SetupFacts ==
    ASSUME setup \in Setups
    PROVE  /\ ValidPack(setup.options) /\ ValidPack(setup.customOptions)
           /\ setup.color \in BOOLEAN /\ capacity \in Nat /\ clockType \in {"steady", "system"}
           /\ overflow \in {Drop, Truncate}
           /\ MarkerSize \in Nat /\ QueueSize \in Nat \ {0} /\ Offset \in Nat
           /\ MaxCalls \in Nat /\ MaxTicks \in Nat /\ Steps \subseteq Nat \ {0}
  BY SetupsAssumption, SizesAssumption, OverflowKnown DEF capacity, clockType, overflow

\* What write_record_slot leaves in a slot: the message if it fits, as much of it as
\* the marker leaves room for if it does not.
LEMMA SlotFacts ==
    ASSUME setup \in Setups, NEW n \in Nat
    PROVE  /\ n <= capacity =>
                 /\ WriteRecordSlot(n).result = "written"
                 /\ WriteRecordSlot(n).message = [i \in 1 .. n |-> i]
           /\ n > capacity /\ overflow = Drop => WriteRecordSlot(n).result = "dropped"
           /\ n > capacity /\ overflow # Drop =>
                 /\ WriteRecordSlot(n).result = "truncated"
                 /\ WriteRecordSlot(n).message =
                       [i \in 1 .. capacity |->
                           IF i <= capacity - MarkerSize THEN i
                           ELSE -(i - IF capacity > MarkerSize THEN capacity - MarkerSize ELSE 0)]
           /\ WriteRecordSlot(n).result # "dropped" =>
                 /\ WriteRecordSlot(n).message \in Seq(Int)
                 /\ Len(WriteRecordSlot(n).message) <= capacity
                 /\ WriteRecordSlot(n).result = "truncated" <=> n > capacity
<1> DEFINE payload == [i \in 1 .. capacity |-> IF i <= n THEN i ELSE 0]
           marked == WithMarker(payload, capacity)
           short == [i \in 1 .. n |-> i]
           long == [i \in 1 .. capacity |->
                       IF i <= capacity - MarkerSize THEN i
                       ELSE -(i - IF capacity > MarkerSize THEN capacity - MarkerSize ELSE 0)]
<1>1. capacity \in Nat /\ MarkerSize \in Nat
  BY SetupFacts
<1>2. /\ n <= capacity => WriteRecordSlot(n) = [result |-> "written", message |-> SubSeq(payload, 1, n)]
      /\ n > capacity /\ overflow = Drop => WriteRecordSlot(n) = [result |-> "dropped", message |-> <<>>]
      /\ n > capacity /\ overflow # Drop => WriteRecordSlot(n) = [result |-> "truncated", message |-> marked]
  <2>1. ~ (n <= capacity) <=> n > capacity
    BY <1>1
  <2> QED
    BY <2>1 DEF WriteRecordSlot
<1>3. short \in Seq(Int) /\ Len(short) = n
  OBVIOUS
<1>4. long \in Seq(Int) /\ Len(long) = capacity
  BY <1>1
<1>5. n <= capacity => SubSeq(payload, 1, n) = short
  <2>1. SUFFICES ASSUME n <= capacity PROVE SubSeq(payload, 1, n) = short
    OBVIOUS
  <2>2. \A i \in 1 .. n : payload[i] \in Int /\ payload[i] = i
    BY <1>1, <2>1
  <2> DEFINE q == SubSeq(payload, 1, n)
  <2>3. q \in Seq(Int) /\ Len(q) = n /\ \A i \in 1 .. n : q[i] = i
    <3> HIDE DEF payload
    <3>1. /\ q \in Seq(Int) /\ Len(q) = IF 1 <= n THEN n - 1 + 1 ELSE 0
          /\ \A i \in 1 .. n - 1 + 1 : q[i] = payload[1 + i - 1]
      BY <2>2, SubSeqProperties
    <3>2. (IF 1 <= n THEN n - 1 + 1 ELSE 0) = n /\ n - 1 + 1 = n /\ \A i \in 1 .. n : 1 + i - 1 = i
      OBVIOUS
    <3> HIDE DEF q
    <3> QED
      BY <2>2, <3>1, <3>2
  <2>4. \A i \in 1 .. n : short[i] = i
    OBVIOUS
  <2> HIDE DEF payload, q, short
  <2>5. q = short
    BY <1>3, <2>3, <2>4, SeqEqual
  <2> QED
    BY <2>5 DEF q
<1>6. n > capacity => marked = long
  <2>1. SUFFICES ASSUME n > capacity PROVE marked = long
    OBVIOUS
  <2>2. DOMAIN payload = 1 .. capacity /\ \A i \in 1 .. capacity : payload[i] = i
    BY <1>1, <2>1
  <2> HIDE DEF payload
  <2>3. DOMAIN marked = 1 .. capacity /\ \A i \in 1 .. capacity : marked[i] = long[i]
    BY <1>1, <2>2 DEF WithMarker
  <2> QED
    BY <1>1, <2>2, <2>3 DEF WithMarker
<1> HIDE DEF payload, marked, short, long
<1>7. n <= capacity \/ (n > capacity /\ overflow = Drop) \/ (n > capacity /\ overflow # Drop)
  BY <1>1
<1>8. CASE n <= capacity
  <2>1. ~ (n > capacity)
    BY <1>1, <1>8
  <2> QED
    BY <1>2, <1>3, <1>5, <1>8, <2>1 DEF short
<1>9. CASE n > capacity /\ overflow = Drop
  <2>1. ~ (n <= capacity)
    BY <1>1, <1>9
  <2> QED
    BY <1>2, <1>9, <2>1
<1>10. CASE n > capacity /\ overflow # Drop
  <2>1. ~ (n <= capacity) /\ capacity <= capacity
    BY <1>1, <1>10
  <2>2. /\ WriteRecordSlot(n).result = "truncated"
        /\ WriteRecordSlot(n).message = long
    BY <1>2, <1>6, <1>10
  <2> QED
    BY <1>4, <1>10, <2>1, <2>2 DEF long
<1> QED
  BY <1>7, <1>8, <1>9, <1>10

\* What format_elapsed prints is made of numbers that are not negative.
LEMMA ElapsedType ==
    ASSUME NEW elapsed \in Int
    PROVE  FormatElapsed(elapsed) \in ElapsedFields
<1> DEFINE ms == IF elapsed < 0 THEN 0 ELSE elapsed
<1>1. ms \in Nat
  OBVIOUS
<1>2. /\ ms \div Hour \in Nat /\ (ms \div Minute) % 60 \in Nat /\ (ms \div Second) % 60 \in Nat
      /\ ms \div Second \in Nat /\ ms % Second \in Nat
  <2> HIDE DEF ms
  <2>1. /\ ms \div Hour \in Nat /\ (ms \div Minute) % 60 \in 0 .. 59
        /\ (ms \div Second) % 60 \in 0 .. 59
        /\ ms \div Second \in Nat /\ ms % Second \in 0 .. 999
    BY <1>1, Division, SMTT(30)
  <2> DEFINE minutes == (ms \div Minute) % 60
             seconds == (ms \div Second) % 60
             millis == ms % Second
  <2> HIDE DEF minutes, seconds, millis
  <2>2. minutes \in 0 .. 59 /\ seconds \in 0 .. 59 /\ millis \in 0 .. 999
    BY <2>1 DEF minutes, seconds, millis
  <2>3. minutes \in Nat /\ seconds \in Nat /\ millis \in Nat
    BY <2>2
  <2> QED
    BY <2>1, <2>3 DEF minutes, seconds, millis
<1> QED
  BY <1>2 DEF FormatElapsed, ElapsedFields

\* A record gives every sink one line of its type.
LEMMA LineType ==
    ASSUME setup \in Setups, NEW record \in Records
    PROVE  Line(record) \in Lines
<1>1. record.timestamp \in Nat /\ Offset \in Nat /\ created \in Nat
  BY SetupFacts DEF Records, created
<1> DEFINE elapsed == record.timestamp - created - IF clockType = "system" THEN Offset ELSE 0
<1>2. elapsed \in Int
  BY <1>1
<1>3. FormatElapsed(elapsed) \in ElapsedFields /\ FormatElapsed(0) \in ElapsedFields
  <2> HIDE DEF elapsed
  <2> QED
    BY <1>2, ElapsedType
<1>4. TimeContext(record.timestamp).wall \in Int
  <2> HIDE DEF elapsed
  <2>1. 0 \in Int /\ record.timestamp \in Int /\ created + Offset + elapsed \in Int
    BY <1>1, <1>2
  <2> QED
    BY <2>1 DEF TimeContext, elapsed
<1>5. TimeContext(record.timestamp).elapsed \in ElapsedFields
  <2> HIDE DEF elapsed
  <2> QED
    BY <1>3 DEF TimeContext, elapsed
<1> QED
  BY <1>4, <1>5 DEF Line, Lines

-----------------------------------------------------------------------------
(* The inductive invariant *)

\* As long as nothing is reconfigured, a record is written, and its line computed,
\* from the same values.
LEMMA ConfigKept ==
    ASSUME UNCHANGED configVars
    PROVE  /\ capacity' = capacity /\ clockType' = clockType /\ overflow' = overflow
           /\ Records' = Records /\ Lines' = Lines
           /\ \A r : Written(r)' <=> Written(r)
           /\ \A r : Line(r)' = Line(r)
           /\ \A r : WriteRecordSlot(r)' = WriteRecordSlot(r)
  BY DEF configVars, capacity, clockType, overflow, Records, Lines, Sizes, Written, Timestamped,
         WriteRecordSlot, WithMarker, Line, TimeContext, Needs, created

\* the queued records that were truncated, and those a sink was given
TruncatedIn(q) == {k \in 1 .. Len(q) : q[k].n > capacity}
TruncatedShown(q) == {k \in 1 .. Len(q) : q[k].record.n > capacity}

LEMMA InvAtStart == Init => RecordPathInv
<1> SUFFICES ASSUME Init PROVE RecordPathInv
  OBVIOUS
<1>1. /\ setup \in Setups /\ overflow \in {Drop, Truncate} /\ clockType \in {"steady", "system"}
      /\ MaxCalls \in Nat /\ MaxTicks \in Nat /\ QueueSize \in Nat
  BY SetupFacts DEF Init
<1>2. queue = <<>> /\ Len(queue) = 0 /\ \A s \in {"route", "custom"} : lines[s] = <<>> /\ Len(lines[s]) = 0
  BY DEF Init
<1>3. DOMAIN lines = {"route", "custom"}
  BY DEF Init
<1>4. queue \in Seq(Records) /\ lines \in [{"route", "custom"} -> Seq(Lines)]
  BY DEF Init
<1>5. TypeOK
  BY <1>1, <1>2, <1>4 DEF Init, TypeOK, created
<1>6. StatsAddUp
  <2>1. {k \in 1 .. Len(queue) : queue[k].n > capacity} = {}
        /\ {k \in 1 .. Len(lines["route"]) : lines["route"][k].record.n > capacity} = {}
    BY <1>2
  <2>2. Cardinality({}) = 0
    BY FS_EmptySet
  <2> QED
    BY <1>2, <1>3, <2>1, <2>2 DEF Init, StatsAddUp
<1> QED
  BY <1>2, <1>3, <1>5, <1>6 DEF Init, RecordPathInv

\* A log call that publishes its record (log_message, produce_runtime_record).
LEMMA InvAfterLog ==
    ASSUME RecordPathInv, NEW l \in Levels, NEW n \in Sizes, Log(l, n)
    PROVE  RecordPathInv'
<1> DEFINE record == Record(l, n)
<1>1. /\ setup \in Setups /\ capacity \in Nat /\ n \in Nat /\ l \in Nat /\ Offset \in Nat
      /\ now \in Nat /\ now >= created /\ created \in Nat /\ clockType \in {"steady", "system"}
      /\ MaxCalls \in Nat
  BY SetupFacts, LevelsAssumption DEF RecordPathInv, TypeOK, Sizes, created
<1>2. UNCHANGED configVars /\ UNCHANGED <<level, now, ticks, lines, dropped, refused>>
  BY DEF Log
<1>3. /\ WriteRecordSlot(n).message \in Seq(Int) /\ Len(WriteRecordSlot(n).message) <= capacity
      /\ WriteRecordSlot(n).result = "truncated" <=> n > capacity
  BY <1>1, SlotFacts DEF Log
<1>4. Timestamp = Timestamped(now) /\ Timestamp \in Nat
  BY <1>1 DEF Timestamp, Timestamped
<1>5. capturesFile \in BOOLEAN
  BY DEF RecordPathInv, UsesToken
<1>6. record \in Records /\ Written(record) /\ record.n = n /\ record.message = WriteRecordSlot(n).message
  <2>1. record \in Records
    BY <1>1, <1>3, <1>4, <1>5 DEF Record, Records
  <2>2. /\ record.at = now /\ record.n = n /\ record.timestamp = Timestamp
        /\ record.hasFile = capturesFile /\ record.message = WriteRecordSlot(n).message
    BY DEF Record
  <2>3. WriteRecordSlot(n).result # "dropped"
    BY DEF Log
  <2> HIDE DEF record
  <2> QED
    BY <1>1, <1>4, <2>1, <2>2, <2>3 DEF Written
<1> HIDE DEF record
<1>7. /\ queue \in Seq(Records) /\ queue' = Append(queue, record) /\ Len(queue) < QueueSize
      /\ Len(queue) <= QueueSize /\ QueueSize \in Nat
  BY SizesAssumption DEF Log, RecordPathInv, TypeOK, record
<1>8. /\ Len(queue) \in Nat /\ queue' \in Seq(Records) /\ Len(queue') = Len(queue) + 1
      /\ \A k \in 1 .. Len(queue) : queue'[k] = queue[k] /\ queue[k] \in Records
      /\ queue'[Len(queue) + 1] = record
  BY <1>6, <1>7, SeqFacts
<1>9. calls' = calls + 1 /\ calls < MaxCalls /\ emitted' = emitted + 1
      /\ truncated' = truncated + Count(n > capacity)
  BY <1>3 DEF Log, Call
<1>10. Count(n > capacity) \in {0, 1}
  BY DEF Count
<1>11. \A k \in 1 .. Len(queue') : Written(queue'[k]) /\ Len(queue'[k].message) <= capacity
  <2> TAKE k \in 1 .. Len(queue')
  <2>1. CASE k \in 1 .. Len(queue)
    BY <1>8, <2>1 DEF RecordPathInv, TypeOK
  <2>2. CASE k = Len(queue) + 1
    BY <1>3, <1>6, <1>8, <2>2
  <2> QED
    BY <1>8, <2>1, <2>2
<1>12. TypeOK'
  <2>1. setup' = setup /\ overflow' = overflow /\ clockType' = clockType /\ capacity' = capacity
        /\ Records' = Records /\ Lines' = Lines
    BY <1>2, ConfigKept DEF configVars
  <2>2. Len(queue') <= QueueSize
    BY <1>7, <1>8
  <2>3. calls' \in 0 .. MaxCalls /\ emitted' \in Nat /\ truncated' \in Nat
    BY <1>1, <1>9, <1>10 DEF RecordPathInv, TypeOK
  <2> QED
    BY <1>2, <1>8, <1>11, <2>1, <2>2, <2>3 DEF RecordPathInv, TypeOK, created
<1>13. StatsAddUp'
  <2> DEFINE Q == TruncatedIn(queue)
             L == TruncatedShown(lines["route"])
             R == {k \in 1 .. Len(queue') : queue'[k].n > capacity}
  <2>1. /\ calls = emitted + dropped + refused /\ emitted \in Nat /\ dropped \in Nat /\ refused \in Nat
        /\ \A s \in DOMAIN lines : emitted = Len(queue) + Len(lines[s])
        /\ truncated = Cardinality(Q) + Cardinality(L) /\ truncated \in Nat
    BY DEF RecordPathInv, TypeOK, StatsAddUp, TruncatedIn, TruncatedShown
  <2>2. Q \in SUBSET (1 .. Len(queue)) /\ R = Q \cup {k \in {Len(queue) + 1} : n > capacity}
    <3>1. \A k \in 1 .. Len(queue') : k \in R <=> (k \in Q \/ (k = Len(queue) + 1 /\ n > capacity))
      BY <1>6, <1>8 DEF TruncatedIn
    <3> QED
      BY <1>8, <3>1 DEF TruncatedIn
  <2>3. Cardinality(Q) \in Nat /\ Cardinality(R) = Cardinality(Q) + Count(n > capacity)
    <3> HIDE DEF Q, R
    <3>1. (n > capacity) \in BOOLEAN
      OBVIOUS
    <3> QED
      BY <1>8, <2>2, <3>1, CountAppend
  <2>4. capacity' = capacity /\ lines' = lines /\ dropped' = dropped /\ refused' = refused
    BY <1>2, ConfigKept
  <2>5. \A s \in DOMAIN lines : Len(lines[s]) \in Nat
    BY LenProperties DEF RecordPathInv, TypeOK
  <2>6. Cardinality(L) \in Nat
    <3>1. IsFiniteSet(1 .. Len(lines["route"])) /\ L \in SUBSET (1 .. Len(lines["route"]))
      <4>1. Len(lines["route"]) \in Int
        BY LenProperties DEF RecordPathInv, TypeOK
      <4> QED
        BY <4>1, FS_Interval DEF TruncatedShown
    <3> HIDE DEF L
    <3> QED
      BY <3>1, FS_Subset, FS_CardinalityType
  <2>7. calls' = emitted' + dropped' + refused'
    BY <1>9, <2>1, <2>4
  <2>8. \A s \in DOMAIN lines' : emitted' = Len(queue') + Len(lines'[s])
    BY <1>8, <1>9, <2>1, <2>4, <2>5
  <2>9. truncated' = Cardinality(R) + Cardinality(L)
    <3> HIDE DEF Q, R, L
    <3> QED
      BY <1>9, <1>10, <2>1, <2>3, <2>6
  <2> QED
    BY <2>4, <2>7, <2>8, <2>9 DEF StatsAddUp, TruncatedShown
<1> QED
  <2>1. /\ channel' = channel /\ custom' = custom /\ capturesFile' = capturesFile /\ setup' = setup
        /\ lines' = lines
    BY <1>2 DEF configVars
  <2>2. \A r : (Written(r)' <=> Written(r)) /\ Line(r)' = Line(r)
    BY <1>2, ConfigKept
  <2>3. \A k \in 1 .. Len(queue') : Written(queue[k])'
    BY <1>11, <2>2
  <2> QED
    BY <1>12, <1>13, <2>1, <2>2, <2>3 DEF RecordPathInv, SinkEntry

\* A step that touches neither the queue nor the lines has only the counters to keep.
LEMMA InvAfterOther ==
    ASSUME RecordPathInv, UNCHANGED configVars, UNCHANGED <<queue, lines, emitted, truncated>>,
           level' \in Levels \cup {Off}, ticks' \in 0 .. MaxTicks, now' \in Nat, now' >= created,
           dropped' \in Nat, calls' \in 0 .. MaxCalls, refused' \in 0 .. MaxCalls,
           calls' = emitted + dropped' + refused'
    PROVE  RecordPathInv'
<1>1. setup' = setup /\ overflow' = overflow /\ clockType' = clockType /\ capacity' = capacity
      /\ Records' = Records /\ Lines' = Lines
  BY ConfigKept DEF configVars
<1>2. TypeOK'
  BY <1>1 DEF RecordPathInv, TypeOK, created
<1>3. StatsAddUp'
  <2>1. calls' = emitted' + dropped' + refused'
    OBVIOUS
  <2> QED
    BY <1>1, <2>1 DEF RecordPathInv, StatsAddUp
<1> QED
  <2>1. channel' = channel /\ custom' = custom /\ capturesFile' = capturesFile
    BY DEF configVars
  <2>2. \A r : (Written(r)' <=> Written(r)) /\ Line(r)' = Line(r)
    BY ConfigKept
  <2> QED
    BY <1>1, <1>2, <1>3, <2>1, <2>2 DEF RecordPathInv, SinkEntry

\* The consumer hands the oldest record to both sinks (emit_runtime_slot).
LEMMA InvAfterEmit ==
    ASSUME RecordPathInv, Emit
    PROVE  RecordPathInv'
<1> DEFINE record == Head(queue)
<1>1. /\ UNCHANGED configVars /\ UNCHANGED <<level, now, ticks, statsVars, calls, refused>>
      /\ queue # <<>> /\ queue' = Tail(queue)
  BY DEF Emit
<1>2. /\ queue \in Seq(Records) /\ lines \in [{"route", "custom"} -> Seq(Lines)]
      /\ setup \in Setups /\ Len(queue) <= QueueSize
  BY DEF RecordPathInv, TypeOK
<1>3. /\ Len(queue) \in Nat /\ Len(queue) > 0 /\ record = queue[1] /\ record \in Records
      /\ queue' \in Seq(Records) /\ Len(queue') = Len(queue) - 1
      /\ \A k \in 1 .. Len(queue) - 1 : queue'[k] = queue[k + 1]
  BY <1>1, <1>2, SeqFacts
<1> HIDE DEF record
<1>4. Written(record) /\ Line(record) \in Lines
  BY <1>2, <1>3, LineType DEF RecordPathInv
<1>5. Line(record).record = record
  BY DEF Line
<1>6. /\ lines' = [s \in {"route", "custom"} |-> Append(lines[s], Line(record))]
      /\ \A s \in {"route", "custom"} : lines'[s] = Append(lines[s], Line(record))
  BY <1>2 DEF Emit, record
<1>7. ASSUME NEW s \in {"route", "custom"}
      PROVE  /\ Len(lines[s]) \in Nat /\ lines'[s] \in Seq(Lines)
             /\ Len(lines'[s]) = Len(lines[s]) + 1
             /\ \A k \in 1 .. Len(lines[s]) : lines'[s][k] = lines[s][k]
             /\ lines'[s][Len(lines[s]) + 1] = Line(record)
  <2>1. lines[s] \in Seq(Lines) /\ lines'[s] = Append(lines[s], Line(record))
    BY <1>2, <1>6
  <2> QED
    BY <1>4, <2>1, SeqFacts
<1>8. \A k \in 1 .. Len(queue') : k + 1 \in 1 .. Len(queue) /\ queue'[k] = queue[k + 1]
  BY <1>3
<1>9. setup' = setup /\ overflow' = overflow /\ clockType' = clockType /\ capacity' = capacity
      /\ Records' = Records /\ Lines' = Lines
  BY <1>1, ConfigKept DEF configVars
<1>10. TypeOK'
  <2>1. lines' \in [{"route", "custom"} -> Seq(Lines)]
    BY <1>6, <1>7
  <2>2. Len(queue') <= QueueSize
    BY <1>2, <1>3, SizesAssumption
  <2>3. \A k \in 1 .. Len(queue') : Len(queue'[k].message) <= capacity
    BY <1>8 DEF RecordPathInv, TypeOK
  <2> QED
    BY <1>1, <1>3, <1>9, <2>1, <2>2, <2>3 DEF RecordPathInv, TypeOK, created, statsVars
<1>11. \A k \in 1 .. Len(queue') : Written(queue'[k])
  BY <1>8 DEF RecordPathInv
<1>12. ASSUME NEW s \in {"route", "custom"}, NEW k \in 1 .. Len(lines'[s])
       PROVE  Written(lines'[s][k].record) /\ lines'[s][k] = Line(lines'[s][k].record)
  <2>1. CASE k \in 1 .. Len(lines[s])
    <3>1. Written(lines[s][k].record) /\ lines[s][k] = Line(lines[s][k].record)
      BY <1>2, <2>1 DEF RecordPathInv
    <3> QED
      BY <1>7, <2>1, <3>1
  <2>2. CASE k = Len(lines[s]) + 1
    BY <1>4, <1>5, <1>7, <2>2
  <2> QED
    BY <1>7, <2>1, <2>2
<1>13. StatsAddUp'
  <2> DEFINE Q == TruncatedIn(queue)
             L == TruncatedShown(lines["route"])
             R == {k \in 1 .. Len(queue') : queue'[k].n > capacity}
             P == {k \in 1 .. Len(lines'["route"]) : lines'["route"][k].record.n > capacity}
             n == Len(lines["route"])
  <2>1. /\ calls = emitted + dropped + refused
        /\ \A s \in DOMAIN lines : emitted = Len(queue) + Len(lines[s])
        /\ truncated = Cardinality(Q) + Cardinality(L) /\ emitted \in Nat
    BY DEF RecordPathInv, TypeOK, StatsAddUp, TruncatedIn, TruncatedShown
  <2>2. n \in Nat /\ L \in SUBSET (1 .. n) /\ P = L \cup {k \in {n + 1} : record.n > capacity}
    <3>1. \A k \in 1 .. Len(lines'["route"]) : k \in P <=> (k \in L \/ (k = n + 1 /\ record.n > capacity))
      BY <1>5, <1>7 DEF TruncatedShown
    <3>2. n \in Nat /\ Len(lines'["route"]) = n + 1
      BY <1>7
    <3>3. P \subseteq 1 .. n + 1 /\ L \subseteq 1 .. n
      BY <3>2 DEF TruncatedShown
    <3> HIDE DEF P, L, n
    <3>4. 1 .. n \subseteq 1 .. n + 1 /\ n + 1 \in 1 .. n + 1
      BY <3>2
    <3> QED
      BY <3>1, <3>2, <3>3, <3>4
  <2>3. Cardinality(L) \in Nat /\ Cardinality(P) = Cardinality(L) + Count(record.n > capacity)
    <3> HIDE DEF L, P, n
    <3>1. (record.n > capacity) \in BOOLEAN
      OBVIOUS
    <3> QED
      BY <2>2, <3>1, CountAppend
  <2>4. Q \in SUBSET (1 .. Len(queue)) /\ R = {k \in 1 .. Len(queue) - 1 : k + 1 \in Q}
        /\ (1 \in Q <=> record.n > capacity)
    BY <1>3, <1>8 DEF TruncatedIn
  <2>5. Cardinality(Q) = Cardinality(R) + Count(1 \in Q)
    <3> HIDE DEF Q, R
    <3> QED
      BY <1>3, <2>4, CountTail
  <2>6. Count(1 \in Q) = Count(record.n > capacity) /\ Count(record.n > capacity) \in {0, 1}
    BY <2>4 DEF Count
  <2>7. Cardinality(Q) \in Nat /\ Cardinality(R) \in Nat
    <3>1. IsFiniteSet(1 .. Len(queue)) /\ IsFiniteSet(1 .. Len(queue) - 1)
      BY <1>3, FS_Interval
    <3>2. R \in SUBSET (1 .. Len(queue) - 1)
      BY <2>4
    <3> HIDE DEF Q, R
    <3> QED
      BY <2>4, <3>1, <3>2, FS_Subset, FS_CardinalityType
  <2>8. capacity' = capacity /\ truncated' = truncated /\ emitted' = emitted /\ dropped' = dropped
        /\ refused' = refused /\ calls' = calls
    BY <1>1, <1>9 DEF statsVars
  <2>9. truncated' = Cardinality(R) + Cardinality(P)
    <3> HIDE DEF Q, R, L, P
    <3> QED
      BY <2>1, <2>3, <2>5, <2>6, <2>7, <2>8
  <2>10. \A s \in DOMAIN lines' : emitted' = Len(queue') + Len(lines'[s])
    <3>1. DOMAIN lines = {"route", "custom"} /\ DOMAIN lines' = {"route", "custom"}
      BY <1>2, <1>6
    <3>2. ASSUME NEW s \in {"route", "custom"} PROVE emitted' = Len(queue') + Len(lines'[s])
      <4>1. emitted = Len(queue) + Len(lines[s]) /\ emitted' = emitted
        BY <2>1, <2>8, <3>1
      <4>2. Len(lines[s]) \in Nat /\ Len(lines'[s]) = Len(lines[s]) + 1
        BY <1>7
      <4> QED
        BY <1>3, <2>1, <4>1, <4>2
    <3> QED
      BY <3>1, <3>2
  <2> QED
    BY <2>1, <2>8, <2>9, <2>10 DEF StatsAddUp
<1> QED
  <2>1. channel' = channel /\ custom' = custom /\ capturesFile' = capturesFile
        /\ DOMAIN lines' = {"route", "custom"}
    BY <1>1, <1>6 DEF configVars
  <2>2. \A r : (Written(r)' <=> Written(r)) /\ Line(r)' = Line(r)
    BY <1>1, ConfigKept
  <2>3. \A k \in 1 .. Len(queue') : Written(queue[k])'
    BY <1>11, <2>2
  <2>4. \A s \in {"route", "custom"} : \A k \in 1 .. Len(lines'[s]) :
           Written(lines[s][k].record)' /\ lines'[s][k] = Line(lines[s][k].record)'
    BY <1>12, <2>2
  <2> QED
    BY <1>9, <1>10, <1>13, <2>1, <2>3, <2>4 DEF RecordPathInv, SinkEntry

\* The invariant holds of every channel, clock, payload and queue size: RecordPathInv
\* is inductive as it stands.
THEOREM RecordPathInductive == Spec => []RecordPathInv
<1>1. RecordPathInv /\ [Next]_vars => RecordPathInv'
  <2> SUFFICES ASSUME RecordPathInv, [Next]_vars PROVE RecordPathInv'
    OBVIOUS
  <2>0. /\ calls \in 0 .. MaxCalls /\ refused \in 0 .. MaxCalls /\ calls = emitted + dropped + refused
        /\ emitted \in Nat /\ dropped \in Nat /\ ticks \in 0 .. MaxTicks /\ now \in Nat /\ now >= created
        /\ level \in Levels \cup {Off} /\ MaxCalls \in Nat /\ MaxTicks \in Nat /\ created \in Nat
    BY SizesAssumption DEF RecordPathInv, TypeOK, StatsAddUp, created
  <2>1. ASSUME NEW l \in Levels, NEW n \in Sizes, Log(l, n) PROVE RecordPathInv'
    BY <2>1, InvAfterLog
  <2>2. ASSUME NEW l \in Levels, NEW n \in Sizes, LogDropped(l, n) PROVE RecordPathInv'
    <3>1. /\ UNCHANGED configVars /\ UNCHANGED <<queue, lines, emitted, truncated>>
          /\ level' = level /\ ticks' = ticks /\ now' = now /\ refused' = refused
          /\ dropped' = dropped + 1 /\ calls' = calls + 1 /\ calls < MaxCalls
      BY <2>2 DEF LogDropped, Call
    <3>2. dropped' \in Nat /\ calls' \in 0 .. MaxCalls
          /\ calls' = emitted + dropped' + refused'
      BY <2>0, <3>1
    <3> QED
      BY <2>0, <3>1, <3>2, InvAfterOther
  <2>3. ASSUME NEW l \in Levels, LogThrows(l) PROVE RecordPathInv'
    <3>1. /\ UNCHANGED configVars /\ UNCHANGED <<queue, lines, emitted, truncated>>
          /\ level' = level /\ ticks' = ticks /\ now' = now /\ refused' = refused + 1
          /\ dropped' = dropped /\ calls' = calls + 1 /\ calls < MaxCalls
      BY <2>3 DEF LogThrows, Call, statsVars
    <3>2. refused' \in 0 .. MaxCalls /\ calls' \in 0 .. MaxCalls
          /\ calls' = emitted + dropped' + refused'
      BY <2>0, <3>1
    <3> QED
      BY <2>0, <3>1, <3>2, InvAfterOther
  <2>4. CASE Emit
    BY <2>4, InvAfterEmit
  <2>5. ASSUME NEW l \in Levels \cup {Off}, SetLevel(l) PROVE RecordPathInv'
    <3>1. /\ UNCHANGED configVars /\ UNCHANGED <<queue, lines, emitted, truncated>>
          /\ level' = l /\ ticks' = ticks /\ now' = now /\ refused' = refused
          /\ dropped' = dropped /\ calls' = calls
      BY <2>5 DEF SetLevel, statsVars
    <3> QED
      BY <2>0, <3>1, InvAfterOther
  <2>6. ASSUME NEW step \in Steps, Tick(step) PROVE RecordPathInv'
    <3>1. /\ UNCHANGED configVars /\ UNCHANGED <<queue, lines, emitted, truncated>>
          /\ level' = level /\ ticks' = ticks + 1 /\ now' = now + step /\ refused' = refused
          /\ dropped' = dropped /\ calls' = calls /\ ticks < MaxTicks
      BY <2>6 DEF Tick, statsVars
    <3>2. ticks' \in 0 .. MaxTicks /\ now' \in Nat /\ now' >= created
      BY <2>0, <3>1, SizesAssumption
    <3> QED
      BY <2>0, <3>1, <3>2, InvAfterOther
  <2>7. CASE UNCHANGED vars
    <3>1. /\ UNCHANGED configVars /\ UNCHANGED <<queue, lines, emitted, truncated>>
          /\ level' = level /\ ticks' = ticks /\ now' = now /\ refused' = refused
          /\ dropped' = dropped /\ calls' = calls
      BY <2>7 DEF vars, statsVars
    <3> QED
      BY <2>0, <3>1, InvAfterOther
  <2> QED
    BY <2>1, <2>2, <2>3, <2>4, <2>5, <2>6, <2>7 DEF Next
<1> QED
  BY InvAtStart, <1>1, PTL DEF Spec

-----------------------------------------------------------------------------
(* What follows from it *)

\* The variables keep their types (RecordPath's state).
THEOREM TypesCorrect == Spec => []TypeOK
<1>1. RecordPathInv => TypeOK
  BY DEF RecordPathInv
<1> QED
  BY RecordPathInductive, <1>1, PTL

\* Every call that passes the gate is counted once unless it throws, and every counted
\* record is queued or was given to every sink (log_message, emit_runtime_slot).
THEOREM StatsHold == Spec => []StatsAddUp
<1>1. RecordPathInv => StatsAddUp
  BY DEF RecordPathInv
<1> QED
  BY RecordPathInductive, <1>1, PTL

\* The array compile_pattern fills has room for exactly its pieces, and they render
\* what the pattern means, for every pattern text.
THEOREM CompilesExactly == Spec => []CompileExact
<1>1. RecordPathInv => CompileExact
  <2> SUFFICES ASSUME RecordPathInv PROVE CompileExact
    OBVIOUS
  <2> DEFINE text == Program(setup.options, setup.color)
  <2>1. channel.text = text /\ channel.pieces = Compile(text) /\ channel.color = setup.color
    BY DEF RecordPathInv, SinkEntry
  <2>2. IsText(text) /\ setup.color \in BOOLEAN
    BY SetupFacts, ProgramIsText DEF RecordPathInv, TypeOK
  <2> HIDE DEF text
  <2>3. Len(Compile(text)) = PieceCount(text)
    BY <2>2, CompileFills
  <2>4. Render(text, Compile(text), setup.color) = Meaning(text, setup.color)
    BY <2>2, CompileMeans
  <2> QED
    BY <2>1, <2>3, <2>4 DEF CompileExact
<1> QED
  BY RecordPathInductive, <1>1, PTL

\* What the channel's captures are, and what its own pieces show.
LEMMA ChannelCaptures ==
    ASSUME RecordPathInv
    PROVE  /\ "elapsed" \in channel.requirements <=> "*" \in Tokens(channel.pieces)
           /\ "wall_clock" \in channel.requirements <=> Tokens(channel.pieces) \cap WallClock # {}
           /\ capturesFile <=> "g" \in Tokens(channel.pieces)
<1>1. ValidPack(setup.options) /\ setup.color \in BOOLEAN
  BY SetupFacts DEF RecordPathInv, TypeOK
<1>2. /\ channel.pieces = Compile(Program(setup.options, setup.color))
      /\ channel.requirements = Requirements(CaptureText(setup.options))
      /\ capturesFile = UsesToken(CaptureText(setup.options), "g")
  BY DEF RecordPathInv, SinkEntry
<1> QED
  BY <1>1, <1>2, CapturesAgree

\* What a record captures is what the channel's own pieces show, for every pattern,
\* the default one in colour included (analyze_time_requirements, pattern_uses_token).
THEOREM ScansHold == Spec => []ScansAgree
<1>1. RecordPathInv => ScansAgree
  BY ChannelCaptures DEF ScansAgree
<1> QED
  BY RecordPathInductive, <1>1, PTL

\* No configuration depends on the order of its options (resolve_opt).
THEOREM OptionsHold == Spec => []OptionsOrderFree
<1>1. RecordPathInv => OptionsOrderFree
  BY SetupFacts, OrderIsFree DEF RecordPathInv, TypeOK, OptionsOrderFree
<1> QED
  BY RecordPathInductive, <1>1, PTL

\* A record that is read holds its message, whole or cut to leave room for the marker,
\* for every payload size and marker (write_record_slot, write_truncate_marker).
THEOREM MessagesExact == Spec => []MessageExact
<1>1. RecordPathInv => MessageExact
  <2> SUFFICES ASSUME RecordPathInv, NEW r \in Published
               PROVE  \/ r.message = [i \in 1 .. r.n |-> i]
                      \/ /\ r.n > capacity /\ Len(r.message) = capacity
                         /\ \A i \in 1 .. capacity :
                               r.message[i] =
                                  IF i <= capacity - MarkerSize THEN i
                                  ELSE -(i - IF capacity > MarkerSize THEN capacity - MarkerSize ELSE 0)
    BY DEF MessageExact
  <2>1. setup \in Setups /\ capacity \in Nat /\ DOMAIN lines = {"route", "custom"}
        /\ queue \in Seq(Records) /\ lines["route"] \in Seq(Lines)
    BY SetupFacts DEF RecordPathInv, TypeOK
  <2>2. Written(r) /\ r \in Records
    <3>1. CASE r \in {queue[k] : k \in 1 .. Len(queue)}
      BY <2>1, <3>1, SeqFacts DEF RecordPathInv
    <3>2. CASE r \in {lines["route"][k].record : k \in 1 .. Len(lines["route"])}
      <4>1. PICK k \in 1 .. Len(lines["route"]) : r = lines["route"][k].record
        BY <3>2
      <4>2. lines["route"][k] \in Lines
        BY <2>1, SeqFacts
      <4> QED
        BY <2>1, <4>1, <4>2 DEF RecordPathInv, Lines
    <3> QED
      BY <3>1, <3>2 DEF Published
  <2>3. r.n \in Nat
    BY <2>1, <2>2 DEF Records, Sizes
  <2>4. WriteRecordSlot(r.n).result # "dropped" /\ r.message = WriteRecordSlot(r.n).message
    BY <2>2 DEF Written
  <2>5. CASE r.n <= capacity
    BY <2>1, <2>3, <2>4, <2>5, SlotFacts
  <2>6. CASE r.n > capacity
    <3> DEFINE cut == [i \in 1 .. capacity |->
                          IF i <= capacity - MarkerSize THEN i
                          ELSE -(i - IF capacity > MarkerSize THEN capacity - MarkerSize ELSE 0)]
    <3>1. WriteRecordSlot(r.n).message = cut
      BY <2>1, <2>3, <2>4, <2>6, SlotFacts
    <3>2. Len(cut) = capacity
      BY <2>1
    <3> QED
      BY <2>4, <2>6, <3>1, <3>2
  <2> QED
    BY <2>1, <2>3, <2>5, <2>6
<1> QED
  BY RecordPathInductive, <1>1, PTL

\* the line of a record that was written, with the time its message was logged
LEMMA LineShowsTime ==
    ASSUME RecordPathInv, NEW s \in {"route", "custom"}, NEW k \in 1 .. Len(lines[s])
    PROVE  LET line == lines[s][k]
               record == line.record
               ago == record.timestamp - created - IF clockType = "system" THEN Offset ELSE 0
           IN  /\ record \in Records /\ Written(record)
               /\ ago \in Int
               /\ channel.requirements # {} => ago = record.at - created /\ ago >= 0
               /\ "elapsed" \in Needs => line.elapsed = FormatElapsed(ago)
               /\ "elapsed" \notin Needs => line.elapsed = FormatElapsed(0)
               /\ "wall_clock" \in Needs /\ channel.requirements # {} => line.wall = record.at + Offset
<1> DEFINE line == lines[s][k]
           record == line.record
           ago == record.timestamp - created - IF clockType = "system" THEN Offset ELSE 0
<1>1. lines \in [{"route", "custom"} -> Seq(Lines)] /\ setup \in Setups
  BY DEF RecordPathInv, TypeOK
<1>2. line \in Lines
  <2>1. lines[s] \in Seq(Lines)
    BY <1>1
  <2> QED
    BY <2>1, SeqFacts
<1>3. record \in Records
  BY <1>2 DEF Lines
<1>4. Written(record) /\ line = Line(record)
  BY <1>1 DEF RecordPathInv
<1>5. /\ Offset \in Nat /\ clockType \in {"steady", "system"} /\ created = 1
      /\ record.timestamp \in Nat /\ record.at \in Nat /\ record.at >= created
  BY <1>1, <1>3, <1>4, SetupFacts DEF Records, Written, created
<1>6. record.timestamp = Timestamped(record.at)
  BY <1>4 DEF Written
<1> HIDE DEF line, record
<1>7. ago \in Int
  BY <1>5
<1>8. channel.requirements # {} =>
          /\ record.timestamp = IF clockType = "system" THEN record.at + Offset ELSE record.at
          /\ ago = record.at - created /\ ago >= 0
  BY <1>5, <1>6 DEF Timestamped
<1>9. /\ "elapsed" \in Needs => line.elapsed = FormatElapsed(ago)
      /\ "elapsed" \notin Needs => line.elapsed = FormatElapsed(0)
  BY <1>4 DEF Line, TimeContext
<1>10. "wall_clock" \in Needs => line.wall = IF clockType = "system" THEN record.timestamp
                                             ELSE created + Offset + ago
  BY <1>4 DEF Line, TimeContext
<1>11. "wall_clock" \in Needs /\ channel.requirements # {} => line.wall = record.at + Offset
  <2> HIDE DEF ago
  <2> QED
    BY <1>5, <1>7, <1>8, <1>10
<1> QED
  BY <1>3, <1>4, <1>7, <1>8, <1>9, <1>11 DEF line, record

\* A line of the channel's own sink shows the time of the log call, whichever clock
\* is used and however long the record waited (resolve_runtime_time_context).
THEOREM TimesHold == Spec => []RouteShowsTime
<1>1. RecordPathInv => RouteShowsTime
  <2> SUFFICES ASSUME RecordPathInv, NEW k \in 1 .. Len(lines["route"])
               PROVE  /\ ShowsTime(lines["route"][k], channel)
                      /\ "g" \in Tokens(channel.pieces) => lines["route"][k].record.hasFile
    BY DEF RouteShowsTime
  <2> DEFINE line == lines["route"][k]
             record == line.record
             ago == record.timestamp - created - IF clockType = "system" THEN Offset ELSE 0
  <2>1. /\ record \in Records /\ Written(record) /\ ago \in Int
        /\ channel.requirements # {} => ago = record.at - created /\ ago >= 0
        /\ "elapsed" \in Needs => line.elapsed = FormatElapsed(ago)
        /\ "wall_clock" \in Needs /\ channel.requirements # {} => line.wall = record.at + Offset
    BY LineShowsTime
  <2>2. channel.requirements \subseteq Needs
    BY DEF Needs
  <2>3. "g" \in Tokens(channel.pieces) => record.hasFile
    BY <2>1, ChannelCaptures DEF Written
  <2> HIDE DEF ago, record, line
  <2>4. ReadElapsed(FormatElapsed(ago)) = IF ago < 0 THEN 0 ELSE ago
    BY <2>1, ElapsedExact
  <2>5. "*" \in Tokens(channel.pieces) => ReadElapsed(line.elapsed) = record.at - created
    <3>1. SUFFICES ASSUME "*" \in Tokens(channel.pieces)
                   PROVE  ReadElapsed(line.elapsed) = record.at - created
      OBVIOUS
    <3>2. "elapsed" \in channel.requirements
      BY <3>1, ChannelCaptures
    <3>3. line.elapsed = FormatElapsed(ago) /\ ago = record.at - created /\ ago >= 0
      BY <2>1, <2>2, <3>2
    <3> QED
      BY <2>1, <2>4, <3>3
  <2>6. Tokens(channel.pieces) \cap WallClock # {} => line.wall = record.at + Offset
    <3>1. SUFFICES ASSUME Tokens(channel.pieces) \cap WallClock # {}
                   PROVE  line.wall = record.at + Offset
      OBVIOUS
    <3>2. "wall_clock" \in channel.requirements
      BY <3>1, ChannelCaptures
    <3> QED
      BY <2>1, <2>2, <3>2
  <2> QED
    BY <2>3, <2>5, <2>6 DEF ShowsTime, record, line
<1> QED
  BY RecordPathInductive, <1>1, PTL

\* Every line of every sink shows its elapsed time with fields that fit their digits,
\* nothing that is not zero left out, also where the time is wrong (format_elapsed).
THEOREM ElapsedHolds == Spec => []ElapsedWellFormed
<1>1. RecordPathInv => ElapsedWellFormed
  <2> SUFFICES ASSUME RecordPathInv, NEW s \in {"route", "custom"}, NEW k \in 1 .. Len(lines[s])
               PROVE  WellFormed(lines[s][k].elapsed)
    BY DEF RecordPathInv, TypeOK, ElapsedWellFormed
  <2> DEFINE record == lines[s][k].record
             ago == record.timestamp - created - IF clockType = "system" THEN Offset ELSE 0
  <2>1. ago \in Int /\ lines[s][k].elapsed \in {FormatElapsed(ago), FormatElapsed(0)}
    BY LineShowsTime
  <2> HIDE DEF ago
  <2>2. WellFormed(FormatElapsed(ago)) /\ WellFormed(FormatElapsed(0))
    BY <2>1, ElapsedExact
  <2> QED
    BY <2>1, <2>2
<1> QED
  BY RecordPathInductive, <1>1, PTL
==============================================================================
