----------------------------- MODULE RecordPath -----------------------------
(***************************************************************************)
(* The way of one channel's records from the log call to the lines of its  *)
(* sinks: the level gate and produce_runtime_record (channel.hpp), the     *)
(* record slot (backend/record.hpp), the queue, and emit_runtime_slot      *)
(* (src/channel.cpp), which renders each record for the channel's own sink *)
(* and for the custom sink beside it.                                      *)
(*                                                                         *)
(* A message is its length; the bytes of a payload are the positions of    *)
(* the message they hold, those of the marker counted downwards from -1    *)
(* and 0 for what was never written.  Times are milliseconds and count     *)
(* from the steady clock's epoch.                                          *)
(***************************************************************************)
EXTENDS Config, Elapsed

CONSTANTS
    Setups,         \* [options, color, customOptions, capacity, clockType]: the channel's
                    \* options and color flag, those of the sink added beside it, the
                    \* payload bytes of a slot, and the clock
    Levels,         \* levels of calls and thresholds; Off is log_level::off
    Off,
    QueueSize,
    MarkerSize,     \* length of record_slot_truncate_marker
    Offset,         \* the system clock less the steady clock
    Steps,          \* times that may pass between two events
    MaxCalls,       \* bound: log calls in a run
    MaxTicks        \* bound: steps of the clock

ASSUME LevelsAssumption == Levels \subseteq Nat /\ Off \in Nat
ASSUME SizesAssumption ==
    /\ QueueSize \in Nat \ {0} /\ MarkerSize \in Nat \ {0}
    /\ Offset \in Nat \ {0} /\ Steps \subseteq Nat \ {0} /\ MaxCalls \in Nat /\ MaxTicks \in Nat
ASSUME SetupsAssumption ==
    \A s \in Setups :
        /\ ValidPack(s.options) /\ ValidPack(s.customOptions)
        /\ s.color \in BOOLEAN /\ s.capacity \in Nat /\ s.clockType \in {"steady", "system"}

VARIABLES
    setup,
    channel, custom,    \* the channel's sink and the custom sink: [text, pieces, color,
                        \* requirements]
    capturesFile,       \* whether the channel's records keep the file
    level,              \* the route's threshold
    now, ticks,         \* the steady clock, and its steps so far
    queue,              \* published records
    lines,              \* what each sink was asked to write, oldest first
    emitted, dropped, truncated,    \* the producer's counters
    calls, refused      \* log calls that passed the gate, and that threw (history)

configVars == <<setup, channel, custom, capturesFile>>
statsVars == <<emitted, dropped, truncated>>
vars == <<configVars, level, now, ticks, queue, lines, statsVars, calls, refused>>

capacity == setup.capacity
clockType == setup.clockType
overflow == OverflowType(setup.options)
created == 1    \* startup_steady_time

Sizes == 0 .. capacity + 1

Records ==
    [level : Levels, timestamp : Nat, hasFile : BOOLEAN, message : Seq(Int), at : Nat, n : Sizes]
Lines == [wall : Int, elapsed : ElapsedFields, record : Records]

TypeOK ==
    /\ setup \in Setups
    /\ overflow \in {Drop, Truncate} /\ clockType \in {"steady", "system"}
    /\ level \in Levels \cup {Off}
    /\ ticks \in 0 .. MaxTicks /\ now \in Nat /\ now >= created
    /\ queue \in Seq(Records) /\ lines \in [{"route", "custom"} -> Seq(Lines)]
    /\ Len(queue) <= QueueSize
    /\ \A k \in 1 .. Len(queue) : Len(queue[k].message) <= capacity
    /\ emitted \in Nat /\ dropped \in Nat /\ truncated \in Nat
    /\ calls \in 0 .. MaxCalls /\ refused \in 0 .. MaxCalls

\* the sink_entry made from a configuration (make_channel, add_sink)
SinkEntry(options, color) ==
    [text |-> Program(options, color), pieces |-> Compile(Program(options, color)), color |-> color,
     requirements |-> Requirements(CaptureText(options))]

Init ==
    /\ setup \in Setups
    /\ channel = SinkEntry(setup.options, setup.color)
    /\ custom = SinkEntry(setup.customOptions, FALSE)
    /\ capturesFile = UsesToken(CaptureText(setup.options), "g")
    /\ level \in Levels \cup {Off}
    /\ now = created /\ ticks = 0
    /\ queue = <<>> /\ lines = [s \in {"route", "custom"} |-> <<>>]
    /\ emitted = 0 /\ dropped = 0 /\ truncated = 0
    /\ calls = 0 /\ refused = 0

-----------------------------------------------------------------------------
(* The record slot *)

\* Mutant: the marker starts one byte late.
WithMarkerLate(payload, size) ==
    LET offset == IF size <= MarkerSize THEN 0 ELSE size - MarkerSize + 1
    IN  [i \in DOMAIN payload |->
            IF i > offset /\ i - offset <= MarkerSize THEN offset - i ELSE payload[i]]

\* write_truncate_marker over the first size bytes
WithMarker(payload, size) ==
    LET offset == IF size <= MarkerSize THEN 0 ELSE size - MarkerSize
    IN  [i \in DOMAIN payload |->
            IF i > offset /\ i <= size THEN offset - i ELSE payload[i]]

\* Mutant: payload_size is what the message would have needed.
WriteRecordSlotUnclamped(n) ==
    [result |-> IF n <= capacity THEN "written" ELSE "truncated",
     message |-> [i \in 1 .. n |-> IF i <= capacity THEN i ELSE 0]]

\* write_record_slot of a message of n bytes: what it returns, and message()
WriteRecordSlot(n) ==
    LET payload == [i \in 1 .. capacity |-> IF i <= n THEN i ELSE 0]   \* format_to_n
    IN  IF n <= capacity
        THEN [result |-> "written", message |-> SubSeq(payload, 1, n)]
        ELSE IF overflow = Drop
        THEN [result |-> "dropped", message |-> <<>>]
        ELSE [result |-> "truncated", message |-> WithMarker(payload, capacity)]

\* Mutant: the clock is read only for patterns that show the elapsed time.
TimestampElapsed == IF "elapsed" \in channel.requirements THEN now ELSE 0

\* the clock is read only if the channel's own pattern shows a time
Timestamp ==
    IF channel.requirements = {} THEN 0
    ELSE IF clockType = "system" THEN now + Offset ELSE now

\* the header and the message of a call that logs n bytes; at, n: history
Record(l, n) ==
    [level |-> l,
     timestamp |-> Timestamp,
     hasFile |-> capturesFile,
     message |-> WriteRecordSlot(n).message,
     at |-> now, n |-> n]

-----------------------------------------------------------------------------
(* log_message *)

\* level_enabled: the call passes the route's gate
Enabled(l) == level # Off /\ l # Off /\ l >= level

Count(cond) == IF cond THEN 1 ELSE 0

Call(l) ==
    /\ calls < MaxCalls
    /\ Enabled(l)
    /\ calls' = calls + 1

Log(l, n) ==
    /\ Call(l)
    /\ Len(queue) < QueueSize
    /\ WriteRecordSlot(n).result # "dropped"
    /\ queue' = Append(queue, Record(l, n))
    /\ emitted' = emitted + 1
    /\ truncated' = truncated + Count(WriteRecordSlot(n).result = "truncated")
    /\ UNCHANGED <<configVars, level, now, ticks, lines, dropped, refused>>

\* Mutant: a call that finds the queue full is not counted.
LogDroppedUncounted(l, n) ==
    /\ Call(l)
    /\ Len(queue) = QueueSize \/ WriteRecordSlot(n).result = "dropped"
    /\ dropped' = dropped + Count(Len(queue) < QueueSize)
    /\ UNCHANGED <<configVars, level, now, ticks, queue, lines, emitted, truncated, refused>>

\* the queue is full, or the message too long for a channel that drops
LogDropped(l, n) ==
    /\ Call(l)
    /\ Len(queue) = QueueSize \/ WriteRecordSlot(n).result = "dropped"
    /\ dropped' = dropped + 1
    /\ UNCHANGED <<configVars, level, now, ticks, queue, lines, emitted, truncated, refused>>

\* formatting an argument throws: the slot is destroyed, not published
LogThrows(l) ==
    /\ Call(l)
    /\ Len(queue) < QueueSize
    /\ refused' = refused + 1
    /\ UNCHANGED <<configVars, level, now, ticks, queue, lines, statsVars>>

-----------------------------------------------------------------------------
(* emit_runtime_slot *)

\* the requirements of both sinks decide what is computed
Needs == channel.requirements \cup custom.requirements

\* resolve_runtime_time_context; a time that is not needed stays 0, or empty
TimeContext(timestamp) ==
    LET elapsed == timestamp - created - IF clockType = "system" THEN Offset ELSE 0
    IN  [wall |-> IF "wall_clock" \notin Needs THEN 0
                  ELSE IF clockType = "system" THEN timestamp
                  ELSE created + Offset + elapsed,
         elapsed |-> IF "elapsed" \in Needs THEN FormatElapsed(elapsed) ELSE FormatElapsed(0)]

Line(record) ==
    [wall |-> TimeContext(record.timestamp).wall,
     elapsed |-> TimeContext(record.timestamp).elapsed,
     record |-> record]

Emit ==
    /\ queue # <<>>
    /\ queue' = Tail(queue)
    /\ lines' = [s \in DOMAIN lines |-> Append(lines[s], Line(Head(queue)))]
    /\ UNCHANGED <<configVars, level, now, ticks, statsVars, calls, refused>>

-----------------------------------------------------------------------------
SetLevel(l) ==
    /\ level' = l
    /\ UNCHANGED <<configVars, now, ticks, queue, lines, statsVars, calls, refused>>

Tick(step) ==
    /\ ticks < MaxTicks
    /\ now' = now + step /\ ticks' = ticks + 1
    /\ UNCHANGED <<configVars, level, queue, lines, statsVars, calls, refused>>

Next ==
    \/ \E l \in Levels, n \in Sizes : Log(l, n) \/ LogDropped(l, n)
    \/ \E l \in Levels : LogThrows(l)
    \/ Emit
    \/ \E l \in Levels \cup {Off} : SetLevel(l)
    \/ \E step \in Steps : Tick(step)

Spec == Init /\ [][Next]_vars

-----------------------------------------------------------------------------
(* Properties *)

\* The array compile_pattern fills is as long as the pieces it writes, and what the
\* pieces render is what the pattern's characters mean.  (The compiler's work does
\* not change: this and the next two are looked at only before the first call.)
CompileExact ==
    calls = 0 /\ ticks = 0 =>
        /\ Len(channel.pieces) = PieceCount(channel.text)
        /\ Render(channel.text, channel.pieces, channel.color) = Meaning(channel.text, channel.color)

\* The scans that decide what a record captures agree with the pieces that show it,
\* also where the captures are those of the plain default pattern and the pieces
\* those of the coloured one (config_pattern_program, default_pattern_type).
ScansAgree ==
    calls = 0 /\ ticks = 0 =>
        LET tokens == Tokens(channel.pieces) IN
        /\ "elapsed" \in channel.requirements <=> "*" \in tokens
        /\ "wall_clock" \in channel.requirements <=> tokens \cap WallClock # {}
        /\ capturesFile <=> "g" \in tokens

\* A configuration means the same in whatever order its options are written, and
\* with or without those that are the default (resolve_opt, resolve_pattern_opt).
OptionsOrderFree == calls = 0 /\ ticks = 0 => OrderFree(setup.options, setup.color)

Published == {queue[k] : k \in 1 .. Len(queue)}
                \cup {lines["route"][k].record : k \in 1 .. Len(lines["route"])}

\* A record that is read holds its own message, whole, or, if it was too long, as
\* much of it as leaves room for the marker: no byte that nobody wrote.
MessageExact ==
    \A r \in Published :
        \/ r.message = [i \in 1 .. r.n |-> i]
        \/ /\ r.n > capacity /\ Len(r.message) = capacity
           /\ \A i \in 1 .. capacity :
                 r.message[i] = IF i <= capacity - MarkerSize THEN i
                                ELSE -(i - IF capacity > MarkerSize THEN capacity - MarkerSize
                                           ELSE 0)

\* what the log call writes into a record, whenever it is read
Timestamped(t) ==
    IF channel.requirements = {} THEN 0 ELSE IF clockType = "system" THEN t + Offset ELSE t

\* A record is what the log call of its level, time and length wrote.
Written(r) ==
    /\ r.at >= created
    /\ r.timestamp = Timestamped(r.at)
    /\ r.hasFile = capturesFile
    /\ WriteRecordSlot(r.n).result # "dropped" /\ r.message = WriteRecordSlot(r.n).message

\* Every call that passes the gate is counted once, unless it throws, and every
\* record that was counted is in the queue or was given to every sink.
StatsAddUp ==
    /\ calls = emitted + dropped + refused
    /\ \A s \in DOMAIN lines : emitted = Len(queue) + Len(lines[s])
    /\ truncated = Cardinality({k \in 1 .. Len(queue) : queue[k].n > capacity})
                     + Cardinality({k \in 1 .. Len(lines["route"]) :
                                       lines["route"][k].record.n > capacity})

\* The inductive invariant: what is queued is as it was written, what a sink was given
\* is the line of such a record, the counters add up, and nothing was reconfigured.
RecordPathInv ==
    /\ TypeOK
    /\ channel = SinkEntry(setup.options, setup.color)
    /\ custom = SinkEntry(setup.customOptions, FALSE)
    /\ capturesFile = UsesToken(CaptureText(setup.options), "g")
    /\ \A k \in 1 .. Len(queue) : Written(queue[k])
    /\ \A s \in DOMAIN lines : \A k \in 1 .. Len(lines[s]) :
          Written(lines[s][k].record) /\ lines[s][k] = Line(lines[s][k].record)
    /\ StatsAddUp

\* line l of a sink shows when its record was logged
ShowsTime(l, sink) ==
    /\ "*" \in Tokens(sink.pieces) => ReadElapsed(l.elapsed) = l.record.at - created
    /\ Tokens(sink.pieces) \cap WallClock # {} => l.wall = l.record.at + Offset

\* The channel's own sink shows the time of the log call, whichever clock is used
\* and however long the record waited, and the file it came from.
RouteShowsTime ==
    \A k \in 1 .. Len(lines["route"]) :
        /\ ShowsTime(lines["route"][k], channel)
        /\ "g" \in Tokens(channel.pieces) => lines["route"][k].record.hasFile

\* The elapsed time of every line is shown with fields that fit their digits and
\* with no field left out that is not zero (format_elapsed).
ElapsedWellFormed ==
    \A s \in DOMAIN lines : \A k \in 1 .. Len(lines[s]) : WellFormed(lines[s][k].elapsed)

\* "Elapsed-time anchors are per-state so %* measures from runtime creation"
\* (runtime_state): so it should in a custom sink.
ElapsedFromCreation ==
    \A k \in 1 .. Len(lines["custom"]) : ShowsTime(lines["custom"][k], custom)
=============================================================================
