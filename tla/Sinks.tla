-------------------------------- MODULE Sinks --------------------------------
(***************************************************************************)
(* Where records end: the sinks of channel.cpp and backend/sinks.hpp.      *)
(* Channels with the same target share one configured sink, every record   *)
(* goes to its channel's sink and then to every custom sink, and a sink    *)
(* hands its lines to the operating system, which may take them late, in   *)
(* part, or not at all.                                                    *)
(*                                                                         *)
(* Which record comes next, and when, is Handoff's matter: here the        *)
(* consumer may take a record of any channel.  Calls that throw and change *)
(* nothing (a name that is taken, a target that cannot be opened, a        *)
(* configuration call once the runtime has started) are left out.          *)
(***************************************************************************)
EXTENDS Naturals, Sequences, FiniteSets, SequencesExt

CONSTANTS
    Names,          \* channel names
    Confs,          \* targets a channel can name: [type, target]
    CustomSinks,    \* sinks of the user's own
    SourceOf,       \* for each channel, the file the first record is logged from if it is
                    \* the channel's, then the second, ...: pointers to literals
    NullFile,       \* the null pointer: the channel's records do not keep the file
    PathOf,         \* the text each pointer points to, as a sequence
    LineSize,       \* parts that a line can be cut into
    MaxCustom,      \* bound on custom sinks
    MaxRecords      \* bound on records

StreamTypes == {"cout", "cerr", "file"}

\* Each element of Confs is a file or device of its own.  The code knows a target by
\* its spelling, so "a.log" and "./a.log", or cout and file descriptor 1, would be two
\* elements for one target: such configurations are outside this model.
ASSUME ConfsAssumption ==
    \A c \in Confs : /\ c = [type |-> c.type, target |-> c.target]
                     /\ c.type \in StreamTypes \cup {"fd", "unix_dgram"}
ASSUME FilesAssumption ==
    /\ NullFile \notin DOMAIN PathOf
    /\ \A f \in DOMAIN PathOf : PathOf[f] \in Seq(STRING)
    /\ \A n \in Names, k \in 1 .. MaxRecords : SourceOf[n][k] \in DOMAIN PathOf \cup {NullFile}
ASSUME SizesAssumption == LineSize \in Nat \ {0} /\ MaxCustom \in Nat /\ MaxRecords \in Nat

VARIABLES
    \* the runtime state's sinks
    phase,              \* "configuring", "running", "closing", "closed" or "terminated"
    configuredSinks,    \* [conf, key, buffer, bad]: a stream's buffer and error state
    route,              \* each channel's configured sink, 0 if there is no such channel
    channelConf,        \* what each channel asked for
    customSinks,        \* in the order they were added
    \* the consumer
    pc, rec, pos, off,  \* record in hand, sink it has come to, bytes written of it
    scratch,            \* basename cache: [last, base, cache]
    shown,              \* base name the last rendering showed
    \* a thread that flushes
    asked,
    \* outside
    written,            \* what has left the process for each target
    got, synced,        \* records each custom sink was given, and those it was told to flush
    \* history
    records,            \* records taken so far
    given,              \* records meant for each target
    refused             \* of these, the ones the operating system did not take in full

runtimeVars == <<phase, configuredSinks, route, channelConf, customSinks>>
consumerVars == <<pc, rec, pos, off, scratch, shown>>
customVars == <<got, synced>>
historyVars == <<records, given, refused>>
vars == <<runtimeVars, consumerVars, asked, written, customVars, historyVars>>

NoConf == [type |-> "none", target |-> "none"]
NoRecord == [id |-> 0, name |-> "none", file |-> NullFile]
EmptyScratch == [last |-> NullFile, base |-> <<>>, cache |-> <<>>]

Line(id) == [i \in 1 .. LineSize |-> <<id, i>>]

NoSinks ==
    /\ configuredSinks = <<>>
    /\ route = [n \in Names |-> 0]
    /\ channelConf = [n \in Names |-> NoConf]
    /\ customSinks = <<>>

ConsumerStart ==
    /\ pc = "idle" /\ rec = NoRecord /\ pos = 0 /\ off = 0
    /\ scratch = EmptyScratch /\ shown = <<>>

Init ==
    /\ phase = "configuring"
    /\ NoSinks /\ ConsumerStart
    /\ asked = FALSE
    /\ written = [c \in Confs |-> <<>>]
    /\ got = [c \in CustomSinks |-> <<>>]
    /\ synced = [c \in CustomSinks |-> 0]
    /\ records = 0
    /\ given = [c \in Confs |-> {}]
    /\ refused = [c \in Confs |-> {}]
-----------------------------------------------------------------------------
(* Configuring *)

\* sink_target_key: type|target
TargetKey(conf) == <<conf.type, conf.target>>

\* Mutant: sinks are looked up in vain.
ConfiguredSinkForNew(conf) == Len(configuredSinks) + 1

\* configured_sink_for_locked: the index of the sink with this key, the next free
\* one if there is none
ConfiguredSinkFor(conf) ==
    LET same == {i \in DOMAIN configuredSinks : configuredSinks[i].key = TargetKey(conf)}
    IN  IF same = {} THEN Len(configuredSinks) + 1 ELSE CHOOSE i \in same : TRUE

\* make_channel_route_locked; a file is opened for appending, what it holds stays
MakeChannel(n, conf) ==
    /\ phase = "configuring"
    /\ route[n] = 0
    /\ LET i == ConfiguredSinkFor(conf) IN
           /\ route' = [route EXCEPT ![n] = i]
           /\ channelConf' = [channelConf EXCEPT ![n] = conf]
           /\ IF i > Len(configuredSinks)
              THEN configuredSinks' = Append(configuredSinks,
                       [conf |-> conf, key |-> TargetKey(conf), buffer |-> <<>>, bad |-> FALSE])
              ELSE UNCHANGED configuredSinks
    /\ UNCHANGED <<phase, customSinks, consumerVars, asked, written, customVars,
                   historyVars>>

\* add_sink_route: a sink that is added twice is written to twice
AddSink(c) ==
    /\ phase = "configuring"
    /\ Len(customSinks) < MaxCustom
    /\ customSinks' = Append(customSinks, c)
    /\ UNCHANGED <<phase, configuredSinks, route, channelConf, consumerVars, asked,
                   written, customVars, historyVars>>

\* start_backend
Start ==
    /\ phase = "configuring"
    /\ \E n \in Names : route[n] # 0
    /\ phase' = "running"
    /\ UNCHANGED <<configuredSinks, route, channelConf, customSinks, consumerVars,
                   asked, written, customVars, historyVars>>
-----------------------------------------------------------------------------
(* A record is emitted *)

\* emit_runtime_slot: the consumer takes a record of a channel
Take(n) ==
    /\ phase \in {"running", "closing"}
    /\ pc = "idle"
    /\ route[n] # 0
    /\ records < MaxRecords
    /\ records' = records + 1
    /\ rec' = [id |-> records + 1, name |-> n, file |-> SourceOf[n][records + 1]]
    /\ given' = [given EXCEPT ![channelConf[n]] = @ \cup {records + 1}]
    /\ pc' = "render" /\ pos' = 1
    /\ UNCHANGED <<runtimeVars, off, scratch, shown, asked, written, customVars, refused>>

\* what follows the last '/'
AfterSlash(path) ==
    LET slashes == {i \in DOMAIN path : path[i] = "/"}
    IN  IF slashes = {} THEN path
        ELSE SubSeq(path, (CHOOSE i \in slashes : \A j \in slashes : j <= i) + 1, Len(path))

Known == DOMAIN scratch.cache
Remember(f, base) == [g \in Known \cup {f} |-> IF g = f THEN base ELSE scratch.cache[g]]

\* Mutant: the memo is given the name before its directories are taken off.
CachedBasenameWhole(f) ==
    CASE f = NullFile -> [base |-> <<>>, scratch |-> scratch]
      [] f # NullFile /\ f = scratch.last -> [base |-> scratch.base, scratch |-> scratch]
      [] f \notin Known \cup {NullFile, scratch.last} ->
            LET base == AfterSlash(PathOf[f])
            IN  [base |-> base,
                 scratch |-> [last |-> f, base |-> PathOf[f], cache |-> Remember(f, base)]]
      [] OTHER ->
            [base |-> scratch.cache[f],
             scratch |-> [scratch EXCEPT !.last = f, !.base = scratch.cache[f]]]

\* cached_source_basename: the memo of the last name, then the cache
CachedBasename(f) ==
    CASE f = NullFile -> [base |-> <<>>, scratch |-> scratch]
      [] f # NullFile /\ f = scratch.last -> [base |-> scratch.base, scratch |-> scratch]
      [] OTHER ->
            LET base == IF f \in Known THEN scratch.cache[f] ELSE AfterSlash(PathOf[f])
            IN  [base |-> base,
                 scratch |-> [last |-> f, base |-> base, cache |-> Remember(f, base)]]

\* render_pattern for the sink the record has come to
Render ==
    /\ pc = "render"
    /\ LET b == CachedBasename(rec.file) IN shown' = b.base /\ scratch' = b.scratch
    /\ pc' = "write"
    /\ UNCHANGED <<runtimeVars, rec, pos, off, asked, written, customVars, historyVars>>

\* Mutant: the custom sinks beyond the first are forgotten.
PastSinkOne ==
    IF pos < 2 /\ customSinks # <<>>
    THEN pc' = "render" /\ pos' = pos + 1 /\ UNCHANGED <<rec, shown>>
    ELSE pc' = "idle" /\ pos' = 0 /\ rec' = NoRecord /\ shown' = <<>>

\* emit_runtime_slot_for: the route's sink comes first, then each custom sink
PastSink ==
    IF pos <= Len(customSinks)
    THEN pc' = "render" /\ pos' = pos + 1 /\ UNCHANGED <<rec, shown>>
    ELSE pc' = "idle" /\ pos' = 0 /\ rec' = NoRecord /\ shown' = <<>>

\* the configured sink in hand
Here == route[rec.name]
Sink == configuredSinks[Here]
Writing(types) == pc = "write" /\ pos = 1 /\ Sink.conf.type \in types

Emit(conf, parts) == written' = [written EXCEPT ![conf] = @ \o parts]
Refuse(conf, ids) == refused' = [refused EXCEPT ![conf] = @ \cup ids]
Ids(parts) == {parts[i][1] : i \in DOMAIN parts}

\* A stream is given parts, or is flushed: it passes on what it holds up to some
\* point, at least the first n parts, and keeps the rest.  If the operating system
\* refuses, the stream goes bad and what it holds is lost; a bad stream takes nothing.
StreamPut(i, parts, n) ==
    LET s == configuredSinks[i]
        all == s.buffer \o parts
    IN  \/ /\ ~s.bad
           /\ \E k \in n .. Len(all) :
                /\ Emit(s.conf, SubSeq(all, 1, k))
                /\ configuredSinks' = [configuredSinks EXCEPT ![i].buffer = SubSeq(all, k + 1, Len(all))]
           /\ UNCHANGED refused
        \/ /\ ~s.bad
           /\ \E k \in 0 .. Len(all) - 1 :
                /\ Emit(s.conf, SubSeq(all, 1, k))
                /\ Refuse(s.conf, Ids(SubSeq(all, k + 1, Len(all))))
           /\ configuredSinks' = [configuredSinks EXCEPT ![i].buffer = <<>>, ![i].bad = TRUE]
        \/ /\ s.bad
           /\ Refuse(s.conf, Ids(parts))
           /\ UNCHANGED <<written, configuredSinks>>

\* ostream_sink::write, file_sink::write
WriteStream ==
    /\ Writing(StreamTypes)
    /\ StreamPut(Here, Line(rec.id), 0)
    /\ PastSink
    /\ UNCHANGED <<phase, route, channelConf, customSinks, off, scratch, asked,
                   customVars, records, given>>

\* fd_sink::write, a call of write(2): some of the rest, or EINTR and it is tried
\* again, or any other error and the rest of the line is given up
WriteFd ==
    /\ Writing({"fd"})
    /\ \/ \E n \in 1 .. LineSize - off :
            /\ Emit(Sink.conf, SubSeq(Line(rec.id), off + 1, off + n))
            /\ IF off + n = LineSize THEN off' = 0 /\ PastSink
               ELSE off' = off + n /\ UNCHANGED <<pc, rec, pos, shown>>
            /\ UNCHANGED refused
       \/ UNCHANGED <<written, off, pc, rec, pos, shown, refused>>
       \/ /\ Refuse(Sink.conf, {rec.id})
          /\ off' = 0 /\ PastSink
          /\ UNCHANGED written
    /\ UNCHANGED <<runtimeVars, scratch, asked, customVars, records, given>>

\* unix_dgram_sink::write: the line goes as one datagram, or is lost
WriteDgram ==
    /\ Writing({"unix_dgram"})
    /\ \/ Emit(Sink.conf, Line(rec.id)) /\ UNCHANGED refused
       \/ Refuse(Sink.conf, {rec.id}) /\ UNCHANGED written
    /\ PastSink
    /\ UNCHANGED <<runtimeVars, off, scratch, asked, customVars, records, given>>

\* a custom sink is given the line
WriteCustom ==
    /\ pc = "write" /\ pos > 1
    /\ LET c == customSinks[pos - 1] IN got' = [got EXCEPT ![c] = Append(@, rec.id)]
    /\ PastSink
    /\ UNCHANGED <<runtimeVars, off, scratch, asked, written, synced, historyVars>>

\* Mutant: flush does not ask who is calling, and the consumer waits for itself.
FlushWithinWaits ==
    /\ pc = "write" /\ pos > 1
    /\ pc' = "waiting"
    /\ UNCHANGED <<runtimeVars, rec, pos, off, scratch, shown, asked, written, customVars, historyVars>>

\* A custom sink calls flush: the thread is the consumer, so flush throws.  The sink
\* lets the exception go, which terminates the process, or takes the line all the same.
FlushWithin ==
    \/ WriteCustom
    \/ /\ pc = "write" /\ pos > 1
       /\ phase' = "terminated"
       /\ UNCHANGED <<configuredSinks, route, channelConf, customSinks, consumerVars,
                      asked, written, customVars, historyVars>>

\* a custom sink throws from write or flush: std::terminate
CustomThrows ==
    /\ phase \in {"running", "closing"}
    /\ \/ pc = "write" /\ pos > 1
       \/ pc \in {"flush", "finalFlush"} /\ pos > Len(configuredSinks)
    /\ phase' = "terminated"
    /\ UNCHANGED <<configuredSinks, route, channelConf, customSinks, consumerVars,
                   asked, written, customVars, historyVars>>
-----------------------------------------------------------------------------
(* A flush, and the end *)

\* a thread asks for a flush and waits
Ask ==
    /\ phase = "running"
    /\ ~asked
    /\ asked' = TRUE
    /\ UNCHANGED <<runtimeVars, consumerVars, written, customVars, historyVars>>

\* the consumer has drained the queues for it
BeginFlush ==
    /\ phase \in {"running", "closing"}
    /\ pc = "idle" /\ asked
    /\ pc' = "flush" /\ pos' = 1
    /\ UNCHANGED <<runtimeVars, rec, off, scratch, shown, asked, written, customVars, historyVars>>

\* flush_runtime_sinks, first loop; fd and datagram sinks hold nothing
FlushStream ==
    /\ pc \in {"flush", "finalFlush"} /\ pos <= Len(configuredSinks)
    /\ StreamPut(pos, <<>>, Len(configuredSinks[pos].buffer))
    /\ pos' = pos + 1
    /\ UNCHANGED <<phase, route, channelConf, customSinks, pc, rec, off, scratch, shown,
                   asked, customVars, records, given>>

\* second loop: the custom sinks
FlushCustom ==
    LET i == pos - Len(configuredSinks) IN
    /\ pc \in {"flush", "finalFlush"} /\ i > 0 /\ i <= Len(customSinks)
    /\ synced' = [synced EXCEPT ![customSinks[i]] = Len(got[customSinks[i]])]
    /\ pos' = pos + 1
    /\ UNCHANGED <<runtimeVars, pc, rec, off, scratch, shown, asked, written, got, historyVars>>

\* Mutant: only the configured sinks are flushed.
ConfiguredFlushed == pos > Len(configuredSinks)

AllFlushed == pos > Len(configuredSinks) + Len(customSinks)

\* the flush is complete and its caller returns
Answer ==
    /\ pc = "flush" /\ AllFlushed
    /\ asked' = FALSE
    /\ pc' = "idle" /\ pos' = 0
    /\ UNCHANGED <<runtimeVars, rec, off, scratch, shown, written, customVars, historyVars>>

\* destroy_runtime, before the consumer is told to stop
BeginDestroy ==
    /\ phase = "running"
    /\ phase' = "closing"
    /\ UNCHANGED <<configuredSinks, route, channelConf, customSinks, consumerVars,
                   asked, written, customVars, historyVars>>

\* no flush is under way, the queues are drained: the sinks are flushed a last time
BeginFinalFlush ==
    /\ phase = "closing"
    /\ pc = "idle" /\ ~asked
    /\ pc' = "finalFlush" /\ pos' = 1
    /\ UNCHANGED <<runtimeVars, rec, off, scratch, shown, asked, written, customVars, historyVars>>

\* shutdown_runtime_state: the sinks are closed
Close ==
    /\ \/ phase = "closing" /\ pc = "finalFlush" /\ AllFlushed
       \/ phase = "configuring"
    /\ phase' = "closed"
    /\ pc' = "idle" /\ pos' = 0
    /\ configuredSinks' = <<>> /\ customSinks' = <<>>
    /\ route' = [n \in Names |-> 0]
    /\ channelConf' = [n \in Names |-> NoConf]
    /\ UNCHANGED <<rec, off, scratch, shown, asked, written, customVars, historyVars>>
-----------------------------------------------------------------------------
Consumer ==
    /\ phase \in {"running", "closing"}
    /\ \/ Render \/ WriteStream \/ WriteFd \/ WriteDgram \/ WriteCustom
       \/ BeginFlush \/ FlushStream \/ FlushCustom \/ Answer \/ BeginFinalFlush
       \/ FlushWithin

Next ==
    \/ \E n \in Names, conf \in Confs : MakeChannel(n, conf)
    \/ \E c \in CustomSinks : AddSink(c)
    \/ Start
    \/ \E n \in Names : Take(n)
    \/ Consumer
    \/ CustomThrows
    \/ Ask \/ BeginDestroy \/ Close

Spec == Init /\ [][Next]_vars

\* The consumer runs, and the operating system does not interrupt a write, or take
\* nothing of it, for ever.
LiveSpec == Spec /\ WF_vars(Consumer)
-----------------------------------------------------------------------------
(* Properties *)

\* one part right after another: of the same line, or the first of a later one
Follows(a, b) ==
    \/ b[1] = a[1] /\ b[2] = a[2] + 1
    \/ b[1] > a[1] /\ b[2] = 1

\* the beginnings of some lines, one line after the other
InOrder(parts) ==
    /\ parts # <<>> => parts[1][2] = 1
    /\ \A j \in 1 .. Len(parts) - 1 : Follows(parts[j], parts[j + 1])

\* what a target has, and will have once configured sink i passes on what it holds
Outgoing(i) == written[configuredSinks[i].conf] \o configuredSinks[i].buffer

\* a part has left the process, or a sink of its target holds it
Taken(conf, part) ==
    \/ Contains(written[conf], part)
    \/ \E i \in DOMAIN configuredSinks :
          configuredSinks[i].conf = conf /\ Contains(configuredSinks[i].buffer, part)

\* A target receives the lines of its own channels and no others, in order and
\* unmixed (configured_sink_for_locked, emit_runtime_slot_for, the write functions):
\* all but the record in hand are there from end to end, unless the operating
\* system refused, and then what is there of a line is its beginning.  Channels of
\* one target must share one sink for this (tests/011.cpp "channels emit only to their configured sinks").
TargetIntact ==
    \A conf \in Confs :
        /\ \A parts \in {written[conf]} \cup
                {Outgoing(i) : i \in {k \in DOMAIN configuredSinks : configuredSinks[k].conf = conf}} :
              InOrder(parts) /\ Ids(parts) \subseteq given[conf]
        /\ \A id \in given[conf] \ (refused[conf] \cup {rec.id}), k \in 1 .. LineSize :
              Taken(conf, <<id, k>>)

\* When a flush is answered, and when the sinks are closed, every line has left the
\* process that the operating system did not refuse, whatever became of the other
\* sinks, and every custom sink was told to flush after its last record
\* (flush_runtime_sinks).
FlushReachesAll ==
    (pc \in {"flush", "finalFlush"} /\ AllFlushed) \/ phase = "closed" =>
        /\ \A conf \in Confs : \A id \in given[conf] \ refused[conf] :
              \A i \in 1 .. LineSize : Contains(written[conf], <<id, i>>)
        /\ \A c \in CustomSinks : synced[c] = Len(got[c])

\* A custom sink sees the records of every channel, in the order the consumer takes
\* them, each as often as it was added (emit_runtime_slot_for).
CustomSeesAll ==
    pc = "idle" /\ phase \in {"running", "closing"} =>
        \A c \in CustomSinks :
            LET times == Cardinality({i \in DOMAIN customSinks : customSinks[i] = c})
            IN  got[c] = [i \in 1 .. times * records |-> 1 + (i - 1) \div times]

\* The base name shown is that of the record at hand, whatever files came before
\* (cached_source_basename's memo and map): the part of its path after the last '/'.
BasenameFresh ==
    pc = "write" =>
        IF rec.file = NullFile THEN shown = <<>>
        ELSE LET path == PathOf[rec.file]
                 dir == Len(path) - Len(shown)
             IN  /\ IsSuffix(shown, path)
                 /\ ~Contains(shown, "/")
                 /\ dir > 0 => path[dir] = "/"

\* A flush returns, or the process ends: the consumer never waits for itself, though
\* a custom sink may call flush on it (flush_backend's identity check).
FlushAnswered == asked ~> ~asked \/ phase = "terminated"
=============================================================================
