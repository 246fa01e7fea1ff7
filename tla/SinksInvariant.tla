---------------------------- MODULE SinksInvariant ----------------------------
(***************************************************************************)
(* The inductive invariant of Sinks: what the configured sinks hold, how   *)
(* far the record in hand and a flush have come, and what each custom sink *)
(* has been given so far.                                                  *)
(***************************************************************************)
EXTENDS Sinks

Parts == (1 .. MaxRecords) \X (1 .. LineSize)
Files == DOMAIN PathOf \cup {NullFile}
SinkType ==
    [conf : Confs, key : {TargetKey(c) : c \in Confs}, buffer : Seq(Parts), bad : BOOLEAN]

TypeOK ==
    /\ phase \in {"configuring", "running", "closing", "closed", "terminated"}
    /\ configuredSinks \in Seq(SinkType)
    /\ route \in [Names -> 0 .. Len(configuredSinks)]
    /\ channelConf \in [Names -> Confs \cup {NoConf}]
    /\ customSinks \in Seq(CustomSinks)
    /\ pc \in {"idle", "render", "write", "flush", "finalFlush"}
    /\ rec \in [id : 0 .. MaxRecords, name : Names \cup {"none"}, file : Files]
    /\ pos \in Nat /\ off \in 0 .. LineSize - 1
    /\ asked \in BOOLEAN
    /\ written \in [Confs -> Seq(Parts)]
    /\ got \in [CustomSinks -> Seq(Nat)] /\ synced \in [CustomSinks -> Nat]
    /\ records \in 0 .. MaxRecords
    /\ given \in [Confs -> SUBSET (1 .. records)]
    /\ refused \in [Confs -> SUBSET (1 .. MaxRecords)]

\* a record is on its way to its sinks, and its channel's sink has not got it yet
Emitting == pc \in {"render", "write"}
InHand == Emitting /\ pos = 1
Flushing == pc \in {"flush", "finalFlush"}

\* every channel writes to the one sink of its target
RouteInv ==
    /\ \A n \in Names : route[n] # 0 => channelConf[n] = configuredSinks[route[n]].conf
    /\ \A i \in DOMAIN configuredSinks : configuredSinks[i].key = TargetKey(configuredSinks[i].conf)
    /\ \A i, j \in DOMAIN configuredSinks :
          configuredSinks[i].conf = configuredSinks[j].conf => i = j

\* only streams hold anything back, and not once they have gone bad
StreamInv ==
    \A i \in DOMAIN configuredSinks :
        configuredSinks[i].bad \/ configuredSinks[i].conf.type \notin StreamTypes =>
            configuredSinks[i].buffer = <<>>

\* where the consumer can be
PlaceInv ==
    /\ pc = "idle" => pos = 0
    /\ ~Emitting => rec = NoRecord
    /\ Emitting =>
          /\ pos \in 1 .. Len(customSinks) + 1
          /\ rec.id = records /\ records > 0 /\ rec.name \in Names /\ route[rec.name] # 0
          /\ \A conf \in Confs : records \in given[conf] <=> conf = channelConf[rec.name]
    /\ Flushing => pos \in 1 .. Len(configuredSinks) + Len(customSinks) + 1
    /\ off > 0 => pc = "write" /\ pos = 1 /\ configuredSinks[route[rec.name]].conf.type = "fd"
    /\ phase \in {"configuring", "closed"} => pc = "idle"
    /\ phase = "closed" => configuredSinks = <<>>
    /\ phase = "configuring" =>
          /\ records = 0
          /\ \A i \in DOMAIN configuredSinks : configuredSinks[i].buffer = <<>>
          /\ \A conf \in Confs : written[conf] = <<>>
          /\ \A c \in CustomSinks : got[c] = <<>> /\ synced[c] = 0

\* what has left for a target, or will, is in order, and ends in the record in hand
\* as far as that has come
OrderInv ==
    /\ \A conf \in Confs : InOrder(written[conf]) /\ Ids(written[conf]) \subseteq given[conf]
    /\ \A i \in DOMAIN configuredSinks :
          /\ InOrder(Outgoing(i)) /\ Ids(Outgoing(i)) \subseteq given[configuredSinks[i].conf]
          /\ InHand /\ i = route[rec.name] =>
                IF off = 0 THEN rec.id \notin Ids(Outgoing(i))
                ELSE Outgoing(i) # <<>> /\ Outgoing(i)[Len(Outgoing(i))] = <<rec.id, off>>

\* nothing is lost that was not refused
KeptInv ==
    \A conf \in Confs : \A id \in given[conf] \ refused[conf], k \in 1 .. LineSize :
        Taken(conf, <<id, k>>) \/ (InHand /\ id = rec.id /\ k > off)

\* what a flush has behind it is empty, or was told
PassInv ==
    Flushing =>
        /\ \A i \in DOMAIN configuredSinks : i < pos => configuredSinks[i].buffer = <<>>
        /\ \A i \in DOMAIN customSinks :
              i + Len(configuredSinks) < pos => synced[customSinks[i]] = Len(got[customSinks[i]])

\* how often a custom sink was added, and how often the record in hand went to it
Places(c) == {i \in DOMAIN customSinks : customSinks[i] = c}
PlacesDone(c) == {i \in Places(c) : Emitting /\ i < pos - 1}
Rounds == IF Emitting THEN records - 1 ELSE records

\* what a custom sink was given until now
CustomInv ==
    /\ \A c \in CustomSinks : \A i \in 1 .. Len(got[c]) :
          phase # "closed" => got[c][i] = 1 + (i - 1) \div Cardinality(Places(c))
    /\ \A c \in CustomSinks :
          /\ phase # "closed" => Len(got[c]) = Cardinality(Places(c)) * Rounds + Cardinality(PlacesDone(c))
          /\ phase # "closed" /\ Places(c) = {} => synced[c] = 0

\* what is true of the sinks once they are closed stays so
ClosedInv ==
    phase = "closed" =>
        /\ \A conf \in Confs : \A id \in given[conf] \ refused[conf], k \in 1 .. LineSize :
              Contains(written[conf], <<id, k>>)
        /\ \A c \in CustomSinks : synced[c] = Len(got[c])

\* what the cache remembers is right
BaseInv ==
    /\ scratch.last \in Files /\ DOMAIN scratch.cache \subseteq DOMAIN PathOf
    /\ scratch.last # NullFile => scratch.base = AfterSlash(PathOf[scratch.last])
    /\ \A f \in DOMAIN scratch.cache : scratch.cache[f] = AfterSlash(PathOf[f])
    /\ pc = "write" => shown = IF rec.file = NullFile THEN <<>> ELSE AfterSlash(PathOf[rec.file])

\* The inductive invariant: every target's parts in order and kept, every custom sink
\* given each record once for each time it was added, and the cached names right.
SinksInv ==
    /\ TypeOK /\ RouteInv /\ StreamInv /\ PlaceInv /\ OrderInv /\ KeptInv
    /\ PassInv /\ CustomInv /\ ClosedInv /\ BaseInv
=============================================================================
