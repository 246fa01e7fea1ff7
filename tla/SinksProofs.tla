------------------------------ MODULE SinksProofs ------------------------------
(***************************************************************************)
(* What the sinks are given and pass on, for any channels, targets, custom *)
(* sinks, line sizes and numbers of records: the invariant of              *)
(* SinksInvariant is inductive, and Sinks' safety properties follow.       *)
(***************************************************************************)
EXTENDS SinksInvariant, SequenceTheorems, FiniteSetTheorems, WellFoundedInduction, TLAPS

-----------------------------------------------------------------------------
(* Sequences of parts *)

\* Joining two sequences, element by element.
LEMMA Joined ==
    ASSUME NEW S, NEW s \in Seq(S), NEW t \in Seq(S)
    PROVE  /\ Len(s) \in Nat /\ Len(t) \in Nat
           /\ s \o t \in Seq(S) /\ Len(s \o t) = Len(s) + Len(t)
           /\ \A j \in 1 .. Len(s) : (s \o t)[j] = s[j] /\ s[j] \in S
           /\ \A j \in 1 .. Len(t) : (s \o t)[Len(s) + j] = t[j] /\ t[j] \in S
<1>1. Len(s) \in Nat /\ Len(t) \in Nat
  BY LenProperties
<1>2. /\ \A j \in 1 .. Len(s) : s[j] \in S
      /\ \A j \in 1 .. Len(t) : t[j] \in S
  BY ElementOfSeq
<1>3. /\ s \o t \in Seq(S) /\ Len(s \o t) = Len(s) + Len(t)
      /\ \A j \in 1 .. Len(s) + Len(t) : (s \o t)[j] = IF j <= Len(s) THEN s[j] ELSE t[j - Len(s)]
  BY ConcatProperties
<1>4. \A j \in 1 .. Len(s) : (s \o t)[j] = s[j]
  BY <1>1, <1>3
<1>5. \A j \in 1 .. Len(t) : (s \o t)[Len(s) + j] = t[j]
  <2> TAKE j \in 1 .. Len(t)
  <2>1. Len(s) + j \in 1 .. Len(s) + Len(t) /\ ~ (Len(s) + j <= Len(s)) /\ Len(s) + j - Len(s) = j
    BY <1>1
  <2> QED
    BY <1>3, <2>1
<1> QED
  BY <1>1, <1>2, <1>3, <1>4, <1>5

LEMMA ContainsJoined ==
    ASSUME NEW S, NEW s \in Seq(S), NEW t \in Seq(S), NEW e
    PROVE  Contains(s \o t, e) <=> Contains(s, e) \/ Contains(t, e)
<1>1. ASSUME Contains(s \o t, e) PROVE Contains(s, e) \/ Contains(t, e)
  <2>1. PICK j \in 1 .. Len(s \o t) : (s \o t)[j] = e
    BY <1>1 DEF Contains
  <2>2. CASE j \in 1 .. Len(s)
    BY <2>1, <2>2, Joined DEF Contains
  <2>3. CASE j \notin 1 .. Len(s)
    <3>1. j - Len(s) \in 1 .. Len(t) /\ Len(s) + (j - Len(s)) = j
      BY <2>1, <2>3, Joined
    <3>2. t[j - Len(s)] = e
      BY <2>1, <3>1, Joined
    <3> QED
      BY <3>1, <3>2 DEF Contains
  <2> QED
    BY <2>2, <2>3
<1>2. ASSUME Contains(s, e) PROVE Contains(s \o t, e)
  <2>1. PICK j \in 1 .. Len(s) : s[j] = e
    BY <1>2 DEF Contains
  <2>2. j \in 1 .. Len(s \o t) /\ (s \o t)[j] = e
    BY <2>1, Joined
  <2> QED
    BY <2>2 DEF Contains
<1>3. ASSUME Contains(t, e) PROVE Contains(s \o t, e)
  <2>1. PICK j \in 1 .. Len(t) : t[j] = e
    BY <1>3 DEF Contains
  <2>2. Len(s) + j \in 1 .. Len(s \o t) /\ (s \o t)[Len(s) + j] = e
    BY <2>1, Joined
  <2> QED
    BY <2>2 DEF Contains
<1> QED
  BY <1>1, <1>2, <1>3

LEMMA IdsJoined ==
    ASSUME NEW S, NEW s \in Seq(S), NEW t \in Seq(S)
    PROVE  Ids(s \o t) = Ids(s) \cup Ids(t)
<1>1. /\ DOMAIN s = 1 .. Len(s) /\ DOMAIN t = 1 .. Len(t)
      /\ DOMAIN (s \o t) = 1 .. Len(s) + Len(t)
  BY Joined, LenProperties
<1>2. ASSUME NEW id \in Ids(s \o t) PROVE id \in Ids(s) \cup Ids(t)
  <2>1. PICK j \in 1 .. Len(s) + Len(t) : id = (s \o t)[j][1]
    BY <1>1 DEF Ids
  <2>2. CASE j \in 1 .. Len(s)
    BY <1>1, <2>1, <2>2, Joined DEF Ids
  <2>3. CASE j \notin 1 .. Len(s)
    <3>1. j - Len(s) \in 1 .. Len(t) /\ Len(s) + (j - Len(s)) = j
      BY <2>1, <2>3, Joined
    <3>2. t[j - Len(s)] = (s \o t)[j]
      BY <3>1, Joined
    <3> QED
      BY <1>1, <2>1, <3>1, <3>2 DEF Ids
  <2> QED
    BY <2>2, <2>3
<1>3. ASSUME NEW id \in Ids(s) PROVE id \in Ids(s \o t)
  <2>1. PICK j \in 1 .. Len(s) : id = s[j][1]
    BY <1>1 DEF Ids
  <2>2. j \in 1 .. Len(s) + Len(t) /\ (s \o t)[j] = s[j]
    BY <2>1, Joined
  <2> QED
    BY <1>1, <2>1, <2>2 DEF Ids
<1>4. ASSUME NEW id \in Ids(t) PROVE id \in Ids(s \o t)
  <2>1. PICK j \in 1 .. Len(t) : id = t[j][1]
    BY <1>1 DEF Ids
  <2>2. Len(s) + j \in 1 .. Len(s) + Len(t) /\ (s \o t)[Len(s) + j] = t[j]
    BY <2>1, Joined
  <2> QED
    BY <1>1, <2>1, <2>2 DEF Ids
<1> QED
  BY <1>2, <1>3, <1>4

\* Wherever a sequence is cut, its two pieces are the sequence again.
LEMMA Cut ==
    ASSUME NEW S, NEW s \in Seq(S), NEW k \in 0 .. Len(s)
    PROVE  /\ SubSeq(s, 1, k) \in Seq(S) /\ SubSeq(s, k + 1, Len(s)) \in Seq(S)
           /\ SubSeq(s, 1, k) \o SubSeq(s, k + 1, Len(s)) = s
           /\ k = Len(s) => SubSeq(s, k + 1, Len(s)) = <<>>
<1>1. Len(s) \in Nat /\ \A j \in 1 .. Len(s) : s[j] \in S
  BY LenProperties, ElementOfSeq
<1>2. \A j \in 1 .. k : s[j] \in S
  BY <1>1
<1>3. \A j \in k + 1 .. Len(s) : s[j] \in S
  BY <1>1
<1>4. 1 \in Int /\ k \in Int /\ k + 1 \in Int /\ Len(s) \in Int
  BY <1>1
<1>5. SubSeq(s, 1, k) \in Seq(S)
  BY <1>2, <1>4, SubSeqProperties
<1>6. SubSeq(s, k + 1, Len(s)) \in Seq(S)
  BY <1>3, <1>4, SubSeqProperties
<1>7. SubSeq(s, 1, k) \o SubSeq(s, k + 1, Len(s)) = s
  <2>1. 1 \in 1 .. Len(s) + 1 /\ k \in 1 - 1 .. Len(s) /\ Len(s) \in k .. Len(s)
    BY <1>1
  <2>2. SubSeq(s, 1, k) \o SubSeq(s, k + 1, Len(s)) = SubSeq(s, 1, Len(s))
    BY <2>1, ConcatAdjacentSubSeq
  <2> QED
    BY <2>2, SubSeqFull
<1>8. k = Len(s) => SubSeq(s, k + 1, Len(s)) = <<>>
  <2>1. k = Len(s) => Len(s) < k + 1
    BY <1>1
  <2> QED
    BY <1>4, <2>1, SubSeqEmpty
<1> QED
  BY <1>5, <1>6, <1>7, <1>8

\* A function on the numbers from 1 to n is a sequence.
LEMMA FunctionIsSeq ==
    \A S : \A m \in Nat : \A z \in [1 .. m -> S] : z \in Seq(S)
  OBVIOUS

\* Joining three sequences does not depend on which two are joined first.
LEMMA Regroup ==
    ASSUME NEW S, NEW s \in Seq(S), NEW t \in Seq(S), NEW u \in Seq(S)
    PROVE  (s \o t) \o u = s \o (t \o u)
  BY ConcatAssociative

LEMMA PartsRegroup ==
    \A x, y, z \in Seq(Parts) : (x \o y) \o z = x \o (y \o z)
  BY Regroup, SMT

\* What begins something in order is in order.
LEMMA OrderOfPrefix ==
    ASSUME NEW s \in Seq(Parts), NEW t \in Seq(Parts), InOrder(s \o t)
    PROVE  InOrder(s)
<1>1. s # <<>> => s[1][2] = 1
  <2>1. SUFFICES ASSUME s # <<>> PROVE s[1][2] = 1
    OBVIOUS
  <2>2. Len(s) > 0 /\ 1 \in 1 .. Len(s)
    BY <2>1, EmptySeq, LenProperties
  <2>3. (s \o t)[1] = s[1] /\ Len(s \o t) > 0
    BY <2>2, Joined
  <2>4. s \o t # <<>>
    BY <2>3, Joined, EmptySeq
  <2> QED
    BY <2>3, <2>4 DEF InOrder
<1>2. ASSUME NEW j \in 1 .. Len(s) - 1 PROVE Follows(s[j], s[j + 1])
  <2>1. j \in 1 .. Len(s) /\ j + 1 \in 1 .. Len(s) /\ j \in 1 .. Len(s \o t) - 1
    BY Joined
  <2>2. (s \o t)[j] = s[j] /\ (s \o t)[j + 1] = s[j + 1]
    BY <2>1, Joined
  <2>3. Follows((s \o t)[j], (s \o t)[j + 1])
    BY <2>1 DEF InOrder
  <2> QED
    BY <2>2, <2>3
<1> QED
  BY <1>1, <1>2 DEF InOrder

\* each part follows the one before it
Chain(t) == \A j \in 1 .. Len(t) - 1 : Follows(t[j], t[j + 1])

\* A chain that goes on where something in order ends keeps it in order.
LEMMA OrderGoesOn ==
    ASSUME NEW s \in Seq(Parts), NEW t \in Seq(Parts), InOrder(s), Chain(t), t # <<>>,
           IF s = <<>> THEN t[1][2] = 1 ELSE Follows(s[Len(s)], t[1])
    PROVE  InOrder(s \o t)
<1>1. Len(s) \in Nat /\ Len(t) \in Nat /\ Len(t) > 0 /\ 1 \in 1 .. Len(t)
  BY LenProperties, EmptySeq
<1>2. s # <<>> <=> Len(s) > 0
  BY <1>1, EmptySeq
<1>3. (s \o t)[1][2] = 1
  <2>1. CASE s = <<>>
    <3>1. Len(s) = 0 /\ (s \o t)[Len(s) + 1] = t[1]
      BY <1>1, <1>2, <2>1, Joined
    <3> QED
      BY <2>1, <3>1
  <2>2. CASE s # <<>>
    <3>1. (s \o t)[1] = s[1]
      BY <1>1, <1>2, <2>2, Joined
    <3> QED
      BY <2>2, <3>1 DEF InOrder
  <2> QED
    BY <2>1, <2>2
<1>4. ASSUME NEW j \in 1 .. Len(s \o t) - 1 PROVE Follows((s \o t)[j], (s \o t)[j + 1])
  <2>1. j \in 1 .. Len(s) + Len(t) - 1 /\ j \in Nat
    BY <1>1, Joined
  <2>2. CASE j < Len(s)
    <3>1. j \in 1 .. Len(s) - 1 /\ j \in 1 .. Len(s) /\ j + 1 \in 1 .. Len(s)
      BY <1>1, <2>1, <2>2
    <3>2. (s \o t)[j] = s[j] /\ (s \o t)[j + 1] = s[j + 1]
      BY <3>1, Joined
    <3> QED
      BY <3>1, <3>2 DEF InOrder
  <2>3. CASE j = Len(s)
    <3>1. j \in 1 .. Len(s) /\ s # <<>>
      BY <1>1, <1>2, <2>1, <2>3
    <3>2. (s \o t)[j] = s[Len(s)] /\ (s \o t)[j + 1] = t[1]
      BY <1>1, <2>3, <3>1, Joined
    <3> QED
      BY <3>1, <3>2
  <2>4. CASE j > Len(s)
    <3> DEFINE k == j - Len(s)
    <3>1. k \in 1 .. Len(t) - 1 /\ k \in 1 .. Len(t) /\ k + 1 \in 1 .. Len(t)
          /\ Len(s) + k = j /\ Len(s) + (k + 1) = j + 1
      BY <1>1, <2>1, <2>4
    <3> HIDE DEF k
    <3>2. \A i \in 1 .. Len(t) : (s \o t)[Len(s) + i] = t[i]
      BY Joined
    <3>3. (s \o t)[j] = t[k] /\ (s \o t)[j + 1] = t[k + 1]
      <4>1. (s \o t)[Len(s) + k] = t[k] /\ (s \o t)[Len(s) + (k + 1)] = t[k + 1]
        BY <3>1, <3>2
      <4> QED
        BY <3>1, <4>1
    <3> QED
      BY <3>1, <3>3 DEF Chain
  <2> QED
    BY <1>1, <2>1, <2>2, <2>3, <2>4
<1> QED
  BY <1>3, <1>4 DEF InOrder

\* The parts of a line from off + 1 to off + n.
LEMMA LineParts ==
    ASSUME NEW id \in 1 .. MaxRecords, NEW o \in 0 .. LineSize - 1, NEW n \in 1 .. LineSize - o
    PROVE  LET t == SubSeq(Line(id), o + 1, o + n) IN
           /\ t \in Seq(Parts) /\ t # <<>> /\ Chain(t) /\ Len(t) = n
           /\ \A j \in 1 .. n : t[j] = <<id, o + j>>
           /\ Ids(t) = {id}
           /\ \A k \in o + 1 .. o + n : Contains(t, <<id, k>>)
<1> DEFINE t == SubSeq(Line(id), o + 1, o + n)
<1>1. /\ LineSize \in Nat /\ o \in Nat /\ n \in Nat /\ n >= 1 /\ o + n <= LineSize
      /\ MaxRecords \in Nat
  BY SizesAssumption
<1>2. \A k \in 1 .. LineSize : Line(id)[k] = <<id, k>> /\ <<id, k>> \in Parts
  BY DEF Line, Parts
<1>3. \A j \in o + 1 .. o + n : Line(id)[j] \in Parts
  <2> TAKE j \in o + 1 .. o + n
  <2>1. j \in 1 .. LineSize
    BY <1>1
  <2> QED
    BY <1>2, <2>1
<1>4. /\ t \in Seq(Parts) /\ Len(t) = n
      /\ \A j \in 1 .. n : t[j] = Line(id)[o + j]
  <2>1. o + 1 \in Int /\ o + n \in Int /\ o + 1 <= o + n /\ o + n - (o + 1) + 1 = n
        /\ \A j \in 1 .. n : o + 1 + j - 1 = o + j
    BY <1>1
  <2>2. /\ t \in Seq(Parts)
        /\ Len(t) = IF o + 1 <= o + n THEN o + n - (o + 1) + 1 ELSE 0
        /\ \A j \in 1 .. o + n - (o + 1) + 1 : t[j] = Line(id)[o + 1 + j - 1]
    BY <1>3, <2>1, SubSeqProperties
  <2> HIDE DEF t
  <2> QED
    BY <2>1, <2>2
<1> HIDE DEF t
<1>5. \A j \in 1 .. n : t[j] = <<id, o + j>>
  <2> TAKE j \in 1 .. n
  <2>1. o + j \in 1 .. LineSize
    BY <1>1
  <2> QED
    BY <1>2, <1>4, <2>1
<1>6. t # <<>>
  BY <1>1, <1>4, EmptySeq
<1>7. Chain(t)
  <2>1. SUFFICES ASSUME NEW j \in 1 .. n - 1 PROVE Follows(t[j], t[j + 1])
    BY <1>4 DEF Chain
  <2>2. t[j] = <<id, o + j>> /\ t[j + 1] = <<id, o + (j + 1)>>
    BY <1>1, <1>5
  <2> QED
    BY <1>1, <2>2 DEF Follows
<1>8. Ids(t) = {id}
  <2>1. DOMAIN t = 1 .. n /\ 1 \in 1 .. n
    BY <1>1, <1>4, LenProperties
  <2> QED
    BY <1>5, <2>1 DEF Ids
<1>9. \A k \in o + 1 .. o + n : Contains(t, <<id, k>>)
  <2> TAKE k \in o + 1 .. o + n
  <2>1. k - o \in 1 .. Len(t) /\ o + (k - o) = k
    BY <1>1, <1>4
  <2>2. t[k - o] = <<id, k>>
    BY <1>4, <1>5, <2>1
  <2> QED
    BY <2>1, <2>2 DEF Contains
<1> QED
  BY <1>4, <1>5, <1>6, <1>7, <1>8, <1>9 DEF t

\* The line as a whole.
LEMMA WholeLine ==
    ASSUME NEW id \in 1 .. MaxRecords
    PROVE  Line(id) = SubSeq(Line(id), 1, LineSize) /\ Line(id) \in Seq(Parts)
<1>1. LineSize \in Nat
  BY SizesAssumption
<1>2. \A k \in 1 .. LineSize : <<id, k>> \in Parts
  BY DEF Parts
<1>3. Line(id) \in [1 .. LineSize -> Parts]
  BY <1>2 DEF Line
<1>4. Line(id) \in Seq(Parts)
  BY <1>1, <1>3, IsASeq
<1>5. Len(Line(id)) = LineSize
  BY <1>1, <1>4, LenProperties DEF Line
<1> QED
  BY <1>4, <1>5, SubSeqFull

LEMMA NothingJoined ==
    ASSUME NEW S, NEW s \in Seq(S)
    PROVE  s \o <<>> = s /\ <<>> \o s = s
  BY ConcatEmptySeq

LEMMA EmptyHoldsNothing == Ids(<<>>) = {} /\ \A e : ~ Contains(<<>>, e)
<1>1. Len(<<>>) = 0 /\ DOMAIN <<>> = {}
  BY EmptySeq
<1>2. 1 .. 0 = {}
  OBVIOUS
<1> QED
  BY <1>1, <1>2 DEF Ids, Contains

-----------------------------------------------------------------------------
(* A stream is given parts *)

\* What a stream passes on and what it holds or loses of all it has.
Split(i, parts, P, R) ==
    LET s == configuredSinks[i] IN
    /\ P \in Seq(Parts) /\ R \in Seq(Parts)
    /\ s.buffer \o parts = P \o R
    /\ written' = [written EXCEPT ![s.conf] = @ \o P]
    /\ \/ /\ configuredSinks' = [configuredSinks EXCEPT ![i].buffer = R]
          /\ UNCHANGED refused
          /\ ~s.bad
       \/ /\ configuredSinks' = [configuredSinks EXCEPT ![i].buffer = <<>>, ![i].bad = TRUE]
          /\ refused' = [refused EXCEPT ![s.conf] = @ \cup Ids(R)]

SinkTypes ==
    /\ configuredSinks \in Seq(SinkType)
    /\ written \in [Confs -> Seq(Parts)]
    /\ refused \in [Confs -> SUBSET (1 .. MaxRecords)]

LEMMA PutSplits ==
    ASSUME SinkTypes, StreamInv, NEW i \in 1 .. Len(configuredSinks), NEW parts \in Seq(Parts),
           NEW n \in 0 .. Len(configuredSinks[i].buffer \o parts), StreamPut(i, parts, n)
    PROVE  \E P, R : /\ Split(i, parts, P, R)
                     /\ n = Len(configuredSinks[i].buffer \o parts) =>
                            configuredSinks'[i].buffer = <<>>
<1> DEFINE s == configuredSinks[i]
           all == s.buffer \o parts
<1>1. /\ s \in SinkType /\ DOMAIN configuredSinks = 1 .. Len(configuredSinks)
      /\ s.buffer \in Seq(Parts) /\ s.conf \in Confs
  <2>1. s \in SinkType /\ DOMAIN configuredSinks = 1 .. Len(configuredSinks)
    BY LenProperties, ElementOfSeq DEF SinkTypes
  <2> QED
    BY <2>1 DEF SinkType
<1>2. all \in Seq(Parts) /\ Len(all) \in Nat
  BY <1>1, Joined
<1>3. CASE /\ ~s.bad
           /\ \E k \in n .. Len(all) :
                /\ Emit(s.conf, SubSeq(all, 1, k))
                /\ configuredSinks' = [configuredSinks EXCEPT ![i].buffer = SubSeq(all, k + 1, Len(all))]
           /\ UNCHANGED refused
  <2>1. PICK k \in n .. Len(all) :
                /\ Emit(s.conf, SubSeq(all, 1, k))
                /\ configuredSinks' = [configuredSinks EXCEPT ![i].buffer = SubSeq(all, k + 1, Len(all))]
    BY <1>3
  <2>2. k \in 0 .. Len(all) /\ (n = Len(all) => k = Len(all))
    BY <1>2
  <2> HIDE DEF all, s
  <2>3. /\ SubSeq(all, 1, k) \in Seq(Parts) /\ SubSeq(all, k + 1, Len(all)) \in Seq(Parts)
        /\ SubSeq(all, 1, k) \o SubSeq(all, k + 1, Len(all)) = all
        /\ k = Len(all) => SubSeq(all, k + 1, Len(all)) = <<>>
    BY <1>2, <2>2, Cut
  <2>4. configuredSinks'[i].buffer = SubSeq(all, k + 1, Len(all))
    <3>1. s = configuredSinks[i] BY DEF s
    <3> QED BY <1>1, <2>1, <3>1 DEF SinkType
  <2>5. Split(i, parts, SubSeq(all, 1, k), SubSeq(all, k + 1, Len(all)))
    BY <1>3, <2>1, <2>3 DEF Split, Emit, all, s
  <2> QED
    BY <2>2, <2>3, <2>4, <2>5 DEF all, s
<1>4. CASE /\ ~s.bad
           /\ \E k \in 0 .. Len(all) - 1 :
                /\ Emit(s.conf, SubSeq(all, 1, k))
                /\ Refuse(s.conf, Ids(SubSeq(all, k + 1, Len(all))))
           /\ configuredSinks' = [configuredSinks EXCEPT ![i].buffer = <<>>, ![i].bad = TRUE]
  <2>1. PICK k \in 0 .. Len(all) - 1 :
                /\ Emit(s.conf, SubSeq(all, 1, k))
                /\ Refuse(s.conf, Ids(SubSeq(all, k + 1, Len(all))))
    BY <1>4
  <2>2. k \in 0 .. Len(all)
    BY <1>2
  <2> HIDE DEF all, s
  <2>3. /\ SubSeq(all, 1, k) \in Seq(Parts) /\ SubSeq(all, k + 1, Len(all)) \in Seq(Parts)
        /\ SubSeq(all, 1, k) \o SubSeq(all, k + 1, Len(all)) = all
    BY <1>2, <2>2, Cut
  <2>4. configuredSinks'[i].buffer = <<>>
    <3>1. s = configuredSinks[i] BY DEF s
    <3> QED BY <1>1, <1>4, <3>1 DEF SinkType
  <2>5. Split(i, parts, SubSeq(all, 1, k), SubSeq(all, k + 1, Len(all)))
    BY <1>4, <2>1, <2>3 DEF Split, Emit, Refuse, all, s
  <2> QED
    BY <2>4, <2>5
<1>5. CASE s.bad /\ Refuse(s.conf, Ids(parts)) /\ UNCHANGED <<written, configuredSinks>>
  <2>1. s.buffer = <<>>
    BY <1>1, <1>5 DEF StreamInv
  <2>2. written[s.conf] \o <<>> = written[s.conf]
    BY <1>1, NothingJoined DEF SinkTypes
  <2>3. written' = [written EXCEPT ![s.conf] = @ \o <<>>]
    BY <1>1, <1>5, <2>2 DEF SinkTypes
  <2>4. configuredSinks' = [configuredSinks EXCEPT ![i].buffer = <<>>, ![i].bad = TRUE]
    <3>1. s.bad = TRUE
      BY <1>1, <1>5 DEF SinkType
    <3>2. [[configuredSinks[i] EXCEPT !.buffer = <<>>] EXCEPT !.bad = TRUE] = configuredSinks[i]
      BY <1>1, <2>1, <3>1 DEF SinkType
    <3>3. configuredSinks \in [1 .. Len(configuredSinks) -> SinkType]
      BY SeqDef, LenProperties, ElementOfSeq DEF SinkTypes
    <3> QED
      BY <1>1, <1>5, <3>2, <3>3
  <2>5. <<>> \in Seq(Parts) /\ s.buffer \o parts = <<>> \o parts
    BY <2>1, EmptySeq
  <2>6. Split(i, parts, <<>>, parts)
    BY <1>5, <2>3, <2>4, <2>5 DEF Split, Refuse
  <2> QED
    BY <1>5, <2>1, <2>6
<1> QED
  BY <1>3, <1>4, <1>5 DEF StreamPut

\* The sinks are the same as before, but for what they hold.
SameSinks ==
    /\ Len(configuredSinks') = Len(configuredSinks)
    /\ \A j \in 1 .. Len(configuredSinks) :
          /\ configuredSinks'[j].conf = configuredSinks[j].conf
          /\ configuredSinks'[j].key = configuredSinks[j].key

LEMMA SplitTypes ==
    ASSUME SinkTypes, NEW i \in 1 .. Len(configuredSinks), NEW parts \in Seq(Parts),
           NEW P, NEW R, Split(i, parts, P, R)
    PROVE  /\ SinkTypes' /\ SameSinks
           /\ P \in Seq(Parts) /\ R \in Seq(Parts)
           /\ \A j \in 1 .. Len(configuredSinks) : j # i => configuredSinks'[j] = configuredSinks[j]
           /\ LET c == configuredSinks[i].conf IN
                 /\ c \in Confs
                 /\ written'[c] = written[c] \o P
                 /\ \A d \in Confs : d # c => written'[d] = written[d]
                 /\ \A d \in Confs : refused[d] \subseteq refused'[d]
                 /\ \/ configuredSinks'[i].buffer = R /\ ~ configuredSinks'[i].bad
                    \/ configuredSinks'[i].buffer = <<>> /\ Ids(R) \subseteq refused'[c]
<1> DEFINE s == configuredSinks[i]
           c == s.conf
<1>1. /\ s \in SinkType /\ DOMAIN configuredSinks = 1 .. Len(configuredSinks)
      /\ Len(configuredSinks) \in Nat
      /\ configuredSinks \in [1 .. Len(configuredSinks) -> SinkType]
      /\ \A j \in 1 .. Len(configuredSinks) : configuredSinks[j] \in SinkType
  BY LenProperties, ElementOfSeq DEF SinkTypes
<1>2. /\ s.buffer \in Seq(Parts) /\ c \in Confs /\ s.bad \in BOOLEAN
      /\ \A b \in Seq(Parts), d \in BOOLEAN :
            /\ [s EXCEPT !.buffer = b, !.bad = d] \in SinkType
            /\ [s EXCEPT !.buffer = b] \in SinkType
  BY <1>1 DEF SinkType
<1>3. P \in Seq(Parts) /\ R \in Seq(Parts) /\ written' = [written EXCEPT ![c] = @ \o P]
  BY DEF Split
<1>4. written' \in [Confs -> Seq(Parts)]
  <2>1. written[c] \o P \in Seq(Parts)
    BY <1>2, <1>3, Joined DEF SinkTypes
  <2> QED
    BY <1>2, <1>3, <2>1 DEF SinkTypes
<1>5. /\ written'[c] = written[c] \o P
      /\ \A d \in Confs : d # c => written'[d] = written[d]
  BY <1>2, <1>3 DEF SinkTypes
<1>6. Ids(R) \subseteq 1 .. MaxRecords
  <2>1. \A j \in DOMAIN R : R[j] \in Parts
    BY <1>3, ElementOfSeq, LenProperties
  <2> QED
    BY <2>1 DEF Ids, Parts
<1> HIDE DEF s, c
<1>7. CASE /\ configuredSinks' = [configuredSinks EXCEPT ![i].buffer = R]
           /\ UNCHANGED refused
           /\ ~s.bad
  <2>1. configuredSinks' = [configuredSinks EXCEPT ![i] = [s EXCEPT !.buffer = R]]
    BY <1>7 DEF s
  <2>2. [s EXCEPT !.buffer = R] \in SinkType
    BY <1>2, <1>3
  <2>3. configuredSinks' \in Seq(SinkType) /\ Len(configuredSinks') = Len(configuredSinks)
    BY <2>1, <2>2, ExceptSeq DEF SinkTypes
  <2>4. /\ configuredSinks'[i] = [s EXCEPT !.buffer = R]
        /\ \A j \in 1 .. Len(configuredSinks) : j # i => configuredSinks'[j] = configuredSinks[j]
    BY <1>1, <2>1
  <2>5. [s EXCEPT !.buffer = R].conf = s.conf /\ [s EXCEPT !.buffer = R].key = s.key
        /\ [s EXCEPT !.buffer = R].buffer = R /\ [s EXCEPT !.buffer = R].bad = s.bad
    BY <1>1 DEF SinkType
  <2>6. SameSinks
    BY <2>3, <2>4, <2>5 DEF SameSinks, s
  <2>7. SinkTypes'
    BY <1>4, <1>7, <2>3 DEF SinkTypes, Parts, SinkType
  <2>8. configuredSinks'[i].buffer = R /\ ~ configuredSinks'[i].bad
    BY <1>7, <2>4, <2>5
  <2> QED
    BY <1>2, <1>3, <1>5, <1>7, <2>4, <2>6, <2>7, <2>8 DEF c, s
<1>8. CASE /\ configuredSinks' = [configuredSinks EXCEPT ![i].buffer = <<>>, ![i].bad = TRUE]
           /\ refused' = [refused EXCEPT ![c] = @ \cup Ids(R)]
  <2> DEFINE r == [s EXCEPT !.buffer = <<>>, !.bad = TRUE]
  <2>1. configuredSinks' = [configuredSinks EXCEPT ![i] = r]
    BY <1>1, <1>8 DEF s
  <2>2. r \in SinkType
    BY <1>2, EmptySeq
  <2>5. r.conf = s.conf /\ r.key = s.key /\ r.buffer = <<>>
    BY <1>1 DEF SinkType
  <2> HIDE DEF r
  <2>3. configuredSinks' \in Seq(SinkType) /\ Len(configuredSinks') = Len(configuredSinks)
    BY <2>1, <2>2, ExceptSeq DEF SinkTypes
  <2>4. /\ configuredSinks'[i] = r
        /\ \A j \in 1 .. Len(configuredSinks) : j # i => configuredSinks'[j] = configuredSinks[j]
    BY <1>1, <2>1
  <2>6. SameSinks
    BY <2>3, <2>4, <2>5 DEF SameSinks, s
  <2>7. /\ refused' \in [Confs -> SUBSET (1 .. MaxRecords)]
        /\ \A d \in Confs : refused[d] \subseteq refused'[d]
        /\ Ids(R) \subseteq refused'[c]
    BY <1>2, <1>6, <1>8 DEF SinkTypes
  <2>8. SinkTypes'
    BY <1>4, <2>3, <2>7 DEF SinkTypes, Parts, SinkType
  <2> QED
    BY <1>2, <1>3, <1>5, <2>4, <2>5, <2>6, <2>7, <2>8 DEF c, s
<1> QED
  BY <1>7, <1>8 DEF Split, c, s

\* A stream that has lines in order passes them on in order.
LEMMA SplitInOrder ==
    ASSUME SinkTypes, NEW i \in 1 .. Len(configuredSinks), NEW parts \in Seq(Parts),
           NEW P, NEW R, Split(i, parts, P, R), NEW c, c = configuredSinks[i].conf
    PROVE  LET all == written[c] \o (configuredSinks[i].buffer \o parts) IN
           InOrder(all) =>
               /\ InOrder(written'[c]) /\ Ids(written'[c]) \subseteq Ids(all)
               /\ InOrder(Outgoing(i)') /\ Ids(Outgoing(i)') \subseteq Ids(all)
<1>1. /\ P \in Seq(Parts) /\ R \in Seq(Parts) /\ c \in Confs
      /\ SinkTypes' /\ SameSinks
      /\ written'[c] = written[c] \o P
      /\ configuredSinks'[i].buffer = R \/ configuredSinks'[i].buffer = <<>>
  BY SplitTypes
<1>2. /\ written'[c] \in Seq(Parts) /\ written[c] \in Seq(Parts)
      /\ configuredSinks'[i].conf = c
      /\ configuredSinks[i].buffer \o parts = P \o R
  BY <1>1 DEF SinkTypes, SameSinks, Split
<1> DEFINE w == written[c]
           v == written'[c]
<1>3. w \in Seq(Parts) /\ v \in Seq(Parts) /\ v = w \o P
  BY <1>1, <1>2
<1>4. written[c] \o (configuredSinks[i].buffer \o parts) = w \o (P \o R)
  BY <1>2
<1> HIDE DEF w, v
<1>5. v \o R = w \o (P \o R)
  <2>1. w \in Seq(Parts) /\ P \in Seq(Parts) /\ R \in Seq(Parts)
    BY <1>1, <1>3
  <2>2. (w \o P) \o R = w \o (P \o R)
    BY <2>1, PartsRegroup, Zenon
  <2> QED
    BY <1>3, <2>2
<1>6. InOrder(v \o R) => InOrder(v)
  BY <1>1, <1>3, OrderOfPrefix
<1>7. Ids(v) \subseteq Ids(v \o R)
  <2>1. Ids(v \o R) = Ids(v) \cup Ids(R)
    BY <1>1, <1>3, IdsJoined
  <2> QED
    BY <2>1
<1>8. Outgoing(i)' = v \o R \/ Outgoing(i)' = v
  BY <1>1, <1>2, NothingJoined DEF Outgoing, v
<1> QED
  BY <1>4, <1>5, <1>6, <1>7, <1>8 DEF v

\* What a stream has stays, or is refused.
LEMMA SplitKeeps ==
    ASSUME SinkTypes, NEW i \in 1 .. Len(configuredSinks), NEW parts \in Seq(Parts),
           NEW P, NEW R, Split(i, parts, P, R), NEW part, NEW c, c = configuredSinks[i].conf,
           \/ Contains(written[c], part)
           \/ Contains(configuredSinks[i].buffer, part)
           \/ Contains(parts, part)
    PROVE  Taken(c, part)' \/ part[1] \in refused'[c]
<1>1. /\ P \in Seq(Parts) /\ R \in Seq(Parts) /\ c \in Confs
      /\ SinkTypes' /\ SameSinks
      /\ written'[c] = written[c] \o P
      /\ \/ configuredSinks'[i].buffer = R
         \/ Ids(R) \subseteq refused'[c]
  BY SplitTypes
<1>2. configuredSinks[i].buffer \o parts = P \o R /\ written[c] \in Seq(Parts)
  BY <1>1 DEF Split, SinkTypes
<1>3. /\ configuredSinks'[i].conf = c
      /\ i \in DOMAIN configuredSinks'
  <2>1. DOMAIN configuredSinks' = 1 .. Len(configuredSinks)
    BY <1>1, LenProperties DEF SinkTypes, SameSinks
  <2> QED
    BY <1>1, <2>1 DEF SameSinks
<1>4. configuredSinks[i].buffer \in Seq(Parts)
  <2>1. configuredSinks[i] \in SinkType
    BY ElementOfSeq DEF SinkTypes
  <2> QED
    BY <2>1 DEF SinkType
<1>5. Contains(written[c], part) \/ Contains(configuredSinks[i].buffer \o parts, part)
  BY <1>4, ContainsJoined
<1>6. Contains(written[c], part) \/ Contains(P, part) \/ Contains(R, part)
  BY <1>1, <1>2, <1>5, ContainsJoined
<1>7. CASE Contains(written[c], part) \/ Contains(P, part)
  <2>1. Contains(written'[c], part)
    BY <1>1, <1>2, <1>7, ContainsJoined
  <2> QED
    BY <2>1 DEF Taken
<1>8. CASE Contains(R, part)
  <2>1. CASE configuredSinks'[i].buffer = R
    <3>1. Contains(configuredSinks'[i].buffer, part)
      BY <1>8, <2>1
    <3> QED
      BY <1>3, <3>1 DEF Taken
  <2>2. CASE Ids(R) \subseteq refused'[c]
    <3>1. part[1] \in Ids(R)
      <4>1. PICK j \in 1 .. Len(R) : R[j] = part
        BY <1>8 DEF Contains
      <4> QED
        BY <1>1, <4>1, LenProperties DEF Ids
    <3> QED
      BY <2>2, <3>1
  <2> QED
    BY <1>1, <2>1, <2>2
<1> QED
  BY <1>6, <1>7, <1>8

-----------------------------------------------------------------------------
(* What a step leaves alone *)

LEMMA RouteFrame ==
    ASSUME RouteInv, UNCHANGED <<configuredSinks, route, channelConf>>
    PROVE  RouteInv'
  BY DEF RouteInv, TargetKey

LEMMA StreamFrame ==
    ASSUME StreamInv, UNCHANGED configuredSinks
    PROVE  StreamInv'
  BY DEF StreamInv

LEMMA OrderFrame ==
    ASSUME OrderInv, UNCHANGED <<configuredSinks, written, given>>,
           InHand' => InHand /\ UNCHANGED <<rec, route, off>>
    PROVE  OrderInv'
<1>1. \A i : Outgoing(i)' = Outgoing(i)
  BY DEF Outgoing
<1>2. CASE InHand'
  BY <1>1, <1>2 DEF OrderInv
<1>3. CASE ~ InHand'
  BY <1>1, <1>3 DEF OrderInv
<1> QED
  BY <1>2, <1>3

LEMMA KeptFrame ==
    ASSUME KeptInv, UNCHANGED <<configuredSinks, written, given, refused>>,
           InHand => InHand' /\ UNCHANGED <<rec, off>>
    PROVE  KeptInv'
<1>1. \A conf, part : Taken(conf, part)' <=> Taken(conf, part)
  BY DEF Taken
<1> QED
  BY <1>1 DEF KeptInv

LEMMA PassFrame ==
    ASSUME PassInv, UNCHANGED <<configuredSinks, customSinks, synced, got>>,
           Flushing' => Flushing /\ pos' = pos
    PROVE  PassInv'
  BY DEF PassInv

LEMMA CustomFrame ==
    ASSUME CustomInv, UNCHANGED <<customSinks, got, synced, records>>,
           phase' # "closed" => phase # "closed",
           Emitting' = Emitting, Emitting => pos' = pos
    PROVE  CustomInv'
<1>1. \A c : Places(c)' = Places(c) /\ PlacesDone(c)' = PlacesDone(c)
  BY DEF Places, PlacesDone
<1>2. Rounds' = Rounds
  BY DEF Rounds
<1> QED
  BY <1>1, <1>2 DEF CustomInv

LEMMA BaseFrame ==
    ASSUME BaseInv, UNCHANGED scratch, pc' = "write" => pc = "write" /\ UNCHANGED <<rec, shown>>
    PROVE  BaseInv'
  BY DEF BaseInv, Files

-----------------------------------------------------------------------------
(* Steps that change the phase, or ask for a flush *)

LEMMA PhaseStep ==
    ASSUME SinksInv, phase \in {"configuring", "running", "closing"},
           phase' \in {"running", "closing", "terminated"},
           UNCHANGED <<configuredSinks, route, channelConf, customSinks, consumerVars,
                       written, customVars, historyVars>>,
           asked' \in BOOLEAN
    PROVE  SinksInv'
<1> USE DEF consumerVars, customVars, historyVars
<1>1. /\ TypeOK /\ RouteInv /\ StreamInv /\ PlaceInv /\ OrderInv /\ KeptInv
      /\ PassInv /\ CustomInv /\ ClosedInv /\ BaseInv
  BY DEF SinksInv
<1>2. Emitting' = Emitting /\ InHand' = InHand /\ Flushing' = Flushing
  BY DEF Emitting, InHand, Flushing
<1>3. TypeOK'
  BY <1>1 DEF TypeOK, Parts, Files, SinkType, TargetKey
<1>4. PlaceInv'
  BY <1>1, <1>2 DEF PlaceInv
<1>5. RouteInv' /\ StreamInv' /\ BaseInv'
  BY <1>1, RouteFrame, StreamFrame, BaseFrame
<1>6. OrderInv' /\ KeptInv' /\ PassInv' /\ CustomInv'
  BY <1>1, <1>2, OrderFrame, KeptFrame, PassFrame, CustomFrame
<1>7. ClosedInv'
  BY DEF ClosedInv
<1> QED
  BY <1>3, <1>4, <1>5, <1>6, <1>7 DEF SinksInv

\* Nothing changes but that a flush is asked for.
LEMMA AskStep ==
    ASSUME SinksInv, Ask
    PROVE  SinksInv'
<1> USE DEF runtimeVars, consumerVars, customVars, historyVars
<1>1. /\ TypeOK /\ RouteInv /\ StreamInv /\ PlaceInv /\ OrderInv /\ KeptInv
      /\ PassInv /\ CustomInv /\ ClosedInv /\ BaseInv
  BY DEF SinksInv
<1>2. /\ Emitting' = Emitting /\ InHand' = InHand /\ Flushing' = Flushing
      /\ asked' = TRUE /\ phase' = phase /\ phase = "running"
      /\ UNCHANGED <<runtimeVars, consumerVars, written, customVars, historyVars>>
  BY DEF Emitting, InHand, Flushing, Ask
<1>3. TypeOK'
  BY <1>1, <1>2 DEF TypeOK, Parts, Files, SinkType, TargetKey
<1>4. PlaceInv'
  BY <1>1, <1>2 DEF PlaceInv
<1>5. RouteInv' /\ StreamInv' /\ BaseInv'
  BY <1>1, <1>2, RouteFrame, StreamFrame, BaseFrame
<1>6. OrderInv' /\ KeptInv' /\ PassInv' /\ CustomInv'
  BY <1>1, <1>2, OrderFrame, KeptFrame, PassFrame, CustomFrame
<1>7. ClosedInv'
  BY <1>2 DEF ClosedInv
<1> QED
  BY <1>3, <1>4, <1>5, <1>6, <1>7 DEF SinksInv

\* A flush begins, for a thread that waits or before the sinks are closed.
LEMMA BeginStep ==
    ASSUME SinksInv, phase \in {"running", "closing"}, pc = "idle",
           pc' \in {"flush", "finalFlush"}, pos' = 1,
           UNCHANGED <<runtimeVars, rec, off, scratch, shown, asked, written, customVars, historyVars>>
    PROVE  SinksInv'
<1> USE DEF runtimeVars, customVars, historyVars
<1>1. /\ TypeOK /\ RouteInv /\ StreamInv /\ PlaceInv /\ OrderInv /\ KeptInv
      /\ PassInv /\ CustomInv /\ ClosedInv /\ BaseInv
  BY DEF SinksInv
<1>2. ~ Emitting /\ ~ InHand /\ ~ InHand' /\ Flushing' /\ Emitting' = Emitting
  BY DEF Emitting, InHand, Flushing
<1>3. Len(configuredSinks) \in Nat /\ Len(customSinks) \in Nat
  BY <1>1, LenProperties DEF TypeOK
<1>4. TypeOK'
  BY <1>1 DEF TypeOK, Parts, Files, SinkType, TargetKey
<1>5. PlaceInv'
  BY <1>1, <1>2, <1>3 DEF PlaceInv, Flushing
<1>6. RouteInv' /\ StreamInv' /\ BaseInv'
  BY <1>1, RouteFrame, StreamFrame, BaseFrame
<1>7. OrderInv' /\ KeptInv' /\ CustomInv'
  BY <1>1, <1>2, OrderFrame, KeptFrame, CustomFrame
<1>8. PassInv'
  <2>1. /\ DOMAIN configuredSinks = 1 .. Len(configuredSinks)
        /\ DOMAIN customSinks = 1 .. Len(customSinks)
    BY <1>1, LenProperties DEF TypeOK
  <2> QED
    BY <1>3, <2>1 DEF PassInv
<1>9. ClosedInv'
  BY DEF ClosedInv
<1> QED
  BY <1>4, <1>5, <1>6, <1>7, <1>8, <1>9 DEF SinksInv

LEMMA AnswerStep ==
    ASSUME SinksInv, Answer, phase \in {"running", "closing"}
    PROVE  SinksInv'
<1> USE DEF runtimeVars, customVars, historyVars
<1>1. /\ TypeOK /\ RouteInv /\ StreamInv /\ PlaceInv /\ OrderInv /\ KeptInv
      /\ PassInv /\ CustomInv /\ ClosedInv /\ BaseInv
  BY DEF SinksInv
<1>2. /\ ~ Emitting /\ ~ InHand /\ ~ InHand' /\ ~ Flushing' /\ Emitting' = Emitting
      /\ pc = "flush" /\ pc' = "idle" /\ pos' = 0 /\ asked' = FALSE
      /\ UNCHANGED <<runtimeVars, rec, off, scratch, shown, written, customVars, historyVars>>
  BY DEF Emitting, InHand, Flushing, Answer
<1>4. TypeOK'
  BY <1>1, <1>2 DEF TypeOK, Parts, Files, SinkType, TargetKey
<1>5. PlaceInv'
  BY <1>1, <1>2 DEF PlaceInv
<1>6. RouteInv' /\ StreamInv' /\ BaseInv'
  BY <1>1, <1>2, RouteFrame, StreamFrame, BaseFrame
<1>7. OrderInv' /\ KeptInv' /\ PassInv' /\ CustomInv'
  BY <1>1, <1>2, OrderFrame, KeptFrame, PassFrame, CustomFrame
<1>9. ClosedInv'
  BY <1>2 DEF ClosedInv
<1> QED
  BY <1>4, <1>5, <1>6, <1>7, <1>9 DEF SinksInv

-----------------------------------------------------------------------------
(* Configuring *)

LEMMA EmptyInOrder == InOrder(<<>>)
<1>1. Len(<<>>) = 0 /\ 1 .. 0 - 1 = {}
  BY EmptySeq
<1> QED
  BY <1>1 DEF InOrder

\* A key belongs to one target.
LEMMA KeysTellApart ==
    ASSUME NEW c \in Confs, NEW d \in Confs, TargetKey(c) = TargetKey(d)
    PROVE  c = d
<1>1. c.type = d.type /\ c.target = d.target
  BY DEF TargetKey
<1>2. /\ c = [type |-> c.type, target |-> c.target]
      /\ d = [type |-> d.type, target |-> d.target]
  BY ConfsAssumption
<1> QED
  BY <1>1, <1>2

\* The places a custom sink has are counted in Nat.
LEMMA PlacesCounted ==
    ASSUME customSinks \in Seq(CustomSinks), NEW c
    PROVE  /\ IsFiniteSet(Places(c)) /\ Cardinality(Places(c)) \in Nat
           /\ IsFiniteSet(PlacesDone(c)) /\ Cardinality(PlacesDone(c)) \in Nat
<1>1. Len(customSinks) \in Nat /\ DOMAIN customSinks = 1 .. Len(customSinks)
  BY LenProperties
<1>2. IsFiniteSet(1 .. Len(customSinks))
  BY <1>1, FS_Interval
<1>3. Places(c) \subseteq 1 .. Len(customSinks) /\ PlacesDone(c) \subseteq 1 .. Len(customSinks)
  BY <1>1 DEF Places, PlacesDone
<1>4. IsFiniteSet(Places(c)) /\ IsFiniteSet(PlacesDone(c))
  BY <1>2, <1>3, FS_Subset
<1> QED
  BY <1>4, FS_CardinalityType

LEMMA NoneYet == \A m \in Nat : m * 0 = 0 /\ 0 * m = 0
  OBVIOUS

\* Nothing has been taken while the runtime is being configured.
LEMMA NothingGiven ==
    ASSUME TypeOK, PlaceInv, phase = "configuring"
    PROVE  /\ records = 0 /\ \A conf \in Confs : given[conf] = {} /\ written[conf] = <<>>
           /\ pc = "idle" /\ pos = 0 /\ off = 0 /\ rec = NoRecord
           /\ ~ Emitting /\ ~ InHand /\ ~ Flushing
           /\ \A c \in CustomSinks : got[c] = <<>> /\ synced[c] = 0
           /\ \A i \in DOMAIN configuredSinks : configuredSinks[i].buffer = <<>>
<1>1. /\ records = 0 /\ pc = "idle" /\ pos = 0
      /\ \A c \in CustomSinks : got[c] = <<>> /\ synced[c] = 0
      /\ \A i \in DOMAIN configuredSinks : configuredSinks[i].buffer = <<>>
      /\ \A conf \in Confs : written[conf] = <<>>
  BY DEF PlaceInv
<1>2. ~ Emitting /\ ~ InHand /\ ~ Flushing
  BY <1>1 DEF Emitting, InHand, Flushing
<1>3. \A conf \in Confs : given[conf] = {}
  <2>1. given \in [Confs -> SUBSET (1 .. 0)] /\ 1 .. 0 = {}
    BY <1>1 DEF TypeOK
  <2> QED
    BY <2>1
<1>4. off = 0 /\ rec = NoRecord
  <2>1. LineSize \in Nat
    BY SizesAssumption
  <2> QED
    BY <1>1, <1>2, <2>1 DEF TypeOK, PlaceInv
<1> QED
  BY <1>1, <1>2, <1>3, <1>4

LEMMA MakeChannelStep ==
    ASSUME SinksInv, NEW n \in Names, NEW conf \in Confs, MakeChannel(n, conf)
    PROVE  SinksInv'
<1> DEFINE i == ConfiguredSinkFor(conf)
           new == [conf |-> conf, key |-> TargetKey(conf), buffer |-> <<>>, bad |-> FALSE]
<1>1. /\ TypeOK /\ RouteInv /\ StreamInv /\ PlaceInv /\ OrderInv /\ KeptInv
      /\ PassInv /\ CustomInv /\ ClosedInv /\ BaseInv
  BY DEF SinksInv
<1>2. /\ phase = "configuring" /\ phase' = phase /\ route[n] = 0
      /\ route' = [route EXCEPT ![n] = i]
      /\ channelConf' = [channelConf EXCEPT ![n] = conf]
      /\ IF i > Len(configuredSinks) THEN configuredSinks' = Append(configuredSinks, new)
         ELSE UNCHANGED configuredSinks
      /\ UNCHANGED <<customSinks, pc, rec, pos, off, scratch, shown, asked, written, got, synced,
                     records, given, refused>>
  BY DEF MakeChannel, consumerVars, customVars, historyVars
<1>3. /\ records = 0 /\ \A d \in Confs : given[d] = {} /\ written[d] = <<>>
      /\ pc = "idle" /\ pos = 0 /\ off = 0 /\ rec = NoRecord
      /\ ~ Emitting /\ ~ InHand /\ ~ Flushing
      /\ \A k \in DOMAIN configuredSinks : configuredSinks[k].buffer = <<>>
  BY <1>1, <1>2, NothingGiven
<1>4. /\ Len(configuredSinks) \in Nat /\ DOMAIN configuredSinks = 1 .. Len(configuredSinks)
      /\ \A k \in 1 .. Len(configuredSinks) : configuredSinks[k] \in SinkType
      /\ configuredSinks \in Seq(SinkType)
  BY <1>1, LenProperties, ElementOfSeq DEF TypeOK
<1>5. \A k \in 1 .. Len(configuredSinks) :
         /\ configuredSinks[k].conf \in Confs
         /\ configuredSinks[k].key = TargetKey(configuredSinks[k].conf)
  BY <1>1, <1>4 DEF RouteInv, SinkType
<1>6. \/ i \in 1 .. Len(configuredSinks) /\ configuredSinks[i].conf = conf
      \/ i = Len(configuredSinks) + 1 /\ \A k \in 1 .. Len(configuredSinks) : configuredSinks[k].conf # conf
  <2> DEFINE same == {k \in DOMAIN configuredSinks : configuredSinks[k].key = TargetKey(conf)}
  <2>1. CASE same = {}
    <3>1. i = Len(configuredSinks) + 1
      BY <2>1 DEF ConfiguredSinkFor
    <3> QED
      BY <1>4, <1>5, <2>1, <3>1
  <2>2. CASE same # {}
    <3>1. i \in same
      BY <2>2 DEF ConfiguredSinkFor
    <3> QED
      BY <1>4, <1>5, <3>1, KeysTellApart
  <2> QED
    BY <2>1, <2>2
<1>7. new \in SinkType /\ new.conf = conf /\ new.key = TargetKey(conf) /\ new.buffer = <<>>
  BY EmptySeq DEF SinkType
<1> HIDE DEF i, new
\* the sinks afterwards
<1>8. /\ configuredSinks' \in Seq(SinkType)
      /\ DOMAIN configuredSinks' = 1 .. Len(configuredSinks')
      /\ Len(configuredSinks') \in Nat /\ Len(configuredSinks) <= Len(configuredSinks')
      /\ i \in 1 .. Len(configuredSinks') /\ configuredSinks'[i].conf = conf
      /\ \A k \in 1 .. Len(configuredSinks) : configuredSinks'[k] = configuredSinks[k]
      /\ \A k \in 1 .. Len(configuredSinks') : k \notin 1 .. Len(configuredSinks) =>
            /\ k = i /\ configuredSinks'[k] = new
            /\ \A j \in 1 .. Len(configuredSinks) : configuredSinks[j].conf # conf
  <2>1. CASE i \in 1 .. Len(configuredSinks)
    <3>1. configuredSinks' = configuredSinks
      BY <1>2, <1>4, <2>1
    <3> QED
      BY <1>4, <1>6, <2>1, <3>1
  <2>2. CASE i = Len(configuredSinks) + 1 /\ \A k \in 1 .. Len(configuredSinks) : configuredSinks[k].conf # conf
    <3>1. configuredSinks' = Append(configuredSinks, new)
      BY <1>2, <1>4, <2>2
    <3>2. /\ configuredSinks' \in Seq(SinkType) /\ Len(configuredSinks') = Len(configuredSinks) + 1
          /\ \A k \in 1 .. Len(configuredSinks) : configuredSinks'[k] = configuredSinks[k]
          /\ configuredSinks'[Len(configuredSinks) + 1] = new
      BY <1>4, <1>7, <3>1, AppendProperties
    <3>3. DOMAIN configuredSinks' = 1 .. Len(configuredSinks')
      BY <3>2, LenProperties
    <3> QED
      BY <1>4, <1>7, <2>2, <3>2, <3>3
  <2> QED
    BY <1>6, <2>1, <2>2
<1>9. \A k \in 1 .. Len(configuredSinks') :
         /\ configuredSinks'[k].buffer = <<>>
         /\ configuredSinks'[k].key = TargetKey(configuredSinks'[k].conf)
  BY <1>3, <1>4, <1>5, <1>7, <1>8
<1>10. TypeOK'
  <2>1. route' \in [Names -> 0 .. Len(configuredSinks')]
    <3>1. i \in 0 .. Len(configuredSinks')
      BY <1>8
    <3>2. \A k \in 0 .. Len(configuredSinks) : k \in 0 .. Len(configuredSinks')
      BY <1>4, <1>8
    <3> QED
      BY <1>1, <1>2, <3>1, <3>2 DEF TypeOK
  <2>2. channelConf' \in [Names -> Confs \cup {NoConf}]
    BY <1>1, <1>2 DEF TypeOK
  <2> QED
    BY <1>1, <1>2, <1>8, <2>1, <2>2 DEF TypeOK, Parts, Files, SinkType, TargetKey
<1>11. RouteInv'
  <2>1. ASSUME NEW m \in Names, route'[m] # 0
        PROVE  channelConf'[m] = configuredSinks'[route'[m]].conf
    <3>1. CASE m = n
      BY <1>1, <1>2, <1>8, <3>1 DEF TypeOK
    <3>2. CASE m # n
      <4>1. route'[m] = route[m] /\ channelConf'[m] = channelConf[m] /\ route[m] \in 1 .. Len(configuredSinks)
        BY <1>1, <1>2, <1>4, <2>1, <3>2 DEF TypeOK
      <4> QED
        BY <1>1, <1>8, <2>1, <4>1 DEF RouteInv
    <3> QED
      BY <3>1, <3>2
  <2>2. ASSUME NEW j \in 1 .. Len(configuredSinks'), NEW k \in 1 .. Len(configuredSinks'),
               configuredSinks'[j].conf = configuredSinks'[k].conf
        PROVE  j = k
    <3>1. CASE j \in 1 .. Len(configuredSinks) /\ k \in 1 .. Len(configuredSinks)
      BY <1>1, <1>4, <1>8, <2>2, <3>1 DEF RouteInv
    <3>2. CASE j \notin 1 .. Len(configuredSinks) \/ k \notin 1 .. Len(configuredSinks)
      BY <1>7, <1>8, <2>2, <3>2
    <3> QED
      BY <3>1, <3>2
  <2> QED
    BY <1>8, <1>9, <2>1, <2>2 DEF RouteInv, TargetKey
<1>12. StreamInv'
  BY <1>8, <1>9 DEF StreamInv
<1>13. ~ Emitting' /\ ~ InHand' /\ ~ Flushing' /\ Emitting' = Emitting
  BY <1>2, <1>3 DEF Emitting, InHand, Flushing
<1>14. PlaceInv'
  BY <1>1, <1>2, <1>3, <1>8, <1>9, <1>13 DEF PlaceInv
<1>15. OrderInv'
  <2>1. \A d \in Confs : written'[d] = <<>>
    BY <1>2, <1>3
  <2>2. \A k \in 1 .. Len(configuredSinks') : Outgoing(k)' = <<>>
    <3> TAKE k \in 1 .. Len(configuredSinks')
    <3>1. configuredSinks'[k].conf \in Confs /\ configuredSinks'[k].buffer = <<>>
      <4>1. configuredSinks'[k] \in SinkType
        BY <1>8, ElementOfSeq
      <4> QED
        BY <1>9, <4>1 DEF SinkType
    <3>2. Outgoing(k)' = <<>> \o <<>>
      BY <2>1, <3>1 DEF Outgoing
    <3> QED
      BY <3>2, EmptySeq, NothingJoined
  <2> QED
    BY <1>8, <1>13, <2>1, <2>2, EmptyInOrder, EmptyHoldsNothing DEF OrderInv
<1>16. KeptInv'
  BY <1>2, <1>3 DEF KeptInv
<1>17. PassInv' /\ ClosedInv' /\ CustomInv' /\ BaseInv'
  <2>1. PassInv' /\ ClosedInv'
    BY <1>2, <1>13 DEF PassInv, ClosedInv
  <2>2. CustomInv'
    BY <1>1, <1>2, <1>3, <1>13, CustomFrame
  <2>3. BaseInv'
    BY <1>1, <1>2, BaseFrame
  <2> QED
    BY <2>1, <2>2, <2>3
<1> QED
  BY <1>10, <1>11, <1>12, <1>14, <1>15, <1>16, <1>17 DEF SinksInv

LEMMA AddSinkStep ==
    ASSUME SinksInv, NEW c \in CustomSinks, AddSink(c)
    PROVE  SinksInv'
<1>1. /\ TypeOK /\ RouteInv /\ StreamInv /\ PlaceInv /\ OrderInv /\ KeptInv
      /\ PassInv /\ CustomInv /\ ClosedInv /\ BaseInv
  BY DEF SinksInv
<1>2. /\ phase = "configuring" /\ customSinks' = Append(customSinks, c)
      /\ UNCHANGED <<phase, configuredSinks, route, channelConf, pc, rec, pos, off, scratch, shown,
                     asked, written, got, synced, records, given, refused>>
  BY DEF AddSink, consumerVars, customVars, historyVars
<1>3. /\ records = 0 /\ pc = "idle" /\ ~ Emitting /\ ~ InHand /\ ~ Flushing
      /\ \A d \in CustomSinks : got[d] = <<>> /\ synced[d] = 0
  BY <1>1, <1>2, NothingGiven
<1>4. ~ Emitting' /\ ~ InHand' /\ ~ Flushing'
  BY <1>2, <1>3 DEF Emitting, InHand, Flushing
<1>5. customSinks' \in Seq(CustomSinks)
  BY <1>1, <1>2, AppendProperties DEF TypeOK
<1>6. TypeOK'
  BY <1>1, <1>2, <1>5 DEF TypeOK, Parts, Files, SinkType, TargetKey
<1>7. PlaceInv'
  BY <1>1, <1>2, <1>3, <1>4 DEF PlaceInv
<1>8. RouteInv' /\ StreamInv' /\ BaseInv'
  BY <1>1, <1>2, RouteFrame, StreamFrame, BaseFrame
<1>9. OrderInv' /\ KeptInv'
  BY <1>1, <1>2, <1>3, <1>4, OrderFrame, KeptFrame
<1>10. PassInv' /\ ClosedInv'
  BY <1>2, <1>4 DEF PassInv, ClosedInv
<1>11. CustomInv'
  <2>1. Rounds' = 0 /\ \A d : PlacesDone(d)' = {}
    BY <1>2, <1>3, <1>4 DEF Rounds, PlacesDone
  <2>2. \A d \in CustomSinks : got'[d] = <<>> /\ synced'[d] = 0 /\ Len(got'[d]) = 0
    BY <1>2, <1>3, EmptySeq
  <2>3. \A d \in CustomSinks : Cardinality(Places(d)') \in Nat /\ Cardinality(PlacesDone(d)') = 0
    <3>1. \A d : Cardinality(Places(d)') \in Nat
      <4>1. Len(customSinks') \in Nat /\ DOMAIN customSinks' = 1 .. Len(customSinks')
        BY <1>5, LenProperties
      <4>2. IsFiniteSet(1 .. Len(customSinks'))
        BY <4>1, FS_Interval
      <4>3. \A d : Places(d)' \subseteq 1 .. Len(customSinks')
        BY <4>1 DEF Places
      <4> QED
        BY <4>2, <4>3, FS_Subset, FS_CardinalityType
    <3> QED
      BY <2>1, <3>1, FS_EmptySet
  <2>4. \A d \in CustomSinks :
           Len(got'[d]) = Cardinality(Places(d)') * Rounds' + Cardinality(PlacesDone(d)')
    BY <2>1, <2>2, <2>3, NoneYet
  <2>5. 1 .. 0 = {}
    OBVIOUS
  <2> QED
    BY <2>2, <2>4, <2>5 DEF CustomInv
<1> QED
  BY <1>6, <1>7, <1>8, <1>9, <1>10, <1>11 DEF SinksInv

-----------------------------------------------------------------------------
(* A record is taken, rendered and handed to its sinks *)

LEMMA TakeStep ==
    ASSUME SinksInv, NEW n \in Names, Take(n)
    PROVE  SinksInv'
<1> DEFINE conf == channelConf[n]
           id == records + 1
<1>1. /\ TypeOK /\ RouteInv /\ StreamInv /\ PlaceInv /\ OrderInv /\ KeptInv
      /\ PassInv /\ CustomInv /\ ClosedInv /\ BaseInv
  BY DEF SinksInv
<1>2. /\ phase \in {"running", "closing"} /\ pc = "idle" /\ route[n] # 0 /\ records < MaxRecords
      /\ records' = id
      /\ rec' = [id |-> id, name |-> n, file |-> SourceOf[n][id]]
      /\ given' = [given EXCEPT ![conf] = @ \cup {id}]
      /\ pc' = "render" /\ pos' = 1
      /\ UNCHANGED <<phase, configuredSinks, route, channelConf, customSinks, off, scratch, shown,
                     asked, written, got, synced, refused>>
  BY DEF Take, runtimeVars, customVars
<1>3. /\ records \in Nat /\ MaxRecords \in Nat /\ LineSize \in Nat /\ LineSize > 0
      /\ id \in 1 .. MaxRecords /\ id \notin 1 .. records
      /\ off = 0
      /\ \A k \in 1 .. records : k \in 1 .. id
  <2>1. MaxRecords \in Nat /\ LineSize \in Nat /\ LineSize > 0
    BY SizesAssumption
  <2>2. records \in 0 .. MaxRecords /\ off \in 0 .. LineSize - 1 /\ ~ off > 0
    BY <1>1, <1>2 DEF TypeOK, PlaceInv
  <2> QED
    BY <1>2, <2>1, <2>2
<1>4. /\ Len(configuredSinks) \in Nat /\ DOMAIN configuredSinks = 1 .. Len(configuredSinks)
      /\ route[n] \in 1 .. Len(configuredSinks)
      /\ conf \in Confs /\ conf = configuredSinks[route[n]].conf
      /\ \A i \in 1 .. Len(configuredSinks) : configuredSinks[i].conf \in Confs
  <2>1. /\ Len(configuredSinks) \in Nat /\ DOMAIN configuredSinks = 1 .. Len(configuredSinks)
        /\ \A i \in 1 .. Len(configuredSinks) : configuredSinks[i] \in SinkType
    BY <1>1, LenProperties, ElementOfSeq DEF TypeOK
  <2>2. \A i \in 1 .. Len(configuredSinks) : configuredSinks[i].conf \in Confs
    BY <2>1 DEF SinkType
  <2>3. route[n] \in 1 .. Len(configuredSinks)
    BY <1>1, <1>2, <2>1 DEF TypeOK
  <2> QED
    BY <1>1, <1>2, <2>1, <2>2, <2>3 DEF RouteInv
<1>5. /\ given \in [Confs -> SUBSET (1 .. records)]
      /\ \A d \in Confs : given'[d] = IF d = conf THEN given[d] \cup {id} ELSE given[d]
  BY <1>1, <1>2, <1>4 DEF TypeOK
<1> HIDE DEF conf, id
<1>6. /\ ~ Emitting /\ ~ InHand /\ ~ Flushing /\ Emitting' /\ InHand' /\ ~ Flushing'
  BY <1>2 DEF Emitting, InHand, Flushing
<1>7. TypeOK'
  <2>1. rec' \in [id : 0 .. MaxRecords, name : Names \cup {"none"}, file : Files]
    <3>1. SourceOf[n][id] \in Files
      BY <1>3, FilesAssumption DEF Files
    <3>2. id \in 0 .. MaxRecords
      BY <1>3
    <3> QED
      BY <1>2, <3>1, <3>2
  <2>2. given' \in [Confs -> SUBSET (1 .. records')]
    <3>1. \A d \in Confs : given'[d] \subseteq 1 .. id
      <4> TAKE d \in Confs
      <4>1. given[d] \subseteq 1 .. records /\ id \in 1 .. id
        BY <1>3, <1>5
      <4> QED
        BY <1>3, <1>5, <4>1
    <3>2. given' = [d \in Confs |-> given'[d]]
      BY <1>2, <1>5
    <3> QED
      BY <1>2, <3>1, <3>2
  <2>3. pos' \in Nat /\ records' \in 0 .. MaxRecords
    BY <1>2, <1>3
  <2> QED
    BY <1>1, <1>2, <2>1, <2>2, <2>3 DEF TypeOK, Parts, Files, SinkType, TargetKey
<1>8. RouteInv' /\ StreamInv'
  BY <1>1, <1>2, RouteFrame, StreamFrame
<1>9. PlaceInv'
  <2>1. pos' \in 1 .. Len(customSinks') + 1
    <3>1. Len(customSinks) \in Nat
      BY <1>1, LenProperties DEF TypeOK
    <3> QED
      BY <1>2, <3>1
  <2>2. rec'.id = records' /\ records' > 0 /\ rec'.name \in Names /\ route'[rec'.name] # 0
    BY <1>2, <1>3
  <2>3. \A d \in Confs : records' \in given'[d] <=> d = channelConf'[rec'.name]
    <3>1. channelConf'[rec'.name] = conf
      BY <1>2 DEF conf
    <3> QED
      BY <1>2, <1>3, <1>5, <3>1
  <2>4. ~ off' > 0
    BY <1>2, <1>3
  <2> QED
    BY <1>2, <1>6, <2>1, <2>2, <2>3, <2>4 DEF PlaceInv
<1>10. OrderInv'
  <2>1. /\ \A d \in Confs : InOrder(written[d]) /\ Ids(written[d]) \subseteq given[d]
        /\ \A i \in 1 .. Len(configuredSinks) :
              InOrder(Outgoing(i)) /\ Ids(Outgoing(i)) \subseteq given[configuredSinks[i].conf]
    BY <1>1, <1>4 DEF OrderInv
  <2>2. \A d \in Confs : given[d] \subseteq given'[d] /\ id \notin given[d]
    BY <1>3, <1>5
  <2>3. \A i : Outgoing(i)' = Outgoing(i)
    BY <1>2 DEF Outgoing
  <2>4. off' = 0 /\ rec'.id = id
    BY <1>2, <1>3
  <2>5. \A i \in 1 .. Len(configuredSinks) : id \notin Ids(Outgoing(i))
    BY <1>4, <2>1, <2>2
  <2> QED
    BY <1>2, <1>4, <2>1, <2>2, <2>3, <2>4, <2>5 DEF OrderInv
<1>11. KeptInv'
  <2>1. ASSUME NEW d \in Confs, NEW m \in given'[d] \ refused'[d], NEW k \in 1 .. LineSize
        PROVE  Taken(d, <<m, k>>)' \/ (InHand' /\ m = rec'.id /\ k > off')
    <3>1. CASE m = id
      BY <1>2, <1>3, <1>6, <3>1
    <3>2. CASE m # id
      <4>1. m \in given[d] \ refused[d]
        BY <1>2, <1>5, <3>2
      <4>2. Taken(d, <<m, k>>)
        BY <1>1, <1>6, <4>1 DEF KeptInv
      <4> QED
        BY <1>2, <4>2 DEF Taken
    <3> QED
      BY <3>1, <3>2
  <2> QED
    BY <2>1 DEF KeptInv
<1>12. PassInv' /\ ClosedInv' /\ BaseInv'
  <2>1. PassInv' /\ ClosedInv'
    BY <1>2, <1>6 DEF PassInv, ClosedInv
  <2>2. BaseInv'
    BY <1>1, <1>2, BaseFrame
  <2> QED
    BY <2>1, <2>2
<1>13. CustomInv'
  <2>1. Rounds' = Rounds
    <3>1. id - 1 = records
      BY <1>3 DEF id
    <3> QED
      BY <1>2, <1>6, <3>1 DEF Rounds
  <2>2. \A c : Places(c)' = Places(c) /\ PlacesDone(c)' = PlacesDone(c)
    <3>1. \A c : Places(c)' = Places(c)
      BY <1>2 DEF Places
    <3>2. \A c : PlacesDone(c) = {}
      BY <1>6 DEF PlacesDone
    <3>3. \A c : PlacesDone(c)' = {}
      <4>1. DOMAIN customSinks' = 1 .. Len(customSinks') /\ Len(customSinks') \in Nat
        BY <1>7, LenProperties DEF TypeOK
      <4> QED
        BY <1>2, <4>1 DEF PlacesDone, Places
    <3> QED
      BY <3>1, <3>2, <3>3
  <2> QED
    BY <1>1, <1>2, <2>1, <2>2 DEF CustomInv
<1> QED
  BY <1>7, <1>8, <1>9, <1>10, <1>11, <1>12, <1>13 DEF SinksInv

LEMMA RenderStep ==
    ASSUME SinksInv, Render, phase \in {"running", "closing"}
    PROVE  SinksInv'
<1> USE DEF runtimeVars, customVars, historyVars
<1>1. /\ TypeOK /\ RouteInv /\ StreamInv /\ PlaceInv /\ OrderInv /\ KeptInv
      /\ PassInv /\ CustomInv /\ ClosedInv /\ BaseInv
  BY DEF SinksInv
<1>2. /\ pc = "render" /\ pc' = "write"
      /\ shown' = CachedBasename(rec.file).base /\ scratch' = CachedBasename(rec.file).scratch
      /\ UNCHANGED <<runtimeVars, rec, pos, off, asked, written, customVars, historyVars>>
  BY DEF Render
<1>3. /\ Emitting /\ Emitting' /\ ~ Flushing /\ ~ Flushing' /\ Emitting' = Emitting /\ InHand' = InHand
  BY <1>2 DEF Emitting, InHand, Flushing
<1>4. TypeOK'
  BY <1>1, <1>2 DEF TypeOK, Parts, Files, SinkType, TargetKey
<1>5. PlaceInv'
  <2>1. ~ off > 0
    BY <1>1, <1>2 DEF PlaceInv
  <2> QED
    BY <1>1, <1>2, <1>3, <2>1 DEF PlaceInv
<1>6. RouteInv' /\ StreamInv'
  BY <1>1, <1>2, RouteFrame, StreamFrame
<1>7. OrderInv' /\ KeptInv' /\ PassInv' /\ CustomInv'
  BY <1>1, <1>2, <1>3, OrderFrame, KeptFrame, PassFrame, CustomFrame
<1>8. ClosedInv'
  BY <1>2 DEF ClosedInv
<1>9. BaseInv'
  <2> DEFINE f == rec.file
             b == CachedBasename(f)
             base == IF f \in Known THEN scratch.cache[f] ELSE AfterSlash(PathOf[f])
  <2>1. f \in Files /\ NullFile \notin DOMAIN PathOf
    BY <1>1, FilesAssumption DEF TypeOK
  <2>2. CASE f = NullFile
    <3>1. b.base = <<>> /\ b.scratch = scratch
      BY <2>2 DEF CachedBasename
    <3> QED
      BY <1>1, <1>2, <2>2, <3>1 DEF BaseInv, Files
  <2>3. CASE f # NullFile /\ f = scratch.last
    <3>1. b.base = scratch.base /\ b.scratch = scratch
      BY <2>3 DEF CachedBasename
    <3>2. b.base = AfterSlash(PathOf[f])
      BY <1>1, <2>3, <3>1 DEF BaseInv
    <3> QED
      BY <1>1, <1>2, <2>3, <3>1, <3>2 DEF BaseInv, Files
  <2>4. CASE f # NullFile /\ f # scratch.last
    <3>1. b = [base |-> base, scratch |-> [last |-> f, base |-> base, cache |-> Remember(f, base)]]
      BY <2>4 DEF CachedBasename
    <3>2. base = AfterSlash(PathOf[f])
      BY <1>1 DEF BaseInv, Known
    <3>3. f \in DOMAIN PathOf
      BY <2>1, <2>4 DEF Files
    <3>4. /\ DOMAIN Remember(f, base) = DOMAIN scratch.cache \cup {f}
          /\ \A g \in DOMAIN scratch.cache \cup {f} :
                Remember(f, base)[g] = IF g = f THEN base ELSE scratch.cache[g]
      BY DEF Remember, Known
    <3> HIDE DEF base, b, f
    <3>5. /\ b.base = base /\ b.scratch.last = f /\ b.scratch.base = base
          /\ b.scratch.cache = Remember(f, base)
      BY <3>1
    <3>6. /\ DOMAIN Remember(f, base) \subseteq DOMAIN PathOf
          /\ \A g \in DOMAIN Remember(f, base) : Remember(f, base)[g] = AfterSlash(PathOf[g])
      BY <1>1, <3>2, <3>3, <3>4 DEF BaseInv
    <3>7. /\ scratch'.last = f /\ scratch'.base = base /\ scratch'.cache = Remember(f, base)
          /\ shown' = base /\ rec'.file = f
      BY <1>2, <3>5 DEF b, f
    <3> QED
      BY <2>1, <2>4, <3>2, <3>6, <3>7 DEF BaseInv, Files
  <2> QED
    BY <2>2, <2>3, <2>4
<1> QED
  BY <1>4, <1>5, <1>6, <1>7, <1>8, <1>9 DEF SinksInv

\* The consumer leaves a sink for the next one, or is done with the record.
LEMMA PastSinkPlace ==
    ASSUME TypeOK, PlaceInv, pc = "write", phase \in {"running", "closing"}, PastSink, off' = 0,
           UNCHANGED <<phase, route, channelConf, customSinks, records, given>>
    PROVE  /\ PlaceInv' /\ ~ InHand' /\ ~ Flushing' /\ pc' # "write"
           /\ pc' \in {"idle", "render"} /\ pos' \in Nat
           /\ rec' \in [id : 0 .. MaxRecords, name : Names \cup {"none"}, file : Files]
<1>1. Emitting /\ pos \in 1 .. Len(customSinks) + 1 /\ Len(customSinks) \in Nat
  BY LenProperties DEF TypeOK, PlaceInv, Emitting
<1>2. CASE pos <= Len(customSinks)
  <2>1. pc' = "render" /\ pos' = pos + 1 /\ UNCHANGED <<rec, shown>>
    BY <1>2 DEF PastSink
  <2>2. pos' \in 1 .. Len(customSinks) + 1 /\ pos' # 1 /\ pos' \in Nat
    BY <1>1, <1>2, <2>1
  <2>3. Emitting' /\ ~ InHand' /\ ~ Flushing'
    BY <2>1, <2>2 DEF Emitting, InHand, Flushing
  <2>4. ~ off' > 0
    OBVIOUS
  <2>5. PlaceInv'
    BY <1>1, <2>1, <2>2, <2>3, <2>4 DEF PlaceInv
  <2> QED
    BY <2>1, <2>2, <2>3, <2>5 DEF TypeOK
<1>3. CASE ~ pos <= Len(customSinks)
  <2>1. pc' = "idle" /\ pos' = 0 /\ rec' = NoRecord /\ shown' = <<>>
    BY <1>3 DEF PastSink
  <2>2. ~ Emitting' /\ ~ InHand' /\ ~ Flushing'
    BY <2>1 DEF Emitting, InHand, Flushing
  <2>3. ~ off' > 0
    OBVIOUS
  <2>4. PlaceInv'
    BY <2>1, <2>2, <2>3 DEF PlaceInv
  <2>5. NoRecord \in [id : 0 .. MaxRecords, name : Names \cup {"none"}, file : Files]
    BY SizesAssumption DEF NoRecord, Files
  <2> QED
    BY <2>1, <2>2, <2>4, <2>5
<1> QED
  BY <1>2, <1>3

-----------------------------------------------------------------------------
(* What the custom sinks are given *)

LEMMA Share ==
    ASSUME NEW t \in Nat \ {0}, NEW q \in Nat, NEW d \in 0 .. t - 1
    PROVE  (t * q + d) \div t = q
  BY Z3

LEMMA OneRoundMore == \A t \in Nat, r \in Nat \ {0} : t * (r - 1) + t = t * r /\ t * (r - 1) \in Nat
  BY Z3

\* A record goes to its configured sink first: the custom sinks do not have it yet.
LEMMA PastFirstCustom ==
    ASSUME TypeOK, PlaceInv, CustomInv, pc = "write", pos = 1, phase \in {"running", "closing"},
           PastSink, UNCHANGED <<phase, customSinks, got, synced, records>>
    PROVE  CustomInv'
<1>1. /\ Emitting /\ records \in Nat /\ records - 1 \in Nat
      /\ DOMAIN customSinks = 1 .. Len(customSinks) /\ Len(customSinks) \in Nat
  <2>1. MaxRecords \in Nat
    BY SizesAssumption
  <2>2. Emitting
    BY DEF Emitting
  <2>3. records \in 0 .. MaxRecords /\ records > 0
    BY <2>2 DEF TypeOK, PlaceInv
  <2> QED
    BY <2>1, <2>2, <2>3, LenProperties DEF TypeOK
<1>2. \A c : Places(c)' = Places(c)
  BY DEF Places
<1>3. \A c : PlacesDone(c) = {}
  BY <1>1 DEF PlacesDone, Places
<1>4. CASE 1 <= Len(customSinks)
  <2>1. pc' = "render" /\ pos' = 2
    BY <1>4 DEF PastSink
  <2>2. \A c : PlacesDone(c)' = {}
    BY <1>1, <2>1 DEF PlacesDone, Places
  <2>3. Rounds' = Rounds
    BY <1>1, <2>1 DEF Rounds, Emitting
  <2> QED
    BY <1>2, <1>3, <2>2, <2>3 DEF CustomInv
<1>5. CASE ~ 1 <= Len(customSinks)
  <2>1. 1 .. Len(customSinks) = {}
    BY <1>1, <1>5
  <2>2. \A c : Places(c) = {} /\ PlacesDone(c)' = {}
    BY <1>1, <2>1 DEF Places, PlacesDone
  <2>3. Rounds \in Nat /\ Rounds' \in Nat
    BY <1>1 DEF Rounds
  <2>4. Cardinality({}) = 0 /\ 0 * Rounds + 0 = 0 /\ 0 * Rounds' + 0 = 0
    <3>1. \A m \in Nat : 0 * m + 0 = 0
      OBVIOUS
    <3> QED
      BY <2>3, <3>1, FS_EmptySet
  <2>5. \A c \in CustomSinks : Len(got[c]) = 0 /\ synced[c] = 0
    BY <1>2, <1>3, <2>2, <2>4 DEF CustomInv
  <2>6. 1 .. 0 = {}
    OBVIOUS
  <2>7. ASSUME NEW c \in CustomSinks
        PROVE  /\ Len(got'[c]) = Cardinality(Places(c)') * Rounds' + Cardinality(PlacesDone(c)')
               /\ synced'[c] = 0 /\ Len(got'[c]) = 0
    <3>1. Places(c)' = {} /\ PlacesDone(c)' = {}
      BY <1>2, <2>2
    <3> QED
      BY <2>4, <2>5, <3>1
  <2> QED
    BY <2>6, <2>7 DEF CustomInv
<1> QED
  BY <1>4, <1>5

\* A custom sink is given the record: it has come as often as the places passed.
LEMMA GivenCustom ==
    ASSUME TypeOK, PlaceInv, CustomInv, pc = "write", pos > 1, phase \in {"running", "closing"},
           PastSink, got' = [got EXCEPT ![customSinks[pos - 1]] = Append(@, rec.id)],
           UNCHANGED <<phase, customSinks, synced, records>>
    PROVE  CustomInv' /\ got' \in [CustomSinks -> Seq(Nat)]
<1> DEFINE at == pos - 1
           one == customSinks[at]
<1>1. /\ Emitting /\ records \in Nat \ {0} /\ rec.id = records
      /\ DOMAIN customSinks = 1 .. Len(customSinks) /\ Len(customSinks) \in Nat
      /\ pos \in Nat /\ at \in 1 .. Len(customSinks) /\ one \in CustomSinks
  <2>1. MaxRecords \in Nat
    BY SizesAssumption
  <2>2. Emitting
    BY DEF Emitting
  <2>3. records \in 0 .. MaxRecords /\ records > 0 /\ rec.id = records /\ pos \in 1 .. Len(customSinks) + 1
    BY <2>2 DEF TypeOK, PlaceInv
  <2>4. DOMAIN customSinks = 1 .. Len(customSinks) /\ Len(customSinks) \in Nat
    BY LenProperties DEF TypeOK
  <2>5. at \in 1 .. Len(customSinks) /\ pos \in Nat
    BY <2>3, <2>4
  <2>6. one \in CustomSinks
    BY <2>5, ElementOfSeq DEF TypeOK
  <2> QED
    BY <2>1, <2>2, <2>3, <2>4, <2>5, <2>6
<1>2. /\ got \in [CustomSinks -> Seq(Nat)]
      /\ got' = [got EXCEPT ![one] = Append(@, records)]
  BY <1>1 DEF TypeOK
<1> HIDE DEF one
<1>3. Append(got[one], records) \in Seq(Nat)
  BY <1>1, <1>2, AppendProperties
<1>4. /\ got' \in [CustomSinks -> Seq(Nat)]
      /\ got'[one] = Append(got[one], records)
      /\ \A c \in CustomSinks : c # one => got'[c] = got[c]
  BY <1>1, <1>2, <1>3
<1>5. \A c : Places(c)' = Places(c)
  BY DEF Places
<1>6. Rounds = records - 1
  BY <1>1 DEF Rounds
\* the places passed afterwards, and the rounds
<1>7. \A c : /\ PlacesDone(c) = {k \in Places(c) : k < at}
             /\ Places(c) \subseteq 1 .. Len(customSinks)
             /\ at \in Places(c) <=> c = one
  BY <1>1 DEF PlacesDone, Places, one
<1>8. \A c : /\ IsFiniteSet(Places(c)) /\ Cardinality(Places(c)) \in Nat
             /\ IsFiniteSet(PlacesDone(c)) /\ Cardinality(PlacesDone(c)) \in Nat
  BY PlacesCounted DEF TypeOK
<1>9. \/ /\ Rounds' = records - 1
         /\ \A c : PlacesDone(c)' = {k \in Places(c) : k <= at}
      \/ /\ Rounds' = records
         /\ \A c : PlacesDone(c)' = {} /\ Places(c) = {k \in Places(c) : k <= at}
  <2>1. CASE pos <= Len(customSinks)
    <3>1. pc' = "render" /\ pos' = pos + 1
      BY <2>1 DEF PastSink
    <3>2. Emitting' /\ Rounds' = records - 1
      BY <3>1 DEF Emitting, Rounds
    <3>3. \A k \in 1 .. Len(customSinks) : k < pos' - 1 <=> k <= at
      BY <1>1, <3>1
    <3>4. \A c : PlacesDone(c)' = {k \in Places(c) : k <= at}
      <4> TAKE c
      <4>1. \A k : k \in PlacesDone(c)' <=> k \in Places(c) /\ k < pos' - 1
        BY <1>5, <3>2 DEF PlacesDone
      <4>2. \A k : k \in PlacesDone(c)' <=> k \in Places(c) /\ k <= at
        BY <1>7, <3>3, <4>1
      <4> QED
        BY <4>2
    <3> QED
      BY <3>2, <3>4
  <2>2. CASE ~ pos <= Len(customSinks)
    <3>1. pc' = "idle"
      BY <2>2 DEF PastSink
    <3>2. ~ Emitting' /\ Rounds' = records
      BY <3>1 DEF Emitting, Rounds
    <3>3. \A c : PlacesDone(c)' = {}
      BY <3>2 DEF PlacesDone
    <3>4. \A k \in 1 .. Len(customSinks) : k <= at
      BY <1>1, <2>2
    <3>5. \A c : Places(c) = {k \in Places(c) : k <= at}
      BY <1>7, <3>4
    <3> QED
      BY <3>2, <3>3, <3>5
  <2> QED
    BY <2>1, <2>2
<1> HIDE DEF at
<1> DEFINE Upto(c) == {k \in Places(c) : k <= at}
\* what each custom sink is given
<1>10. ASSUME NEW c \in CustomSinks
       PROVE  /\ Cardinality(Upto(c)) = Cardinality(PlacesDone(c)) + (IF c = one THEN 1 ELSE 0)
              /\ c = one => Cardinality(PlacesDone(c)) + 1 <= Cardinality(Places(c))
  <2>1. CASE c = one
    <3>1. Upto(c) = PlacesDone(c) \cup {at} /\ at \notin PlacesDone(c)
      <4>1. \A k \in 1 .. Len(customSinks) : (k <= at <=> k < at \/ k = at) /\ ~ at < at
        BY <1>1
      <4> QED
        BY <1>7, <2>1, <4>1
    <3>2. PlacesDone(c) \cup {at} \subseteq Places(c)
      BY <1>7, <2>1
    <3> HIDE DEF Upto
    <3>3. Cardinality(PlacesDone(c) \cup {at}) = Cardinality(PlacesDone(c)) + 1
      BY <1>8, <3>1, FS_AddElement
    <3>4. Cardinality(PlacesDone(c) \cup {at}) <= Cardinality(Places(c))
      BY <1>8, <3>2, FS_Subset
    <3>5. Cardinality(Upto(c)) = Cardinality(PlacesDone(c)) + 1
      BY <3>1, <3>3
    <3> QED
      BY <2>1, <3>3, <3>4, <3>5
  <2>2. CASE c # one
    <3>1. Upto(c) = PlacesDone(c)
      <4>1. \A k \in 1 .. Len(customSinks) : k <= at <=> k < at \/ k = at
        BY <1>1
      <4> QED
        BY <1>7, <2>2, <4>1
    <3> HIDE DEF Upto
    <3>2. Cardinality(PlacesDone(c)) \in Nat
      BY <1>8
    <3>3. Cardinality(Upto(c)) = Cardinality(PlacesDone(c)) + 0
      BY <3>1, <3>2
    <3> QED
      BY <2>2, <3>3
  <2> QED
    BY <2>1, <2>2
<1>11. ASSUME NEW c \in CustomSinks
       PROVE  Len(got'[c]) = Cardinality(Places(c)') * Rounds' + Cardinality(PlacesDone(c)')
  <2> DEFINE t == Cardinality(Places(c))
             d == Cardinality(PlacesDone(c))
             e == Cardinality(Upto(c))
  <2>1. t \in Nat /\ d \in Nat /\ e \in Nat /\ e = d + (IF c = one THEN 1 ELSE 0)
    <3>1. t \in Nat /\ d \in Nat /\ e = d + (IF c = one THEN 1 ELSE 0)
      BY <1>8, <1>10
    <3> QED
      BY <3>1
  <2>2. Len(got[c]) = t * (records - 1) + d
    BY <1>6 DEF CustomInv
  <2>3. Len(got'[c]) = Len(got[c]) + (IF c = one THEN 1 ELSE 0)
    <3>1. Len(Append(got[one], records)) = Len(got[one]) + 1
      BY <1>1, <1>2, AppendProperties
    <3>2. Len(got[c]) \in Nat
      BY <1>2, LenProperties
    <3> QED
      BY <1>4, <3>1, <3>2
  <2>4. t * (records - 1) + t = t * records /\ t * (records - 1) \in Nat
    BY <1>1, <2>1, OneRoundMore
  <2>5. Cardinality({}) = 0
    BY FS_EmptySet
  <2>6. Cardinality(Places(c)') = t
    BY <1>5
  <2>7. \/ Rounds' = records - 1 /\ Cardinality(PlacesDone(c)') = e
        \/ Rounds' = records /\ Cardinality(PlacesDone(c)') = 0 /\ t = e
    BY <1>9, <2>5
  <2> DEFINE x == t * (records - 1)
             y == t * records
  <2>8. Len(got'[c]) = x + e
    BY <2>1, <2>2, <2>3, <2>4
  <2> HIDE DEF t, d, e, x, y
  <2>9. x + t = y /\ x \in Nat
    BY <2>4 DEF x, y
  <2> QED
    BY <2>1, <2>6, <2>7, <2>8, <2>9 DEF x, y
<1>12. ASSUME NEW c \in CustomSinks, NEW k \in 1 .. Len(got'[c])
       PROVE  got'[c][k] = 1 + (k - 1) \div Cardinality(Places(c)')
  <2>1. CASE c # one \/ k \in 1 .. Len(got[c])
    <3>1. k \in 1 .. Len(got[c]) /\ got'[c][k] = got[c][k]
      <4>1. CASE c # one
        BY <1>2, <1>4, <4>1
      <4>2. CASE c = one /\ k \in 1 .. Len(got[c])
        BY <1>2, <1>4, <4>2, AppendProperties
      <4> QED
        BY <2>1, <4>1, <4>2
    <3> QED
      BY <1>5, <3>1 DEF CustomInv
  <2>2. CASE c = one /\ k \notin 1 .. Len(got[c])
    <3> DEFINE t == Cardinality(Places(c))
               d == Cardinality(PlacesDone(c))
               q == records - 1
    <3>1. t \in Nat \ {0} /\ d \in 0 .. t - 1 /\ q \in Nat
      <4>1. t \in Nat /\ d \in Nat
        BY <1>8
      <4>2. d + 1 <= t
        BY <1>10, <2>2
      <4> HIDE DEF t, d
      <4> QED
        BY <1>1, <4>1, <4>2
    <3>2. Len(got[c]) = t * q + d /\ Len(got[c]) \in Nat
      BY <1>2, <1>6, LenProperties DEF CustomInv
    <3>3. k = Len(got[c]) + 1 /\ got'[c][k] = records
      <4>1. got'[c] = Append(got[c], records) /\ got[c] \in Seq(Nat) /\ records \in Nat
        BY <1>1, <1>2, <1>4, <2>2
      <4>2. /\ Len(got'[c]) = Len(got[c]) + 1
            /\ got'[c][Len(got[c]) + 1] = records
        BY <4>1, AppendProperties
      <4>3. k = Len(got[c]) + 1
        <5> DEFINE l == Len(got[c])
        <5>1. k \in 1 .. l + 1 /\ k \notin 1 .. l /\ l \in Nat
          BY <2>2, <3>2, <4>2
        <5> HIDE DEF l
        <5>2. k = l + 1
          BY <5>1
        <5> QED
          BY <5>2 DEF l
      <4> QED
        BY <4>2, <4>3
    <3>4. (t * q + d) \div t = q
      BY <3>1, Share
    <3>5. k - 1 = t * q + d /\ 1 + q = records
      BY <1>1, <3>2, <3>3
    <3> QED
      BY <1>5, <3>3, <3>4, <3>5
  <2> QED
    BY <2>1, <2>2
<1>13. ASSUME NEW c \in CustomSinks, Places(c)' = {} PROVE synced'[c] = 0
  BY <1>5, <1>13 DEF CustomInv
<1> QED
  BY <1>4, <1>11, <1>12, <1>13 DEF CustomInv

LEMMA WriteCustomStep ==
    ASSUME SinksInv, WriteCustom, phase \in {"running", "closing"}
    PROVE  SinksInv'
<1> USE DEF runtimeVars, historyVars
<1>1. /\ TypeOK /\ RouteInv /\ StreamInv /\ PlaceInv /\ OrderInv /\ KeptInv
      /\ PassInv /\ CustomInv /\ ClosedInv /\ BaseInv
  BY DEF SinksInv
<1>2. /\ pc = "write" /\ pos > 1 /\ PastSink
      /\ got' = [got EXCEPT ![customSinks[pos - 1]] = Append(@, rec.id)]
      /\ UNCHANGED <<runtimeVars, off, scratch, asked, written, synced, historyVars>>
  BY DEF WriteCustom
<1>3. off = 0 /\ ~ InHand
  <2>1. LineSize \in Nat /\ pos # 1
    BY <1>1, <1>2, SizesAssumption DEF TypeOK
  <2> QED
    BY <1>1, <1>2, <2>1 DEF TypeOK, PlaceInv, InHand
<1>4. /\ PlaceInv' /\ ~ InHand' /\ ~ Flushing' /\ pc' # "write"
      /\ pc' \in {"idle", "render"} /\ pos' \in Nat
      /\ rec' \in [id : 0 .. MaxRecords, name : Names \cup {"none"}, file : Files]
  BY <1>1, <1>2, <1>3, PastSinkPlace
<1>5. CustomInv' /\ got' \in [CustomSinks -> Seq(Nat)]
  BY <1>1, <1>2, GivenCustom
<1>6. TypeOK'
  BY <1>1, <1>2, <1>4, <1>5 DEF TypeOK, Parts, Files, SinkType, TargetKey
<1>7. RouteInv' /\ StreamInv' /\ BaseInv'
  BY <1>1, <1>2, <1>4, RouteFrame, StreamFrame, BaseFrame
<1>8. OrderInv' /\ KeptInv'
  BY <1>1, <1>2, <1>3, <1>4, OrderFrame, KeptFrame
<1>9. PassInv' /\ ClosedInv'
  BY <1>2, <1>4 DEF PassInv, ClosedInv
<1> QED
  BY <1>4, <1>5, <1>6, <1>7, <1>8, <1>9 DEF SinksInv

-----------------------------------------------------------------------------
(* What the configured sinks are given *)

\* The sink of the record in hand.
LEMMA HereFacts ==
    ASSUME TypeOK, RouteInv, PlaceInv, Emitting
    PROVE  /\ Here \in 1 .. Len(configuredSinks) /\ configuredSinks[Here] \in SinkType
           /\ configuredSinks[Here].conf \in Confs
           /\ configuredSinks[Here].conf = channelConf[rec.name]
           /\ rec.id \in 1 .. MaxRecords /\ rec.id = records
           /\ \A d \in Confs : rec.id \in given[d] <=> d = configuredSinks[Here].conf
           /\ LineSize \in Nat /\ LineSize > 0 /\ off \in 0 .. LineSize - 1
<1>1. /\ rec.id = records /\ records > 0 /\ rec.name \in Names /\ route[rec.name] # 0
      /\ \A d \in Confs : records \in given[d] <=> d = channelConf[rec.name]
  BY DEF PlaceInv
<1>2. Here \in 1 .. Len(configuredSinks)
  <2>1. Len(configuredSinks) \in Nat /\ route[rec.name] \in 0 .. Len(configuredSinks)
    BY <1>1, LenProperties DEF TypeOK
  <2> QED
    BY <1>1, <2>1 DEF Here
<1>3. configuredSinks[Here] \in SinkType
  BY <1>2, ElementOfSeq DEF TypeOK
<1>4. configuredSinks[Here].conf \in Confs /\ configuredSinks[Here].conf = channelConf[rec.name]
  BY <1>1, <1>3 DEF SinkType, RouteInv, Here
<1>5. rec.id \in 1 .. MaxRecords
  <2>1. MaxRecords \in Nat /\ records \in 0 .. MaxRecords
    BY SizesAssumption DEF TypeOK
  <2> QED
    BY <1>1, <2>1
<1>6. LineSize \in Nat /\ LineSize > 0 /\ off \in 0 .. LineSize - 1
  BY SizesAssumption DEF TypeOK
<1> QED
  BY <1>1, <1>2, <1>3, <1>4, <1>5, <1>6

\* The next parts of the line go on where its target's parts end.
LEMMA LineGoesOn ==
    ASSUME TypeOK, RouteInv, PlaceInv, OrderInv, InHand, NEW n \in 1 .. LineSize - off,
           NEW s \in Seq(Parts), s = Outgoing(Here)
    PROVE  LET t == SubSeq(Line(rec.id), off + 1, off + n) IN
           /\ t \in Seq(Parts) /\ s \o t \in Seq(Parts)
           /\ InOrder(s \o t) /\ Ids(s \o t) \subseteq given[configuredSinks[Here].conf]
           /\ s \o t # <<>> /\ (s \o t)[Len(s \o t)] = <<rec.id, off + n>>
           /\ \A k \in 1 .. LineSize : k > off /\ k <= off + n => Contains(t, <<rec.id, k>>)
<1> DEFINE id == rec.id
           c == configuredSinks[Here].conf
           t == SubSeq(Line(id), off + 1, off + n)
<1>1. /\ Here \in 1 .. Len(configuredSinks) /\ c \in Confs
      /\ id \in 1 .. MaxRecords /\ id = records /\ id \in given[c]
      /\ LineSize \in Nat /\ off \in 0 .. LineSize - 1 /\ off \in Nat /\ n \in Nat
  <2>1. Emitting
    BY DEF InHand
  <2> QED
    BY <2>1, HereFacts
<1>2. /\ InOrder(s) /\ Ids(s) \subseteq given[c]
      /\ IF off = 0 THEN id \notin Ids(s)
         ELSE s # <<>> /\ s[Len(s)] = <<id, off>>
  <2>1. Here \in DOMAIN configuredSinks
    BY <1>1, LenProperties DEF TypeOK
  <2> QED
    BY <2>1 DEF OrderInv, Here
<1>3. given[c] \subseteq 1 .. records
  BY <1>1 DEF TypeOK
<1>4. /\ t \in Seq(Parts) /\ t # <<>> /\ Chain(t) /\ Len(t) = n
      /\ \A j \in 1 .. n : t[j] = <<id, off + j>>
      /\ Ids(t) = {id}
      /\ \A k \in off + 1 .. off + n : Contains(t, <<id, k>>)
  BY <1>1, LineParts
<1> HIDE DEF id, c, t
<1>5. n >= 1 /\ 1 \in 1 .. n /\ n \in 1 .. n /\ t[1] = <<id, off + 1>> /\ t[n] = <<id, off + n>>
  <2>1. n >= 1 /\ 1 \in 1 .. n /\ n \in 1 .. n
    BY <1>1
  <2> QED
    BY <1>4, <2>1
<1>6. IF s = <<>> THEN t[1][2] = 1 ELSE Follows(s[Len(s)], t[1])
  <2>1. CASE off = 0
    <3>1. t[1][1] = id /\ t[1][2] = 1
      BY <1>5, <2>1
    <3>2. ASSUME s # <<>> PROVE Follows(s[Len(s)], t[1])
      <4>1. Len(s) \in 1 .. Len(s) /\ DOMAIN s = 1 .. Len(s)
        BY <3>2, EmptySeq, LenProperties
      <4>2. s[Len(s)][1] \in Ids(s)
        BY <4>1 DEF Ids
      <4>3. s[Len(s)][1] \in 1 .. records /\ s[Len(s)][1] # records
        BY <1>1, <1>2, <1>3, <2>1, <4>2
      <4>4. id > s[Len(s)][1]
        BY <1>1, <4>3
      <4> QED
        BY <3>1, <4>4 DEF Follows
    <3> QED
      BY <3>1, <3>2
  <2>2. CASE off # 0
    <3>1. s # <<>> /\ s[Len(s)][1] = id /\ s[Len(s)][2] = off
      BY <1>2, <2>2
    <3>2. t[1][1] = id /\ t[1][2] = off + 1
      BY <1>5
    <3> QED
      BY <3>1, <3>2 DEF Follows
  <2> QED
    BY <2>1, <2>2
<1>7. InOrder(s \o t)
  BY <1>2, <1>4, <1>6, OrderGoesOn
<1>8. Ids(s \o t) \subseteq given[c]
  BY <1>1, <1>2, <1>4, IdsJoined
<1>9. /\ s \o t \in Seq(Parts) /\ s \o t # <<>>
      /\ (s \o t)[Len(s \o t)] = <<id, off + n>>
  <2>1. s \o t \in Seq(Parts) /\ Len(s \o t) = Len(s) + n /\ (s \o t)[Len(s) + n] = t[n]
        /\ Len(s) \in Nat
    <3>1. /\ s \o t \in Seq(Parts) /\ Len(s \o t) = Len(s) + Len(t) /\ Len(s) \in Nat
          /\ \A j \in 1 .. Len(t) : (s \o t)[Len(s) + j] = t[j]
      <4>1. s \in Seq(Parts) /\ t \in Seq(Parts)
        BY <1>4
      <4> QED
        BY <4>1, Joined
    <3>2. Len(t) = n /\ n \in 1 .. Len(t)
      BY <1>4, <1>5
    <3> QED
      BY <3>1, <3>2
  <2>2. Len(s \o t) # 0
    BY <1>5, <2>1
  <2> QED
    BY <1>5, <2>1, <2>2, EmptySeq
<1>10. \A k \in 1 .. LineSize : k > off /\ k <= off + n => Contains(t, <<id, k>>)
  <2> SUFFICES ASSUME NEW k \in 1 .. LineSize, k > off, k <= off + n PROVE Contains(t, <<id, k>>)
    OBVIOUS
  <2>1. k \in off + 1 .. off + n
    BY <1>1
  <2> QED
    BY <1>4, <2>1
<1> QED
  BY <1>4, <1>7, <1>8, <1>9, <1>10 DEF id, c, t

LEMMA SinksKept ==
    ASSUME TypeOK, RouteInv, SameSinks, SinkTypes', UNCHANGED <<route, channelConf>>
    PROVE  RouteInv' /\ DOMAIN configuredSinks' = 1 .. Len(configuredSinks)
<1>1. /\ DOMAIN configuredSinks' = 1 .. Len(configuredSinks)
      /\ DOMAIN configuredSinks = 1 .. Len(configuredSinks)
      /\ Len(configuredSinks) \in Nat
  BY LenProperties DEF SinkTypes, SameSinks, TypeOK
<1>2. \A n \in Names : route[n] # 0 => route[n] \in 1 .. Len(configuredSinks)
  BY <1>1 DEF TypeOK
<1>3. \A n \in Names : route'[n] # 0 => channelConf'[n] = configuredSinks'[route'[n]].conf
  BY <1>2 DEF RouteInv, SameSinks
<1>4. \A i \in 1 .. Len(configuredSinks) : configuredSinks'[i].key = TargetKey(configuredSinks'[i].conf)
  BY <1>1 DEF RouteInv, SameSinks
<1>5. \A i, j \in 1 .. Len(configuredSinks) :
          configuredSinks'[i].conf = configuredSinks'[j].conf => i = j
  BY <1>1 DEF RouteInv, SameSinks
<1> QED
  BY <1>1, <1>3, <1>4, <1>5 DEF RouteInv, TargetKey

LEMMA TypesOfSinks ==
    ASSUME TypeOK
    PROVE  /\ SinkTypes
           /\ Len(configuredSinks) \in Nat /\ DOMAIN configuredSinks = 1 .. Len(configuredSinks)
           /\ \A i \in 1 .. Len(configuredSinks) :
                 /\ configuredSinks[i].conf \in Confs /\ configuredSinks[i].buffer \in Seq(Parts)
                 /\ written[configuredSinks[i].conf] \in Seq(Parts)
                 /\ Outgoing(i) \in Seq(Parts)
<1>1. Len(configuredSinks) \in Nat /\ DOMAIN configuredSinks = 1 .. Len(configuredSinks)
  BY LenProperties DEF TypeOK
<1>2. ASSUME NEW i \in 1 .. Len(configuredSinks)
      PROVE  /\ configuredSinks[i].conf \in Confs /\ configuredSinks[i].buffer \in Seq(Parts)
             /\ written[configuredSinks[i].conf] \in Seq(Parts)
             /\ Outgoing(i) \in Seq(Parts)
  <2>1. configuredSinks[i] \in SinkType
    BY ElementOfSeq DEF TypeOK
  <2>2. configuredSinks[i].conf \in Confs /\ configuredSinks[i].buffer \in Seq(Parts)
    BY <2>1 DEF SinkType
  <2>3. written[configuredSinks[i].conf] \in Seq(Parts)
    BY <2>2 DEF TypeOK
  <2> QED
    BY <2>2, <2>3, Joined DEF Outgoing
<1> QED
  BY <1>1, <1>2 DEF TypeOK, SinkTypes

\* A stream has been given parts that go on where it ended: everything is in order still.
LEMMA PutOrder ==
    ASSUME TypeOK, RouteInv, OrderInv, NEW i \in 1 .. Len(configuredSinks), NEW parts \in Seq(Parts),
           NEW P, NEW R, Split(i, parts, P, R), UNCHANGED given, ~ InHand',
           InOrder(Outgoing(i) \o parts),
           Ids(Outgoing(i) \o parts) \subseteq given[configuredSinks[i].conf]
    PROVE  OrderInv'
<1>1. PICK c : c = configuredSinks[i].conf
  OBVIOUS
<1>2. /\ SinkTypes /\ c \in Confs /\ DOMAIN configuredSinks = 1 .. Len(configuredSinks)
      /\ configuredSinks[i].buffer \in Seq(Parts) /\ written[c] \in Seq(Parts)
  BY <1>1, TypesOfSinks
<1>3. /\ SinkTypes' /\ SameSinks
      /\ \A j \in 1 .. Len(configuredSinks) : j # i => configuredSinks'[j] = configuredSinks[j]
      /\ \A d \in Confs : d # c => written'[d] = written[d]
  BY <1>1, <1>2, SplitTypes
<1>4. DOMAIN configuredSinks' = 1 .. Len(configuredSinks)
  BY <1>3, LenProperties DEF SinkTypes, SameSinks
<1> DEFINE all == written[c] \o (configuredSinks[i].buffer \o parts)
<1>5. InOrder(all) /\ Ids(all) \subseteq given[c]
  <2>1. Outgoing(i) \o parts = all
    <3> DEFINE w == written[c]
               b == configuredSinks[i].buffer
    <3>1. w \in Seq(Parts) /\ b \in Seq(Parts)
      BY <1>2
    <3>2. Outgoing(i) = w \o b /\ all = w \o (b \o parts)
      BY <1>1 DEF Outgoing
    <3> HIDE DEF w, b, all
    <3>3. (w \o b) \o parts = w \o (b \o parts)
      BY <3>1, Regroup
    <3> QED
      BY <3>2, <3>3
  <2> HIDE DEF all
  <2> QED
    BY <1>1, <2>1
<1>6. /\ InOrder(written'[c]) /\ Ids(written'[c]) \subseteq given[c]
      /\ InOrder(Outgoing(i)') /\ Ids(Outgoing(i)') \subseteq given[c]
  <2>1. InOrder(all) =>
            /\ InOrder(written'[c]) /\ Ids(written'[c]) \subseteq Ids(all)
            /\ InOrder(Outgoing(i)') /\ Ids(Outgoing(i)') \subseteq Ids(all)
    BY <1>1, <1>2, SplitInOrder
  <2> HIDE DEF all
  <2> QED
    BY <1>5, <2>1
<1>7. ASSUME NEW d \in Confs PROVE InOrder(written'[d]) /\ Ids(written'[d]) \subseteq given[d]
  BY <1>3, <1>6 DEF OrderInv
<1>8. ASSUME NEW j \in 1 .. Len(configuredSinks)
      PROVE  InOrder(Outgoing(j)') /\ Ids(Outgoing(j)') \subseteq given[configuredSinks'[j].conf]
  <2>1. CASE j = i
    BY <1>1, <1>3, <1>6, <2>1 DEF SameSinks
  <2>2. CASE j # i
    <3>1. configuredSinks[j].conf \in Confs /\ configuredSinks[j].conf # c
      BY <1>1, <1>2, <2>2, TypesOfSinks DEF RouteInv
    <3>2. Outgoing(j)' = Outgoing(j) /\ configuredSinks'[j].conf = configuredSinks[j].conf
      BY <1>3, <2>2, <3>1 DEF Outgoing
    <3> QED
      BY <1>2, <3>2 DEF OrderInv
  <2> QED
    BY <2>1, <2>2
<1> QED
  BY <1>4, <1>7, <1>8 DEF OrderInv

\* A stream has been given parts: nothing is lost that was not refused.
LEMMA PutKept ==
    ASSUME TypeOK, RouteInv, KeptInv, NEW i \in 1 .. Len(configuredSinks), NEW parts \in Seq(Parts),
           NEW P, NEW R, Split(i, parts, P, R), UNCHANGED given, ~ InHand',
           InHand => \A d \in Confs : rec.id \in given[d] =>
                        /\ d = configuredSinks[i].conf
                        /\ \A k \in 1 .. LineSize : Contains(parts, <<rec.id, k>>)
    PROVE  KeptInv'
<1>1. PICK c : c = configuredSinks[i].conf
  OBVIOUS
<1>2. /\ SinkTypes /\ c \in Confs /\ DOMAIN configuredSinks = 1 .. Len(configuredSinks)
  BY <1>1, TypesOfSinks
<1>3. /\ SinkTypes' /\ SameSinks
      /\ \A j \in 1 .. Len(configuredSinks) : j # i => configuredSinks'[j] = configuredSinks[j]
      /\ \A d \in Confs : d # c => written'[d] = written[d]
      /\ \A d \in Confs : refused[d] \subseteq refused'[d]
  BY <1>1, <1>2, SplitTypes
<1>4. DOMAIN configuredSinks' = 1 .. Len(configuredSinks)
  BY <1>3, LenProperties DEF SinkTypes, SameSinks
<1>5. SUFFICES ASSUME NEW d \in Confs, NEW id \in given[d] \ refused'[d], NEW k \in 1 .. LineSize
               PROVE  Taken(d, <<id, k>>)'
  BY DEF KeptInv
<1> DEFINE part == <<id, k>>
<1>6. Taken(d, part) \/ (InHand /\ id = rec.id)
  BY <1>3 DEF KeptInv
<1>7. CASE d # c
  <2>1. Taken(d, part)
    BY <1>1, <1>6, <1>7
  <2>2. CASE Contains(written[d], part)
    BY <1>3, <1>7, <2>2 DEF Taken
  <2>3. CASE \E j \in DOMAIN configuredSinks :
                configuredSinks[j].conf = d /\ Contains(configuredSinks[j].buffer, part)
    <3>1. PICK j \in 1 .. Len(configuredSinks) :
              configuredSinks[j].conf = d /\ Contains(configuredSinks[j].buffer, part)
      BY <1>2, <2>3
    <3>2. configuredSinks'[j] = configuredSinks[j]
      BY <1>1, <1>3, <1>7, <3>1
    <3> QED
      BY <1>4, <3>1, <3>2 DEF Taken
  <2> QED
    BY <2>1, <2>2, <2>3 DEF Taken
<1>8. CASE d = c
  <2>1. \/ Contains(written[c], part)
        \/ Contains(configuredSinks[i].buffer, part)
        \/ Contains(parts, part)
    <3>1. CASE Taken(d, part)
      <4>1. CASE Contains(written[d], part)
        BY <1>8, <4>1
      <4>2. CASE \E j \in DOMAIN configuredSinks :
                    configuredSinks[j].conf = d /\ Contains(configuredSinks[j].buffer, part)
        <5>1. PICK j \in DOMAIN configuredSinks :
                  configuredSinks[j].conf = d /\ Contains(configuredSinks[j].buffer, part)
          BY <4>2
        <5>2. j = i
          BY <1>1, <1>2, <1>8, <5>1 DEF RouteInv
        <5> QED
          BY <5>1, <5>2
      <4> QED
        BY <3>1, <4>1, <4>2 DEF Taken
    <3>2. CASE InHand /\ id = rec.id
      BY <3>2
    <3> QED
      BY <1>6, <3>1, <3>2
  <2> HIDE DEF part
  <2>2. Taken(c, part)' \/ part[1] \in refused'[c]
    BY <1>1, <1>2, <2>1, SplitKeeps
  <2>3. part[1] = id
    BY DEF part
  <2> QED
    BY <1>8, <2>2, <2>3 DEF part
<1> QED
  BY <1>7, <1>8

\* A stream is of a kind that holds lines back, or has nothing left.
LEMMA PutStream ==
    ASSUME TypeOK, StreamInv, NEW i \in 1 .. Len(configuredSinks), NEW parts \in Seq(Parts),
           NEW P, NEW R, Split(i, parts, P, R),
           configuredSinks[i].conf.type \in StreamTypes \/ configuredSinks'[i].buffer = <<>>
    PROVE  StreamInv'
<1>1. /\ SinkTypes /\ DOMAIN configuredSinks = 1 .. Len(configuredSinks)
  BY TypesOfSinks
<1>2. /\ SinkTypes' /\ SameSinks
      /\ \A j \in 1 .. Len(configuredSinks) : j # i => configuredSinks'[j] = configuredSinks[j]
      /\ ~ configuredSinks'[i].bad \/ configuredSinks'[i].buffer = <<>>
  BY <1>1, SplitTypes
<1>3. DOMAIN configuredSinks' = 1 .. Len(configuredSinks)
  BY <1>2, LenProperties DEF SinkTypes, SameSinks
<1>4. ASSUME NEW j \in 1 .. Len(configuredSinks),
             configuredSinks'[j].bad \/ configuredSinks'[j].conf.type \notin StreamTypes
      PROVE  configuredSinks'[j].buffer = <<>>
  <2>1. CASE j = i
    BY <1>2, <1>4, <2>1 DEF SameSinks
  <2>2. CASE j # i
    BY <1>1, <1>2, <1>4, <2>2 DEF StreamInv
  <2> QED
    BY <2>1, <2>2
<1> QED
  BY <1>3, <1>4 DEF StreamInv, StreamTypes

LEMMA WriteStreamStep ==
    ASSUME SinksInv, WriteStream, phase \in {"running", "closing"}
    PROVE  SinksInv'
<1>1. /\ TypeOK /\ RouteInv /\ StreamInv /\ PlaceInv /\ OrderInv /\ KeptInv
      /\ PassInv /\ CustomInv /\ ClosedInv /\ BaseInv
  BY DEF SinksInv
<1>2. /\ pc = "write" /\ pos = 1 /\ configuredSinks[Here].conf.type \in StreamTypes
      /\ StreamPut(Here, Line(rec.id), 0) /\ PastSink
      /\ UNCHANGED <<phase, route, channelConf, customSinks, off, scratch, asked, got, synced,
                     records, given>>
  BY DEF WriteStream, Writing, Sink, customVars
<1>3. Emitting /\ InHand
  BY <1>2 DEF Emitting, InHand
<1>4. /\ Here \in 1 .. Len(configuredSinks) /\ rec.id \in 1 .. MaxRecords
      /\ \A d \in Confs : rec.id \in given[d] <=> d = configuredSinks[Here].conf
      /\ LineSize \in Nat /\ LineSize > 0 /\ off \in 0 .. LineSize - 1
  BY <1>1, <1>3, HereFacts
<1>5. off = 0
  <2>1. configuredSinks[route[rec.name]].conf.type # "fd"
    BY <1>2 DEF StreamTypes, Here
  <2> QED
    BY <1>1, <1>4, <2>1 DEF PlaceInv
<1>6. PICK i \in 1 .. Len(configuredSinks) : i = Here
  BY <1>4
<1>7. PICK parts : parts = Line(rec.id)
  OBVIOUS
<1>8. /\ parts \in Seq(Parts)
      /\ SinkTypes /\ configuredSinks[i].buffer \in Seq(Parts)
  BY <1>1, <1>4, <1>7, WholeLine, TypesOfSinks
<1>9. PICK P, R : Split(i, parts, P, R)
  <2>1. 0 \in 0 .. Len(configuredSinks[i].buffer \o parts)
    BY <1>8, Joined
  <2>2. StreamPut(i, parts, 0)
    BY <1>2, <1>6, <1>7
  <2> QED
    BY <1>1, <1>8, <2>1, <2>2, PutSplits
<1>10. SinkTypes' /\ SameSinks
  BY <1>8, <1>9, SplitTypes
<1>11. /\ PlaceInv' /\ ~ InHand' /\ ~ Flushing' /\ pc' # "write"
       /\ pc' \in {"idle", "render"} /\ pos' \in Nat
       /\ rec' \in [id : 0 .. MaxRecords, name : Names \cup {"none"}, file : Files]
  BY <1>1, <1>2, <1>5, PastSinkPlace
<1>12. TypeOK'
  <2>1. route' \in [Names -> 0 .. Len(configuredSinks')]
    BY <1>1, <1>2, <1>10 DEF TypeOK, SameSinks
  <2> QED
    BY <1>1, <1>2, <1>10, <1>11, <2>1 DEF TypeOK, SinkTypes, Parts, Files, SinkType, TargetKey
<1>13. RouteInv' /\ StreamInv'
  BY <1>1, <1>2, <1>6, <1>8, <1>9, <1>10, SinksKept, PutStream
<1>14. OrderInv'
  <2>1. PICK s \in Seq(Parts) : s = Outgoing(Here)
    BY <1>1, <1>4, TypesOfSinks
  <2>2. LineSize \in 1 .. LineSize - off /\ off + 1 = 1 /\ off + LineSize = LineSize
    BY <1>4, <1>5
  <2>3. parts = SubSeq(Line(rec.id), off + 1, off + LineSize)
    BY <1>4, <1>7, <2>2, WholeLine
  <2>4. InOrder(s \o parts) /\ Ids(s \o parts) \subseteq given[configuredSinks[Here].conf]
    BY <1>1, <1>3, <2>1, <2>2, <2>3, LineGoesOn
  <2>5. InOrder(Outgoing(i) \o parts) /\ Ids(Outgoing(i) \o parts) \subseteq given[configuredSinks[i].conf]
    BY <1>6, <2>1, <2>4
  <2> QED
    BY <1>1, <1>2, <1>8, <1>9, <1>11, <2>5, PutOrder
<1>15. KeptInv'
  <2>1. \A k \in 1 .. LineSize : Contains(parts, <<rec.id, k>>)
    <3>1. \A k \in 1 .. LineSize : parts[k] = <<rec.id, k>>
      BY <1>7 DEF Line
    <3>2. Len(parts) = LineSize
      BY <1>4, <1>7, <1>8, LenProperties DEF Line
    <3> QED
      BY <3>1, <3>2 DEF Contains
  <2>2. \A d \in Confs : rec.id \in given[d] =>
            d = configuredSinks[i].conf /\ \A k \in 1 .. LineSize : Contains(parts, <<rec.id, k>>)
    BY <1>4, <1>6, <2>1
  <2> QED
    BY <1>1, <1>2, <1>8, <1>9, <1>11, <2>2, PutKept
<1>16. CustomInv' /\ BaseInv'
  BY <1>1, <1>2, <1>11, PastFirstCustom, BaseFrame
<1>17. PassInv' /\ ClosedInv'
  BY <1>2, <1>11 DEF PassInv, ClosedInv
<1> QED
  BY <1>11, <1>12, <1>13, <1>14, <1>15, <1>16, <1>17 DEF SinksInv

LEMMA FlushStreamStep ==
    ASSUME SinksInv, FlushStream, phase \in {"running", "closing"}
    PROVE  SinksInv'
<1>1. /\ TypeOK /\ RouteInv /\ StreamInv /\ PlaceInv /\ OrderInv /\ KeptInv
      /\ PassInv /\ CustomInv /\ ClosedInv /\ BaseInv
  BY DEF SinksInv
<1>2. /\ pc \in {"flush", "finalFlush"} /\ pos <= Len(configuredSinks)
      /\ StreamPut(pos, <<>>, Len(configuredSinks[pos].buffer)) /\ pos' = pos + 1
      /\ UNCHANGED <<phase, route, channelConf, customSinks, pc, rec, off, scratch, shown,
                     asked, got, synced, records, given>>
  BY DEF FlushStream, customVars
<1>3. /\ ~ Emitting /\ ~ InHand /\ ~ InHand' /\ Flushing /\ Flushing' /\ Emitting' = Emitting
  BY <1>2 DEF Emitting, InHand, Flushing
<1>4. /\ Len(configuredSinks) \in Nat /\ Len(customSinks) \in Nat
      /\ DOMAIN configuredSinks = 1 .. Len(configuredSinks) /\ DOMAIN customSinks = 1 .. Len(customSinks)
      /\ pos \in 1 .. Len(configuredSinks)
  <2>1. /\ Len(configuredSinks) \in Nat /\ Len(customSinks) \in Nat
        /\ DOMAIN configuredSinks = 1 .. Len(configuredSinks) /\ DOMAIN customSinks = 1 .. Len(customSinks)
    BY <1>1, LenProperties DEF TypeOK
  <2>2. pos \in 1 .. Len(configuredSinks) + Len(customSinks) + 1
    BY <1>1, <1>3 DEF PlaceInv
  <2> QED
    BY <1>2, <2>1, <2>2
<1>5. PICK i \in 1 .. Len(configuredSinks) : i = pos
  BY <1>4
<1>6. PICK parts \in Seq(Parts) : parts = <<>>
  BY EmptySeq
<1>7. /\ SinkTypes /\ configuredSinks[i].buffer \in Seq(Parts) /\ Outgoing(i) \in Seq(Parts)
  BY <1>1, TypesOfSinks
<1>8. configuredSinks[i].buffer \o parts = configuredSinks[i].buffer
      /\ Outgoing(i) \o parts = Outgoing(i)
  BY <1>6, <1>7, NothingJoined
<1>9. PICK P, R : Split(i, parts, P, R) /\ configuredSinks'[i].buffer = <<>>
  <2> DEFINE n == Len(configuredSinks[i].buffer)
  <2>1. n \in 0 .. n
    BY <1>7, LenProperties
  <2>2. n \in 0 .. Len(configuredSinks[i].buffer \o parts) /\ n = Len(configuredSinks[i].buffer \o parts)
    BY <1>8, <2>1
  <2>3. StreamPut(i, parts, n)
    BY <1>2, <1>5, <1>6
  <2> HIDE DEF n
  <2> QED
    BY <1>1, <1>7, <2>2, <2>3, PutSplits
<1>10. SinkTypes' /\ SameSinks
       /\ \A j \in 1 .. Len(configuredSinks) : j # i => configuredSinks'[j] = configuredSinks[j]
  BY <1>7, <1>9, SplitTypes
<1>11. TypeOK'
  <2>1. route' \in [Names -> 0 .. Len(configuredSinks')]
    BY <1>1, <1>2, <1>10 DEF TypeOK, SameSinks
  <2>2. pos' \in Nat
    BY <1>2, <1>4
  <2> QED
    BY <1>1, <1>2, <1>10, <2>1, <2>2 DEF TypeOK, SinkTypes, Parts, Files, SinkType, TargetKey
<1>12. RouteInv' /\ StreamInv' /\ DOMAIN configuredSinks' = 1 .. Len(configuredSinks)
  BY <1>1, <1>2, <1>9, <1>10, SinksKept, PutStream
<1>13. PlaceInv'
  <2>1. pos' \in 1 .. Len(configuredSinks') + Len(customSinks') + 1
    BY <1>2, <1>4, <1>10 DEF SameSinks
  <2>2. ~ off > 0
    BY <1>1, <1>2 DEF PlaceInv
  <2>3. pc' \in {"flush", "finalFlush"} /\ ~ Emitting' /\ rec' = NoRecord
    BY <1>1, <1>2, <1>3 DEF PlaceInv
  <2> QED
    BY <1>2, <2>1, <2>2, <2>3 DEF PlaceInv
<1>14. OrderInv'
  <2>1. InOrder(Outgoing(i)) /\ Ids(Outgoing(i)) \subseteq given[configuredSinks[i].conf]
    BY <1>1, <1>4 DEF OrderInv
  <2>2. InOrder(Outgoing(i) \o parts) /\ Ids(Outgoing(i) \o parts) \subseteq given[configuredSinks[i].conf]
    BY <1>8, <2>1
  <2> QED
    BY <1>1, <1>2, <1>3, <1>9, <2>2, PutOrder
<1>15. KeptInv'
  BY <1>1, <1>2, <1>3, <1>9, PutKept
<1>16. PassInv'
  <2>1. \A j \in 1 .. Len(configuredSinks) : j < pos + 1 => configuredSinks'[j].buffer = <<>>
    <3> TAKE j \in 1 .. Len(configuredSinks)
    <3>1. CASE j = i
      BY <1>9, <3>1
    <3>2. CASE j # i
      <4>1. j < pos + 1 => j < pos
        BY <1>4, <1>5, <3>2
      <4> QED
        BY <1>1, <1>3, <1>4, <1>10, <3>2, <4>1 DEF PassInv
    <3> QED
      BY <3>1, <3>2
  <2>2. \A j \in 1 .. Len(customSinks) : ~ j + Len(configuredSinks) < pos + 1
    BY <1>4
  <2> QED
    BY <1>2, <1>4, <1>10, <1>12, <2>1, <2>2 DEF PassInv, SameSinks
<1>17. CustomInv' /\ BaseInv'
  BY <1>1, <1>2, <1>3, CustomFrame, BaseFrame
<1>18. ClosedInv'
  BY <1>2 DEF ClosedInv
<1> QED
  BY <1>11, <1>12, <1>13, <1>14, <1>15, <1>16, <1>17, <1>18 DEF SinksInv

LEMMA FlushCustomStep ==
    ASSUME SinksInv, FlushCustom, phase \in {"running", "closing"}
    PROVE  SinksInv'
<1> DEFINE i == pos - Len(configuredSinks)
<1>1. /\ TypeOK /\ RouteInv /\ StreamInv /\ PlaceInv /\ OrderInv /\ KeptInv
      /\ PassInv /\ CustomInv /\ ClosedInv /\ BaseInv
  BY DEF SinksInv
<1>2. /\ pc \in {"flush", "finalFlush"} /\ i > 0 /\ i <= Len(customSinks)
      /\ synced' = [synced EXCEPT ![customSinks[i]] = Len(got[customSinks[i]])]
      /\ pos' = pos + 1
      /\ UNCHANGED <<phase, configuredSinks, route, channelConf, customSinks, pc, rec, off, scratch,
                     shown, asked, written, got, records, given, refused>>
  BY DEF FlushCustom, runtimeVars, historyVars
<1>3. /\ ~ Emitting /\ ~ InHand /\ ~ InHand' /\ Flushing /\ Flushing' /\ Emitting' = Emitting
  BY <1>2 DEF Emitting, InHand, Flushing
<1>4. /\ Len(configuredSinks) \in Nat /\ Len(customSinks) \in Nat
      /\ DOMAIN configuredSinks = 1 .. Len(configuredSinks) /\ DOMAIN customSinks = 1 .. Len(customSinks)
      /\ i \in 1 .. Len(customSinks) /\ pos \in Nat
  <2>1. /\ Len(configuredSinks) \in Nat /\ Len(customSinks) \in Nat
        /\ DOMAIN configuredSinks = 1 .. Len(configuredSinks) /\ DOMAIN customSinks = 1 .. Len(customSinks)
        /\ pos \in Nat
    BY <1>1, LenProperties DEF TypeOK
  <2> QED
    BY <1>2, <2>1
<1>5. PICK c \in CustomSinks : c = customSinks[i]
  BY <1>1, <1>4, ElementOfSeq DEF TypeOK
<1>6. /\ synced' \in [CustomSinks -> Nat]
      /\ synced'[c] = Len(got[c])
      /\ \A d \in CustomSinks : d # c => synced'[d] = synced[d]
  <2>1. Len(got[c]) \in Nat
    BY <1>1, LenProperties DEF TypeOK
  <2>2. synced \in [CustomSinks -> Nat] /\ synced' = [synced EXCEPT ![c] = Len(got[c])]
    BY <1>1, <1>2, <1>5 DEF TypeOK
  <2> QED
    BY <2>1, <2>2
<1>7. TypeOK'
  <2>1. pos' \in Nat
    BY <1>2, <1>4
  <2> QED
    BY <1>1, <1>2, <1>6, <2>1 DEF TypeOK, Parts, Files, SinkType, TargetKey
<1>8. PlaceInv'
  <2>1. pos' \in 1 .. Len(configuredSinks') + Len(customSinks') + 1
    BY <1>2, <1>4
  <2>2. ~ off > 0
    BY <1>1, <1>2 DEF PlaceInv
  <2>3. pc' \in {"flush", "finalFlush"} /\ ~ Emitting' /\ rec' = NoRecord
    BY <1>1, <1>2, <1>3 DEF PlaceInv
  <2> QED
    BY <1>2, <2>1, <2>2, <2>3 DEF PlaceInv
<1>9. RouteInv' /\ StreamInv' /\ BaseInv'
  BY <1>1, <1>2, RouteFrame, StreamFrame, BaseFrame
<1>10. OrderInv' /\ KeptInv'
  BY <1>1, <1>2, <1>3, OrderFrame, KeptFrame
<1>11. PassInv'
  <2>1. \A j \in 1 .. Len(configuredSinks) : j < pos
    BY <1>2, <1>4
  <2>2. \A j \in 1 .. Len(configuredSinks) : configuredSinks'[j].buffer = <<>>
    BY <1>1, <1>2, <1>3, <1>4, <2>1 DEF PassInv
  <2>3. ASSUME NEW j \in 1 .. Len(customSinks), j + Len(configuredSinks) < pos + 1
        PROVE  synced'[customSinks[j]] = Len(got[customSinks[j]])
    <3>1. customSinks[j] \in CustomSinks
      BY <1>1, ElementOfSeq DEF TypeOK
    <3>2. CASE customSinks[j] = c
      BY <1>6, <3>2
    <3>3. CASE customSinks[j] # c
      <4>1. j # i
        BY <1>5, <3>3
      <4>2. j + Len(configuredSinks) < pos
        BY <1>4, <2>3, <4>1
      <4> QED
        BY <1>1, <1>3, <1>4, <1>6, <3>1, <3>3, <4>2 DEF PassInv
    <3> QED
      BY <3>2, <3>3
  <2> QED
    BY <1>2, <1>4, <2>2, <2>3 DEF PassInv
<1>12. CustomInv'
  <2>1. \A d : Places(d)' = Places(d) /\ PlacesDone(d)' = PlacesDone(d)
    BY <1>2, <1>3 DEF Places, PlacesDone
  <2>2. Rounds' = Rounds
    BY <1>2, <1>3 DEF Rounds
  <2>3. Places(c) # {}
    BY <1>4, <1>5 DEF Places
  <2> QED
    BY <1>1, <1>2, <1>6, <2>1, <2>2, <2>3 DEF CustomInv
<1>13. ClosedInv'
  BY <1>2 DEF ClosedInv
<1> QED
  BY <1>7, <1>8, <1>9, <1>10, <1>11, <1>12, <1>13 DEF SinksInv

\* A sink that holds nothing back passes on the next parts of the line.
LEMMA EmitStep ==
    ASSUME SinksInv, pc = "write", pos = 1, phase \in {"running", "closing"},
           configuredSinks[Here].conf.type \notin StreamTypes,
           NEW n \in 1 .. LineSize - off,
           Emit(configuredSinks[Here].conf, SubSeq(Line(rec.id), off + 1, off + n)),
           \/ off + n = LineSize /\ off' = 0 /\ PastSink
           \/ /\ off' = off + n /\ off + n # LineSize /\ configuredSinks[Here].conf.type = "fd"
              /\ UNCHANGED <<pc, rec, pos, shown>>,
           UNCHANGED <<runtimeVars, scratch, asked, customVars, historyVars>>
    PROVE  SinksInv'
<1> USE DEF runtimeVars, customVars, historyVars
<1>1. /\ TypeOK /\ RouteInv /\ StreamInv /\ PlaceInv /\ OrderInv /\ KeptInv
      /\ PassInv /\ CustomInv /\ ClosedInv /\ BaseInv
  BY DEF SinksInv
<1>2. Emitting /\ InHand /\ ~ Flushing
  BY DEF Emitting, InHand, Flushing
<1>3. /\ Here \in 1 .. Len(configuredSinks) /\ rec.id \in 1 .. MaxRecords
      /\ \A d \in Confs : rec.id \in given[d] <=> d = configuredSinks[Here].conf
      /\ LineSize \in Nat /\ LineSize > 0 /\ off \in 0 .. LineSize - 1 /\ off \in Nat /\ n \in Nat
      /\ n > 0 /\ off + n <= LineSize
  BY <1>1, <1>2, HereFacts
<1>4. PICK i \in 1 .. Len(configuredSinks) : i = Here
  BY <1>3
<1>5. PICK c \in Confs : c = configuredSinks[i].conf
  BY <1>1, <1>4, TypesOfSinks
<1>6. /\ DOMAIN configuredSinks = 1 .. Len(configuredSinks)
      /\ written[c] \in Seq(Parts) /\ configuredSinks[i].buffer = <<>>
  BY <1>1, <1>4, <1>5, TypesOfSinks DEF StreamInv
<1>7. PICK t : t = SubSeq(Line(rec.id), off + 1, off + n)
  OBVIOUS
<1>8. PICK s \in Seq(Parts) : s = written[c]
  BY <1>6
<1>9. Outgoing(i) = s
  BY <1>5, <1>6, <1>8, NothingJoined DEF Outgoing
<1>10. /\ t \in Seq(Parts) /\ s \o t \in Seq(Parts)
       /\ InOrder(s \o t) /\ Ids(s \o t) \subseteq given[c]
       /\ s \o t # <<>> /\ (s \o t)[Len(s \o t)] = <<rec.id, off + n>>
       /\ \A k \in 1 .. LineSize : k > off /\ k <= off + n => Contains(t, <<rec.id, k>>)
  <2>1. s = Outgoing(Here)
    BY <1>4, <1>9
  <2> QED
    BY <1>1, <1>2, <1>4, <1>5, <1>7, <2>1, LineGoesOn
<1>11. PICK u \in Seq(Parts) : u = s \o t
  BY <1>10
<1>12. /\ written' = [written EXCEPT ![c] = u]
       /\ written' \in [Confs -> Seq(Parts)]
       /\ written'[c] = u /\ \A d \in Confs : d # c => written'[d] = written[d]
  <2>1. written' = [written EXCEPT ![c] = u]
    BY <1>4, <1>5, <1>7, <1>8, <1>11 DEF Emit
  <2>2. written \in [Confs -> Seq(Parts)]
    BY <1>1 DEF TypeOK
  <2> QED
    BY <2>1, <2>2
<1>13. /\ InOrder(u) /\ Ids(u) \subseteq given[c] /\ u # <<>> /\ u[Len(u)] = <<rec.id, off + n>>
       /\ \A part : Contains(u, part) <=> Contains(s, part) \/ Contains(t, part)
  BY <1>10, <1>11, ContainsJoined
\* where the consumer is afterwards
<1>14. /\ PlaceInv' /\ ~ Flushing' /\ pos' \in Nat /\ off' \in 0 .. LineSize - 1
       /\ pc' \in {"idle", "render", "write"}
       /\ rec' \in [id : 0 .. MaxRecords, name : Names \cup {"none"}, file : Files]
       /\ CustomInv' /\ BaseInv'
       /\ InHand' => /\ off' = off + n /\ UNCHANGED <<pc, rec, pos>>
       /\ ~ InHand' => off + n = LineSize
  <2>1. CASE off + n = LineSize /\ off' = 0 /\ PastSink
    <3>1. /\ PlaceInv' /\ ~ InHand' /\ ~ Flushing' /\ pc' # "write"
          /\ pc' \in {"idle", "render"} /\ pos' \in Nat
          /\ rec' \in [id : 0 .. MaxRecords, name : Names \cup {"none"}, file : Files]
      BY <1>1, <2>1, PastSinkPlace
    <3>2. CustomInv' /\ BaseInv'
      BY <1>1, <2>1, <3>1, PastFirstCustom, BaseFrame
    <3>3. off' \in 0 .. LineSize - 1
      BY <1>3, <2>1
    <3> QED
      BY <2>1, <3>1, <3>2, <3>3
  <2>2. CASE /\ off' = off + n /\ off + n # LineSize /\ configuredSinks[Here].conf.type = "fd"
             /\ UNCHANGED <<pc, rec, pos, shown>>
    <3>1. Emitting' /\ InHand' /\ ~ Flushing' /\ Emitting' = Emitting
      BY <2>2 DEF Emitting, InHand, Flushing
    <3>2. off' \in 0 .. LineSize - 1
      <4>1. LineSize \in Nat /\ off \in Nat /\ n \in Nat /\ off + n <= LineSize
        BY <1>3
      <4> QED
        BY <2>2, <4>1
    <3>3. configuredSinks'[route'[rec'.name]].conf.type = "fd"
      BY <2>2 DEF Here
    <3>4. PlaceInv'
      BY <1>1, <1>2, <2>2, <3>1, <3>3 DEF PlaceInv
    <3>5. CustomInv' /\ BaseInv'
      BY <1>1, <2>2, <3>1, CustomFrame, BaseFrame
    <3> QED
      BY <1>1, <2>2, <3>1, <3>2, <3>4, <3>5 DEF TypeOK
  <2> QED
    BY <2>1, <2>2
<1>15. TypeOK'
  BY <1>1, <1>12, <1>14 DEF TypeOK, Parts, Files, SinkType, TargetKey
<1>16. RouteInv' /\ StreamInv'
  BY <1>1, RouteFrame, StreamFrame
<1>17. OrderInv'
  <2>1. ASSUME NEW d \in Confs PROVE InOrder(written'[d]) /\ Ids(written'[d]) \subseteq given[d]
    BY <1>1, <1>12, <1>13 DEF OrderInv
  <2>2. Outgoing(i)' = u
    BY <1>5, <1>6, <1>11, <1>12, NothingJoined DEF Outgoing
  <2>3. ASSUME NEW j \in 1 .. Len(configuredSinks), j # i PROVE Outgoing(j)' = Outgoing(j)
    <3>1. configuredSinks[j].conf \in Confs /\ configuredSinks[j].conf # c
      BY <1>1, <1>5, <1>6, <2>3, TypesOfSinks DEF RouteInv
    <3> QED
      BY <1>12, <3>1 DEF Outgoing
  <2>4. ASSUME NEW j \in 1 .. Len(configuredSinks)
        PROVE  InOrder(Outgoing(j)') /\ Ids(Outgoing(j)') \subseteq given[configuredSinks[j].conf]
    <3>1. CASE j = i
      BY <1>5, <1>13, <2>2, <3>1
    <3>2. CASE j # i
      BY <1>1, <1>6, <2>3, <3>2 DEF OrderInv
    <3> QED
      BY <3>1, <3>2
  <2>5. ASSUME NEW j \in 1 .. Len(configuredSinks), InHand', j = route'[rec'.name]
        PROVE  off' # 0 /\ Outgoing(j)' # <<>> /\ Outgoing(j)'[Len(Outgoing(j)')] = <<rec'.id, off'>>
    <3>1. j = i /\ off' = off + n /\ rec' = rec
      BY <1>4, <1>14, <2>5 DEF Here
    <3>2. off' # 0
      BY <1>3, <3>1
    <3> QED
      BY <1>13, <2>2, <3>1, <3>2
  <2> QED
    BY <1>6, <2>1, <2>4, <2>5 DEF OrderInv
<1>18. KeptInv'
  <2>1. SUFFICES ASSUME NEW d \in Confs, NEW id \in given[d] \ refused[d], NEW k \in 1 .. LineSize
                 PROVE  Taken(d, <<id, k>>)' \/ (InHand' /\ id = rec'.id /\ k > off')
    BY DEF KeptInv
  <2>2. \A part : Taken(d, part) => Taken(d, part)'
    <3> TAKE part
    <3>1. Contains(written[d], part) => Contains(written'[d], part)
      BY <1>8, <1>12, <1>13
    <3> QED
      BY <3>1 DEF Taken
  <2>3. CASE Taken(d, <<id, k>>)
    BY <2>2, <2>3
  <2>4. CASE id = rec.id /\ k > off
    <3>1. d = c
      BY <1>3, <1>4, <1>5, <2>4
    <3>2. CASE k <= off + n
      <4>1. Contains(t, <<id, k>>)
        BY <1>10, <2>4, <3>2
      <4>2. Contains(written'[d], <<id, k>>)
        BY <1>12, <1>13, <3>1, <4>1
      <4> QED
        BY <4>2 DEF Taken
    <3>3. CASE ~ k <= off + n
      <4>1. off + n # LineSize /\ k > off + n
        BY <1>3, <3>3
      <4>2. InHand' /\ off' = off + n /\ rec' = rec
        BY <1>14, <4>1
      <4> QED
        BY <2>4, <4>1, <4>2
    <3> QED
      BY <3>2, <3>3
  <2> QED
    BY <1>1, <2>3, <2>4 DEF KeptInv
<1>19. PassInv' /\ ClosedInv'
  BY <1>14 DEF PassInv, ClosedInv
<1> QED
  BY <1>14, <1>15, <1>16, <1>17, <1>18, <1>19 DEF SinksInv

\* The rest of a line is given up.
LEMMA LostStep ==
    ASSUME SinksInv, pc = "write", pos = 1, phase \in {"running", "closing"},
           Refuse(configuredSinks[Here].conf, {rec.id}), off' = 0, PastSink,
           UNCHANGED <<runtimeVars, scratch, asked, written, customVars, records, given>>
    PROVE  SinksInv'
<1> USE DEF runtimeVars, customVars
<1>1. /\ TypeOK /\ RouteInv /\ StreamInv /\ PlaceInv /\ OrderInv /\ KeptInv
      /\ PassInv /\ CustomInv /\ ClosedInv /\ BaseInv
  BY DEF SinksInv
<1>2. Emitting /\ InHand
  BY DEF Emitting, InHand
<1>3. /\ rec.id \in 1 .. MaxRecords /\ LineSize \in Nat /\ LineSize > 0
      /\ \A d \in Confs : rec.id \in given[d] <=> d = configuredSinks[Here].conf
      /\ configuredSinks[Here].conf \in Confs
  BY <1>1, <1>2, HereFacts
<1>4. /\ refused' \in [Confs -> SUBSET (1 .. MaxRecords)]
      /\ \A d \in Confs : refused[d] \subseteq refused'[d]
      /\ \A d \in Confs : rec.id \in given[d] => rec.id \in refused'[d]
  <2>1. refused \in [Confs -> SUBSET (1 .. MaxRecords)]
    BY <1>1 DEF TypeOK
  <2>2. refused' = [refused EXCEPT ![configuredSinks[Here].conf] = @ \cup {rec.id}]
    BY DEF Refuse
  <2> QED
    BY <1>3, <2>1, <2>2
<1>5. /\ PlaceInv' /\ ~ InHand' /\ ~ Flushing' /\ pc' # "write"
      /\ pc' \in {"idle", "render"} /\ pos' \in Nat
      /\ rec' \in [id : 0 .. MaxRecords, name : Names \cup {"none"}, file : Files]
  BY <1>1, PastSinkPlace
<1>6. CustomInv' /\ BaseInv'
  BY <1>1, <1>5, PastFirstCustom, BaseFrame
<1>7. TypeOK'
  <2>1. off' \in 0 .. LineSize - 1
    BY <1>3
  <2> QED
    BY <1>1, <1>4, <1>5, <2>1 DEF TypeOK, Parts, Files, SinkType, TargetKey
<1>8. RouteInv' /\ StreamInv' /\ OrderInv'
  BY <1>1, <1>5, RouteFrame, StreamFrame, OrderFrame
<1>9. KeptInv'
  <2>1. SUFFICES ASSUME NEW d \in Confs, NEW id \in given[d] \ refused'[d], NEW k \in 1 .. LineSize
                 PROVE  Taken(d, <<id, k>>)'
    BY DEF KeptInv
  <2>2. id \in given[d] \ refused[d] /\ id # rec.id
    BY <1>4
  <2>3. Taken(d, <<id, k>>)
    BY <1>1, <2>2 DEF KeptInv
  <2> QED
    BY <2>3 DEF Taken
<1>10. PassInv' /\ ClosedInv'
  BY <1>5 DEF PassInv, ClosedInv
<1> QED
  BY <1>5, <1>6, <1>7, <1>8, <1>9, <1>10 DEF SinksInv

\* A step that changes nothing.
LEMMA IdleStep ==
    ASSUME SinksInv, UNCHANGED vars
    PROVE  SinksInv'
<1> USE DEF vars, runtimeVars, consumerVars, customVars, historyVars
<1>1. /\ TypeOK /\ RouteInv /\ StreamInv /\ PlaceInv /\ OrderInv /\ KeptInv
      /\ PassInv /\ CustomInv /\ ClosedInv /\ BaseInv
  BY DEF SinksInv
<1>2. Emitting' = Emitting /\ InHand' = InHand /\ Flushing' = Flushing
  BY DEF Emitting, InHand, Flushing
<1>3. TypeOK'
  BY <1>1 DEF TypeOK, Parts, Files, SinkType, TargetKey
<1>4. PlaceInv' /\ ClosedInv'
  BY <1>1, <1>2 DEF PlaceInv, ClosedInv
<1>5. RouteInv' /\ StreamInv' /\ BaseInv'
  BY <1>1, RouteFrame, StreamFrame, BaseFrame
<1>6. OrderInv' /\ KeptInv' /\ PassInv' /\ CustomInv'
  BY <1>1, <1>2, OrderFrame, KeptFrame, PassFrame, CustomFrame
<1> QED
  BY <1>3, <1>4, <1>5, <1>6 DEF SinksInv

LEMMA WriteFdStep ==
    ASSUME SinksInv, WriteFd, phase \in {"running", "closing"}
    PROVE  SinksInv'
<1>1. /\ pc = "write" /\ pos = 1 /\ configuredSinks[Here].conf.type = "fd"
      /\ configuredSinks[Here].conf.type \notin StreamTypes
      /\ UNCHANGED <<runtimeVars, scratch, asked, customVars, records, given>>
  BY DEF WriteFd, Writing, Sink, StreamTypes
<1>2. CASE \E n \in 1 .. LineSize - off :
              /\ Emit(Sink.conf, SubSeq(Line(rec.id), off + 1, off + n))
              /\ IF off + n = LineSize THEN off' = 0 /\ PastSink
                 ELSE off' = off + n /\ UNCHANGED <<pc, rec, pos, shown>>
              /\ UNCHANGED refused
  <2>1. PICK n \in 1 .. LineSize - off :
              /\ Emit(configuredSinks[Here].conf, SubSeq(Line(rec.id), off + 1, off + n))
              /\ \/ off + n = LineSize /\ off' = 0 /\ PastSink
                 \/ /\ off' = off + n /\ off + n # LineSize
                    /\ UNCHANGED <<pc, rec, pos, shown>>
              /\ UNCHANGED refused
    BY <1>2 DEF Sink
  <2>2. UNCHANGED <<runtimeVars, scratch, asked, customVars, historyVars>>
    BY <1>1, <2>1 DEF historyVars
  <2>3. CASE off + n = LineSize /\ off' = 0 /\ PastSink
    BY <1>1, <2>1, <2>2, <2>3, EmitStep
  <2>4. CASE /\ off' = off + n /\ off + n # LineSize
             /\ UNCHANGED <<pc, rec, pos, shown>>
    BY <1>1, <2>1, <2>2, <2>4, EmitStep
  <2> QED
    BY <2>1, <2>3, <2>4
<1>3. CASE UNCHANGED <<written, off, pc, rec, pos, shown, refused>>
  <2>1. UNCHANGED vars
    BY <1>1, <1>3 DEF vars, consumerVars, historyVars
  <2> QED
    BY <2>1, IdleStep
<1>4. CASE Refuse(Sink.conf, {rec.id}) /\ off' = 0 /\ PastSink /\ UNCHANGED written
  <2>1. Refuse(configuredSinks[Here].conf, {rec.id}) /\ off' = 0 /\ PastSink
    BY <1>4 DEF Sink
  <2>2. UNCHANGED <<runtimeVars, scratch, asked, written, customVars, records, given>>
    BY <1>1, <1>4
  <2> QED
    BY <1>1, <2>1, <2>2, LostStep
<1> QED
  BY <1>2, <1>3, <1>4 DEF WriteFd

LEMMA WriteDgramStep ==
    ASSUME SinksInv, WriteDgram, phase \in {"running", "closing"}
    PROVE  SinksInv'
<1>1. /\ pc = "write" /\ pos = 1 /\ configuredSinks[Here].conf.type = "unix_dgram"
      /\ configuredSinks[Here].conf.type \notin StreamTypes
      /\ UNCHANGED <<runtimeVars, off, scratch, asked, customVars, records, given>>
      /\ PastSink
  BY DEF WriteDgram, Writing, Sink, StreamTypes
<1>2. TypeOK /\ RouteInv /\ PlaceInv
  BY DEF SinksInv
<1>3. Emitting
  BY <1>1 DEF Emitting
<1>4. rec.id \in 1 .. MaxRecords /\ LineSize \in Nat /\ LineSize > 0 /\ off \in 0 .. LineSize - 1
  BY <1>2, <1>3, HereFacts
<1>5. off = 0 /\ off' = 0
  <2>1. configuredSinks[route[rec.name]].conf.type # "fd"
    BY <1>1 DEF Here
  <2> QED
    BY <1>1, <1>2, <1>4, <2>1 DEF PlaceInv
<1>6. CASE Emit(Sink.conf, Line(rec.id)) /\ UNCHANGED refused
  <2>1. LineSize \in 1 .. LineSize - off /\ off + 1 = 1 /\ off + LineSize = LineSize
    BY <1>4, <1>5
  <2>2. Line(rec.id) = SubSeq(Line(rec.id), off + 1, off + LineSize)
    BY <1>4, <2>1, WholeLine
  <2>3. Emit(configuredSinks[Here].conf, SubSeq(Line(rec.id), off + 1, off + LineSize))
    BY <1>6, <2>2 DEF Sink
  <2>4. UNCHANGED <<runtimeVars, scratch, asked, customVars, historyVars>>
    BY <1>1, <1>6 DEF historyVars
  <2> QED
    BY <1>1, <1>5, <2>1, <2>3, <2>4, EmitStep
<1>7. CASE Refuse(Sink.conf, {rec.id}) /\ UNCHANGED written
  <2>1. Refuse(configuredSinks[Here].conf, {rec.id})
    BY <1>7 DEF Sink
  <2>2. UNCHANGED <<runtimeVars, scratch, asked, written, customVars, records, given>>
    BY <1>1, <1>7
  <2> QED
    BY <1>1, <1>5, <2>1, <2>2, LostStep
<1> QED
  BY <1>6, <1>7 DEF WriteDgram

-----------------------------------------------------------------------------
(* The end of a flush, and of the runtime *)

LEMMA AllReached ==
    ASSUME TypeOK, PlaceInv, KeptInv, PassInv, CustomInv, Flushing, AllFlushed
    PROVE  /\ \A conf \in Confs : \A id \in given[conf] \ refused[conf], k \in 1 .. LineSize :
                 Contains(written[conf], <<id, k>>)
           /\ \A c \in CustomSinks : synced[c] = Len(got[c])
<1>1. /\ DOMAIN configuredSinks = 1 .. Len(configuredSinks) /\ Len(configuredSinks) \in Nat
      /\ DOMAIN customSinks = 1 .. Len(customSinks) /\ Len(customSinks) \in Nat
      /\ pos \in Nat /\ pos > Len(configuredSinks) + Len(customSinks)
      /\ ~ InHand /\ ~ Emitting /\ phase # "closed"
  BY LenProperties DEF TypeOK, AllFlushed, Flushing, InHand, Emitting, PlaceInv
<1>2. \A i \in DOMAIN configuredSinks : configuredSinks[i].buffer = <<>>
  <2>1. \A i \in DOMAIN configuredSinks : i < pos
    BY <1>1
  <2> QED
    BY <2>1 DEF PassInv
<1>3. ASSUME NEW conf \in Confs, NEW id \in given[conf] \ refused[conf], NEW k \in 1 .. LineSize
      PROVE  Contains(written[conf], <<id, k>>)
  <2>1. Taken(conf, <<id, k>>)
    BY <1>1 DEF KeptInv
  <2>2. \A i \in DOMAIN configuredSinks : ~ Contains(configuredSinks[i].buffer, <<id, k>>)
    BY <1>2, EmptyHoldsNothing
  <2> QED
    BY <2>1, <2>2 DEF Taken
<1>4. ASSUME NEW c \in CustomSinks PROVE synced[c] = Len(got[c])
  <2>1. CASE Places(c) = {}
    <3>1. PlacesDone(c) = {} /\ Rounds \in Nat
      <4>1. MaxRecords \in Nat /\ records \in 0 .. MaxRecords
        BY SizesAssumption DEF TypeOK
      <4> QED
        BY <1>1, <2>1, <4>1 DEF PlacesDone, Rounds
    <3>2. Len(got[c]) = 0 * Rounds + 0
      BY <1>1, <2>1, <3>1, FS_EmptySet DEF CustomInv
    <3>3. Len(got[c]) = 0
      BY <3>1, <3>2, NoneYet
    <3> QED
      BY <1>1, <2>1, <3>3 DEF CustomInv
  <2>2. CASE Places(c) # {}
    <3>1. PICK i \in 1 .. Len(customSinks) : customSinks[i] = c
      BY <1>1, <2>2 DEF Places
    <3>2. i + Len(configuredSinks) < pos
      BY <1>1
    <3> QED
      BY <1>1, <3>1, <3>2 DEF PassInv
  <2> QED
    BY <2>1, <2>2
<1> QED
  BY <1>3, <1>4

LEMMA CloseStep ==
    ASSUME SinksInv, Close
    PROVE  SinksInv'
<1>1. /\ TypeOK /\ RouteInv /\ StreamInv /\ PlaceInv /\ OrderInv /\ KeptInv
      /\ PassInv /\ CustomInv /\ ClosedInv /\ BaseInv
  BY DEF SinksInv
<1>2. /\ phase' = "closed" /\ pc' = "idle" /\ pos' = 0
      /\ configuredSinks' = <<>> /\ customSinks' = <<>>
      /\ route' = [n \in Names |-> 0] /\ channelConf' = [n \in Names |-> NoConf]
      /\ UNCHANGED <<rec, off, scratch, shown, asked, written, got, synced, records, given, refused>>
  BY DEF Close, customVars, historyVars
<1>3. /\ \A conf \in Confs : \A id \in given[conf] \ refused[conf], k \in 1 .. LineSize :
            Contains(written[conf], <<id, k>>)
      /\ \A c \in CustomSinks : synced[c] = Len(got[c])
      /\ ~ Emitting /\ pc # "write"
  <2>1. CASE phase = "closing" /\ pc = "finalFlush" /\ AllFlushed
    <3>1. Flushing /\ ~ Emitting
      BY <2>1 DEF Flushing, Emitting
    <3> QED
      BY <1>1, <2>1, <3>1, AllReached
  <2>2. CASE phase = "configuring"
    BY <1>1, <2>2, NothingGiven, EmptySeq
  <2> QED
    BY <2>1, <2>2 DEF Close
<1>4. ~ Emitting' /\ ~ InHand' /\ ~ Flushing'
  BY <1>2 DEF Emitting, InHand, Flushing
<1>5. /\ <<>> \in Seq(SinkType) /\ <<>> \in Seq(CustomSinks) /\ Len(<<>>) = 0 /\ DOMAIN <<>> = {}
  BY EmptySeq
<1>6. TypeOK'
  <2>1. route' \in [Names -> 0 .. Len(configuredSinks')]
    BY <1>2, <1>5
  <2> QED
    BY <1>1, <1>2, <1>5, <2>1 DEF TypeOK, Parts, Files, SinkType, TargetKey
<1>7. PlaceInv'
  <2>1. ~ off > 0 /\ rec = NoRecord
    BY <1>1, <1>3 DEF PlaceInv
  <2> QED
    BY <1>2, <1>4, <2>1 DEF PlaceInv
<1>8. RouteInv' /\ StreamInv'
  BY <1>2, <1>5 DEF RouteInv, StreamInv
<1>9. OrderInv'
  BY <1>1, <1>2, <1>5 DEF OrderInv
<1>10. KeptInv'
  BY <1>2, <1>3 DEF KeptInv, Taken
<1>11. PassInv' /\ ClosedInv'
  BY <1>2, <1>3, <1>4 DEF PassInv, ClosedInv
<1>12. CustomInv' /\ BaseInv'
  <2>1. CustomInv'
    BY <1>2 DEF CustomInv
  <2>2. BaseInv'
    BY <1>1, <1>2, BaseFrame
  <2> QED
    BY <2>1, <2>2
<1> QED
  BY <1>6, <1>7, <1>8, <1>9, <1>10, <1>11, <1>12 DEF SinksInv

-----------------------------------------------------------------------------
(* The invariant *)

LEMMA InitEstablishes ==
    ASSUME Init
    PROVE  SinksInv
<1> USE DEF Init, NoSinks, ConsumerStart
<1>1. <<>> \in Seq(SinkType) /\ <<>> \in Seq(CustomSinks) /\ <<>> \in Seq(Parts) /\ <<>> \in Seq(Nat)
      /\ Len(<<>>) = 0 /\ DOMAIN <<>> = {} /\ 1 .. 0 = {}
  BY EmptySeq
<1>2. ~ Emitting /\ ~ InHand /\ ~ Flushing
  BY DEF Emitting, InHand, Flushing
<1>3. MaxRecords \in Nat /\ LineSize \in Nat /\ LineSize > 0
  BY SizesAssumption
<1>4. TypeOK
  <2>1. rec \in [id : 0 .. MaxRecords, name : Names \cup {"none"}, file : Files]
    BY <1>3 DEF NoRecord, Files
  <2>2. off \in 0 .. LineSize - 1 /\ records \in 0 .. MaxRecords /\ pos \in Nat
    BY <1>3
  <2>3. route \in [Names -> 0 .. Len(configuredSinks)]
    BY <1>1
  <2> QED
    BY <1>1, <2>1, <2>2, <2>3 DEF TypeOK
<1>5. RouteInv /\ StreamInv
  BY <1>1 DEF RouteInv, StreamInv
<1>6. PlaceInv
  BY <1>1, <1>2 DEF PlaceInv
<1>7. OrderInv
  BY <1>1, EmptyInOrder, EmptyHoldsNothing DEF OrderInv
<1>8. KeptInv
  BY DEF KeptInv
<1>9. PassInv /\ ClosedInv
  BY <1>2 DEF PassInv, ClosedInv
<1>10. CustomInv
  <2>1. \A c : Places(c) = {} /\ PlacesDone(c) = {}
    BY <1>1 DEF Places, PlacesDone
  <2>2. Rounds = 0 /\ Cardinality({}) = 0
    BY <1>2, FS_EmptySet DEF Rounds
  <2>3. \A c \in CustomSinks : Len(got[c]) = 0 /\ synced[c] = 0
    BY <1>1
  <2>4. 0 * 0 + 0 = 0
    OBVIOUS
  <2>5. \A c \in CustomSinks : Len(got[c]) = Cardinality(Places(c)) * Rounds + Cardinality(PlacesDone(c))
    BY <2>1, <2>2, <2>3, <2>4
  <2> QED
    BY <1>1, <2>3, <2>5 DEF CustomInv
<1>11. BaseInv
  BY DEF BaseInv, EmptyScratch, Files
<1> QED
  BY <1>4, <1>5, <1>6, <1>7, <1>8, <1>9, <1>10, <1>11 DEF SinksInv

\* FlushWithin and CustomThrows end the process, or are a custom sink's write.
LEMMA TerminateStep ==
    ASSUME SinksInv, phase \in {"running", "closing"}, phase' = "terminated",
           UNCHANGED <<configuredSinks, route, channelConf, customSinks, consumerVars,
                       asked, written, customVars, historyVars>>
    PROVE  SinksInv'
<1>1. asked' \in BOOLEAN
  BY DEF SinksInv, TypeOK
<1> QED
  BY <1>1, PhaseStep

LEMMA ConsumerStep ==
    ASSUME SinksInv, Consumer
    PROVE  SinksInv'
<1>1. phase \in {"running", "closing"}
  BY DEF Consumer
<1>2. CASE Render
  BY <1>1, <1>2, RenderStep
<1>3. CASE WriteStream
  BY <1>1, <1>3, WriteStreamStep
<1>4. CASE WriteFd
  BY <1>1, <1>4, WriteFdStep
<1>5. CASE WriteDgram
  BY <1>1, <1>5, WriteDgramStep
<1>6. CASE WriteCustom
  BY <1>1, <1>6, WriteCustomStep
<1>7. CASE BeginFlush
  BY <1>1, <1>7, BeginStep DEF BeginFlush
<1>8. CASE FlushStream
  BY <1>1, <1>8, FlushStreamStep
<1>9. CASE FlushCustom
  BY <1>1, <1>9, FlushCustomStep
<1>10. CASE Answer
  BY <1>1, <1>10, AnswerStep
<1>11. CASE BeginFinalFlush
  BY <1>1, <1>11, BeginStep DEF BeginFinalFlush
<1>12. CASE FlushWithin
  BY <1>1, <1>6, <1>12, TerminateStep, WriteCustomStep DEF FlushWithin
<1> QED
  BY <1>2, <1>3, <1>4, <1>5, <1>6, <1>7, <1>8, <1>9, <1>10, <1>11, <1>12 DEF Consumer

\* Targets, custom sinks and the basename cache: the invariant holds at every step of
\* configuring, emitting, flushing and closing (channel.cpp, backend/sinks.hpp), for
\* any sets of channels, targets and custom sinks and any number of records.
THEOREM SinksInductive == Spec => []SinksInv
<1>1. Init => SinksInv
  BY InitEstablishes
<1>2. SinksInv /\ [Next]_vars => SinksInv'
  <2> SUFFICES ASSUME SinksInv, [Next]_vars PROVE SinksInv'
    OBVIOUS
  <2>1. CASE \E n \in Names, conf \in Confs : MakeChannel(n, conf)
    BY <2>1, MakeChannelStep
  <2>2. CASE \E c \in CustomSinks : AddSink(c)
    BY <2>2, AddSinkStep
  <2>3. CASE Start
    <3>1. /\ phase = "configuring" /\ phase' = "running"
          /\ UNCHANGED <<configuredSinks, route, channelConf, customSinks, consumerVars,
                         asked, written, customVars, historyVars>>
      BY <2>3 DEF Start
    <3>2. asked' \in BOOLEAN
      BY <3>1 DEF SinksInv, TypeOK
    <3> QED
      BY <3>1, <3>2, PhaseStep
  <2>4. CASE \E n \in Names : Take(n)
    BY <2>4, TakeStep
  <2>5. CASE Consumer
    BY <2>5, ConsumerStep
  <2>6. CASE CustomThrows
    BY <2>6, TerminateStep DEF CustomThrows
  <2>7. CASE Ask
    BY <2>7, AskStep
  <2>8. CASE BeginDestroy
    <3>1. /\ phase = "running" /\ phase' = "closing"
          /\ UNCHANGED <<configuredSinks, route, channelConf, customSinks, consumerVars,
                         asked, written, customVars, historyVars>>
      BY <2>8 DEF BeginDestroy
    <3>2. asked' \in BOOLEAN
      BY <3>1 DEF SinksInv, TypeOK
    <3> QED
      BY <3>1, <3>2, PhaseStep
  <2>9. CASE Close
    BY <2>9, CloseStep
  <2>10. CASE UNCHANGED vars
    BY <2>10, IdleStep
  <2> QED
    BY <2>1, <2>2, <2>3, <2>4, <2>5, <2>6, <2>7, <2>8, <2>9, <2>10 DEF Next
<1> QED
  BY <1>1, <1>2, PTL DEF Spec

-----------------------------------------------------------------------------
(* What the sinks promise *)

\* A target receives the lines of its own channels and no others, in order and unmixed,
\* and nothing of them is lost that the operating system did not refuse
\* (configured_sink_for_locked, emit_runtime_slot_for, the write functions).
THEOREM TargetsIntact == Spec => []TargetIntact
<1>1. SinksInv => TargetIntact
  <2> SUFFICES ASSUME SinksInv PROVE TargetIntact
    OBVIOUS
  <2>1. OrderInv /\ KeptInv
    BY DEF SinksInv
  <2>2. ASSUME NEW conf \in Confs, NEW parts \in {written[conf]} \cup
                {Outgoing(i) : i \in {k \in DOMAIN configuredSinks : configuredSinks[k].conf = conf}}
        PROVE  InOrder(parts) /\ Ids(parts) \subseteq given[conf]
    BY <2>1, <2>2 DEF OrderInv
  <2>3. ASSUME NEW conf \in Confs, NEW id \in given[conf] \ (refused[conf] \cup {rec.id}), NEW k \in 1 .. LineSize
        PROVE  Taken(conf, <<id, k>>)
    BY <2>1, <2>3 DEF KeptInv
  <2> QED
    BY <2>2, <2>3 DEF TargetIntact
<1> QED
  BY <1>1, SinksInductive, PTL

\* When a flush is answered, and when the sinks are closed, every line has left the
\* process that was not refused, and every custom sink was told to flush after its last
\* record (flush_runtime_sinks, shutdown_runtime_state).
THEOREM FlushesReachAll == Spec => []FlushReachesAll
<1>1. SinksInv => FlushReachesAll
  <2> SUFFICES ASSUME SinksInv PROVE FlushReachesAll
    OBVIOUS
  <2>1. CASE pc \in {"flush", "finalFlush"} /\ AllFlushed
    BY <2>1, AllReached DEF SinksInv, Flushing, FlushReachesAll
  <2>2. CASE phase = "closed"
    BY <2>2 DEF SinksInv, ClosedInv, FlushReachesAll
  <2> QED
    BY <2>1, <2>2 DEF FlushReachesAll
<1> QED
  BY <1>1, SinksInductive, PTL

\* A custom sink sees the records of every channel, in the order the consumer takes them,
\* each as often as it was added (emit_runtime_slot_for).
THEOREM CustomSinksSeeAll == Spec => []CustomSeesAll
<1>1. SinksInv => CustomSeesAll
  <2> SUFFICES ASSUME SinksInv, pc = "idle", phase \in {"running", "closing"}, NEW c \in CustomSinks
               PROVE  got[c] = [i \in 1 .. Cardinality(Places(c)) * records |->
                                   1 + (i - 1) \div Cardinality(Places(c))]
    BY DEF CustomSeesAll, Places
  <2>1. TypeOK /\ CustomInv
    BY DEF SinksInv
  <2>2. ~ Emitting
    BY DEF Emitting
  <2>3. Rounds = records /\ PlacesDone(c) = {}
    BY <2>2 DEF Rounds, PlacesDone
  <2>4. /\ Cardinality(Places(c)) \in Nat /\ records \in Nat
    BY <2>1, PlacesCounted, SizesAssumption DEF TypeOK
  <2>5. Len(got[c]) = Cardinality(Places(c)) * records
    <3>1. Cardinality(PlacesDone(c)) = 0
      BY <2>3, FS_EmptySet
    <3>2. Len(got[c]) = Cardinality(Places(c)) * records + 0
      BY <2>1, <2>3, <3>1 DEF CustomInv
    <3>3. Cardinality(Places(c)) * records \in Nat
      BY <2>4
    <3> QED
      BY <3>2, <3>3
  <2>6. \A i \in 1 .. Len(got[c]) : got[c][i] = 1 + (i - 1) \div Cardinality(Places(c))
    BY <2>1 DEF CustomInv
  <2>7. got[c] = [i \in 1 .. Len(got[c]) |-> got[c][i]]
    BY <2>1, LenProperties DEF TypeOK
  <2> DEFINE l == Len(got[c])
             f(i) == 1 + (i - 1) \div Cardinality(Places(c))
  <2>8. got[c] = [i \in 1 .. l |-> f(i)]
    BY <2>6, <2>7
  <2> QED
    BY <2>5, <2>8
<1> QED
  BY <1>1, SinksInductive, PTL

-----------------------------------------------------------------------------
(* The base name of a path *)

\* Among numbers there is a least one.
LEMMA LeastNumber ==
    ASSUME NEW T \in SUBSET Nat, T # {}
    PROVE  \E x \in T : \A y \in T : x <= y
<1>1. PICK x \in T : \A y \in T : ~ (<<y, x>> \in OpToRel(<, Nat))
  BY WFMin, NatLessThanWellFounded
<1>2. \A y \in T : ~ (y < x)
  BY <1>1 DEF OpToRel
<1> QED
  BY <1>2

\* Among the positions of a sequence there is a last one.
LEMMA LastPosition ==
    ASSUME NEW n \in Nat, NEW T \in SUBSET (1 .. n), T # {}
    PROVE  \E i \in T : \A j \in T : j <= i
<1> DEFINE U == {k \in Nat : \E i \in T : k = n - i}
<1>1. U # {}
  <2>1. PICK i \in T : TRUE
    OBVIOUS
  <2>2. n - i \in U
    BY <2>1
  <2> QED
    BY <2>2
<1>2. PICK k \in U : \A m \in U : k <= m
  <2> HIDE DEF U
  <2> QED
    BY <1>1, LeastNumber DEF U
<1>3. PICK i \in T : k = n - i
  BY <1>2
<1>4. ASSUME NEW j \in T PROVE j <= i
  <2>1. n - j \in U
    OBVIOUS
  <2> HIDE DEF U
  <2> QED
    BY <1>2, <1>3, <2>1
<1> QED
  BY <1>4

\* What follows the last slash of a path ends it, has no slash, and comes after one.
LEMMA AfterSlashFacts ==
    ASSUME NEW path \in Seq(STRING)
    PROVE  LET b == AfterSlash(path)
               dir == Len(path) - Len(b)
           IN  IsSuffix(b, path) /\ ~ Contains(b, "/") /\ (dir > 0 => path[dir] = "/")
<1> DEFINE b == AfterSlash(path)
           slashes == {i \in DOMAIN path : path[i] = "/"}
<1>1. Len(path) \in Nat /\ DOMAIN path = 1 .. Len(path) /\ \A i \in 1 .. Len(path) : path[i] \in STRING
  BY LenProperties, ElementOfSeq
<1>2. \E last \in 0 .. Len(path) :
         /\ b \in Seq(STRING) /\ Len(b) = Len(path) - last
         /\ \A i \in 1 .. Len(path) - last : b[i] = path[last + i]
         /\ last > 0 => path[last] = "/"
         /\ \A i \in 1 .. Len(path) : path[i] = "/" => i <= last
  <2>1. CASE slashes = {}
    <3>1. b = path
      BY <2>1 DEF AfterSlash
    <3>2. 0 \in 0 .. Len(path) /\ Len(path) - 0 = Len(path) /\ \A i \in 1 .. Len(path) : 0 + i = i
      BY <1>1
    <3>3. \A i \in 1 .. Len(path) : path[i] # "/"
      BY <1>1, <2>1
    <3> HIDE DEF b
    <3> WITNESS 0 \in 0 .. Len(path)
    <3> QED
      BY <1>1, <3>1, <3>2, <3>3
  <2>2. CASE slashes # {}
    <3> DEFINE last == CHOOSE i \in slashes : \A j \in slashes : j <= i
    <3>1. slashes \in SUBSET (1 .. Len(path))
      BY <1>1
    <3>2. \E i \in slashes : \A j \in slashes : j <= i
      <4> HIDE DEF slashes
      <4> QED
        BY <1>1, <2>2, <3>1, LastPosition
    <3>3. last \in slashes /\ \A j \in slashes : j <= last
      BY <3>2
    <3>4. b = SubSeq(path, last + 1, Len(path))
      BY <2>2 DEF AfterSlash
    <3> HIDE DEF last, b
    <3>5. last \in 1 .. Len(path) /\ path[last] = "/" /\ \A i \in 1 .. Len(path) : path[i] = "/" => i <= last
      BY <1>1, <3>3
    <3>6. last + 1 \in Int /\ Len(path) \in Int /\ \A i \in last + 1 .. Len(path) : path[i] \in STRING
      BY <1>1, <3>5
    <3>7. /\ b \in Seq(STRING)
          /\ Len(b) = IF last + 1 <= Len(path) THEN Len(path) - (last + 1) + 1 ELSE 0
          /\ \A i \in 1 .. Len(path) - (last + 1) + 1 : b[i] = path[last + 1 + i - 1]
      BY <3>4, <3>6, SubSeqProperties
    <3>8. /\ Len(path) - (last + 1) + 1 = Len(path) - last
          /\ ~ last + 1 <= Len(path) => Len(path) - last = 0
          /\ \A i \in 1 .. Len(path) - last : last + 1 + i - 1 = last + i
      <4> DEFINE l == Len(path)
      <4>1. l \in Nat /\ last \in 1 .. l
        BY <1>1, <3>5
      <4> HIDE DEF l
      <4>2. l - (last + 1) + 1 = l - last /\ (~ last + 1 <= l => l - last = 0)
        BY <4>1
      <4>3. \A i \in 1 .. l - last : last + 1 + i - 1 = last + i
        BY <4>1
      <4> QED
        BY <4>2, <4>3 DEF l
    <3>9. Len(b) = Len(path) - last /\ \A i \in 1 .. Len(path) - last : b[i] = path[last + i]
      BY <1>1, <3>5, <3>7, <3>8
    <3>10. last \in 0 .. Len(path)
      BY <1>1, <3>5
    <3> QED
      BY <3>5, <3>7, <3>9, <3>10
  <2> QED
    BY <2>1, <2>2
<1> HIDE DEF b
<1>3. PICK last \in 0 .. Len(path) :
         /\ b \in Seq(STRING) /\ Len(b) = Len(path) - last
         /\ \A i \in 1 .. Len(path) - last : b[i] = path[last + i]
         /\ last > 0 => path[last] = "/"
         /\ \A i \in 1 .. Len(path) : path[i] = "/" => i <= last
  BY <1>2
<1>4. Len(b) \in Nat /\ Len(b) <= Len(path) /\ Len(path) - Len(b) = last
  BY <1>1, <1>3
<1>5. ~ Contains(b, "/")
  <2> SUFFICES ASSUME NEW i \in 1 .. Len(b), b[i] = "/" PROVE FALSE
    BY DEF Contains
  <2>1. last + i \in 1 .. Len(path) /\ ~ last + i <= last /\ i \in 1 .. Len(path) - last
    BY <1>1, <1>3
  <2>2. path[last + i] = "/"
    BY <1>3, <2>1
  <2> QED
    BY <1>3, <2>1, <2>2
<1>6. IsSuffix(b, path)
  <2> DEFINE rb == Reverse(b)
             rp == Reverse(path)
  <2>1. /\ \A i \in 1 .. Len(b) : rb[i] = b[Len(b) - i + 1]
        /\ rb = [i \in 1 .. Len(b) |-> b[Len(b) - i + 1]]
        /\ \A i \in 1 .. Len(path) : rp[i] = path[Len(path) - i + 1]
        /\ rp = [i \in 1 .. Len(path) |-> path[Len(path) - i + 1]]
    BY DEF Reverse
  <2> HIDE DEF rb, rp
  <2>2. /\ \A i \in 1 .. Len(b) : rb[i] \in STRING
        /\ \A i \in 1 .. Len(path) : rp[i] \in STRING
    <3>1. \A i \in 1 .. Len(b) : Len(b) - i + 1 \in 1 .. Len(b) /\ b[Len(b) - i + 1] \in STRING
      BY <1>3, <1>4, ElementOfSeq
    <3>2. \A i \in 1 .. Len(path) : Len(path) - i + 1 \in 1 .. Len(path)
      BY <1>1
    <3> QED
      BY <1>1, <2>1, <3>1, <3>2
  <2>3. Len(rb) = Len(b) /\ Len(rp) = Len(path)
    <3>1. rb \in Seq(STRING) /\ rp \in Seq(STRING)
      <4>1. rb \in [1 .. Len(b) -> STRING] /\ rp \in [1 .. Len(path) -> STRING]
        BY <2>1, <2>2
      <4>2. Len(b) \in Nat /\ Len(path) \in Nat
        BY <1>1, <1>4
      <4>3. \A m \in Nat : \A z \in [1 .. m -> STRING] : z \in Seq(STRING)
        BY FunctionIsSeq
      <4> QED
        BY <4>1, <4>2, <4>3, Zenon
    <3>2. DOMAIN rb = 1 .. Len(b) /\ DOMAIN rp = 1 .. Len(path)
      BY <2>1
    <3> QED
      BY <1>1, <1>4, <3>1, <3>2, LenProperties
  <2>4. \A i \in 1 .. Len(b) : rb[i] = rp[i]
    <3> TAKE i \in 1 .. Len(b)
    <3>1. /\ i \in 1 .. Len(path) /\ Len(b) - i + 1 \in 1 .. Len(path) - last
          /\ last + (Len(b) - i + 1) = Len(path) - i + 1
      BY <1>1, <1>3, <1>4
    <3>2. b[Len(b) - i + 1] = path[Len(path) - i + 1]
      BY <1>3, <3>1
    <3> QED
      BY <2>1, <3>1, <3>2
  <2>5. SubSeq(rb, 1, Len(rb)) = SubSeq(rp, 1, Len(rb))
    <3> DEFINE n == Len(b)
    <3>1. n \in Nat /\ Len(rb) = n /\ \A i \in 1 .. n : rb[i] \in STRING /\ rp[i] \in STRING /\ rb[i] = rp[i]
      BY <1>1, <1>4, <2>2, <2>3, <2>4
    <3> HIDE DEF n
    <3>2. 1 \in Int /\ n \in Int /\ (1 <= n \/ n = 0) /\ n - 1 + 1 = n /\ \A i \in 1 .. n : 1 + i - 1 = i
      BY <3>1
    <3>3. /\ SubSeq(rb, 1, n) \in Seq(STRING)
          /\ Len(SubSeq(rb, 1, n)) = IF 1 <= n THEN n - 1 + 1 ELSE 0
          /\ \A i \in 1 .. n - 1 + 1 : SubSeq(rb, 1, n)[i] = rb[1 + i - 1]
      BY <3>1, <3>2, SubSeqProperties
    <3>4. /\ SubSeq(rp, 1, n) \in Seq(STRING)
          /\ Len(SubSeq(rp, 1, n)) = IF 1 <= n THEN n - 1 + 1 ELSE 0
          /\ \A i \in 1 .. n - 1 + 1 : SubSeq(rp, 1, n)[i] = rp[1 + i - 1]
      BY <3>1, <3>2, SubSeqProperties
    <3>5. SubSeq(rb, 1, n) = SubSeq(rp, 1, n)
      BY <3>1, <3>2, <3>3, <3>4, SeqEqual
    <3> QED
      BY <3>1, <3>5
  <2> QED
    BY <1>4, <2>3, <2>5 DEF IsSuffix, IsPrefix, rb, rp
<1> QED
  BY <1>3, <1>4, <1>5, <1>6 DEF b

\* The base name shown is that of the record at hand, whatever files came before
\* (cached_source_basename's memo and map): the part of its path after the last '/'.
THEOREM BasenamesFresh == Spec => []BasenameFresh
<1>1. SinksInv => BasenameFresh
  <2> SUFFICES ASSUME SinksInv, pc = "write", rec.file # NullFile
               PROVE  LET path == PathOf[rec.file]
                          dir == Len(path) - Len(shown)
                      IN  IsSuffix(shown, path) /\ ~ Contains(shown, "/") /\ (dir > 0 => path[dir] = "/")
    BY DEF SinksInv, BaseInv, BasenameFresh
  <2>1. shown = AfterSlash(PathOf[rec.file])
    BY DEF SinksInv, BaseInv
  <2>2. rec.file \in DOMAIN PathOf
    BY DEF SinksInv, TypeOK, Files
  <2>3. PathOf[rec.file] \in Seq(STRING)
    BY <2>2, FilesAssumption
  <2> QED
    BY <2>1, <2>3, AfterSlashFacts
<1> QED
  BY <1>1, SinksInductive, PTL
=============================================================================
