------------------------ MODULE HandoffPromisesProofs ------------------------
(***************************************************************************)
(* What HandoffPromises states holds for any number of threads, slots and  *)
(* records.  FlushInv is inductive together with IInv, and implies that an *)
(* answered flush is durable and has reclaimed the slots it found retired. *)
(* ShutdownInv is inductive together with both, and implies that the       *)
(* consumer exits with every debt of destroy paid, no flush left waiting   *)
(* for it, and before the sinks are reset.                                 *)
(***************************************************************************)
EXTENDS HandoffPromises, HandoffProofs, FiniteSetTheorems

USE DEF queueVars, registryVars, flushVars, controlVars, threadVars, passVars, historyVars

-----------------------------------------------------------------------------
(* Flush: what the steps below share *)

\* a slot that holds records exists
LEMMA HeldExists == ASSUME IInv, NEW s \in Slots, depth[s] > 0 PROVE s < count
  <1>1. ASSUME NEW t \in Threads, tgt[t] = s, call[t] = "log", pc[t] # "acquire" PROVE s < count
    BY <1>1, SlotFacts DEF IInv, CallInv
  <1>2. enqueued[s] => s < count
    <2>1. LogAt(s, {"publish"}) => s < count
      BY <1>1 DEF LogAt
    <2> QED
      BY <2>1 DEF IInv, EnqueuedInv, ConsumerInv, Visiting
  <1>3. LogAt(s, {"mark"}) \/ LogAt(s, {"publish"}) => s < count
    BY <1>1 DEF LogAt
  <1> QED
    BY <1>2, <1>3, SlotFacts DEF IInv, DepthInv, ConsumerInv, Visiting

\* Flushes that return owe nothing any more: nothing changes for the others when
\* the consumer and its queues stay as they are.
LEMMA OnlyTargetsFall ==
    ASSUME FlushInv,
           \A u \in Threads : target'[u] \in {target[u], 0},
           cpc' = cpc \/ (cpc = "blocked" /\ cpc' = "wait"),
           UNCHANGED <<mode, requested, flushCompleted, owed, owedSlots, durable,
                       depth, pending, stage, cur, todo>>
    PROVE  FlushPassInv' /\ ReclaimPassInv' /\ AnsweredInv'
  <1>1. FlushPass' <=> FlushPass
    BY DEF FlushPass, DrainPCs
  <1>2. ASSUME NEW u \in Threads, target'[u] > 0 PROVE target'[u] = target[u]
    BY <1>2
  <1>3. \A u \in Threads : Served(u)' => Served(u)
    BY <1>2 DEF Served
  <1>4. \A q : Coming(q)' <=> Coming(q)
    BY DEF Coming
  <1>5. FlushPassInv'
    BY <1>1, <1>3, <1>4 DEF FlushInv, FlushPassInv, FlushPass, DrainPCs
  <1>6. ReclaimPassInv'
    BY <1>1, <1>3, <1>4 DEF FlushInv, ReclaimPassInv, FlushPass, DrainPCs
  <1>7. AnsweredInv'
    BY <1>2, <1>3 DEF FlushInv, AnsweredInv, Served
  <1> QED
    BY <1>5, <1>6, <1>7

-----------------------------------------------------------------------------
(* A thread begins a call or exits *)

\* LogSingle: nothing a flush waits for is touched
LEMMA LogSingleKeepsFlush == ASSUME IInv, FlushInv, NEW t \in Threads, LogSingle(t) PROVE FlushInv'
  <1> USE DEF IInv, TypeOK, FlushInv
  <1>1. RequestInv'
    BY SlotFacts DEF LogSingle, Goto, RequestInv, NeedsConsumer, CallInv, FlushPCs, ThreadTypes,
       RuntimeTypes, ConsumerTypes
  <1>2. (OwedInv /\ OwedSlotsInv /\ WalkInv /\ FlushPassInv /\ ReclaimPassInv /\ AnsweredInv)'
    BY DEF LogSingle, Goto, OwedInv, OwedSlotsInv, WalkInv, FlushPass, DrainPCs, FlushPassInv,
       Served, Coming, ReclaimPassInv, AnsweredInv
  <1> QED
    BY <1>1, <1>2

\* LogThreadsafe: nothing a flush waits for is touched
LEMMA LogThreadsafeKeepsFlush == ASSUME IInv, FlushInv, NEW t \in Threads, LogThreadsafe(t) PROVE FlushInv'
  <1> USE DEF IInv, TypeOK, FlushInv
  <1>1. RequestInv'
    BY SlotFacts DEF LogThreadsafe, Goto, RequestInv, NeedsConsumer, CallInv, FlushPCs,
       ThreadTypes, RuntimeTypes, ConsumerTypes
  <1>2. (OwedInv /\ OwedSlotsInv /\ WalkInv /\ FlushPassInv /\ ReclaimPassInv /\ AnsweredInv)'
    BY DEF LogThreadsafe, Goto, OwedInv, OwedSlotsInv, WalkInv, FlushPass, DrainPCs,
       FlushPassInv, Served, Coming, ReclaimPassInv, AnsweredInv
  <1> QED
    BY <1>1, <1>2

\* Prewarm: nothing a flush waits for is touched
LEMMA PrewarmKeepsFlush == ASSUME IInv, FlushInv, NEW t \in Threads, Prewarm(t) PROVE FlushInv'
  <1> USE DEF IInv, TypeOK, FlushInv
  <1>1. RequestInv'
    BY SlotFacts DEF Prewarm, Goto, RequestInv, NeedsConsumer, CallInv, FlushPCs, ThreadTypes,
       RuntimeTypes, ConsumerTypes
  <1>2. (OwedInv /\ OwedSlotsInv /\ WalkInv /\ FlushPassInv /\ ReclaimPassInv /\ AnsweredInv)'
    BY DEF Prewarm, Goto, OwedInv, OwedSlotsInv, WalkInv, FlushPass, DrainPCs, FlushPassInv,
       Served, Coming, ReclaimPassInv, AnsweredInv
  <1> QED
    BY <1>1, <1>2

\* Retire: the slot was active, so no flush is owed it yet
LEMMA RetireKeepsFlush == ASSUME IInv, FlushInv, NEW t \in Threads, Retire(t) PROVE FlushInv'
  <1> USE DEF IInv, TypeOK, FlushInv
  <1>1. RequestInv'
    BY SlotFacts DEF Retire, Goto, RequestInv, NeedsConsumer, CallInv, FlushPCs, ThreadTypes,
       RuntimeTypes, ConsumerTypes
  <1>2. OwedSlotsInv'
    BY SlotFacts DEF Retire, Goto, OwedSlotsInv, HistoryTypes, QueueTypes, ConsumerInv
  <1>3. (OwedInv /\ WalkInv /\ FlushPassInv /\ ReclaimPassInv /\ AnsweredInv)'
    BY DEF Retire, Goto, OwedInv, WalkInv, FlushPass, DrainPCs, FlushPassInv, Served, Coming,
       ReclaimPassInv, AnsweredInv
  <1> QED
    BY <1>1, <1>2, <1>3

\* FlushBegin: the flush has asked for nothing yet
LEMMA FlushBeginKeepsFlush == ASSUME IInv, FlushInv, NEW t \in Threads, FlushBegin(t) PROVE FlushInv'
  <1> USE DEF IInv, TypeOK, FlushInv
  <1>1. RequestInv'
    BY SlotFacts DEF FlushBegin, Goto, RequestInv, NeedsConsumer, CallInv, FlushPCs,
       ThreadTypes, RuntimeTypes, ConsumerTypes
  <1>2. (OwedInv /\ OwedSlotsInv /\ WalkInv /\ FlushPassInv /\ ReclaimPassInv /\ AnsweredInv)'
    BY DEF FlushBegin, Goto, OwedInv, OwedSlotsInv, WalkInv, FlushPass, DrainPCs, FlushPassInv,
       Served, Coming, ReclaimPassInv, AnsweredInv
  <1> QED
    BY <1>1, <1>2

-----------------------------------------------------------------------------
(* The call goes on *)

\* AcquireFree: a free slot is owed to nobody
LEMMA AcquireFreeKeepsFlush == ASSUME IInv, FlushInv, NEW t \in Threads, AcquireFree(t) PROVE FlushInv'
  <1> USE DEF IInv, TypeOK, FlushInv
  <1>1. RequestInv'
    BY SlotFacts DEF AcquireFree, Take, Goto, Return, RequestInv, NeedsConsumer, CallInv,
       FlushPCs, ThreadTypes, RuntimeTypes, ConsumerTypes
  <1>2. OwedSlotsInv'
    BY DEF AcquireFree, Take, Goto, Return, OwedSlotsInv, QueueTypes, FreeListInv, Listed,
       HistoryTypes
  <1>3. (FlushPassInv /\ ReclaimPassInv /\ AnsweredInv)'
    <2>1. \A u \in Threads : target'[u] \in {target[u], 0}
      BY DEF AcquireFree, Take, Goto, Return, ThreadTypes
    <2> QED
      BY <2>1, OnlyTargetsFall DEF AcquireFree
  <1>4. (OwedInv /\ WalkInv)'
    BY DEF AcquireFree, Take, Goto, Return, OwedInv, WalkInv, FlushPass, DrainPCs
  <1> QED
    BY <1>1, <1>2, <1>3, <1>4

\* AcquireNew: nor is one that did not exist
LEMMA AcquireNewKeepsFlush == ASSUME IInv, FlushInv, NEW t \in Threads, AcquireNew(t) PROVE FlushInv'
  <1> USE DEF IInv, TypeOK, FlushInv
  <1>1. RequestInv'
    BY SlotFacts DEF AcquireNew, Take, Goto, Return, RequestInv, NeedsConsumer, CallInv,
       FlushPCs, ThreadTypes, RuntimeTypes, ConsumerTypes
  <1>2. OwedSlotsInv'
    BY SlotFacts DEF AcquireNew, Take, Goto, Return, OwedSlotsInv, HistoryTypes, QueueTypes,
       ConsumerInv
  <1>3. (FlushPassInv /\ ReclaimPassInv /\ AnsweredInv)'
    <2>1. \A u \in Threads : target'[u] \in {target[u], 0}
      BY DEF AcquireNew, Take, Goto, Return, ThreadTypes
    <2> QED
      BY <2>1, OnlyTargetsFall DEF AcquireNew
  <1>4. (OwedInv /\ WalkInv)'
    BY DEF AcquireNew, Take, Goto, Return, OwedInv, WalkInv, FlushPass, DrainPCs
  <1> QED
    BY <1>1, <1>2, <1>3, <1>4

\* AcquireFails: the call returns
LEMMA AcquireFailsKeepsFlush == ASSUME IInv, FlushInv, NEW t \in Threads, AcquireFails(t) PROVE FlushInv'
  <1> USE DEF IInv, TypeOK, FlushInv
  <1>1. RequestInv'
    BY SlotFacts DEF AcquireFails, Return, Goto, RequestInv, NeedsConsumer, CallInv, FlushPCs,
       ThreadTypes, RuntimeTypes, ConsumerTypes
  <1>2. (FlushPassInv /\ ReclaimPassInv /\ AnsweredInv)'
    <2>1. \A u \in Threads : target'[u] \in {target[u], 0}
      BY DEF AcquireFails, Return, Goto, ThreadTypes
    <2> QED
      BY <2>1, OnlyTargetsFall DEF AcquireFails
  <1>3. (OwedInv /\ OwedSlotsInv /\ WalkInv)'
    BY DEF AcquireFails, Return, Goto, OwedInv, OwedSlotsInv, WalkInv, FlushPass, DrainPCs
  <1> QED
    BY <1>1, <1>2, <1>3

\* Produce: the queues only grow, and not that of a retired slot
LEMMA ProduceKeepsFlush == ASSUME IInv, FlushInv, NEW t \in Threads, Produce(t) PROVE FlushInv'
  <1> USE DEF IInv, TypeOK, FlushInv
  <1>1. RequestInv'
    BY SlotFacts DEF Produce, Goto, RequestInv, NeedsConsumer, CallInv, FlushPCs, ThreadTypes,
       RuntimeTypes, ConsumerTypes
  <1>2. OwedInv'
    BY SlotFacts DEF Produce, Goto, OwedInv, HistoryTypes, QueueTypes, ConsumerInv
  <1>3. ReclaimPassInv'
    <2>1. ASSUME NEW u \in Threads, NEW s \in owedSlots[u], cpc # "push" PROVE s \in Slots /\ tgt[t] # s
      <3>1. s \in Slots /\ slotState[s] = "retired"
        BY <2>1 DEF OwedSlotsInv, HistoryTypes
      <3> QED
        BY <3>1, SlotFacts DEF Produce, Goto, CallInv, SingleProducer, Owns
    <2>2. ASSUME NEW u \in Threads, NEW s \in owedSlots[u], cpc # "push" PROVE depth'[s] = depth[s]
      BY <2>1, <2>2, SlotFacts DEF Produce, QueueTypes
    <2> QED
      BY <2>2 DEF Produce, Goto, ReclaimPassInv, FlushPass, Served, Coming, DrainPCs
  <1>4. (OwedSlotsInv /\ WalkInv /\ FlushPassInv /\ AnsweredInv)'
    BY DEF Produce, Goto, OwedSlotsInv, WalkInv, FlushPass, DrainPCs, FlushPassInv, Served,
       Coming, AnsweredInv
  <1> QED
    BY <1>1, <1>2, <1>3, <1>4

\* ProduceNothing: the call returns
LEMMA ProduceNothingKeepsFlush == ASSUME IInv, FlushInv, NEW t \in Threads, ProduceNothing(t) PROVE FlushInv'
  <1> USE DEF IInv, TypeOK, FlushInv
  <1>1. RequestInv'
    BY SlotFacts DEF ProduceNothing, Return, Goto, RequestInv, NeedsConsumer, CallInv, FlushPCs,
       ThreadTypes, RuntimeTypes, ConsumerTypes
  <1>2. (FlushPassInv /\ ReclaimPassInv /\ AnsweredInv)'
    <2>1. \A u \in Threads : target'[u] \in {target[u], 0}
      BY DEF ProduceNothing, Return, Goto, ThreadTypes
    <2> QED
      BY <2>1, OnlyTargetsFall DEF ProduceNothing
  <1>3. (OwedInv /\ OwedSlotsInv /\ WalkInv)'
    BY DEF ProduceNothing, Return, Goto, OwedInv, OwedSlotsInv, WalkInv, FlushPass, DrainPCs
  <1> QED
    BY <1>1, <1>2, <1>3

\* Mark: the flag is not what a flush goes by
LEMMA MarkKeepsFlush == ASSUME IInv, FlushInv, NEW t \in Threads, Mark(t) PROVE FlushInv'
  <1> USE DEF IInv, TypeOK, FlushInv
  <1>1. RequestInv'
    BY SlotFacts DEF Mark, Goto, Return, RequestInv, NeedsConsumer, CallInv, FlushPCs,
       ThreadTypes, RuntimeTypes, ConsumerTypes
  <1>2. (FlushPassInv /\ ReclaimPassInv /\ AnsweredInv)'
    <2>1. \A u \in Threads : target'[u] \in {target[u], 0}
      BY DEF Mark, Goto, Return, ThreadTypes
    <2> QED
      BY <2>1, OnlyTargetsFall DEF Mark
  <1>3. (OwedInv /\ OwedSlotsInv /\ WalkInv)'
    BY DEF Mark, Goto, Return, OwedInv, OwedSlotsInv, WalkInv, FlushPass, DrainPCs
  <1> QED
    BY <1>1, <1>2, <1>3

\* Publish: nor is the ready bit
LEMMA PublishKeepsFlush == ASSUME IInv, FlushInv, NEW t \in Threads, Publish(t) PROVE FlushInv'
  <1> USE DEF IInv, TypeOK, FlushInv
  <1>1. RequestInv'
    BY SlotFacts DEF Publish, Goto, PublishReadyBit, RequestInv, NeedsConsumer, CallInv,
       FlushPCs, ThreadTypes, RuntimeTypes, ConsumerTypes
  <1>2. (OwedInv /\ OwedSlotsInv /\ WalkInv /\ FlushPassInv /\ ReclaimPassInv /\ AnsweredInv)'
    BY DEF Publish, Goto, PublishReadyBit, OwedInv, OwedSlotsInv, WalkInv, FlushPass, DrainPCs,
       FlushPassInv, Served, Coming, ReclaimPassInv, AnsweredInv
  <1> QED
    BY <1>1, <1>2

\* Bump: nor is the wake ticket
LEMMA BumpKeepsFlush == ASSUME IInv, FlushInv, NEW t \in Threads, Bump(t) PROVE FlushInv'
  <1> USE DEF IInv, TypeOK, FlushInv
  <1>1. RequestInv'
    BY SlotFacts DEF Bump, Goto, RequestInv, NeedsConsumer, CallInv, FlushPCs, ThreadTypes,
       RuntimeTypes, ConsumerTypes
  <1>2. (OwedInv /\ OwedSlotsInv /\ WalkInv /\ FlushPassInv /\ ReclaimPassInv /\ AnsweredInv)'
    BY DEF Bump, Goto, OwedInv, OwedSlotsInv, WalkInv, FlushPass, DrainPCs, FlushPassInv,
       Served, Coming, ReclaimPassInv, AnsweredInv
  <1> QED
    BY <1>1, <1>2

\* Notify: a flush goes on to wait, any other call returns
LEMMA NotifyKeepsFlush == ASSUME IInv, FlushInv, NEW t \in Threads, Notify(t) PROVE FlushInv'
  <1> USE DEF IInv, TypeOK, FlushInv
  <1>1. RequestInv'
    BY SlotFacts DEF Notify, Goto, Return, NotifyConsumer, RequestInv, NeedsConsumer, CallInv,
       FlushPCs, ThreadTypes, RuntimeTypes, ConsumerTypes
  <1>2. OwedSlotsInv'
    BY SlotFacts DEF Notify, Goto, Return, NotifyConsumer, OwedSlotsInv, HistoryTypes,
       QueueTypes, ConsumerInv
  <1>3. WalkInv'
    BY SlotFacts DEF Notify, Goto, Return, NotifyConsumer, WalkInv, FlushPass, DrainPCs,
       ConsumerInv
  <1>4. (FlushPassInv /\ ReclaimPassInv /\ AnsweredInv)'
    <2>1. \A u \in Threads : target'[u] \in {target[u], 0}
      BY DEF Notify, Goto, Return, NotifyConsumer, ThreadTypes
    <2> QED
      BY <2>1, OnlyTargetsFall DEF Notify, NotifyConsumer
  <1>5. (OwedInv)'
    BY DEF Notify, Goto, Return, NotifyConsumer, OwedInv
  <1> QED
    BY <1>1, <1>2, <1>3, <1>4, <1>5

-----------------------------------------------------------------------------
(* A flush goes on *)

\* FlushEnter: the flush is counted, and has asked for nothing yet
LEMMA FlushEnterKeepsFlush == ASSUME IInv, FlushInv, NEW t \in Threads, FlushEnter(t) PROVE FlushInv'
  <1> USE DEF IInv, TypeOK, FlushInv
  <1>1. RequestInv'
    BY SlotFacts DEF FlushEnter, Goto, RequestInv, NeedsConsumer, CallInv, FlushPCs,
       ThreadTypes, RuntimeTypes, ConsumerTypes
  <1>2. (OwedInv /\ OwedSlotsInv /\ WalkInv /\ FlushPassInv /\ ReclaimPassInv /\ AnsweredInv)'
    BY DEF FlushEnter, Goto, OwedInv, OwedSlotsInv, WalkInv, FlushPass, DrainPCs, FlushPassInv,
       Served, Coming, ReclaimPassInv, AnsweredInv
  <1> QED
    BY <1>1, <1>2

\* FlushCheck: a flush that is turned away has no target
LEMMA FlushCheckKeepsFlush == ASSUME IInv, FlushInv, NEW t \in Threads, FlushCheck(t) PROVE FlushInv'
  <1> USE DEF IInv, TypeOK, FlushInv
  <1>1. RequestInv'
    BY SlotFacts DEF FlushCheck, Goto, RequestInv, NeedsConsumer, CallInv, FlushPCs,
       ThreadTypes, RuntimeTypes, ConsumerTypes
  <1>2. (OwedInv /\ OwedSlotsInv /\ WalkInv /\ FlushPassInv /\ ReclaimPassInv /\ AnsweredInv)'
    BY DEF FlushCheck, Goto, OwedInv, OwedSlotsInv, WalkInv, FlushPass, DrainPCs, FlushPassInv,
       Served, Coming, ReclaimPassInv, AnsweredInv
  <1> QED
    BY <1>1, <1>2

\* FlushRequest: the new target is beyond what the consumer has read or completed
LEMMA FlushRequestKeepsFlush == ASSUME IInv, FlushInv, NEW t \in Threads, FlushRequest(t) PROVE FlushInv'
  <1> USE DEF IInv, TypeOK, FlushInv
  <1>1. RequestInv'
    BY SlotFacts DEF FlushRequest, Goto, RequestInv, NeedsConsumer, CallInv, FlushPCs,
       ThreadTypes, RuntimeTypes, ConsumerTypes
  <1>2. OwedInv'
    BY SlotFacts DEF FlushRequest, Goto, OwedInv, HistoryTypes, QueueTypes, ConsumerInv
  <1>3. OwedSlotsInv'
    BY SlotFacts DEF FlushRequest, Goto, OwedSlotsInv, HistoryTypes, QueueTypes, ConsumerInv
  <1>4. FlushPassInv'
    <2>1. ~Served(t)'
      BY DEF FlushRequest, Goto, Served, RequestInv, ThreadTypes, RuntimeTypes, ConsumerTypes
    <2>2. \A u \in Threads : u # t => target'[u] = target[u] /\ owed'[u] = owed[u]
      BY DEF FlushRequest, Goto, ThreadTypes, HistoryTypes
    <2> QED
      BY <2>1, <2>2 DEF FlushRequest, Goto, FlushPassInv, FlushPass, Served, Coming, DrainPCs
  <1>5. ReclaimPassInv'
    <2>1. ~Served(t)'
      BY DEF FlushRequest, Goto, Served, RequestInv, ThreadTypes, RuntimeTypes, ConsumerTypes
    <2>2. \A u \in Threads : u # t => target'[u] = target[u] /\ owedSlots'[u] = owedSlots[u]
      BY DEF FlushRequest, Goto, ThreadTypes, HistoryTypes
    <2> QED
      BY <2>1, <2>2 DEF FlushRequest, Goto, ReclaimPassInv, FlushPass, Served, Coming, DrainPCs
  <1>6. AnsweredInv'
    <2>1. target'[t] > requested /\ target'[t] > flushCompleted
      BY DEF FlushRequest, Goto, RequestInv, ThreadTypes, RuntimeTypes, ConsumerTypes
    <2>2. \A u \in Threads : u # t =>
             target'[u] = target[u] /\ owedSlots'[u] = owedSlots[u] /\ durable'[u] = durable[u]
      BY DEF FlushRequest, Goto, ThreadTypes, HistoryTypes
    <2>3. requested \in Nat /\ flushCompleted \in Nat /\ target'[t] \in Nat
      BY DEF FlushRequest, Goto, ThreadTypes, RuntimeTypes, ConsumerTypes
    <2> QED
      BY <2>1, <2>2, <2>3 DEF FlushRequest, Goto, AnsweredInv, Served
  <1>7. (WalkInv)'
    BY DEF FlushRequest, Goto, WalkInv, FlushPass, DrainPCs
  <1> QED
    BY <1>1, <1>2, <1>3, <1>4, <1>5, <1>6, <1>7

\* FlushWait: a flush leaves when its target is completed
LEMMA FlushWaitKeepsFlush == ASSUME IInv, FlushInv, NEW t \in Threads, FlushWait(t) PROVE FlushInv'
  <1> USE DEF IInv, TypeOK, FlushInv
  <1>1. RequestInv'
    BY SlotFacts DEF FlushWait, Goto, RequestInv, NeedsConsumer, CallInv, FlushPCs, ThreadTypes,
       RuntimeTypes, ConsumerTypes
  <1>2. (OwedInv /\ OwedSlotsInv /\ WalkInv /\ FlushPassInv /\ ReclaimPassInv /\ AnsweredInv)'
    BY DEF FlushWait, Goto, OwedInv, OwedSlotsInv, WalkInv, FlushPass, DrainPCs, FlushPassInv,
       Served, Coming, ReclaimPassInv, AnsweredInv
  <1> QED
    BY <1>1, <1>2

\* FlushLeave: the flush owes nothing any more
LEMMA FlushLeaveKeepsFlush == ASSUME IInv, FlushInv, NEW t \in Threads, FlushLeave(t) PROVE FlushInv'
  <1> USE DEF IInv, TypeOK, FlushInv
  <1>1. RequestInv'
    BY SlotFacts DEF FlushLeave, Goto, Return, RequestInv, NeedsConsumer, CallInv, FlushPCs,
       ThreadTypes, RuntimeTypes, ConsumerTypes
  <1>2. (FlushPassInv /\ ReclaimPassInv /\ AnsweredInv)'
    <2>1. \A u \in Threads : target'[u] \in {target[u], 0}
      BY DEF FlushLeave, Goto, Return, ThreadTypes
    <2> QED
      BY <2>1, OnlyTargetsFall DEF FlushLeave
  <1>3. (OwedInv /\ OwedSlotsInv /\ WalkInv)'
    BY DEF FlushLeave, Goto, Return, OwedInv, OwedSlotsInv, WalkInv, FlushPass, DrainPCs
  <1> QED
    BY <1>1, <1>2, <1>3

\* FlushNotify: the flush owes nothing any more
LEMMA FlushNotifyKeepsFlush == ASSUME IInv, FlushInv, NEW t \in Threads, FlushNotify(t) PROVE FlushInv'
  <1> USE DEF IInv, TypeOK, FlushInv
  <1>1. RequestInv'
    BY SlotFacts DEF FlushNotify, Return, Goto, RequestInv, NeedsConsumer, CallInv, FlushPCs,
       ThreadTypes, RuntimeTypes, ConsumerTypes
  <1>2. (FlushPassInv /\ ReclaimPassInv /\ AnsweredInv)'
    <2>1. \A u \in Threads : target'[u] \in {target[u], 0}
      BY DEF FlushNotify, Return, Goto, ThreadTypes
    <2> QED
      BY <2>1, OnlyTargetsFall DEF FlushNotify
  <1>3. (OwedInv /\ OwedSlotsInv /\ WalkInv)'
    BY DEF FlushNotify, Return, Goto, OwedInv, OwedSlotsInv, WalkInv, FlushPass, DrainPCs
  <1> QED
    BY <1>1, <1>2, <1>3

-----------------------------------------------------------------------------
(* The consumer drains the queues *)

\* Sample: a pass by ready bits is no flush pass
LEMMA SampleKeepsFlush == ASSUME IInv, FlushInv, Sample PROVE FlushInv'
  <1> USE DEF IInv, TypeOK, FlushInv
  <1>1. OwedSlotsInv'
    BY SlotFacts DEF Sample, CGoto, StartPass, OwedSlotsInv, HistoryTypes, QueueTypes,
       ConsumerInv
  <1>2. WalkInv'
    BY SlotFacts DEF Sample, CGoto, StartPass, WalkInv, FlushPass, DrainPCs, ConsumerInv
  <1>3. FlushPassInv'
    BY SlotFacts DEF Sample, CGoto, StartPass, FlushPassInv, FlushPass, Served, Coming,
       DrainPCs, HistoryTypes, QueueTypes, ConsumerTypes, ThreadTypes
  <1>4. ReclaimPassInv'
    BY SlotFacts DEF Sample, CGoto, StartPass, ReclaimPassInv, FlushPass, Served, Coming,
       DrainPCs, HistoryTypes, QueueTypes, ConsumerTypes, ThreadTypes
  <1>5. AnsweredInv'
    BY SlotFacts DEF Sample, CGoto, StartPass, AnsweredInv, Served, HistoryTypes, ThreadTypes,
       RuntimeTypes, ConsumerTypes
  <1>6. (RequestInv /\ OwedInv)'
    BY DEF Sample, CGoto, StartPass, RequestInv, NeedsConsumer, OwedInv
  <1> QED
    BY <1>1, <1>2, <1>3, <1>4, <1>5, <1>6

\* Visit: the records to take are at least those that are owed
LEMMA VisitKeepsFlush == ASSUME IInv, FlushInv, Visit PROVE FlushInv'
  <1> USE DEF IInv, TypeOK, FlushInv
  <1>1. OwedSlotsInv'
    BY SlotFacts DEF Visit, OwedSlotsInv, HistoryTypes, QueueTypes, ConsumerInv
  <1>2. WalkInv'
    BY SlotFacts DEF Visit, WalkInv, FlushPass, DrainPCs, ConsumerInv
  <1>3. FlushPassInv'
    <2>1. todo' = depth[cur'] /\ (depth[cur'] = 0 => cpc' = "check1") /\ (depth[cur'] # 0 => cpc' = "consume")
      BY DEF Visit
    <2>2. \A q \in Queues : Coming(q) => Coming(q)' \/ cur' = q
      BY DEF Visit, Coming
    <2>3. \A t \in Threads : \A q \in Queues : owed[t][q] \in Nat /\ depth[q] \in Nat
                                                     /\ owed[t][q] <= depth[q]
      BY DEF OwedInv, HistoryTypes, QueueTypes
    <2> QED
      BY <2>1, <2>2, <2>3 DEF Visit, FlushPassInv, FlushPass, Served, DrainPCs
  <1>4. ReclaimPassInv'
    BY SlotFacts DEF Visit, ReclaimPassInv, FlushPass, Served, Coming, DrainPCs, HistoryTypes,
       QueueTypes, ConsumerTypes, ThreadTypes
  <1>5. AnsweredInv'
    BY SlotFacts DEF Visit, AnsweredInv, Served, HistoryTypes, ThreadTypes, RuntimeTypes,
       ConsumerTypes
  <1>6. (RequestInv /\ OwedInv)'
    BY DEF Visit, RequestInv, NeedsConsumer, OwedInv
  <1> QED
    BY <1>1, <1>2, <1>3, <1>4, <1>5, <1>6

\* LoadCount: every slot with an owed record, or retired, is among those that exist
LEMMA LoadCountKeepsFlush == ASSUME IInv, FlushInv, LoadCount PROVE FlushInv'
  <1> USE DEF IInv, TypeOK, FlushInv
  <1>1. WalkInv'
    BY SlotFacts DEF LoadCount, WalkInv, FlushPass, DrainPCs, ConsumerInv
  <1>2. FlushPassInv'
    <2> SUFFICES ASSUME mode = "flush", NEW t \in Threads, Served(t), NEW q \in Queues, owed[t][q] > 0
                 PROVE  q \in pending'
      BY DEF LoadCount, FlushPassInv, FlushPass, Served, Coming
    <2>1. q \in Slots
      BY DEF LoadCount, FlushPassInv, FlushPass, Coming, DrainPCs
    <2>2. q < count
      BY <2>1, HeldExists DEF OwedInv, HistoryTypes, QueueTypes
    <2> QED
      BY <2>1, <2>2, SlotFacts DEF LoadCount, QueueTypes
  <1>3. ReclaimPassInv'
    <2> SUFFICES ASSUME mode = "flush", NEW t \in Threads, Served(t), NEW s \in owedSlots[t]
                 PROVE  s \in pending'
      BY DEF LoadCount, ReclaimPassInv, FlushPass, Served, Coming
    <2>1. s \in Slots /\ slotState[s] = "retired"
      BY DEF LoadCount, OwedSlotsInv, HistoryTypes
    <2>2. s < count
      BY <2>1 DEF ConsumerInv
    <2> QED
      BY <2>1, <2>2, SlotFacts DEF LoadCount, QueueTypes
  <1>4. (RequestInv /\ OwedInv /\ OwedSlotsInv /\ AnsweredInv)'
    BY DEF LoadCount, RequestInv, NeedsConsumer, OwedInv, OwedSlotsInv, AnsweredInv, Served
  <1> QED
    BY <1>1, <1>2, <1>3, <1>4

\* TakeWord: a flush pass never takes a word
LEMMA TakeWordKeepsFlush == ASSUME IInv, FlushInv, TakeWord PROVE FlushInv'
  <1> USE DEF IInv, TypeOK, FlushInv
  <1>1. WalkInv'
    BY DEF TakeWord, WalkInv, FlushPass, DrainPCs, ConsumerTypes
  <1>2. FlushPassInv'
    BY SlotFacts DEF TakeWord, FlushPassInv, FlushPass, Served, Coming, DrainPCs, HistoryTypes,
       QueueTypes, ConsumerTypes, ThreadTypes
  <1>3. ReclaimPassInv'
    BY SlotFacts DEF TakeWord, ReclaimPassInv, FlushPass, Served, Coming, DrainPCs,
       HistoryTypes, QueueTypes, ConsumerTypes, ThreadTypes
  <1>4. (RequestInv /\ OwedInv /\ OwedSlotsInv /\ AnsweredInv)'
    BY DEF TakeWord, RequestInv, NeedsConsumer, OwedInv, OwedSlotsInv, AnsweredInv, Served
  <1> QED
    BY <1>1, <1>2, <1>3, <1>4

\* EndPass: a flush pass that ends has nothing ahead of it
LEMMA EndPassKeepsFlush == ASSUME IInv, FlushInv, EndPass PROVE FlushInv'
  <1> USE DEF IInv, TypeOK, FlushInv
  <1>1. OwedSlotsInv'
    BY SlotFacts DEF EndPass, StartPass, PassDone, OwedSlotsInv, HistoryTypes, QueueTypes,
       ConsumerInv
  <1>2. WalkInv'
    BY SlotFacts DEF EndPass, StartPass, PassDone, WalkInv, FlushPass, DrainPCs, ConsumerInv
  <1>3. FlushPassInv'
    BY SlotFacts DEF EndPass, StartPass, PassDone, FlushPassInv, FlushPass, Served, Coming,
       DrainPCs, HistoryTypes, QueueTypes, ConsumerTypes, ThreadTypes
  <1>4. ReclaimPassInv'
    BY SlotFacts DEF EndPass, StartPass, PassDone, ReclaimPassInv, FlushPass, Served, Coming,
       DrainPCs, HistoryTypes, QueueTypes, ConsumerTypes, ThreadTypes
  <1>5. AnsweredInv'
    BY SlotFacts DEF EndPass, StartPass, PassDone, AnsweredInv, Served, HistoryTypes,
       ThreadTypes, RuntimeTypes, ConsumerTypes
  <1>6. (RequestInv /\ OwedInv)'
    BY DEF EndPass, StartPass, PassDone, RequestInv, NeedsConsumer, OwedInv
  <1> QED
    BY <1>1, <1>2, <1>3, <1>4, <1>5, <1>6

\* Consume: the records that are owed come first
LEMMA ConsumeKeepsFlush == ASSUME IInv, FlushInv, Consume PROVE FlushInv'
  <1> USE DEF IInv, TypeOK, FlushInv
  <1>1. OwedInv'
    <2>1. cur \in Queues /\ depth[cur] \in Nat /\ depth[cur] > 0 /\ depth'[cur] = depth[cur] - 1
      BY DEF Consume, CGoto, ConsumerInv, ConsumerTypes, QueueTypes
    <2>2. ASSUME NEW t \in Threads, NEW q \in Queues PROVE owed'[t][q] <= depth'[q]
      <3>1. owed[t][q] \in Nat /\ owed[t][q] <= depth[q]
        BY DEF OwedInv, HistoryTypes
      <3>2. CASE q = cur
        BY <2>1, <3>1, <3>2 DEF Consume, CGoto, HistoryTypes
      <3>3. CASE q # cur
        BY <2>1, <3>1, <3>3 DEF Consume, CGoto, HistoryTypes, QueueTypes
      <3> QED
        BY <3>2, <3>3
    <2>3. ASSUME NEW q \in Queues PROVE owedAtExit'[q] <= depth'[q]
      <3>1. owedAtExit[q] \in Nat /\ owedAtExit[q] <= depth[q]
        BY DEF OwedInv, HistoryTypes
      <3>2. CASE q = cur
        BY <2>1, <3>1, <3>2 DEF Consume, CGoto, HistoryTypes
      <3>3. CASE q # cur
        BY <2>1, <3>1, <3>3 DEF Consume, CGoto, HistoryTypes, QueueTypes
      <3> QED
        BY <3>2, <3>3
    <2> QED
      BY <2>2, <2>3 DEF OwedInv
  <1>2. OwedSlotsInv'
    BY SlotFacts DEF Consume, CGoto, OwedSlotsInv, HistoryTypes, QueueTypes, ConsumerInv
  <1>3. WalkInv'
    BY SlotFacts DEF Consume, CGoto, WalkInv, FlushPass, DrainPCs, ConsumerInv
  <1>4. FlushPassInv'
    BY SlotFacts DEF Consume, CGoto, FlushPassInv, FlushPass, Served, Coming, DrainPCs,
       HistoryTypes, QueueTypes, ConsumerTypes, ThreadTypes
  <1>5. ReclaimPassInv'
    BY SlotFacts DEF Consume, CGoto, ReclaimPassInv, FlushPass, Served, Coming, DrainPCs,
       HistoryTypes, QueueTypes, ConsumerTypes, ThreadTypes
  <1>6. AnsweredInv'
    BY SlotFacts DEF Consume, CGoto, AnsweredInv, Served, HistoryTypes, ThreadTypes,
       RuntimeTypes, ConsumerTypes
  <1>7. (RequestInv)'
    BY DEF Consume, CGoto, RequestInv, NeedsConsumer
  <1> QED
    BY <1>1, <1>2, <1>3, <1>4, <1>5, <1>6, <1>7

\* Check1: the visit goes on with an empty queue
LEMMA Check1KeepsFlush == ASSUME IInv, FlushInv, Check1 PROVE FlushInv'
  <1> USE DEF IInv, TypeOK, FlushInv
  <1>1. OwedSlotsInv'
    BY SlotFacts DEF Check1, PublishReadyBit, OwedSlotsInv, HistoryTypes, QueueTypes,
       ConsumerInv
  <1>2. WalkInv'
    BY SlotFacts DEF Check1, PublishReadyBit, WalkInv, FlushPass, DrainPCs, ConsumerInv
  <1>3. FlushPassInv'
    BY SlotFacts DEF Check1, PublishReadyBit, FlushPassInv, FlushPass, Served, Coming, DrainPCs,
       HistoryTypes, QueueTypes, ConsumerTypes, ThreadTypes
  <1>4. ReclaimPassInv'
    BY SlotFacts DEF Check1, PublishReadyBit, ReclaimPassInv, FlushPass, Served, Coming,
       DrainPCs, HistoryTypes, QueueTypes, ConsumerTypes, ThreadTypes
  <1>5. AnsweredInv'
    BY SlotFacts DEF Check1, PublishReadyBit, AnsweredInv, Served, HistoryTypes, ThreadTypes,
       RuntimeTypes, ConsumerTypes
  <1>6. (RequestInv /\ OwedInv)'
    BY DEF Check1, PublishReadyBit, RequestInv, NeedsConsumer, OwedInv
  <1> QED
    BY <1>1, <1>2, <1>3, <1>4, <1>5, <1>6

\* Clear: only the flag goes down
LEMMA ClearKeepsFlush == ASSUME IInv, FlushInv, Clear PROVE FlushInv'
  <1> USE DEF IInv, TypeOK, FlushInv
  <1>1. OwedSlotsInv'
    BY SlotFacts DEF Clear, CGoto, OwedSlotsInv, HistoryTypes, QueueTypes, ConsumerInv
  <1>2. WalkInv'
    BY SlotFacts DEF Clear, CGoto, WalkInv, FlushPass, DrainPCs, ConsumerInv
  <1>3. FlushPassInv'
    BY SlotFacts DEF Clear, CGoto, FlushPassInv, FlushPass, Served, Coming, DrainPCs,
       HistoryTypes, QueueTypes, ConsumerTypes, ThreadTypes
  <1>4. ReclaimPassInv'
    BY SlotFacts DEF Clear, CGoto, ReclaimPassInv, FlushPass, Served, Coming, DrainPCs,
       HistoryTypes, QueueTypes, ConsumerTypes, ThreadTypes
  <1>5. AnsweredInv'
    BY SlotFacts DEF Clear, CGoto, AnsweredInv, Served, HistoryTypes, ThreadTypes, RuntimeTypes,
       ConsumerTypes
  <1>6. (RequestInv /\ OwedInv)'
    BY DEF Clear, CGoto, RequestInv, NeedsConsumer, OwedInv
  <1> QED
    BY <1>1, <1>2, <1>3, <1>4, <1>5, <1>6

\* Check2: an owed slot is retired, so its queue is still empty
LEMMA Check2KeepsFlush == ASSUME IInv, FlushInv, Check2 PROVE FlushInv'
  <1> USE DEF IInv, TypeOK, FlushInv
  <1>1. OwedSlotsInv'
    BY SlotFacts DEF Check2, CGoto, OwedSlotsInv, HistoryTypes, QueueTypes, ConsumerInv
  <1>2. WalkInv'
    BY SlotFacts DEF Check2, CGoto, WalkInv, FlushPass, DrainPCs, ConsumerInv
  <1>3. FlushPassInv'
    BY SlotFacts DEF Check2, CGoto, FlushPassInv, FlushPass, Served, Coming, DrainPCs,
       HistoryTypes, QueueTypes, ConsumerTypes, ThreadTypes
  <1>4. ReclaimPassInv'
    BY SlotFacts DEF Check2, CGoto, ReclaimPassInv, FlushPass, Served, Coming, DrainPCs,
       HistoryTypes, QueueTypes, ConsumerTypes, ThreadTypes
  <1>5. AnsweredInv'
    BY SlotFacts DEF Check2, CGoto, AnsweredInv, Served, HistoryTypes, ThreadTypes,
       RuntimeTypes, ConsumerTypes
  <1>6. (RequestInv /\ OwedInv)'
    BY DEF Check2, CGoto, RequestInv, NeedsConsumer, OwedInv
  <1> QED
    BY <1>1, <1>2, <1>3, <1>4, <1>5, <1>6

\* Remark: a queue that holds records again is not that of an owed slot
LEMMA RemarkKeepsFlush == ASSUME IInv, FlushInv, Remark PROVE FlushInv'
  <1> USE DEF IInv, TypeOK, FlushInv
  <1>1. OwedSlotsInv'
    BY SlotFacts DEF Remark, CGoto, PublishReadyBit, OwedSlotsInv, HistoryTypes, QueueTypes,
       ConsumerInv
  <1>2. WalkInv'
    BY SlotFacts DEF Remark, CGoto, PublishReadyBit, WalkInv, FlushPass, DrainPCs, ConsumerInv
  <1>3. FlushPassInv'
    BY SlotFacts DEF Remark, CGoto, PublishReadyBit, FlushPassInv, FlushPass, Served, Coming,
       DrainPCs, HistoryTypes, QueueTypes, ConsumerTypes, ThreadTypes
  <1>4. ReclaimPassInv'
    BY SlotFacts DEF Remark, CGoto, PublishReadyBit, ReclaimPassInv, FlushPass, Served, Coming,
       DrainPCs, HistoryTypes, QueueTypes, ConsumerTypes, ThreadTypes
  <1>5. AnsweredInv'
    BY SlotFacts DEF Remark, CGoto, PublishReadyBit, AnsweredInv, Served, HistoryTypes,
       ThreadTypes, RuntimeTypes, ConsumerTypes
  <1>6. (RequestInv /\ OwedInv)'
    BY DEF Remark, CGoto, PublishReadyBit, RequestInv, NeedsConsumer, OwedInv
  <1> QED
    BY <1>1, <1>2, <1>3, <1>4, <1>5, <1>6

\* TryFree: an owed slot is retired, so it is freed
LEMMA TryFreeKeepsFlush == ASSUME IInv, FlushInv, TryFree PROVE FlushInv'
  <1> USE DEF IInv, TypeOK, FlushInv
  <1>1. OwedSlotsInv'
    BY SlotFacts DEF TryFree, OwedSlotsInv, HistoryTypes, QueueTypes, ConsumerInv
  <1>2. WalkInv'
    BY SlotFacts DEF TryFree, WalkInv, FlushPass, DrainPCs, ConsumerInv
  <1>3. FlushPassInv'
    BY SlotFacts DEF TryFree, FlushPassInv, FlushPass, Served, Coming, DrainPCs, HistoryTypes,
       QueueTypes, ConsumerTypes, ThreadTypes
  <1>4. ReclaimPassInv'
    <2>1. ASSUME NEW t \in Threads, NEW s \in owedSlots[t], cur = s PROVE slotState[s] = "retired"
      BY <2>1 DEF TryFree, OwedSlotsInv
    <2> QED
      BY <2>1 DEF TryFree, ReclaimPassInv, FlushPass, Served, Coming, DrainPCs
  <1>5. AnsweredInv'
    BY SlotFacts DEF TryFree, AnsweredInv, Served, HistoryTypes, ThreadTypes, RuntimeTypes,
       ConsumerTypes
  <1>6. (RequestInv /\ OwedInv)'
    BY DEF TryFree, RequestInv, NeedsConsumer, OwedInv
  <1> QED
    BY <1>1, <1>2, <1>3, <1>4, <1>5, <1>6

\* Push: the slot is on the free list, and owed no more
LEMMA PushKeepsFlush == ASSUME IInv, FlushInv, Push PROVE FlushInv'
  <1> USE DEF IInv, TypeOK, FlushInv
  <1>1. OwedSlotsInv'
    BY SlotFacts DEF Push, CGoto, OwedSlotsInv, HistoryTypes, QueueTypes, ConsumerInv
  <1>2. WalkInv'
    BY SlotFacts DEF Push, CGoto, WalkInv, FlushPass, DrainPCs, ConsumerInv
  <1>3. FlushPassInv'
    BY SlotFacts DEF Push, CGoto, FlushPassInv, FlushPass, Served, Coming, DrainPCs,
       HistoryTypes, QueueTypes, ConsumerTypes, ThreadTypes
  <1>4. ReclaimPassInv'
    BY SlotFacts DEF Push, CGoto, ReclaimPassInv, FlushPass, Served, Coming, DrainPCs,
       HistoryTypes, QueueTypes, ConsumerTypes, ThreadTypes
  <1>5. AnsweredInv'
    BY SlotFacts DEF Push, CGoto, AnsweredInv, Served, HistoryTypes, ThreadTypes, RuntimeTypes,
       ConsumerTypes
  <1>6. (RequestInv /\ OwedInv)'
    BY DEF Push, CGoto, RequestInv, NeedsConsumer, OwedInv
  <1> QED
    BY <1>1, <1>2, <1>3, <1>4, <1>5, <1>6

-----------------------------------------------------------------------------
(* The rest of its loop *)

\* CheckFlush: the pass that begins has every queue ahead of it
LEMMA CheckFlushKeepsFlush == ASSUME IInv, FlushInv, CheckFlush PROVE FlushInv'
  <1> USE DEF IInv, TypeOK, FlushInv
  <1>1. RequestInv'
    BY SlotFacts DEF CheckFlush, StartPass, RequestInv, NeedsConsumer, CallInv, FlushPCs,
       ThreadTypes, RuntimeTypes, ConsumerTypes
  <1>2. OwedSlotsInv'
    BY SlotFacts DEF CheckFlush, StartPass, OwedSlotsInv, HistoryTypes, QueueTypes, ConsumerInv
  <1>3. WalkInv'
    BY SlotFacts DEF CheckFlush, StartPass, WalkInv, FlushPass, DrainPCs, ConsumerInv
  <1>4. FlushPassInv'
    <2>1. cpc' = "next" => stage' = "singles" /\ pending' = Singles
      BY DEF CheckFlush, StartPass
    <2>2. FlushPass' => cpc' = "next"
      BY DEF CheckFlush, FlushPass, DrainPCs
    <2> QED
      BY <2>1, <2>2 DEF FlushPassInv, Coming, Queues
  <1>5. ReclaimPassInv'
    BY SlotFacts DEF CheckFlush, StartPass, ReclaimPassInv, FlushPass, Served, Coming, DrainPCs,
       HistoryTypes, QueueTypes, ConsumerTypes, ThreadTypes
  <1>6. AnsweredInv'
    BY SlotFacts DEF CheckFlush, StartPass, AnsweredInv, Served, HistoryTypes, ThreadTypes,
       RuntimeTypes, ConsumerTypes
  <1>7. (OwedInv)'
    BY DEF CheckFlush, StartPass, OwedInv
  <1> QED
    BY <1>1, <1>2, <1>3, <1>4, <1>5, <1>6, <1>7

\* FlushSinks: whoever is served has no record left to write, and is durable
LEMMA FlushSinksKeepsFlush == ASSUME IInv, FlushInv, FlushSinks PROVE FlushInv'
  <1> USE DEF IInv, TypeOK, FlushInv
  <1>1. OwedSlotsInv'
    BY SlotFacts DEF FlushSinks, CGoto, OwedSlotsInv, HistoryTypes, QueueTypes, ConsumerInv
  <1>2. WalkInv'
    BY SlotFacts DEF FlushSinks, CGoto, WalkInv, FlushPass, DrainPCs, ConsumerInv
  <1>3. FlushPassInv'
    BY SlotFacts DEF FlushSinks, CGoto, FlushPassInv, FlushPass, Served, Coming, DrainPCs,
       HistoryTypes, QueueTypes, ConsumerTypes, ThreadTypes
  <1>4. ReclaimPassInv'
    BY SlotFacts DEF FlushSinks, CGoto, ReclaimPassInv, FlushPass, Served, Coming, DrainPCs,
       HistoryTypes, QueueTypes, ConsumerTypes, ThreadTypes
  <1>5. AnsweredInv'
    <2>1. CASE cpc = "flushSinks"
      <3>1. FlushPass /\ pending = {} /\ stage = "registry"
        BY <2>1 DEF FlushPass, WalkInv, ConsumerInv, DrainPCs
      <3>2. ASSUME NEW t \in Threads, Served(t) PROVE owed[t] = NoDebt /\ owedSlots[t] = {}
        <4>1. \A q \in Queues : owed[t][q] = 0
          BY <2>1, <3>1, <3>2 DEF FlushPassInv, Coming, HistoryTypes
        <4>2. owedSlots[t] = {}
          BY <2>1, <3>1, <3>2 DEF ReclaimPassInv, Coming
        <4> QED
          BY <4>1, <4>2 DEF NoDebt, HistoryTypes
      <3> QED
        BY <2>1, <3>2 DEF FlushSinks, CGoto, AnsweredInv, Served, HistoryTypes
    <2>2. CASE cpc = "finalFlush"
      BY <2>2 DEF FlushSinks, CGoto, AnsweredInv, Served, HistoryTypes
    <2> QED
      BY <2>1, <2>2 DEF FlushSinks, CGoto
  <1>6. (RequestInv /\ OwedInv)'
    BY DEF FlushSinks, CGoto, RequestInv, NeedsConsumer, OwedInv
  <1> QED
    BY <1>1, <1>2, <1>3, <1>4, <1>5, <1>6

\* Complete: those that are answered were served
LEMMA CompleteKeepsFlush == ASSUME IInv, FlushInv, Complete PROVE FlushInv'
  <1> USE DEF IInv, TypeOK, FlushInv
  <1>1. RequestInv'
    BY SlotFacts DEF Complete, CGoto, RequestInv, NeedsConsumer, CallInv, FlushPCs, ThreadTypes,
       RuntimeTypes, ConsumerTypes
  <1>2. OwedSlotsInv'
    BY SlotFacts DEF Complete, CGoto, OwedSlotsInv, HistoryTypes, QueueTypes, ConsumerInv
  <1>3. WalkInv'
    BY SlotFacts DEF Complete, CGoto, WalkInv, FlushPass, DrainPCs, ConsumerInv
  <1>4. FlushPassInv'
    BY SlotFacts DEF Complete, CGoto, FlushPassInv, FlushPass, Served, Coming, DrainPCs,
       HistoryTypes, QueueTypes, ConsumerTypes, ThreadTypes
  <1>5. ReclaimPassInv'
    BY SlotFacts DEF Complete, CGoto, ReclaimPassInv, FlushPass, Served, Coming, DrainPCs,
       HistoryTypes, QueueTypes, ConsumerTypes, ThreadTypes
  <1>6. AnsweredInv'
    BY SlotFacts DEF Complete, CGoto, AnsweredInv, Served, HistoryTypes, ThreadTypes,
       RuntimeTypes, ConsumerTypes
  <1>7. (OwedInv)'
    BY DEF Complete, CGoto, OwedInv
  <1> QED
    BY <1>1, <1>2, <1>3, <1>4, <1>5, <1>6, <1>7

\* NotifyAll: the sleeping flushes look again
LEMMA NotifyAllKeepsFlush == ASSUME IInv, FlushInv, NotifyAll PROVE FlushInv'
  <1> USE DEF IInv, TypeOK, FlushInv
  <1>1. RequestInv'
    BY SlotFacts DEF NotifyAll, CGoto, RequestInv, NeedsConsumer, CallInv, FlushPCs,
       ThreadTypes, RuntimeTypes, ConsumerTypes
  <1>2. OwedSlotsInv'
    BY SlotFacts DEF NotifyAll, CGoto, OwedSlotsInv, HistoryTypes, QueueTypes, ConsumerInv
  <1>3. WalkInv'
    BY SlotFacts DEF NotifyAll, CGoto, WalkInv, FlushPass, DrainPCs, ConsumerInv
  <1>4. FlushPassInv'
    BY SlotFacts DEF NotifyAll, CGoto, FlushPassInv, FlushPass, Served, Coming, DrainPCs,
       HistoryTypes, QueueTypes, ConsumerTypes, ThreadTypes
  <1>5. ReclaimPassInv'
    BY SlotFacts DEF NotifyAll, CGoto, ReclaimPassInv, FlushPass, Served, Coming, DrainPCs,
       HistoryTypes, QueueTypes, ConsumerTypes, ThreadTypes
  <1>6. AnsweredInv'
    BY SlotFacts DEF NotifyAll, CGoto, AnsweredInv, Served, HistoryTypes, ThreadTypes,
       RuntimeTypes, ConsumerTypes
  <1>7. (OwedInv)'
    BY DEF NotifyAll, CGoto, OwedInv
  <1> QED
    BY <1>1, <1>2, <1>3, <1>4, <1>5, <1>6, <1>7

\* CheckStop: the last pass is no flush pass
LEMMA CheckStopKeepsFlush == ASSUME IInv, FlushInv, CheckStop PROVE FlushInv'
  <1> USE DEF IInv, TypeOK, FlushInv
  <1>1. OwedSlotsInv'
    BY SlotFacts DEF CheckStop, StartPass, OwedSlotsInv, HistoryTypes, QueueTypes, ConsumerInv
  <1>2. WalkInv'
    BY SlotFacts DEF CheckStop, StartPass, WalkInv, FlushPass, DrainPCs, ConsumerInv
  <1>3. FlushPassInv'
    BY SlotFacts DEF CheckStop, StartPass, FlushPassInv, FlushPass, Served, Coming, DrainPCs,
       HistoryTypes, QueueTypes, ConsumerTypes, ThreadTypes
  <1>4. ReclaimPassInv'
    BY SlotFacts DEF CheckStop, StartPass, ReclaimPassInv, FlushPass, Served, Coming, DrainPCs,
       HistoryTypes, QueueTypes, ConsumerTypes, ThreadTypes
  <1>5. AnsweredInv'
    BY SlotFacts DEF CheckStop, StartPass, AnsweredInv, Served, HistoryTypes, ThreadTypes,
       RuntimeTypes, ConsumerTypes
  <1>6. (RequestInv /\ OwedInv)'
    BY DEF CheckStop, StartPass, RequestInv, NeedsConsumer, OwedInv
  <1> QED
    BY <1>1, <1>2, <1>3, <1>4, <1>5, <1>6

\* Wait: no pass is under way
LEMMA WaitKeepsFlush == ASSUME IInv, FlushInv, Wait PROVE FlushInv'
  <1> USE DEF IInv, TypeOK, FlushInv
  <1>1. OwedSlotsInv'
    BY SlotFacts DEF Wait, CGoto, OwedSlotsInv, HistoryTypes, QueueTypes, ConsumerInv
  <1>2. WalkInv'
    BY SlotFacts DEF Wait, CGoto, WalkInv, FlushPass, DrainPCs, ConsumerInv
  <1>3. FlushPassInv'
    BY SlotFacts DEF Wait, CGoto, FlushPassInv, FlushPass, Served, Coming, DrainPCs,
       HistoryTypes, QueueTypes, ConsumerTypes, ThreadTypes
  <1>4. ReclaimPassInv'
    BY SlotFacts DEF Wait, CGoto, ReclaimPassInv, FlushPass, Served, Coming, DrainPCs,
       HistoryTypes, QueueTypes, ConsumerTypes, ThreadTypes
  <1>5. AnsweredInv'
    BY SlotFacts DEF Wait, CGoto, AnsweredInv, Served, HistoryTypes, ThreadTypes, RuntimeTypes,
       ConsumerTypes
  <1>6. (RequestInv /\ OwedInv)'
    BY DEF Wait, CGoto, RequestInv, NeedsConsumer, OwedInv
  <1> QED
    BY <1>1, <1>2, <1>3, <1>4, <1>5, <1>6

-----------------------------------------------------------------------------
(* Destroy *)

\* DestroyBegin: destroy is owed what the queues hold
LEMMA DestroyBeginKeepsFlush == ASSUME IInv, FlushInv, NEW d \in Destroyers, DestroyBegin(d) PROVE FlushInv'
  <1> USE DEF IInv, TypeOK, FlushInv
  <1>1. OwedInv'
    BY SlotFacts DEF DestroyBegin, DGoto, InFlight, OwedInv, HistoryTypes, QueueTypes,
       ConsumerInv
  <1>2. (RequestInv /\ OwedSlotsInv /\ WalkInv /\ FlushPassInv /\ ReclaimPassInv /\ AnsweredInv)'
    BY DEF DestroyBegin, DGoto, InFlight, RequestInv, NeedsConsumer, OwedSlotsInv, WalkInv,
       FlushPass, DrainPCs, FlushPassInv, Served, Coming, ReclaimPassInv, AnsweredInv
  <1> QED
    BY <1>1, <1>2

\* DestroyTwice: the place of a destroyer is no concern of a flush
LEMMA DestroyTwiceKeepsFlush == ASSUME IInv, FlushInv, NEW d \in Destroyers, DestroyTwice(d) PROVE FlushInv'
  <1> USE DEF IInv, TypeOK, FlushInv
  <1>1. (RequestInv /\ OwedInv /\ OwedSlotsInv /\ WalkInv /\ FlushPassInv /\ ReclaimPassInv /\ AnsweredInv)'
    BY DEF DestroyTwice, DGoto, RequestInv, NeedsConsumer, OwedInv, OwedSlotsInv, WalkInv,
       FlushPass, DrainPCs, FlushPassInv, Served, Coming, ReclaimPassInv, AnsweredInv
  <1> QED
    BY <1>1

\* WaitFlushers: nor is what it waits for
LEMMA WaitFlushersKeepsFlush == ASSUME IInv, FlushInv, NEW d \in Destroyers, WaitFlushers(d) PROVE FlushInv'
  <1> USE DEF IInv, TypeOK, FlushInv
  <1>1. (RequestInv /\ OwedInv /\ OwedSlotsInv /\ WalkInv /\ FlushPassInv /\ ReclaimPassInv /\ AnsweredInv)'
    BY DEF WaitFlushers, DGoto, RequestInv, NeedsConsumer, OwedInv, OwedSlotsInv, WalkInv,
       FlushPass, DrainPCs, FlushPassInv, Served, Coming, ReclaimPassInv, AnsweredInv
  <1> QED
    BY <1>1

\* RequestStop: nor the stop flag
LEMMA RequestStopKeepsFlush == ASSUME IInv, FlushInv, NEW d \in Destroyers, RequestStop(d) PROVE FlushInv'
  <1> USE DEF IInv, TypeOK, FlushInv
  <1>1. (RequestInv /\ OwedInv /\ OwedSlotsInv /\ WalkInv /\ FlushPassInv /\ ReclaimPassInv /\ AnsweredInv)'
    BY DEF RequestStop, DGoto, RequestInv, NeedsConsumer, OwedInv, OwedSlotsInv, WalkInv,
       FlushPass, DrainPCs, FlushPassInv, Served, Coming, ReclaimPassInv, AnsweredInv
  <1> QED
    BY <1>1

\* BumpStop: nor the wake ticket
LEMMA BumpStopKeepsFlush == ASSUME IInv, FlushInv, NEW d \in Destroyers, BumpStop(d) PROVE FlushInv'
  <1> USE DEF IInv, TypeOK, FlushInv
  <1>1. (RequestInv /\ OwedInv /\ OwedSlotsInv /\ WalkInv /\ FlushPassInv /\ ReclaimPassInv /\ AnsweredInv)'
    BY DEF BumpStop, DGoto, RequestInv, NeedsConsumer, OwedInv, OwedSlotsInv, WalkInv,
       FlushPass, DrainPCs, FlushPassInv, Served, Coming, ReclaimPassInv, AnsweredInv
  <1> QED
    BY <1>1

\* NotifyStop: the consumer looks at its ticket again
LEMMA NotifyStopKeepsFlush == ASSUME IInv, FlushInv, NEW d \in Destroyers, NotifyStop(d) PROVE FlushInv'
  <1> USE DEF IInv, TypeOK, FlushInv
  <1>1. OwedSlotsInv'
    BY SlotFacts DEF NotifyStop, NotifyConsumer, DGoto, OwedSlotsInv, HistoryTypes, QueueTypes,
       ConsumerInv
  <1>2. WalkInv'
    BY SlotFacts DEF NotifyStop, NotifyConsumer, DGoto, WalkInv, FlushPass, DrainPCs,
       ConsumerInv
  <1>3. FlushPassInv'
    BY SlotFacts DEF NotifyStop, NotifyConsumer, DGoto, FlushPassInv, FlushPass, Served, Coming,
       DrainPCs, HistoryTypes, QueueTypes, ConsumerTypes, ThreadTypes
  <1>4. ReclaimPassInv'
    BY SlotFacts DEF NotifyStop, NotifyConsumer, DGoto, ReclaimPassInv, FlushPass, Served,
       Coming, DrainPCs, HistoryTypes, QueueTypes, ConsumerTypes, ThreadTypes
  <1>5. AnsweredInv'
    BY SlotFacts DEF NotifyStop, NotifyConsumer, DGoto, AnsweredInv, Served, HistoryTypes,
       ThreadTypes, RuntimeTypes, ConsumerTypes
  <1>6. (RequestInv /\ OwedInv)'
    BY DEF NotifyStop, NotifyConsumer, DGoto, RequestInv, NeedsConsumer, OwedInv
  <1> QED
    BY <1>1, <1>2, <1>3, <1>4, <1>5, <1>6

\* Join: the consumer is gone already
LEMMA JoinKeepsFlush == ASSUME IInv, FlushInv, NEW d \in Destroyers, Join(d) PROVE FlushInv'
  <1> USE DEF IInv, TypeOK, FlushInv
  <1>1. (RequestInv /\ OwedInv /\ OwedSlotsInv /\ WalkInv /\ FlushPassInv /\ ReclaimPassInv /\ AnsweredInv)'
    BY DEF Join, DGoto, RequestInv, NeedsConsumer, OwedInv, OwedSlotsInv, WalkInv, FlushPass,
       DrainPCs, FlushPassInv, Served, Coming, ReclaimPassInv, AnsweredInv
  <1> QED
    BY <1>1

\* ResetSinks: the sinks are not used any more
LEMMA ResetSinksKeepsFlush == ASSUME IInv, FlushInv, NEW d \in Destroyers, ResetSinks(d) PROVE FlushInv'
  <1> USE DEF IInv, TypeOK, FlushInv
  <1>1. (RequestInv /\ OwedInv /\ OwedSlotsInv /\ WalkInv /\ FlushPassInv /\ ReclaimPassInv /\ AnsweredInv)'
    BY DEF ResetSinks, DGoto, RequestInv, NeedsConsumer, OwedInv, OwedSlotsInv, WalkInv,
       FlushPass, DrainPCs, FlushPassInv, Served, Coming, ReclaimPassInv, AnsweredInv
  <1> QED
    BY <1>1

\* DestroyEnd: only the lifecycle moves on
LEMMA DestroyEndKeepsFlush == ASSUME IInv, FlushInv, NEW d \in Destroyers, DestroyEnd(d) PROVE FlushInv'
  <1> USE DEF IInv, TypeOK, FlushInv
  <1>1. (RequestInv /\ OwedInv /\ OwedSlotsInv /\ WalkInv /\ FlushPassInv /\ ReclaimPassInv /\ AnsweredInv)'
    BY DEF DestroyEnd, DGoto, RequestInv, NeedsConsumer, OwedInv, OwedSlotsInv, WalkInv,
       FlushPass, DrainPCs, FlushPassInv, Served, Coming, ReclaimPassInv, AnsweredInv
  <1> QED
    BY <1>1

\* a step that changes nothing
LEMMA StutterKeepsFlush == ASSUME FlushInv, UNCHANGED vars PROVE FlushInv'
  <1> USE DEF vars, FlushInv
  <1>1. RequestInv' /\ OwedInv' /\ OwedSlotsInv' /\ WalkInv'
    BY DEF RequestInv, NeedsConsumer, OwedInv, OwedSlotsInv, WalkInv, FlushPass
  <1>2. FlushPassInv' /\ ReclaimPassInv' /\ AnsweredInv'
    BY DEF FlushPassInv, ReclaimPassInv, AnsweredInv, FlushPass, Served, Coming
  <1> QED
    BY <1>1, <1>2

-----------------------------------------------------------------------------
(* Every step keeps the invariant, and what follows from it *)

\* no flush has begun
LEMMA InitFlushInv == Init => FlushInv
  <1> SUFFICES ASSUME Init PROVE FlushInv
    OBVIOUS
  <1>1. RequestInv /\ OwedInv /\ OwedSlotsInv
    BY SlotFacts DEF Init, NoDebt, RequestInv, NeedsConsumer, OwedInv, OwedSlotsInv
  <1>2. WalkInv /\ FlushPassInv /\ ReclaimPassInv /\ AnsweredInv
    BY DEF Init, WalkInv, FlushPassInv, ReclaimPassInv, FlushPass, AnsweredInv, Served
  <1> QED
    BY <1>1, <1>2 DEF FlushInv

\* one step of the handoff, whichever
LEMMA NextKeepsFlush == ASSUME IInv, FlushInv, [Next]_vars PROVE FlushInv'
  <1>1. ASSUME NEW t \in Threads, Begin(t) PROVE FlushInv'
    BY <1>1, LogSingleKeepsFlush, LogThreadsafeKeepsFlush, PrewarmKeepsFlush,
       RetireKeepsFlush, FlushBeginKeepsFlush
    DEF Begin
  <1>2. ASSUME NEW t \in Threads, Continue(t) PROVE FlushInv'
    BY <1>2, AcquireFreeKeepsFlush, AcquireNewKeepsFlush, AcquireFailsKeepsFlush,
       ProduceKeepsFlush, ProduceNothingKeepsFlush, MarkKeepsFlush, PublishKeepsFlush,
       BumpKeepsFlush, NotifyKeepsFlush, FlushEnterKeepsFlush, FlushCheckKeepsFlush,
       FlushRequestKeepsFlush, FlushWaitKeepsFlush, FlushLeaveKeepsFlush, FlushNotifyKeepsFlush
    DEF Continue
  <1>3. CASE Consumer
    BY <1>3, SampleKeepsFlush, VisitKeepsFlush, LoadCountKeepsFlush, TakeWordKeepsFlush,
       EndPassKeepsFlush, ConsumeKeepsFlush, Check1KeepsFlush, ClearKeepsFlush,
       Check2KeepsFlush, RemarkKeepsFlush, TryFreeKeepsFlush, PushKeepsFlush,
       CheckFlushKeepsFlush, FlushSinksKeepsFlush, CompleteKeepsFlush, NotifyAllKeepsFlush,
       CheckStopKeepsFlush, WaitKeepsFlush
    DEF Consumer, Drain
  <1>4. ASSUME NEW d \in Destroyers, DestroyBegin(d) \/ DestroyTwice(d) \/ DestroyStep(d)
        PROVE FlushInv'
    BY <1>4, DestroyBeginKeepsFlush, DestroyTwiceKeepsFlush, WaitFlushersKeepsFlush,
       RequestStopKeepsFlush, BumpStopKeepsFlush, NotifyStopKeepsFlush, JoinKeepsFlush,
       ResetSinksKeepsFlush, DestroyEndKeepsFlush
    DEF DestroyStep
  <1> QED
    BY <1>1, <1>2, <1>3, <1>4, StutterKeepsFlush DEF Next

\* What flush rests on holds in every state of the handoff.
THEOREM FlushInductive == Spec => []FlushInv
  <1>1. Init => FlushInv
    BY InitFlushInv
  <1>2. IInv /\ FlushInv /\ [Next]_vars => FlushInv'
    BY NextKeepsFlush
  <1> QED
    BY <1>1, <1>2, Inductive, PTL DEF Spec

\* A flush that returns has had every record that was in a queue at its request
\* written, and the sinks flushed afterwards, whatever the ready bits said.
THEOREM FlushMakesDurable == Spec => []FlushDurable
  <1>1. IInv /\ FlushInv => FlushDurable
    BY DEF IInv, TypeOK, ThreadTypes, RuntimeTypes, FlushInv, AnsweredInv, FlushDurable, Flushed
  <1> QED
    BY <1>1, Inductive, FlushInductive, PTL

\* And every slot whose thread had exited by then is free again.
THEOREM FlushReclaimsSlots == Spec => []FlushReclaims
  <1>1. IInv /\ FlushInv => FlushReclaims
    BY DEF IInv, TypeOK, ThreadTypes, RuntimeTypes, FlushInv, AnsweredInv, FlushReclaims, Flushed
  <1> QED
    BY <1>1, Inductive, FlushInductive, PTL
-----------------------------------------------------------------------------
(* Destroy: what the steps below share *)

\* the same threads are counted
LEMMA SameFlushers ==
    ASSUME CountInv, UNCHANGED activeFlushers,
           \A u \in Threads : Flushing(u)' <=> Flushing(u)
    PROVE  CountInv'
  <1>1. {u \in Threads : Flushing(u)}' = {u \in Threads : Flushing(u)}
    OBVIOUS
  <1> QED
    BY <1>1 DEF CountInv

\* with none counted, no flush needs the consumer
LEMMA NoneCounted ==
    ASSUME CountInv, activeFlushers = 0, NEW t \in Threads
    PROVE  ~NeedsConsumer(t)
  <1> DEFINE F == {u \in Threads : Flushing(u)}
  <1>1. IsFiniteSet(F)
    BY ThreadsAssumption, FS_Subset
  <1>2. F = {}
    BY <1>1, FS_EmptySet DEF CountInv
  <1> QED
    BY <1>2 DEF Flushing, NeedsConsumer

\* a stopping consumer is one that a destroyer has stopped: the runtime no longer runs
LEMMA StoppingShut == ASSUME ShutdownInv, Stopping PROVE lifecycle # "running" /\ ~enabled
  BY DEF ShutdownInv, DestroyInv, Stopping, Working

\* A step touches no debt if it takes no ready bit or pending visit away, frees no
\* slot, brings no log call to a queue, and leaves the visit to a slot alone.
LEMMA DebtsStay ==
    ASSUME DebtInv, UNCHANGED <<owedAtExit, enabled, cur, todo>>,
           cpc' = cpc \/ cpc \notin AtSlot,
           bits \cup pending \subseteq bits' \cup pending',
           \A s \in Slots : slotState'[s] = "free" => slotState[s] = "free",
           \A q \in Queues : InFlight(q)' \subseteq InFlight(q)
    PROVE  DebtInv'
  <1> SUFFICES ASSUME NEW q \in Queues, owedAtExit[q] > 0
               PROVE  /\ ~enabled
                      /\ q \in Slots =>
                            \/ q \in bits' \cup pending'
                            \/ cur = q /\ cpc' = "consume" /\ owedAtExit[q] <= todo
                            \/ cur = q /\ cpc' \in AtSlot /\ InFlight(q)' = {} /\ slotState'[q] # "free"
    BY DEF DebtInv
  <1>1. CASE q \in bits \cup pending
    BY <1>1 DEF DebtInv
  <1>2. CASE q \notin bits \cup pending
    BY <1>2 DEF DebtInv, AtSlot
  <1> QED
    BY <1>1, <1>2

\* no log call comes to a queue with a thread that ends or begins something else
LEMMA NoNewLogCall ==
    ASSUME \A u \in Threads : call'[u] = "log" => call[u] = "log" /\ tgt'[u] = tgt[u]
    PROVE  \A q \in Queues : InFlight(q)' \subseteq InFlight(q)
  BY DEF InFlight

-----------------------------------------------------------------------------
(* A thread begins a call or exits *)

\* LogSingle: no record is owed while the level gate is open
LEMMA LogSingleKeepsShutdown ==
    ASSUME IInv, FlushInv, ShutdownInv, NEW t \in Threads, LogSingle(t) PROVE ShutdownInv'
  <1> USE DEF IInv, TypeOK, FlushInv, ShutdownInv
  <1>1. CountInv'
    <2>1. \A u \in Threads : Flushing(u)' <=> Flushing(u)
      BY DEF LogSingle, Goto, Flushing, ThreadTypes, CallInv, FlushPCs
    <2> QED
      BY <2>1, SameFlushers DEF LogSingle
  <1>2. QuietInv'
    BY DEF LogSingle, Goto, QuietInv, Stopping, NeedsConsumer, ThreadTypes, CallInv, FlushPCs
  <1>3. DebtInv'
    BY SlotFacts DEF LogSingle, Goto, DebtInv, AtSlot, InFlight, HistoryTypes, QueueTypes,
       ConsumerTypes, ConsumerInv, OwedInv
  <1>4. (DestroyInv /\ LastPassInv /\ FreedInv /\ FinalPassInv)'
    BY DEF LogSingle, Goto, DestroyInv, Working, LastPassInv, Stopping, DrainPCs, FreedInv,
       AtSlot, FinalPassInv
  <1> QED
    BY <1>1, <1>2, <1>3, <1>4

\* LogThreadsafe: no record is owed while the level gate is open
LEMMA LogThreadsafeKeepsShutdown ==
    ASSUME IInv, FlushInv, ShutdownInv, NEW t \in Threads, LogThreadsafe(t) PROVE ShutdownInv'
  <1> USE DEF IInv, TypeOK, FlushInv, ShutdownInv
  <1>1. CountInv'
    <2>1. \A u \in Threads : Flushing(u)' <=> Flushing(u)
      BY DEF LogThreadsafe, Goto, Flushing, ThreadTypes, CallInv, FlushPCs
    <2> QED
      BY <2>1, SameFlushers DEF LogThreadsafe
  <1>2. QuietInv'
    BY DEF LogThreadsafe, Goto, QuietInv, Stopping, NeedsConsumer, ThreadTypes, CallInv,
       FlushPCs
  <1>3. DebtInv'
    BY SlotFacts DEF LogThreadsafe, Goto, DebtInv, AtSlot, InFlight, HistoryTypes, QueueTypes,
       ConsumerTypes, ConsumerInv, OwedInv
  <1>4. (DestroyInv /\ LastPassInv /\ FreedInv /\ FinalPassInv)'
    BY DEF LogThreadsafe, Goto, DestroyInv, Working, LastPassInv, Stopping, DrainPCs, FreedInv,
       AtSlot, FinalPassInv
  <1> QED
    BY <1>1, <1>2, <1>3, <1>4

\* Prewarm: no log call begins
LEMMA PrewarmKeepsShutdown ==
    ASSUME IInv, FlushInv, ShutdownInv, NEW t \in Threads, Prewarm(t) PROVE ShutdownInv'
  <1> USE DEF IInv, TypeOK, FlushInv, ShutdownInv
  <1>1. CountInv'
    <2>1. \A u \in Threads : Flushing(u)' <=> Flushing(u)
      BY DEF Prewarm, Goto, Flushing, ThreadTypes, CallInv, FlushPCs
    <2> QED
      BY <2>1, SameFlushers DEF Prewarm
  <1>2. QuietInv'
    BY DEF Prewarm, Goto, QuietInv, Stopping, NeedsConsumer, ThreadTypes, CallInv, FlushPCs
  <1>3. DebtInv'
    <2>1. \A u \in Threads : call'[u] = "log" => call[u] = "log" /\ tgt'[u] = tgt[u]
      BY DEF Prewarm, Goto, ThreadTypes, CallInv
    <2>2. \A q \in Queues : InFlight(q)' \subseteq InFlight(q)
      BY <2>1, NoNewLogCall
    <2> QED
      BY <2>2, DebtsStay DEF Prewarm
  <1>4. (DestroyInv /\ LastPassInv /\ FreedInv /\ FinalPassInv)'
    BY DEF Prewarm, Goto, DestroyInv, Working, LastPassInv, Stopping, DrainPCs, FreedInv,
       AtSlot, FinalPassInv
  <1> QED
    BY <1>1, <1>2, <1>3, <1>4

\* Retire: no log call begins, and the slot is not freed yet
LEMMA RetireKeepsShutdown ==
    ASSUME IInv, FlushInv, ShutdownInv, NEW t \in Threads, Retire(t) PROVE ShutdownInv'
  <1> USE DEF IInv, TypeOK, FlushInv, ShutdownInv
  <1>1. CountInv'
    <2>1. \A u \in Threads : Flushing(u)' <=> Flushing(u)
      BY DEF Retire, Goto, Flushing, ThreadTypes, CallInv, FlushPCs
    <2> QED
      BY <2>1, SameFlushers DEF Retire
  <1>2. QuietInv'
    BY DEF Retire, Goto, QuietInv, Stopping, NeedsConsumer, ThreadTypes, CallInv, FlushPCs
  <1>3. FreedInv'
    BY SlotFacts DEF Retire, Goto, FreedInv, AtSlot, QueueTypes, ConsumerInv, ConsumerTypes
  <1>4. DebtInv'
    <2>1. \A u \in Threads : call'[u] = "log" => call[u] = "log" /\ tgt'[u] = tgt[u]
      BY DEF Retire, Goto, ThreadTypes, CallInv
    <2>2. \A q \in Queues : InFlight(q)' \subseteq InFlight(q)
      BY <2>1, NoNewLogCall
    <2>3. \A s \in Slots : slotState'[s] = "free" => slotState[s] = "free"
      BY DEF Retire, QueueTypes
    <2> QED
      BY <2>2, <2>3, DebtsStay DEF Retire
  <1>5. (DestroyInv /\ LastPassInv /\ FinalPassInv)'
    BY DEF Retire, Goto, DestroyInv, Working, LastPassInv, Stopping, DrainPCs, FinalPassInv,
       AtSlot
  <1> QED
    BY <1>1, <1>2, <1>3, <1>4, <1>5

\* FlushBegin: the flush is not counted yet
LEMMA FlushBeginKeepsShutdown ==
    ASSUME IInv, FlushInv, ShutdownInv, NEW t \in Threads, FlushBegin(t) PROVE ShutdownInv'
  <1> USE DEF IInv, TypeOK, FlushInv, ShutdownInv
  <1>1. CountInv'
    <2>1. \A u \in Threads : Flushing(u)' <=> Flushing(u)
      BY DEF FlushBegin, Goto, Flushing, ThreadTypes, CallInv, FlushPCs
    <2> QED
      BY <2>1, SameFlushers DEF FlushBegin
  <1>2. QuietInv'
    BY DEF FlushBegin, Goto, QuietInv, Stopping, NeedsConsumer, ThreadTypes, CallInv, FlushPCs
  <1>3. DebtInv'
    <2>1. \A u \in Threads : call'[u] = "log" => call[u] = "log" /\ tgt'[u] = tgt[u]
      BY DEF FlushBegin, Goto, ThreadTypes, CallInv
    <2>2. \A q \in Queues : InFlight(q)' \subseteq InFlight(q)
      BY <2>1, NoNewLogCall
    <2> QED
      BY <2>2, DebtsStay DEF FlushBegin
  <1>4. (DestroyInv /\ LastPassInv /\ FreedInv /\ FinalPassInv)'
    BY DEF FlushBegin, Goto, DestroyInv, Working, LastPassInv, Stopping, DrainPCs, FreedInv,
       AtSlot, FinalPassInv
  <1> QED
    BY <1>1, <1>2, <1>3, <1>4

-----------------------------------------------------------------------------
(* The call goes on *)

\* AcquireFree: the slot is free, and its debt, if any, is one the consumer comes for
LEMMA AcquireFreeKeepsShutdown ==
    ASSUME IInv, FlushInv, ShutdownInv, NEW t \in Threads, AcquireFree(t) PROVE ShutdownInv'
  <1> USE DEF IInv, TypeOK, FlushInv, ShutdownInv
  <1>1. CountInv'
    <2>1. \A u \in Threads : Flushing(u)' <=> Flushing(u)
      BY DEF AcquireFree, Take, Goto, Return, Flushing, ThreadTypes, CallInv, FlushPCs
    <2> QED
      BY <2>1, SameFlushers DEF AcquireFree
  <1>2. QuietInv'
    BY DEF AcquireFree, Take, Goto, Return, QuietInv, Stopping, NeedsConsumer, ThreadTypes,
       CallInv, FlushPCs
  <1>3. FreedInv'
    BY SlotFacts DEF AcquireFree, Take, Goto, Return, FreedInv, AtSlot, QueueTypes, ConsumerInv,
       ConsumerTypes
  <1>4. DebtInv'
    <2>1. freeHead \in Slots /\ slotState[freeHead] = "free"
      BY DEF AcquireFree, FreeListInv, Listed
    <2>2. \A q \in Queues : q # freeHead => InFlight(q)' \subseteq InFlight(q)
      BY DEF AcquireFree, Take, Goto, Return, InFlight, ThreadTypes
    <2>3. \A s \in Slots : s # freeHead => slotState'[s] = slotState[s]
      BY <2>1 DEF AcquireFree, QueueTypes
    <2> QED
      BY <2>1, <2>2, <2>3 DEF AcquireFree, DebtInv
  <1>5. (DestroyInv /\ LastPassInv /\ FinalPassInv)'
    BY DEF AcquireFree, Take, Goto, Return, DestroyInv, Working, LastPassInv, Stopping,
       DrainPCs, FinalPassInv, AtSlot
  <1> QED
    BY <1>1, <1>2, <1>3, <1>4, <1>5

\* AcquireNew: a slot that did not exist has no debt
LEMMA AcquireNewKeepsShutdown ==
    ASSUME IInv, FlushInv, ShutdownInv, NEW t \in Threads, AcquireNew(t) PROVE ShutdownInv'
  <1> USE DEF IInv, TypeOK, FlushInv, ShutdownInv
  <1>1. CountInv'
    <2>1. \A u \in Threads : Flushing(u)' <=> Flushing(u)
      BY DEF AcquireNew, Take, Goto, Return, Flushing, ThreadTypes, CallInv, FlushPCs
    <2> QED
      BY <2>1, SameFlushers DEF AcquireNew
  <1>2. QuietInv'
    BY DEF AcquireNew, Take, Goto, Return, QuietInv, Stopping, NeedsConsumer, ThreadTypes,
       CallInv, FlushPCs
  <1>3. FreedInv'
    BY SlotFacts DEF AcquireNew, Take, Goto, Return, FreedInv, AtSlot, QueueTypes, ConsumerInv,
       ConsumerTypes
  <1>4. DebtInv'
    <2>1. count \in Slots /\ count \notin bits \cup pending /\ cur # count
      BY SlotFacts DEF AcquireNew, QueueTypes, ConsumerInv
    <2>2. \A q \in Queues : q # count => InFlight(q)' \subseteq InFlight(q)
      BY DEF AcquireNew, Take, Goto, Return, InFlight, ThreadTypes
    <2>3. \A s \in Slots : s # count => slotState'[s] = slotState[s]
      BY <2>1 DEF AcquireNew, QueueTypes
    <2> QED
      BY <2>1, <2>2, <2>3 DEF AcquireNew, DebtInv
  <1>5. (DestroyInv /\ LastPassInv /\ FinalPassInv)'
    BY DEF AcquireNew, Take, Goto, Return, DestroyInv, Working, LastPassInv, Stopping, DrainPCs,
       FinalPassInv, AtSlot
  <1> QED
    BY <1>1, <1>2, <1>3, <1>4, <1>5

\* AcquireFails: a log call ends
LEMMA AcquireFailsKeepsShutdown ==
    ASSUME IInv, FlushInv, ShutdownInv, NEW t \in Threads, AcquireFails(t) PROVE ShutdownInv'
  <1> USE DEF IInv, TypeOK, FlushInv, ShutdownInv
  <1>1. CountInv'
    <2>1. \A u \in Threads : Flushing(u)' <=> Flushing(u)
      BY DEF AcquireFails, Return, Goto, Flushing, ThreadTypes, CallInv, FlushPCs
    <2> QED
      BY <2>1, SameFlushers DEF AcquireFails
  <1>2. QuietInv'
    BY DEF AcquireFails, Return, Goto, QuietInv, Stopping, NeedsConsumer, ThreadTypes, CallInv,
       FlushPCs
  <1>3. DebtInv'
    <2>1. \A u \in Threads : call'[u] = "log" => call[u] = "log" /\ tgt'[u] = tgt[u]
      BY DEF AcquireFails, Return, Goto, ThreadTypes, CallInv
    <2>2. \A q \in Queues : InFlight(q)' \subseteq InFlight(q)
      BY <2>1, NoNewLogCall
    <2> QED
      BY <2>2, DebtsStay DEF AcquireFails
  <1>4. (DestroyInv /\ LastPassInv /\ FreedInv /\ FinalPassInv)'
    BY DEF AcquireFails, Return, Goto, DestroyInv, Working, LastPassInv, Stopping, DrainPCs,
       FreedInv, AtSlot, FinalPassInv
  <1> QED
    BY <1>1, <1>2, <1>3, <1>4

\* Produce: no log call is at a slot that is free
LEMMA ProduceKeepsShutdown ==
    ASSUME IInv, FlushInv, ShutdownInv, NEW t \in Threads, Produce(t) PROVE ShutdownInv'
  <1> USE DEF IInv, TypeOK, FlushInv, ShutdownInv
  <1>1. CountInv'
    <2>1. \A u \in Threads : Flushing(u)' <=> Flushing(u)
      BY DEF Produce, Goto, Flushing, ThreadTypes, CallInv, FlushPCs
    <2> QED
      BY <2>1, SameFlushers DEF Produce
  <1>2. QuietInv'
    BY DEF Produce, Goto, QuietInv, Stopping, NeedsConsumer, ThreadTypes, CallInv, FlushPCs
  <1>3. FreedInv'
    <2>1. \A s \in Slots : slotState[s] = "free" => tgt[t] # s
      BY SlotFacts DEF Produce, Goto, CallInv, SingleProducer, Owns
    <2>2. \A s \in Slots : slotState[s] = "free" => depth'[s] = depth[s]
      BY <2>1, SlotFacts DEF Produce, QueueTypes
    <2> QED
      BY <2>2 DEF Produce, FreedInv
  <1>4. DebtInv'
    BY SlotFacts DEF Produce, Goto, DebtInv, AtSlot, InFlight, HistoryTypes, QueueTypes,
       ConsumerTypes, ConsumerInv, OwedInv
  <1>5. (DestroyInv /\ LastPassInv /\ FinalPassInv)'
    BY DEF Produce, Goto, DestroyInv, Working, LastPassInv, Stopping, DrainPCs, FinalPassInv,
       AtSlot
  <1> QED
    BY <1>1, <1>2, <1>3, <1>4, <1>5

\* ProduceNothing: a log call ends
LEMMA ProduceNothingKeepsShutdown ==
    ASSUME IInv, FlushInv, ShutdownInv, NEW t \in Threads, ProduceNothing(t) PROVE ShutdownInv'
  <1> USE DEF IInv, TypeOK, FlushInv, ShutdownInv
  <1>1. CountInv'
    <2>1. \A u \in Threads : Flushing(u)' <=> Flushing(u)
      BY DEF ProduceNothing, Return, Goto, Flushing, ThreadTypes, CallInv, FlushPCs
    <2> QED
      BY <2>1, SameFlushers DEF ProduceNothing
  <1>2. QuietInv'
    BY DEF ProduceNothing, Return, Goto, QuietInv, Stopping, NeedsConsumer, ThreadTypes,
       CallInv, FlushPCs
  <1>3. DebtInv'
    <2>1. \A u \in Threads : call'[u] = "log" => call[u] = "log" /\ tgt'[u] = tgt[u]
      BY DEF ProduceNothing, Return, Goto, ThreadTypes, CallInv
    <2>2. \A q \in Queues : InFlight(q)' \subseteq InFlight(q)
      BY <2>1, NoNewLogCall
    <2> QED
      BY <2>2, DebtsStay DEF ProduceNothing
  <1>4. (DestroyInv /\ LastPassInv /\ FreedInv /\ FinalPassInv)'
    BY DEF ProduceNothing, Return, Goto, DestroyInv, Working, LastPassInv, Stopping, DrainPCs,
       FreedInv, AtSlot, FinalPassInv
  <1> QED
    BY <1>1, <1>2, <1>3, <1>4

\* Mark: the flag alone pays no debt
LEMMA MarkKeepsShutdown ==
    ASSUME IInv, FlushInv, ShutdownInv, NEW t \in Threads, Mark(t) PROVE ShutdownInv'
  <1> USE DEF IInv, TypeOK, FlushInv, ShutdownInv
  <1>1. CountInv'
    <2>1. \A u \in Threads : Flushing(u)' <=> Flushing(u)
      BY DEF Mark, Goto, Return, Flushing, ThreadTypes, CallInv, FlushPCs
    <2> QED
      BY <2>1, SameFlushers DEF Mark
  <1>2. QuietInv'
    BY DEF Mark, Goto, Return, QuietInv, Stopping, NeedsConsumer, ThreadTypes, CallInv, FlushPCs
  <1>3. DebtInv'
    <2>1. \A u \in Threads : call'[u] = "log" => call[u] = "log" /\ tgt'[u] = tgt[u]
      BY DEF Mark, Goto, Return, ThreadTypes, CallInv
    <2>2. \A q \in Queues : InFlight(q)' \subseteq InFlight(q)
      BY <2>1, NoNewLogCall
    <2> QED
      BY <2>2, DebtsStay DEF Mark
  <1>4. (DestroyInv /\ LastPassInv /\ FreedInv /\ FinalPassInv)'
    BY DEF Mark, Goto, Return, DestroyInv, Working, LastPassInv, Stopping, DrainPCs, FreedInv,
       AtSlot, FinalPassInv
  <1> QED
    BY <1>1, <1>2, <1>3, <1>4

\* Publish: the ready bit only helps
LEMMA PublishKeepsShutdown ==
    ASSUME IInv, FlushInv, ShutdownInv, NEW t \in Threads, Publish(t) PROVE ShutdownInv'
  <1> USE DEF IInv, TypeOK, FlushInv, ShutdownInv
  <1>1. CountInv'
    <2>1. \A u \in Threads : Flushing(u)' <=> Flushing(u)
      BY DEF Publish, Goto, PublishReadyBit, Flushing, ThreadTypes, CallInv, FlushPCs
    <2> QED
      BY <2>1, SameFlushers DEF Publish
  <1>2. QuietInv'
    BY DEF Publish, Goto, PublishReadyBit, QuietInv, Stopping, NeedsConsumer, ThreadTypes,
       CallInv, FlushPCs
  <1>3. DebtInv'
    BY SlotFacts DEF Publish, Goto, PublishReadyBit, DebtInv, AtSlot, InFlight, HistoryTypes,
       QueueTypes, ConsumerTypes, ConsumerInv, OwedInv
  <1>4. (DestroyInv /\ LastPassInv /\ FreedInv /\ FinalPassInv)'
    BY DEF Publish, Goto, PublishReadyBit, DestroyInv, Working, LastPassInv, Stopping, DrainPCs,
       FreedInv, AtSlot, FinalPassInv
  <1> QED
    BY <1>1, <1>2, <1>3, <1>4

\* Bump: nor does the wake ticket
LEMMA BumpKeepsShutdown ==
    ASSUME IInv, FlushInv, ShutdownInv, NEW t \in Threads, Bump(t) PROVE ShutdownInv'
  <1> USE DEF IInv, TypeOK, FlushInv, ShutdownInv
  <1>1. CountInv'
    <2>1. \A u \in Threads : Flushing(u)' <=> Flushing(u)
      BY DEF Bump, Goto, Flushing, ThreadTypes, CallInv, FlushPCs
    <2> QED
      BY <2>1, SameFlushers DEF Bump
  <1>2. QuietInv'
    BY DEF Bump, Goto, QuietInv, Stopping, NeedsConsumer, ThreadTypes, CallInv, FlushPCs
  <1>3. (DestroyInv /\ LastPassInv /\ FreedInv /\ DebtInv /\ FinalPassInv)'
    BY DEF Bump, Goto, DestroyInv, Working, LastPassInv, Stopping, DrainPCs, FreedInv, AtSlot,
       DebtInv, InFlight, FinalPassInv
  <1> QED
    BY <1>1, <1>2, <1>3

\* Notify: a call returns, or a flush goes on to wait
LEMMA NotifyKeepsShutdown ==
    ASSUME IInv, FlushInv, ShutdownInv, NEW t \in Threads, Notify(t) PROVE ShutdownInv'
  <1> USE DEF IInv, TypeOK, FlushInv, ShutdownInv
  <1>1. CountInv'
    <2>1. \A u \in Threads : Flushing(u)' <=> Flushing(u)
      BY DEF Notify, Goto, Return, NotifyConsumer, Flushing, ThreadTypes, CallInv, FlushPCs
    <2> QED
      BY <2>1, SameFlushers DEF Notify
  <1>2. DestroyInv'
    BY DEF Notify, Goto, Return, NotifyConsumer, DestroyInv, Working, RuntimeTypes
  <1>3. LastPassInv'
    BY DEF Notify, Goto, Return, NotifyConsumer, LastPassInv, Stopping, DrainPCs, ConsumerInv,
       ConsumerTypes
  <1>4. QuietInv'
    BY DEF Notify, Goto, Return, NotifyConsumer, QuietInv, Stopping, NeedsConsumer, ThreadTypes,
       CallInv, FlushPCs
  <1>5. FreedInv'
    BY SlotFacts DEF Notify, Goto, Return, NotifyConsumer, FreedInv, AtSlot, QueueTypes,
       ConsumerInv, ConsumerTypes
  <1>6. DebtInv'
    <2>1. \A u \in Threads : call'[u] = "log" => call[u] = "log" /\ tgt'[u] = tgt[u]
      BY DEF Notify, Goto, Return, NotifyConsumer, ThreadTypes, CallInv
    <2>2. \A q \in Queues : InFlight(q)' \subseteq InFlight(q)
      BY <2>1, NoNewLogCall
    <2> QED
      BY <2>2, DebtsStay DEF Notify, NotifyConsumer, AtSlot
  <1>7. FinalPassInv'
    BY SlotFacts DEF Notify, Goto, Return, NotifyConsumer, FinalPassInv, AtSlot, DrainPCs,
       ConsumerTypes, ConsumerInv
  <1> QED
    BY <1>1, <1>2, <1>3, <1>4, <1>5, <1>6, <1>7

-----------------------------------------------------------------------------
(* A flush goes on *)

\* FlushEnter: one more is counted
LEMMA FlushEnterKeepsShutdown ==
    ASSUME IInv, FlushInv, ShutdownInv, NEW t \in Threads, FlushEnter(t) PROVE ShutdownInv'
  <1> USE DEF IInv, TypeOK, FlushInv, ShutdownInv
  <1>1. CountInv'
    <2>1. ~Flushing(t) /\ Flushing(t)'
      BY DEF FlushEnter, Goto, Flushing, ThreadTypes, CallInv, FlushPCs
    <2>2. \A u \in Threads : u # t => (Flushing(u)' <=> Flushing(u))
      BY DEF FlushEnter, Goto, Flushing, ThreadTypes
    <2>3. {u \in Threads : Flushing(u)}' = {u \in Threads : Flushing(u)} \cup {t}
      BY <2>1, <2>2
    <2>4. IsFiniteSet({u \in Threads : Flushing(u)})
      BY ThreadsAssumption, FS_Subset
    <2> QED
      BY <2>1, <2>3, <2>4, FS_AddElement DEF FlushEnter, CountInv
  <1>2. QuietInv'
    BY DEF FlushEnter, Goto, QuietInv, Stopping, NeedsConsumer, ThreadTypes, CallInv, FlushPCs
  <1>3. (DestroyInv /\ LastPassInv /\ FreedInv /\ DebtInv /\ FinalPassInv)'
    BY DEF FlushEnter, Goto, DestroyInv, Working, LastPassInv, Stopping, DrainPCs, FreedInv,
       AtSlot, DebtInv, InFlight, FinalPassInv
  <1> QED
    BY <1>1, <1>2, <1>3

\* FlushCheck: when the runtime is no longer running, the flush is turned away
LEMMA FlushCheckKeepsShutdown ==
    ASSUME IInv, FlushInv, ShutdownInv, NEW t \in Threads, FlushCheck(t) PROVE ShutdownInv'
  <1> USE DEF IInv, TypeOK, FlushInv, ShutdownInv
  <1>1. CountInv'
    <2>1. \A u \in Threads : Flushing(u)' <=> Flushing(u)
      BY DEF FlushCheck, Goto, Flushing, ThreadTypes, CallInv, FlushPCs
    <2> QED
      BY <2>1, SameFlushers DEF FlushCheck
  <1>2. QuietInv'
    <2>1. Stopping \/ (\E d \in Destroyers : dpc[d] = "stop") => lifecycle # "running"
      BY StoppingShut DEF DestroyInv, Working
    <2> QED
      BY <2>1 DEF FlushCheck, Goto, QuietInv, Stopping, NeedsConsumer, ThreadTypes
  <1>3. (DestroyInv /\ LastPassInv /\ FreedInv /\ DebtInv /\ FinalPassInv)'
    BY DEF FlushCheck, Goto, DestroyInv, Working, LastPassInv, Stopping, DrainPCs, FreedInv,
       AtSlot, DebtInv, InFlight, FinalPassInv
  <1> QED
    BY <1>1, <1>2, <1>3

\* FlushRequest: the flush needed the consumer already
LEMMA FlushRequestKeepsShutdown ==
    ASSUME IInv, FlushInv, ShutdownInv, NEW t \in Threads, FlushRequest(t) PROVE ShutdownInv'
  <1> USE DEF IInv, TypeOK, FlushInv, ShutdownInv
  <1>1. CountInv'
    <2>1. \A u \in Threads : Flushing(u)' <=> Flushing(u)
      BY DEF FlushRequest, Goto, Flushing, ThreadTypes, CallInv, FlushPCs
    <2> QED
      BY <2>1, SameFlushers DEF FlushRequest
  <1>2. QuietInv'
    BY DEF FlushRequest, Goto, QuietInv, Stopping, NeedsConsumer, ThreadTypes, CallInv, FlushPCs
  <1>3. (DestroyInv /\ LastPassInv /\ FreedInv /\ DebtInv /\ FinalPassInv)'
    BY DEF FlushRequest, Goto, DestroyInv, Working, LastPassInv, Stopping, DrainPCs, FreedInv,
       AtSlot, DebtInv, InFlight, FinalPassInv
  <1> QED
    BY <1>1, <1>2, <1>3

\* FlushWait: the flush needed the consumer already
LEMMA FlushWaitKeepsShutdown ==
    ASSUME IInv, FlushInv, ShutdownInv, NEW t \in Threads, FlushWait(t) PROVE ShutdownInv'
  <1> USE DEF IInv, TypeOK, FlushInv, ShutdownInv
  <1>1. CountInv'
    <2>1. \A u \in Threads : Flushing(u)' <=> Flushing(u)
      BY DEF FlushWait, Goto, Flushing, ThreadTypes, CallInv, FlushPCs
    <2> QED
      BY <2>1, SameFlushers DEF FlushWait
  <1>2. QuietInv'
    BY DEF FlushWait, Goto, QuietInv, Stopping, NeedsConsumer, ThreadTypes, CallInv, FlushPCs
  <1>3. (DestroyInv /\ LastPassInv /\ FreedInv /\ DebtInv /\ FinalPassInv)'
    BY DEF FlushWait, Goto, DestroyInv, Working, LastPassInv, Stopping, DrainPCs, FreedInv,
       AtSlot, DebtInv, InFlight, FinalPassInv
  <1> QED
    BY <1>1, <1>2, <1>3

\* FlushLeave: one fewer is counted
LEMMA FlushLeaveKeepsShutdown ==
    ASSUME IInv, FlushInv, ShutdownInv, NEW t \in Threads, FlushLeave(t) PROVE ShutdownInv'
  <1> USE DEF IInv, TypeOK, FlushInv, ShutdownInv
  <1>1. CountInv'
    <2>1. Flushing(t) /\ ~Flushing(t)'
      BY DEF FlushLeave, Goto, Return, Flushing, ThreadTypes, CallInv, FlushPCs
    <2>2. \A u \in Threads : u # t => (Flushing(u)' <=> Flushing(u))
      BY DEF FlushLeave, Goto, Return, Flushing, ThreadTypes
    <2>3. {u \in Threads : Flushing(u)}' = {u \in Threads : Flushing(u)} \ {t}
      BY <2>1, <2>2
    <2>4. IsFiniteSet({u \in Threads : Flushing(u)})
      BY ThreadsAssumption, FS_Subset
    <2> QED
      BY <2>1, <2>3, <2>4, FS_RemoveElement DEF FlushLeave, CountInv
  <1>2. QuietInv'
    BY DEF FlushLeave, Goto, Return, QuietInv, Stopping, NeedsConsumer, ThreadTypes, CallInv,
       FlushPCs
  <1>3. DebtInv'
    <2>1. \A u \in Threads : call'[u] = "log" => call[u] = "log" /\ tgt'[u] = tgt[u]
      BY DEF FlushLeave, Goto, Return, ThreadTypes, CallInv
    <2>2. \A q \in Queues : InFlight(q)' \subseteq InFlight(q)
      BY <2>1, NoNewLogCall
    <2> QED
      BY <2>2, DebtsStay DEF FlushLeave
  <1>4. (DestroyInv /\ LastPassInv /\ FreedInv /\ FinalPassInv)'
    BY DEF FlushLeave, Goto, Return, DestroyInv, Working, LastPassInv, Stopping, DrainPCs,
       FreedInv, AtSlot, FinalPassInv
  <1> QED
    BY <1>1, <1>2, <1>3, <1>4

\* FlushNotify: the destroyer looks at the count again
LEMMA FlushNotifyKeepsShutdown ==
    ASSUME IInv, FlushInv, ShutdownInv, NEW t \in Threads, FlushNotify(t) PROVE ShutdownInv'
  <1> USE DEF IInv, TypeOK, FlushInv, ShutdownInv
  <1>1. CountInv'
    <2>1. \A u \in Threads : Flushing(u)' <=> Flushing(u)
      BY DEF FlushNotify, Return, Goto, Flushing, ThreadTypes, CallInv, FlushPCs
    <2> QED
      BY <2>1, SameFlushers DEF FlushNotify
  <1>2. DestroyInv'
    BY DEF FlushNotify, Return, Goto, DestroyInv, Working, RuntimeTypes
  <1>3. QuietInv'
    BY DEF FlushNotify, Return, Goto, QuietInv, Stopping, NeedsConsumer, ThreadTypes, CallInv,
       FlushPCs
  <1>4. DebtInv'
    <2>1. \A u \in Threads : call'[u] = "log" => call[u] = "log" /\ tgt'[u] = tgt[u]
      BY DEF FlushNotify, Return, Goto, ThreadTypes, CallInv
    <2>2. \A q \in Queues : InFlight(q)' \subseteq InFlight(q)
      BY <2>1, NoNewLogCall
    <2> QED
      BY <2>2, DebtsStay DEF FlushNotify
  <1>5. (LastPassInv /\ FreedInv /\ FinalPassInv)'
    BY DEF FlushNotify, Return, Goto, LastPassInv, Stopping, DrainPCs, FreedInv, AtSlot,
       FinalPassInv
  <1> QED
    BY <1>1, <1>2, <1>3, <1>4, <1>5

-----------------------------------------------------------------------------
(* The consumer drains the queues *)

\* Sample: every debt of a slot has its ready bit
LEMMA SampleKeepsShutdown ==
    ASSUME IInv, FlushInv, ShutdownInv, Sample PROVE ShutdownInv'
  <1> USE DEF IInv, TypeOK, FlushInv, ShutdownInv
  <1>1. DestroyInv'
    BY DEF Sample, CGoto, StartPass, DestroyInv, Working, RuntimeTypes
  <1>2. LastPassInv'
    BY DEF Sample, CGoto, StartPass, LastPassInv, Stopping, DrainPCs, ConsumerInv, ConsumerTypes
  <1>3. FreedInv'
    BY SlotFacts DEF Sample, CGoto, StartPass, FreedInv, AtSlot, QueueTypes, ConsumerInv,
       ConsumerTypes
  <1>4. DebtInv'
    <2>1. \A q \in Queues : InFlight(q)' \subseteq InFlight(q)
      BY DEF Sample, InFlight
    <2>2. pending = {} /\ cpc \notin AtSlot
      BY DEF Sample, CGoto, ConsumerInv, DrainPCs, AtSlot
    <2> QED
      BY <2>1, <2>2, DebtsStay DEF Sample
  <1>5. FinalPassInv'
    BY SlotFacts DEF Sample, CGoto, StartPass, FinalPassInv, AtSlot, DrainPCs, ConsumerTypes,
       ConsumerInv
  <1>6. (CountInv /\ QuietInv)'
    BY DEF Sample, CGoto, StartPass, CountInv, Flushing, QuietInv, Stopping, NeedsConsumer
  <1> QED
    BY <1>1, <1>2, <1>3, <1>4, <1>5, <1>6

\* Visit: the records to take are at least those that are owed
LEMMA VisitKeepsShutdown ==
    ASSUME IInv, FlushInv, ShutdownInv, Visit PROVE ShutdownInv'
  <1> USE DEF IInv, TypeOK, FlushInv, ShutdownInv
  <1>1. DestroyInv'
    BY DEF Visit, DestroyInv, Working, RuntimeTypes
  <1>2. LastPassInv'
    BY DEF Visit, LastPassInv, Stopping, DrainPCs, ConsumerInv, ConsumerTypes
  <1>3. FreedInv'
    BY SlotFacts DEF Visit, FreedInv, AtSlot, QueueTypes, ConsumerInv, ConsumerTypes
  <1>4. DebtInv'
    <2>1. ASSUME NEW q \in Slots, owedAtExit[q] > 0, q \notin bits \cup pending' PROVE
             cur' = q /\ cpc' = "consume" /\ owedAtExit[q] <= todo'
      <3>1. q \in pending /\ cur' = q
        BY <2>1, SlotFacts DEF Visit, DebtInv, AtSlot
      <3>2. depth[q] # 0 /\ owedAtExit[q] <= depth[q]
        BY <2>1, SlotFacts DEF OwedInv, QueueTypes, HistoryTypes
      <3> QED
        BY <3>1, <3>2 DEF Visit
    <2> QED
      BY <2>1, SlotFacts DEF Visit, DebtInv
  <1>5. FinalPassInv'
    BY SlotFacts DEF Visit, FinalPassInv, AtSlot, DrainPCs, ConsumerTypes, ConsumerInv
  <1>6. (CountInv /\ QuietInv)'
    BY DEF Visit, CountInv, Flushing, QuietInv, Stopping, NeedsConsumer
  <1> QED
    BY <1>1, <1>2, <1>3, <1>4, <1>5, <1>6

\* LoadCount: the words to take cover every slot with a debt
LEMMA LoadCountKeepsShutdown ==
    ASSUME IInv, FlushInv, ShutdownInv, LoadCount PROVE ShutdownInv'
  <1> USE DEF IInv, TypeOK, FlushInv, ShutdownInv
  <1>1. DebtInv'
    BY SlotFacts DEF LoadCount, DebtInv, AtSlot, InFlight, HistoryTypes, QueueTypes,
       ConsumerTypes, ConsumerInv, OwedInv
  <1>2. FinalPassInv'
    <2> SUFFICES ASSUME mode = "final", allDrained, NEW q \in Queues, owedAtExit[q] > 0
                 PROVE  q \in Slots /\ q \div SlotsPerWord \in word' .. words' - 1
      BY DEF LoadCount, FinalPassInv, DrainPCs
    <2>1. q \in Slots
      BY DEF LoadCount, FinalPassInv, AtSlot
    <2>2. q \in Nat /\ count \in Nat /\ q < count
      BY <2>1, HeldExists, SlotFacts DEF OwedInv, HistoryTypes, QueueTypes
    <2>3. q \div SlotsPerWord < (count + SlotsPerWord - 1) \div SlotsPerWord
      BY <2>2, LastWord
    <2>4. q \div SlotsPerWord \in Nat /\ (count + SlotsPerWord - 1) \div SlotsPerWord \in Nat
      BY <2>2, SlotsPerWordAssumption
    <2> QED
      BY <2>1, <2>3, <2>4 DEF LoadCount
  <1>3. (CountInv /\ DestroyInv /\ LastPassInv /\ QuietInv /\ FreedInv)'
    BY DEF LoadCount, CountInv, Flushing, DestroyInv, Working, LastPassInv, Stopping, DrainPCs,
       QuietInv, NeedsConsumer, FreedInv, AtSlot
  <1> QED
    BY <1>1, <1>2, <1>3

\* TakeWord: the ready bits of the word become visits
LEMMA TakeWordKeepsShutdown ==
    ASSUME IInv, FlushInv, ShutdownInv, TakeWord PROVE ShutdownInv'
  <1> USE DEF IInv, TypeOK, FlushInv, ShutdownInv
  <1>1. DebtInv'
    BY SlotFacts DEF TakeWord, DebtInv, AtSlot, InFlight, HistoryTypes, QueueTypes,
       ConsumerTypes, ConsumerInv, OwedInv
  <1>2. FinalPassInv'
    <2> SUFFICES ASSUME mode = "final", allDrained, NEW q \in Queues, owedAtExit[q] > 0
                 PROVE  \/ q \in pending'
                        \/ q \in Slots /\ q \div SlotsPerWord \in word' .. words - 1
      BY DEF TakeWord, FinalPassInv, DrainPCs
    <2>1. q \in Slots /\ q \div SlotsPerWord \in word .. words - 1
      BY DEF TakeWord, FinalPassInv, AtSlot
    <2>2. q \in bits
      BY <2>1 DEF TakeWord, DebtInv, AtSlot
    <2>3. q \div SlotsPerWord = word => q \in pending'
      BY <2>1, <2>2 DEF TakeWord, WordSlots
    <2>4. q \div SlotsPerWord # word => q \div SlotsPerWord \in word' .. words - 1
      BY <2>1 DEF TakeWord, ConsumerTypes
    <2> QED
      BY <2>1, <2>3, <2>4
  <1>3. (CountInv /\ DestroyInv /\ LastPassInv /\ QuietInv /\ FreedInv)'
    BY DEF TakeWord, CountInv, Flushing, DestroyInv, Working, LastPassInv, Stopping, DrainPCs,
       QuietInv, NeedsConsumer, FreedInv, AtSlot
  <1> QED
    BY <1>1, <1>2, <1>3

\* EndPass: a last pass that found all drained has paid all, any other begins anew
LEMMA EndPassKeepsShutdown ==
    ASSUME IInv, FlushInv, ShutdownInv, EndPass PROVE ShutdownInv'
  <1> USE DEF IInv, TypeOK, FlushInv, ShutdownInv
  <1>1. DestroyInv'
    BY DEF EndPass, StartPass, PassDone, DestroyInv, Working, RuntimeTypes
  <1>2. LastPassInv'
    BY DEF EndPass, StartPass, PassDone, LastPassInv, Stopping, DrainPCs, ConsumerInv,
       ConsumerTypes
  <1>3. FreedInv'
    BY SlotFacts DEF EndPass, StartPass, PassDone, FreedInv, AtSlot, QueueTypes, ConsumerInv,
       ConsumerTypes
  <1>4. DebtInv'
    BY SlotFacts DEF EndPass, StartPass, PassDone, DebtInv, AtSlot, InFlight, HistoryTypes,
       QueueTypes, ConsumerTypes, ConsumerInv, OwedInv
  <1>5. FinalPassInv'
    <2>1. CASE mode = "final" /\ allDrained
      <3>1. \A q \in Queues : ~(owedAtExit[q] > 0)
        BY <2>1 DEF EndPass, PassDone, FinalPassInv, AtSlot, ConsumerTypes
      <3> QED
        BY <3>1 DEF EndPass, FinalPassInv
    <2>2. CASE ~(mode = "final" /\ allDrained)
      <3>1. mode' = "final" /\ allDrained' =>
               stage' = "singles" /\ pending' = Singles /\ cpc' = "next"
        BY <2>2 DEF EndPass, PassDone, StartPass
      <3> QED
        BY <3>1 DEF FinalPassInv, Queues, DrainPCs
    <2> QED
      BY <2>1, <2>2
  <1>6. (CountInv /\ QuietInv)'
    BY DEF EndPass, StartPass, PassDone, CountInv, Flushing, QuietInv, Stopping, NeedsConsumer
  <1> QED
    BY <1>1, <1>2, <1>3, <1>4, <1>5, <1>6

\* Consume: the records that are owed come first
LEMMA ConsumeKeepsShutdown ==
    ASSUME IInv, FlushInv, ShutdownInv, Consume PROVE ShutdownInv'
  <1> USE DEF IInv, TypeOK, FlushInv, ShutdownInv
  <1>1. DestroyInv'
    BY DEF Consume, CGoto, DestroyInv, Working, RuntimeTypes
  <1>2. LastPassInv'
    BY DEF Consume, CGoto, LastPassInv, Stopping, DrainPCs, ConsumerInv, ConsumerTypes
  <1>3. FreedInv'
    BY SlotFacts DEF Consume, CGoto, FreedInv, AtSlot, QueueTypes, ConsumerInv, ConsumerTypes
  <1>4. DebtInv'
    BY SlotFacts DEF Consume, CGoto, DebtInv, AtSlot, InFlight, HistoryTypes, QueueTypes,
       ConsumerTypes, ConsumerInv, OwedInv
  <1>5. FinalPassInv'
    BY SlotFacts DEF Consume, CGoto, FinalPassInv, AtSlot, DrainPCs, ConsumerTypes, ConsumerInv
  <1>6. (CountInv /\ QuietInv)'
    BY DEF Consume, CGoto, CountInv, Flushing, QuietInv, Stopping, NeedsConsumer
  <1> QED
    BY <1>1, <1>2, <1>3, <1>4, <1>5, <1>6

\* Check1: a queue that still holds records keeps its ready bit
LEMMA Check1KeepsShutdown ==
    ASSUME IInv, FlushInv, ShutdownInv, Check1 PROVE ShutdownInv'
  <1> USE DEF IInv, TypeOK, FlushInv, ShutdownInv
  <1>1. DestroyInv'
    BY DEF Check1, PublishReadyBit, DestroyInv, Working, RuntimeTypes
  <1>2. LastPassInv'
    BY DEF Check1, PublishReadyBit, LastPassInv, Stopping, DrainPCs, ConsumerInv, ConsumerTypes
  <1>3. FreedInv'
    BY SlotFacts DEF Check1, PublishReadyBit, FreedInv, AtSlot, QueueTypes, ConsumerInv,
       ConsumerTypes
  <1>4. DebtInv'
    BY SlotFacts DEF Check1, PublishReadyBit, DebtInv, AtSlot, InFlight, HistoryTypes,
       QueueTypes, ConsumerTypes, ConsumerInv, OwedInv
  <1>5. FinalPassInv'
    BY SlotFacts DEF Check1, PublishReadyBit, FinalPassInv, AtSlot, DrainPCs, ConsumerTypes,
       ConsumerInv
  <1>6. (CountInv /\ QuietInv)'
    BY DEF Check1, PublishReadyBit, CountInv, Flushing, QuietInv, Stopping, NeedsConsumer
  <1> QED
    BY <1>1, <1>2, <1>3, <1>4, <1>5, <1>6

\* Clear: the consumer still has a second look to take
LEMMA ClearKeepsShutdown ==
    ASSUME IInv, FlushInv, ShutdownInv, Clear PROVE ShutdownInv'
  <1> USE DEF IInv, TypeOK, FlushInv, ShutdownInv
  <1>1. DestroyInv'
    BY DEF Clear, CGoto, DestroyInv, Working, RuntimeTypes
  <1>2. LastPassInv'
    BY DEF Clear, CGoto, LastPassInv, Stopping, DrainPCs, ConsumerInv, ConsumerTypes
  <1>3. FreedInv'
    BY SlotFacts DEF Clear, CGoto, FreedInv, AtSlot, QueueTypes, ConsumerInv, ConsumerTypes
  <1>4. DebtInv'
    BY SlotFacts DEF Clear, CGoto, DebtInv, AtSlot, InFlight, HistoryTypes, QueueTypes,
       ConsumerTypes, ConsumerInv, OwedInv
  <1>5. FinalPassInv'
    BY SlotFacts DEF Clear, CGoto, FinalPassInv, AtSlot, DrainPCs, ConsumerTypes, ConsumerInv
  <1>6. (CountInv /\ QuietInv)'
    BY DEF Clear, CGoto, CountInv, Flushing, QuietInv, Stopping, NeedsConsumer
  <1> QED
    BY <1>1, <1>2, <1>3, <1>4, <1>5, <1>6

\* Check2: whoever is owed a record makes the queue not empty
LEMMA Check2KeepsShutdown ==
    ASSUME IInv, FlushInv, ShutdownInv, Check2 PROVE ShutdownInv'
  <1> USE DEF IInv, TypeOK, FlushInv, ShutdownInv
  <1>1. DestroyInv'
    BY DEF Check2, CGoto, DestroyInv, Working, RuntimeTypes
  <1>2. LastPassInv'
    BY DEF Check2, CGoto, LastPassInv, Stopping, DrainPCs, ConsumerInv, ConsumerTypes
  <1>3. FreedInv'
    BY SlotFacts DEF Check2, CGoto, FreedInv, AtSlot, QueueTypes, ConsumerInv, ConsumerTypes
  <1>4. DebtInv'
    BY SlotFacts DEF Check2, CGoto, DebtInv, AtSlot, InFlight, HistoryTypes, QueueTypes,
       ConsumerTypes, ConsumerInv, OwedInv
  <1>5. FinalPassInv'
    <2>1. \A q \in Queues : owedAtExit[q] > 0 /\ cur = q => cpc' = "remark"
      BY DEF Check2, CGoto, OwedInv, QueueTypes, HistoryTypes
    <2> QED
      BY <2>1 DEF Check2, CGoto, FinalPassInv, AtSlot, DrainPCs
  <1>6. (CountInv /\ QuietInv)'
    BY DEF Check2, CGoto, CountInv, Flushing, QuietInv, Stopping, NeedsConsumer
  <1> QED
    BY <1>1, <1>2, <1>3, <1>4, <1>5, <1>6

\* Remark: a flag that is up is one with a ready bit, with no log call about
LEMMA RemarkKeepsShutdown ==
    ASSUME IInv, FlushInv, ShutdownInv, Remark PROVE ShutdownInv'
  <1> USE DEF IInv, TypeOK, FlushInv, ShutdownInv
  <1>1. DestroyInv'
    BY DEF Remark, CGoto, PublishReadyBit, DestroyInv, Working, RuntimeTypes
  <1>2. LastPassInv'
    BY DEF Remark, CGoto, PublishReadyBit, LastPassInv, Stopping, DrainPCs, ConsumerInv,
       ConsumerTypes
  <1>3. FreedInv'
    BY SlotFacts DEF Remark, CGoto, PublishReadyBit, FreedInv, AtSlot, QueueTypes, ConsumerInv,
       ConsumerTypes
  <1>4. DebtInv'
    <2>1. ASSUME NEW q \in Slots, owedAtExit[q] > 0, cur = q PROVE q \in bits' \cup pending'
      <3>1. q \in bits \cup pending \/ InFlight(q) = {}
        BY <2>1, SlotFacts DEF Remark, CGoto, DebtInv
      <3>2. InFlight(q) = {} => ~LogAt(q, {"publish"})
        BY DEF LogAt, InFlight
      <3> QED
        BY <2>1, <3>1, <3>2 DEF Remark, CGoto, PublishReadyBit, EnqueuedInv, Visiting
    <2>2. bits \subseteq bits' /\ cpc' \notin AtSlot /\ UNCHANGED <<owedAtExit, enabled, pending>>
      BY DEF Remark, CGoto, PublishReadyBit, AtSlot
    <2> QED
      BY <2>1, <2>2, SlotFacts DEF DebtInv
  <1>5. FinalPassInv'
    BY SlotFacts DEF Remark, CGoto, PublishReadyBit, FinalPassInv, AtSlot, DrainPCs,
       ConsumerTypes, ConsumerInv
  <1>6. (CountInv /\ QuietInv)'
    BY DEF Remark, CGoto, PublishReadyBit, CountInv, Flushing, QuietInv, Stopping, NeedsConsumer
  <1> QED
    BY <1>1, <1>2, <1>3, <1>4, <1>5, <1>6

\* TryFree: the consumer is done with the queue
LEMMA TryFreeKeepsShutdown ==
    ASSUME IInv, FlushInv, ShutdownInv, TryFree PROVE ShutdownInv'
  <1> USE DEF IInv, TypeOK, FlushInv, ShutdownInv
  <1>1. DestroyInv'
    BY DEF TryFree, DestroyInv, Working, RuntimeTypes
  <1>2. LastPassInv'
    BY DEF TryFree, LastPassInv, Stopping, DrainPCs, ConsumerInv, ConsumerTypes
  <1>3. FreedInv'
    BY SlotFacts DEF TryFree, FreedInv, AtSlot, QueueTypes, ConsumerInv, ConsumerTypes
  <1>4. DebtInv'
    BY SlotFacts DEF TryFree, DebtInv, AtSlot, InFlight, HistoryTypes, QueueTypes,
       ConsumerTypes, ConsumerInv, OwedInv
  <1>5. FinalPassInv'
    BY SlotFacts DEF TryFree, FinalPassInv, AtSlot, DrainPCs, ConsumerTypes, ConsumerInv
  <1>6. (CountInv /\ QuietInv)'
    BY DEF TryFree, CountInv, Flushing, QuietInv, Stopping, NeedsConsumer
  <1> QED
    BY <1>1, <1>2, <1>3, <1>4, <1>5, <1>6

\* Push: the consumer is done with the queue
LEMMA PushKeepsShutdown ==
    ASSUME IInv, FlushInv, ShutdownInv, Push PROVE ShutdownInv'
  <1> USE DEF IInv, TypeOK, FlushInv, ShutdownInv
  <1>1. DestroyInv'
    BY DEF Push, CGoto, DestroyInv, Working, RuntimeTypes
  <1>2. LastPassInv'
    BY DEF Push, CGoto, LastPassInv, Stopping, DrainPCs, ConsumerInv, ConsumerTypes
  <1>3. FreedInv'
    BY SlotFacts DEF Push, CGoto, FreedInv, AtSlot, QueueTypes, ConsumerInv, ConsumerTypes
  <1>4. DebtInv'
    BY SlotFacts DEF Push, CGoto, DebtInv, AtSlot, InFlight, HistoryTypes, QueueTypes,
       ConsumerTypes, ConsumerInv, OwedInv
  <1>5. FinalPassInv'
    BY SlotFacts DEF Push, CGoto, FinalPassInv, AtSlot, DrainPCs, ConsumerTypes, ConsumerInv
  <1>6. (CountInv /\ QuietInv)'
    BY DEF Push, CGoto, CountInv, Flushing, QuietInv, Stopping, NeedsConsumer
  <1> QED
    BY <1>1, <1>2, <1>3, <1>4, <1>5, <1>6

-----------------------------------------------------------------------------
(* The rest of its loop *)

\* CheckFlush: every debt of a slot has its ready bit
LEMMA CheckFlushKeepsShutdown ==
    ASSUME IInv, FlushInv, ShutdownInv, CheckFlush PROVE ShutdownInv'
  <1> USE DEF IInv, TypeOK, FlushInv, ShutdownInv
  <1>1. DestroyInv'
    BY DEF CheckFlush, StartPass, DestroyInv, Working, RuntimeTypes
  <1>2. LastPassInv'
    BY DEF CheckFlush, StartPass, LastPassInv, Stopping, DrainPCs, ConsumerInv, ConsumerTypes
  <1>3. FreedInv'
    BY SlotFacts DEF CheckFlush, StartPass, FreedInv, AtSlot, QueueTypes, ConsumerInv,
       ConsumerTypes
  <1>4. DebtInv'
    <2>1. \A q \in Queues : InFlight(q)' \subseteq InFlight(q)
      BY DEF CheckFlush, InFlight
    <2>2. pending = {} /\ cpc \notin AtSlot
      BY DEF CheckFlush, CGoto, ConsumerInv, DrainPCs, AtSlot
    <2> QED
      BY <2>1, <2>2, DebtsStay DEF CheckFlush
  <1>5. FinalPassInv'
    BY SlotFacts DEF CheckFlush, StartPass, FinalPassInv, AtSlot, DrainPCs, ConsumerTypes,
       ConsumerInv
  <1>6. (CountInv /\ QuietInv)'
    BY DEF CheckFlush, StartPass, CountInv, Flushing, QuietInv, Stopping, NeedsConsumer
  <1> QED
    BY <1>1, <1>2, <1>3, <1>4, <1>5, <1>6

\* FlushSinks: the last flush comes after the last pass
LEMMA FlushSinksKeepsShutdown ==
    ASSUME IInv, FlushInv, ShutdownInv, FlushSinks PROVE ShutdownInv'
  <1> USE DEF IInv, TypeOK, FlushInv, ShutdownInv
  <1>1. DestroyInv'
    BY DEF FlushSinks, CGoto, DestroyInv, Working, RuntimeTypes
  <1>2. LastPassInv'
    BY DEF FlushSinks, CGoto, LastPassInv, Stopping, DrainPCs, ConsumerInv, ConsumerTypes
  <1>3. FreedInv'
    BY SlotFacts DEF FlushSinks, CGoto, FreedInv, AtSlot, QueueTypes, ConsumerInv, ConsumerTypes
  <1>4. DebtInv'
    BY SlotFacts DEF FlushSinks, CGoto, DebtInv, AtSlot, InFlight, HistoryTypes, QueueTypes,
       ConsumerTypes, ConsumerInv, OwedInv
  <1>5. FinalPassInv'
    BY SlotFacts DEF FlushSinks, CGoto, FinalPassInv, AtSlot, DrainPCs, ConsumerTypes,
       ConsumerInv
  <1>6. (CountInv /\ QuietInv)'
    BY DEF FlushSinks, CGoto, CountInv, Flushing, QuietInv, Stopping, NeedsConsumer
  <1> QED
    BY <1>1, <1>2, <1>3, <1>4, <1>5, <1>6

\* Complete: destroy does not look at the count of requests
LEMMA CompleteKeepsShutdown ==
    ASSUME IInv, FlushInv, ShutdownInv, Complete PROVE ShutdownInv'
  <1> USE DEF IInv, TypeOK, FlushInv, ShutdownInv
  <1>1. DestroyInv'
    BY DEF Complete, CGoto, DestroyInv, Working, RuntimeTypes
  <1>2. LastPassInv'
    BY DEF Complete, CGoto, LastPassInv, Stopping, DrainPCs, ConsumerInv, ConsumerTypes
  <1>3. FreedInv'
    BY SlotFacts DEF Complete, CGoto, FreedInv, AtSlot, QueueTypes, ConsumerInv, ConsumerTypes
  <1>4. DebtInv'
    BY SlotFacts DEF Complete, CGoto, DebtInv, AtSlot, InFlight, HistoryTypes, QueueTypes,
       ConsumerTypes, ConsumerInv, OwedInv
  <1>5. FinalPassInv'
    BY SlotFacts DEF Complete, CGoto, FinalPassInv, AtSlot, DrainPCs, ConsumerTypes, ConsumerInv
  <1>6. (CountInv /\ QuietInv)'
    BY DEF Complete, CGoto, CountInv, Flushing, QuietInv, Stopping, NeedsConsumer
  <1> QED
    BY <1>1, <1>2, <1>3, <1>4, <1>5, <1>6

\* NotifyAll: the flushes needed the consumer already
LEMMA NotifyAllKeepsShutdown ==
    ASSUME IInv, FlushInv, ShutdownInv, NotifyAll PROVE ShutdownInv'
  <1> USE DEF IInv, TypeOK, FlushInv, ShutdownInv
  <1>1. CountInv'
    <2>1. \A u \in Threads : Flushing(u)' <=> Flushing(u)
      BY DEF NotifyAll, CGoto, Flushing, ThreadTypes, CallInv, FlushPCs
    <2> QED
      BY <2>1, SameFlushers DEF NotifyAll
  <1>2. DestroyInv'
    BY DEF NotifyAll, CGoto, DestroyInv, Working, RuntimeTypes
  <1>3. LastPassInv'
    BY DEF NotifyAll, CGoto, LastPassInv, Stopping, DrainPCs, ConsumerInv, ConsumerTypes
  <1>4. QuietInv'
    BY DEF NotifyAll, CGoto, QuietInv, Stopping, NeedsConsumer, ThreadTypes, CallInv, FlushPCs
  <1>5. FreedInv'
    BY SlotFacts DEF NotifyAll, CGoto, FreedInv, AtSlot, QueueTypes, ConsumerInv, ConsumerTypes
  <1>6. DebtInv'
    BY SlotFacts DEF NotifyAll, CGoto, DebtInv, AtSlot, InFlight, HistoryTypes, QueueTypes,
       ConsumerTypes, ConsumerInv, OwedInv
  <1>7. FinalPassInv'
    BY SlotFacts DEF NotifyAll, CGoto, FinalPassInv, AtSlot, DrainPCs, ConsumerTypes,
       ConsumerInv
  <1> QED
    BY <1>1, <1>2, <1>3, <1>4, <1>5, <1>6, <1>7

\* CheckStop: the last pass that begins has every queue ahead of it
LEMMA CheckStopKeepsShutdown ==
    ASSUME IInv, FlushInv, ShutdownInv, CheckStop PROVE ShutdownInv'
  <1> USE DEF IInv, TypeOK, FlushInv, ShutdownInv
  <1>1. DestroyInv'
    BY DEF CheckStop, StartPass, DestroyInv, Working, RuntimeTypes
  <1>2. LastPassInv'
    BY DEF CheckStop, StartPass, LastPassInv, Stopping, DrainPCs, ConsumerInv, ConsumerTypes
  <1>3. FreedInv'
    BY SlotFacts DEF CheckStop, StartPass, FreedInv, AtSlot, QueueTypes, ConsumerInv,
       ConsumerTypes
  <1>4. DebtInv'
    <2>1. \A q \in Queues : InFlight(q)' \subseteq InFlight(q)
      BY DEF CheckStop, InFlight
    <2>2. pending = {} /\ cpc \notin AtSlot
      BY DEF CheckStop, CGoto, ConsumerInv, DrainPCs, AtSlot
    <2> QED
      BY <2>1, <2>2, DebtsStay DEF CheckStop
  <1>5. FinalPassInv'
    <2>1. mode = "ready"
      BY DEF CheckStop, ConsumerInv
    <2>2. mode' = "final" => stage' = "singles" /\ pending' = Singles /\ cpc' = "next"
      BY <2>1 DEF CheckStop, StartPass
    <2> QED
      BY <2>2 DEF FinalPassInv, Queues, DrainPCs
  <1>6. (CountInv /\ QuietInv)'
    BY DEF CheckStop, StartPass, CountInv, Flushing, QuietInv, Stopping, NeedsConsumer
  <1> QED
    BY <1>1, <1>2, <1>3, <1>4, <1>5, <1>6

\* Wait: no pass is under way
LEMMA WaitKeepsShutdown ==
    ASSUME IInv, FlushInv, ShutdownInv, Wait PROVE ShutdownInv'
  <1> USE DEF IInv, TypeOK, FlushInv, ShutdownInv
  <1>1. DestroyInv'
    BY DEF Wait, CGoto, DestroyInv, Working, RuntimeTypes
  <1>2. LastPassInv'
    BY DEF Wait, CGoto, LastPassInv, Stopping, DrainPCs, ConsumerInv, ConsumerTypes
  <1>3. FreedInv'
    BY SlotFacts DEF Wait, CGoto, FreedInv, AtSlot, QueueTypes, ConsumerInv, ConsumerTypes
  <1>4. DebtInv'
    BY SlotFacts DEF Wait, CGoto, DebtInv, AtSlot, InFlight, HistoryTypes, QueueTypes,
       ConsumerTypes, ConsumerInv, OwedInv
  <1>5. FinalPassInv'
    BY SlotFacts DEF Wait, CGoto, FinalPassInv, AtSlot, DrainPCs, ConsumerTypes, ConsumerInv
  <1>6. (CountInv /\ QuietInv)'
    BY DEF Wait, CGoto, CountInv, Flushing, QuietInv, Stopping, NeedsConsumer
  <1> QED
    BY <1>1, <1>2, <1>3, <1>4, <1>5, <1>6

-----------------------------------------------------------------------------
(* Destroy *)

\* DestroyBegin: a queue without a log call has its records in sight of the consumer
LEMMA DestroyBeginKeepsShutdown ==
    ASSUME IInv, FlushInv, ShutdownInv, NEW d \in Destroyers, DestroyBegin(d) PROVE ShutdownInv'
  <1> USE DEF IInv, TypeOK, FlushInv, ShutdownInv
  <1>1. DestroyInv'
    BY DEF DestroyBegin, DGoto, InFlight, DestroyInv, Working, RuntimeTypes
  <1>2. QuietInv'
    BY DEF DestroyBegin, DGoto, InFlight, QuietInv, Stopping, NeedsConsumer, ThreadTypes,
       CallInv, FlushPCs
  <1>3. DebtInv'
    <2> SUFFICES ASSUME NEW q \in Slots, owedAtExit'[q] > 0
                 PROVE  \/ q \in bits \cup pending
                        \/ cur = q /\ cpc = "consume" /\ owedAtExit'[q] <= todo
                        \/ cur = q /\ cpc \in AtSlot /\ InFlight(q) = {} /\ slotState[q] # "free"
      BY DEF DestroyBegin, DebtInv, InFlight
    <2>1. InFlight(q) = {} /\ owedAtExit'[q] = depth[q] /\ depth[q] > 0
      BY SlotFacts DEF DestroyBegin
    <2>2. \A points : ~LogAt(q, points)
      BY <2>1 DEF LogAt, InFlight
    <2>3. q \in bits \cup pending \/ (cur = q /\ cpc \in AtSlot)
      BY <2>1, <2>2, SlotFacts DEF DepthInv, EnqueuedInv, Visiting, AtSlot
    <2>4. slotState[q] = "free" /\ cur = q /\ cpc \in AtSlot => cpc = "consume" /\ depth[q] <= todo
      BY <2>1 DEF FreedInv, AtSlot
    <2> QED
      BY <2>1, <2>3, <2>4
  <1>4. FinalPassInv'
    <2>1. CASE mode = "final"
      <3>1. cpc = "exited"
        BY <2>1 DEF LastPassInv, Stopping, DestroyInv, Working, DestroyBegin
      <3>2. \A q \in Queues : owedAtExit'[q] = 0
        BY <3>1 DEF DestroyBegin
      <3> QED
        BY <3>2 DEF FinalPassInv
    <2>2. CASE mode # "final"
      BY <2>2 DEF DestroyBegin, FinalPassInv
    <2> QED
      BY <2>1, <2>2
  <1>5. (CountInv /\ LastPassInv /\ FreedInv)'
    BY DEF DestroyBegin, DGoto, InFlight, CountInv, Flushing, LastPassInv, Stopping, DrainPCs,
       FreedInv, AtSlot
  <1> QED
    BY <1>1, <1>2, <1>3, <1>4, <1>5

\* DestroyTwice: the caller is not at work
LEMMA DestroyTwiceKeepsShutdown ==
    ASSUME IInv, FlushInv, ShutdownInv, NEW d \in Destroyers, DestroyTwice(d) PROVE ShutdownInv'
  <1> USE DEF IInv, TypeOK, FlushInv, ShutdownInv
  <1>1. DestroyInv'
    BY DEF DestroyTwice, DGoto, DestroyInv, Working, RuntimeTypes
  <1>2. QuietInv'
    BY DEF DestroyTwice, DGoto, QuietInv, Stopping, NeedsConsumer, ThreadTypes, CallInv,
       FlushPCs
  <1>3. (CountInv /\ LastPassInv /\ FreedInv /\ DebtInv /\ FinalPassInv)'
    BY DEF DestroyTwice, DGoto, CountInv, Flushing, LastPassInv, Stopping, DrainPCs, FreedInv,
       AtSlot, DebtInv, InFlight, FinalPassInv
  <1> QED
    BY <1>1, <1>2, <1>3

\* WaitFlushers: with none counted, no flush needs the consumer
LEMMA WaitFlushersKeepsShutdown ==
    ASSUME IInv, FlushInv, ShutdownInv, NEW d \in Destroyers, WaitFlushers(d) PROVE ShutdownInv'
  <1> USE DEF IInv, TypeOK, FlushInv, ShutdownInv
  <1>1. DestroyInv'
    BY DEF WaitFlushers, DGoto, DestroyInv, Working, RuntimeTypes
  <1>2. QuietInv'
    <2>1. CASE activeFlushers = 0
      BY <2>1, NoneCounted DEF WaitFlushers, QuietInv, NeedsConsumer
    <2>2. CASE activeFlushers # 0
      BY <2>2 DEF WaitFlushers, DGoto, QuietInv, Stopping, NeedsConsumer, RuntimeTypes
    <2> QED
      BY <2>1, <2>2
  <1>3. (CountInv /\ LastPassInv /\ FreedInv /\ DebtInv /\ FinalPassInv)'
    BY DEF WaitFlushers, DGoto, CountInv, Flushing, LastPassInv, Stopping, DrainPCs, FreedInv,
       AtSlot, DebtInv, InFlight, FinalPassInv
  <1> QED
    BY <1>1, <1>2, <1>3

\* RequestStop: the flushes are gone
LEMMA RequestStopKeepsShutdown ==
    ASSUME IInv, FlushInv, ShutdownInv, NEW d \in Destroyers, RequestStop(d) PROVE ShutdownInv'
  <1> USE DEF IInv, TypeOK, FlushInv, ShutdownInv
  <1>1. DestroyInv'
    BY DEF RequestStop, DGoto, DestroyInv, Working, RuntimeTypes
  <1>2. LastPassInv'
    BY DEF RequestStop, DGoto, LastPassInv, Stopping, DrainPCs, ConsumerInv, ConsumerTypes
  <1>3. QuietInv'
    BY DEF RequestStop, DGoto, QuietInv, Stopping, NeedsConsumer, ThreadTypes, CallInv, FlushPCs
  <1>4. (CountInv /\ FreedInv /\ DebtInv /\ FinalPassInv)'
    BY DEF RequestStop, DGoto, CountInv, Flushing, FreedInv, AtSlot, DebtInv, InFlight,
       FinalPassInv, DrainPCs
  <1> QED
    BY <1>1, <1>2, <1>3, <1>4

\* BumpStop: the stop flag stays up
LEMMA BumpStopKeepsShutdown ==
    ASSUME IInv, FlushInv, ShutdownInv, NEW d \in Destroyers, BumpStop(d) PROVE ShutdownInv'
  <1> USE DEF IInv, TypeOK, FlushInv, ShutdownInv
  <1>1. DestroyInv'
    BY DEF BumpStop, DGoto, DestroyInv, Working, RuntimeTypes
  <1>2. QuietInv'
    BY DEF BumpStop, DGoto, QuietInv, Stopping, NeedsConsumer, ThreadTypes, CallInv, FlushPCs
  <1>3. (CountInv /\ LastPassInv /\ FreedInv /\ DebtInv /\ FinalPassInv)'
    BY DEF BumpStop, DGoto, CountInv, Flushing, LastPassInv, Stopping, DrainPCs, FreedInv,
       AtSlot, DebtInv, InFlight, FinalPassInv
  <1> QED
    BY <1>1, <1>2, <1>3

\* NotifyStop: the stop flag stays up
LEMMA NotifyStopKeepsShutdown ==
    ASSUME IInv, FlushInv, ShutdownInv, NEW d \in Destroyers, NotifyStop(d) PROVE ShutdownInv'
  <1> USE DEF IInv, TypeOK, FlushInv, ShutdownInv
  <1>1. DestroyInv'
    BY DEF NotifyStop, NotifyConsumer, DGoto, DestroyInv, Working, RuntimeTypes
  <1>2. LastPassInv'
    BY DEF NotifyStop, NotifyConsumer, DGoto, LastPassInv, Stopping, DrainPCs, ConsumerInv,
       ConsumerTypes
  <1>3. QuietInv'
    BY DEF NotifyStop, NotifyConsumer, DGoto, QuietInv, Stopping, NeedsConsumer, ThreadTypes,
       CallInv, FlushPCs
  <1>4. FreedInv'
    BY SlotFacts DEF NotifyStop, NotifyConsumer, DGoto, FreedInv, AtSlot, QueueTypes,
       ConsumerInv, ConsumerTypes
  <1>5. DebtInv'
    BY SlotFacts DEF NotifyStop, NotifyConsumer, DGoto, DebtInv, AtSlot, InFlight, HistoryTypes,
       QueueTypes, ConsumerTypes, ConsumerInv, OwedInv
  <1>6. FinalPassInv'
    BY SlotFacts DEF NotifyStop, NotifyConsumer, DGoto, FinalPassInv, AtSlot, DrainPCs,
       ConsumerTypes, ConsumerInv
  <1>7. (CountInv)'
    BY DEF NotifyStop, NotifyConsumer, DGoto, CountInv, Flushing
  <1> QED
    BY <1>1, <1>2, <1>3, <1>4, <1>5, <1>6, <1>7

\* Join: the consumer has exited
LEMMA JoinKeepsShutdown ==
    ASSUME IInv, FlushInv, ShutdownInv, NEW d \in Destroyers, Join(d) PROVE ShutdownInv'
  <1> USE DEF IInv, TypeOK, FlushInv, ShutdownInv
  <1>1. DestroyInv'
    BY DEF Join, DGoto, DestroyInv, Working, RuntimeTypes
  <1>2. LastPassInv'
    BY DEF Join, DGoto, LastPassInv, Stopping, DrainPCs, ConsumerInv, ConsumerTypes
  <1>3. QuietInv'
    <2>1. Stopping
      BY DEF Join, DGoto, DestroyInv, Stopping
    <2> QED
      BY <2>1 DEF Join, QuietInv, NeedsConsumer
  <1>4. (CountInv /\ FreedInv /\ DebtInv /\ FinalPassInv)'
    BY DEF Join, DGoto, CountInv, Flushing, FreedInv, AtSlot, DebtInv, InFlight, FinalPassInv,
       DrainPCs
  <1> QED
    BY <1>1, <1>2, <1>3, <1>4

\* ResetSinks: the consumer is joined
LEMMA ResetSinksKeepsShutdown ==
    ASSUME IInv, FlushInv, ShutdownInv, NEW d \in Destroyers, ResetSinks(d) PROVE ShutdownInv'
  <1> USE DEF IInv, TypeOK, FlushInv, ShutdownInv
  <1>1. DestroyInv'
    BY DEF ResetSinks, DGoto, DestroyInv, Working, RuntimeTypes
  <1>2. QuietInv'
    BY DEF ResetSinks, DGoto, QuietInv, Stopping, NeedsConsumer, ThreadTypes, CallInv, FlushPCs
  <1>3. (CountInv /\ LastPassInv /\ FreedInv /\ DebtInv /\ FinalPassInv)'
    BY DEF ResetSinks, DGoto, CountInv, Flushing, LastPassInv, Stopping, DrainPCs, FreedInv,
       AtSlot, DebtInv, InFlight, FinalPassInv
  <1> QED
    BY <1>1, <1>2, <1>3

\* DestroyEnd: the consumer is joined
LEMMA DestroyEndKeepsShutdown ==
    ASSUME IInv, FlushInv, ShutdownInv, NEW d \in Destroyers, DestroyEnd(d) PROVE ShutdownInv'
  <1> USE DEF IInv, TypeOK, FlushInv, ShutdownInv
  <1>1. DestroyInv'
    BY DEF DestroyEnd, DGoto, DestroyInv, Working, RuntimeTypes
  <1>2. QuietInv'
    BY DEF DestroyEnd, DGoto, QuietInv, Stopping, NeedsConsumer, ThreadTypes, CallInv, FlushPCs
  <1>3. (CountInv /\ LastPassInv /\ FreedInv /\ DebtInv /\ FinalPassInv)'
    BY DEF DestroyEnd, DGoto, CountInv, Flushing, LastPassInv, Stopping, DrainPCs, FreedInv,
       AtSlot, DebtInv, InFlight, FinalPassInv
  <1> QED
    BY <1>1, <1>2, <1>3

\* a step that changes nothing
LEMMA StutterKeepsShutdown == ASSUME ShutdownInv, UNCHANGED vars PROVE ShutdownInv'
  <1> USE DEF vars, ShutdownInv
  <1>1. CountInv'
    <2>1. \A u \in Threads : Flushing(u)' <=> Flushing(u)
      BY DEF Flushing
    <2> QED
      BY <2>1, SameFlushers
  <1>2. DestroyInv' /\ LastPassInv' /\ QuietInv'
    BY DEF DestroyInv, Working, LastPassInv, Stopping, QuietInv, NeedsConsumer
  <1>3. FreedInv' /\ FinalPassInv'
    BY DEF FreedInv, FinalPassInv
  <1>4. DebtInv'
    <2>1. \A q \in Queues : InFlight(q)' \subseteq InFlight(q)
      BY DEF InFlight
    <2> QED
      BY <2>1, DebtsStay
  <1> QED
    BY <1>1, <1>2, <1>3, <1>4

-----------------------------------------------------------------------------
(* Every step keeps the invariant, and what follows from it *)

\* nobody has called destroy
LEMMA InitShutdownInv == Init => ShutdownInv
  <1> SUFFICES ASSUME Init PROVE ShutdownInv
    OBVIOUS
  <1>1. CountInv
    <2>1. {t \in Threads : Flushing(t)} = {}
      BY DEF Init, Flushing
    <2> QED
      BY <2>1, FS_EmptySet DEF Init, CountInv
  <1>2. DestroyInv /\ LastPassInv /\ QuietInv
    BY DEF Init, DestroyInv, Working, LastPassInv, QuietInv, Stopping
  <1>3. FreedInv /\ DebtInv /\ FinalPassInv
    BY SlotFacts DEF Init, NoDebt, FreedInv, DebtInv, FinalPassInv
  <1> QED
    BY <1>1, <1>2, <1>3 DEF ShutdownInv

\* one step of the handoff, whichever
LEMMA NextKeepsShutdown == ASSUME IInv, FlushInv, ShutdownInv, [Next]_vars PROVE ShutdownInv'
  <1>1. ASSUME NEW t \in Threads, Begin(t) PROVE ShutdownInv'
    BY <1>1, LogSingleKeepsShutdown, LogThreadsafeKeepsShutdown, PrewarmKeepsShutdown,
       RetireKeepsShutdown, FlushBeginKeepsShutdown
    DEF Begin
  <1>2. ASSUME NEW t \in Threads, Continue(t) PROVE ShutdownInv'
    BY <1>2, AcquireFreeKeepsShutdown, AcquireNewKeepsShutdown, AcquireFailsKeepsShutdown,
       ProduceKeepsShutdown, ProduceNothingKeepsShutdown, MarkKeepsShutdown,
       PublishKeepsShutdown, BumpKeepsShutdown, NotifyKeepsShutdown, FlushEnterKeepsShutdown,
       FlushCheckKeepsShutdown, FlushRequestKeepsShutdown, FlushWaitKeepsShutdown,
       FlushLeaveKeepsShutdown, FlushNotifyKeepsShutdown
    DEF Continue
  <1>3. CASE Consumer
    BY <1>3, SampleKeepsShutdown, VisitKeepsShutdown, LoadCountKeepsShutdown,
       TakeWordKeepsShutdown, EndPassKeepsShutdown, ConsumeKeepsShutdown, Check1KeepsShutdown,
       ClearKeepsShutdown, Check2KeepsShutdown, RemarkKeepsShutdown, TryFreeKeepsShutdown,
       PushKeepsShutdown, CheckFlushKeepsShutdown, FlushSinksKeepsShutdown,
       CompleteKeepsShutdown, NotifyAllKeepsShutdown, CheckStopKeepsShutdown,
       WaitKeepsShutdown
    DEF Consumer, Drain
  <1>4. ASSUME NEW d \in Destroyers, DestroyBegin(d) \/ DestroyTwice(d) \/ DestroyStep(d)
        PROVE ShutdownInv'
    BY <1>4, DestroyBeginKeepsShutdown, DestroyTwiceKeepsShutdown, WaitFlushersKeepsShutdown,
       RequestStopKeepsShutdown, BumpStopKeepsShutdown, NotifyStopKeepsShutdown,
       JoinKeepsShutdown, ResetSinksKeepsShutdown, DestroyEndKeepsShutdown
    DEF DestroyStep
  <1> QED
    BY <1>1, <1>2, <1>3, <1>4, StutterKeepsShutdown DEF Next

\* What destroy rests on holds in every state of the handoff.
THEOREM ShutdownInductive == Spec => []ShutdownInv
  <1>1. Init => ShutdownInv
    BY InitShutdownInv
  <1>2. IInv /\ FlushInv /\ ShutdownInv /\ [Next]_vars => ShutdownInv'
    BY NextKeepsShutdown
  <1> QED
    BY <1>1, <1>2, Inductive, FlushInductive, PTL DEF Spec

\* The whole inductive invariant of the handoff.
THEOREM PromisesInductive == Spec => []PInv
  BY Inductive, FreeChainInductive, FlushInductive, ShutdownInductive, PTL DEF PInv

\* When the consumer exits, every record whose log call had returned before destroy
\* began, and behind which no other log call was under way, has been written.
THEOREM DestroyDrains == Spec => []DrainedAtExit
  <1>1. IInv /\ ShutdownInv => DrainedAtExit
    <2> SUFFICES ASSUME IInv, ShutdownInv, cpc = "exited" PROVE owedAtExit = NoDebt
      BY DEF DrainedAtExit
    <2>1. mode = "final" /\ allDrained /\ pending = {}
      BY DEF ShutdownInv, LastPassInv, IInv, ConsumerInv, DrainPCs
    <2>2. \A q \in Queues : ~(owedAtExit[q] > 0)
      BY <2>1 DEF ShutdownInv, FinalPassInv, AtSlot, DrainPCs
    <2> QED
      BY <2>2 DEF NoDebt, IInv, TypeOK, HistoryTypes
  <1> QED
    BY <1>1, Inductive, ShutdownInductive, PTL

\* The sinks outlive the consumer, and the consumer every flush that waits for it.
THEOREM DestroyInOrder == Spec => []ShutdownOrder
  <1>1. IInv /\ FlushInv /\ ShutdownInv => ShutdownOrder
    <2> SUFFICES ASSUME IInv, FlushInv, ShutdownInv PROVE ShutdownOrder
      OBVIOUS
    <2>1. ~sinksOpen => cpc = "exited"
      BY DEF ShutdownInv, DestroyInv
    <2>2. ASSUME cpc = "exited", NEW t \in Threads
          PROVE  pc[t] # "flushRequest" /\ target[t] <= flushCompleted
      <3>1. ~NeedsConsumer(t)
        BY <2>2 DEF ShutdownInv, LastPassInv, QuietInv
      <3>2. pc[t] # "flushRequest"
        BY <3>1 DEF NeedsConsumer, IInv, CallInv, FlushPCs
      <3>3. target[t] > 0 => pc[t] \in {"flushLeave", "flushNotify"}
        BY <3>1 DEF NeedsConsumer, FlushInv, RequestInv, IInv, CallInv, TypeOK, ThreadTypes,
                    ThreadPCs
      <3> QED
        BY <3>2, <3>3 DEF FlushInv, RequestInv, IInv, TypeOK, ThreadTypes, RuntimeTypes
    <2> QED
      BY <2>1, <2>2 DEF ShutdownOrder
  <1> QED
    BY <1>1, Inductive, FlushInductive, ShutdownInductive, PTL
=============================================================================
