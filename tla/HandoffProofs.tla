---------------------------- MODULE HandoffProofs ----------------------------
(***************************************************************************)
(* What the handoff guarantees for any number of threads, destroyers,      *)
(* slots, ready bits to a word and records to a queue.                     *)
(*                                                                         *)
(* IInv of HandoffInvariant is inductive: one lemma per action shows that  *)
(* the action keeps it, with one step for the conjuncts the action can     *)
(* disturb and a last one for those whose variables it leaves alone.       *)
(***************************************************************************)
EXTENDS HandoffInvariant, TLAPS

USE DEF queueVars, registryVars, flushVars, controlVars, threadVars, passVars, historyVars

-----------------------------------------------------------------------------
(* Facts about producer indices *)

\* slots are numbers, queues are slots and single-threaded producers
LEMMA SlotFacts ==
    /\ MaxProducers \in Nat /\ Slots \subseteq Nat /\ Slots \subseteq Queues
    /\ Singles \subseteq Queues /\ Singles \cap Slots = {}
    /\ NoSlot \notin Queues
    /\ \A n \in 0 .. MaxProducers : (n < MaxProducers => n \in Slots) /\ 0 .. n - 1 \subseteq Slots
  BY MaxProducersAssumption, SinglesAssumption DEF Slots, NoSlot, Queues

\* the words a pass takes hold the bits of every slot that existed when it began
LEMMA LastWord ==
    ASSUME NEW n \in Nat, NEW s \in Nat, s < n
    PROVE  s \div SlotsPerWord < (n + SlotsPerWord - 1) \div SlotsPerWord
  BY SlotsPerWordAssumption

\* the consumer has just started, and nothing is in any queue
LEMMA InitIInv == Init => IInv
  <1> SUFFICES ASSUME Init PROVE IInv
    OBVIOUS
  <1>1. TypeOK
    <2>1. QueueTypes
      BY SlotFacts, CapacityAssumption DEF Init, NoDebt, QueueTypes
    <2>2. RuntimeTypes
      <3>1. flushRequested \in Nat /\ flushCompleted \in Nat /\ activeFlushers \in Int
        BY DEF Init
      <3>2. woken \in BOOLEAN /\ stop \in BOOLEAN /\ enabled \in BOOLEAN
        BY DEF Init
      <3>3. consumerStarted \in BOOLEAN /\ sinksOpen \in BOOLEAN
        BY DEF Init
      <3>4. /\ lifecycle \in {"running", "shutting_down", "shut_down"}
            /\ dpc \in [Destroyers -> DestroyPCs]
        BY DEF Init, DestroyPCs
      <3> QED
        BY <3>1, <3>2, <3>3, <3>4 DEF RuntimeTypes
    <2>3. ThreadTypes
      BY DEF Init, ThreadTypes, ThreadPCs, Calls
    <2>4. ConsumerTypes
      BY CapacityAssumption DEF Init, ConsumerTypes, ConsumerPCs
    <2>5. HistoryTypes
      BY CapacityAssumption DEF Init, NoDebt, HistoryTypes
    <2> QED
      BY <2>1, <2>2, <2>3, <2>4, <2>5 DEF TypeOK
  <1>2. CallInv /\ ConsumerInv
    BY SlotFacts DEF Init, CallInv, FlushPCs, ConsumerInv, DrainPCs
  <1>3. FreeListInv /\ SingleProducer
    BY SlotFacts DEF Init, FreeListInv, Listed, SingleProducer, Owns
  <1>4. EnqueuedInv /\ DepthInv /\ RetiredInv
    BY SlotFacts DEF Init, NoDebt, EnqueuedInv, DepthInv, RetiredInv
  <1>5. DozingBits /\ DozingSingles /\ DozingFlush /\ DozingStop /\ AsleepInv
    BY SlotFacts DEF Init, DozingBits, DozingSingles, DozingFlush, DozingStop, AsleepInv
  <1> QED
    BY <1>1, <1>2, <1>3, <1>4, <1>5 DEF IInv

-----------------------------------------------------------------------------
(* A thread begins a call or exits *)

\* LogSingle: the call takes a producer only its owner uses
LEMMA LogSingleKeeps == ASSUME IInv, NEW t \in Threads, LogSingle(t) PROVE IInv'
  <1> USE DEF IInv, TypeOK
  <1>1. ThreadTypes'
    BY SlotFacts DEF LogSingle, Goto, ThreadTypes, ThreadPCs, Calls
  <1>2. CallInv'
    BY SlotFacts DEF LogSingle, Goto, CallInv, FlushPCs, ThreadTypes
  <1>3. SingleProducer'
    BY DEF LogSingle, Goto, SingleProducer, Owns, ThreadTypes, CallInv
  <1>4. (EnqueuedInv /\ DepthInv /\ RetiredInv)'
    BY DEF LogSingle, Goto, EnqueuedInv, Visiting, CallAt, LogAt, ThreadTypes, CallInv, DepthInv,
           RetiredInv
  <1>5. (DozingBits /\ DozingSingles /\ DozingFlush /\ AsleepInv)'
    BY DEF LogSingle, Goto, DozingBits, Dozing, PassedSlot, CallAt, LogAt, DrainPCs, ThreadTypes,
           CallInv, DozingSingles, PassedSingle, Visiting, DozingFlush, AsleepInv, NotifyPending
  <1>6. (QueueTypes /\ RuntimeTypes /\ ConsumerTypes /\ HistoryTypes /\ ConsumerInv /\
        FreeListInv /\ DozingStop)'
    BY DEF LogSingle, Goto, QueueTypes, RuntimeTypes, DestroyPCs, ConsumerTypes, ConsumerPCs,
           HistoryTypes, ConsumerInv, DrainPCs, FreeListInv, Listed, DozingStop
  <1> QED
    BY <1>1, <1>2, <1>3, <1>4, <1>5, <1>6

\* LogThreadsafe: the call goes on with the slot its thread owns, or asks for one
LEMMA LogThreadsafeKeeps == ASSUME IInv, NEW t \in Threads, LogThreadsafe(t) PROVE IInv'
  <1> USE DEF IInv, TypeOK
  <1>1. ThreadTypes'
    BY SlotFacts DEF LogThreadsafe, Goto, ThreadTypes, ThreadPCs, Calls
  <1>2. CallInv'
    BY SlotFacts DEF LogThreadsafe, Goto, CallInv, FlushPCs, ThreadTypes
  <1>3. SingleProducer'
    BY DEF LogThreadsafe, Goto, SingleProducer, Owns, ThreadTypes, CallInv
  <1>4. (EnqueuedInv /\ DepthInv /\ RetiredInv)'
    BY DEF LogThreadsafe, Goto, EnqueuedInv, Visiting, CallAt, LogAt, ThreadTypes, CallInv, DepthInv,
           RetiredInv
  <1>5. (DozingBits /\ DozingSingles /\ DozingFlush /\ AsleepInv)'
    BY DEF LogThreadsafe, Goto, DozingBits, Dozing, PassedSlot, CallAt, LogAt, DrainPCs, ThreadTypes,
           CallInv, DozingSingles, PassedSingle, Visiting, DozingFlush, AsleepInv, NotifyPending
  <1>6. (QueueTypes /\ RuntimeTypes /\ ConsumerTypes /\ HistoryTypes /\ ConsumerInv /\
        FreeListInv /\ DozingStop)'
    BY DEF LogThreadsafe, Goto, QueueTypes, RuntimeTypes, DestroyPCs, ConsumerTypes,
           ConsumerPCs, HistoryTypes, ConsumerInv, DrainPCs, FreeListInv, Listed, DozingStop
  <1> QED
    BY <1>1, <1>2, <1>3, <1>4, <1>5, <1>6

\* Prewarm: the call asks for a slot
LEMMA PrewarmKeeps == ASSUME IInv, NEW t \in Threads, Prewarm(t) PROVE IInv'
  <1> USE DEF IInv, TypeOK
  <1>1. ThreadTypes'
    BY SlotFacts DEF Prewarm, Goto, ThreadTypes, ThreadPCs, Calls
  <1>2. CallInv'
    BY SlotFacts DEF Prewarm, Goto, CallInv, FlushPCs, ThreadTypes
  <1>3. SingleProducer'
    BY DEF Prewarm, Goto, SingleProducer, Owns, ThreadTypes, CallInv
  <1>4. (EnqueuedInv /\ DepthInv /\ RetiredInv)'
    BY DEF Prewarm, Goto, EnqueuedInv, Visiting, CallAt, LogAt, ThreadTypes, CallInv, DepthInv,
           RetiredInv
  <1>5. (DozingBits /\ DozingSingles /\ DozingFlush /\ AsleepInv)'
    BY DEF Prewarm, Goto, DozingBits, Dozing, PassedSlot, CallAt, LogAt, DrainPCs, ThreadTypes,
           CallInv, DozingSingles, PassedSingle, Visiting, DozingFlush, AsleepInv, NotifyPending
  <1>6. (QueueTypes /\ RuntimeTypes /\ ConsumerTypes /\ HistoryTypes /\ ConsumerInv /\
        FreeListInv /\ DozingStop)'
    BY DEF Prewarm, Goto, QueueTypes, RuntimeTypes, DestroyPCs, ConsumerTypes, ConsumerPCs,
           HistoryTypes, ConsumerInv, DrainPCs, FreeListInv, Listed, DozingStop
  <1> QED
    BY <1>1, <1>2, <1>3, <1>4, <1>5, <1>6

\* Retire: the thread that retires its slot is about to set its bit
LEMMA RetireKeeps == ASSUME IInv, NEW t \in Threads, Retire(t) PROVE IInv'
  <1> USE DEF IInv, TypeOK
  <1>1. QueueTypes'
    BY SlotFacts DEF Retire, Goto, QueueTypes
  <1>2. ThreadTypes'
    BY SlotFacts DEF Retire, Goto, ThreadTypes, ThreadPCs, Calls
  <1>3. CallInv'
    BY SlotFacts DEF Retire, Goto, CallInv, FlushPCs, ThreadTypes
  <1>4. ConsumerInv'
    BY SlotFacts DEF Retire, Goto, ConsumerInv, DrainPCs, QueueTypes, CallInv
  <1>5. (FreeListInv /\ SingleProducer)'
    BY DEF Retire, Goto, FreeListInv, Listed, QueueTypes, CallInv, SingleProducer, Owns,
           ThreadTypes
  <1>6. (EnqueuedInv /\ DepthInv /\ RetiredInv)'
    BY DEF Retire, Goto, EnqueuedInv, Visiting, CallAt, LogAt, ThreadTypes, CallInv, DepthInv,
           RetiredInv, QueueTypes
  <1>7. (DozingBits /\ DozingSingles /\ DozingFlush /\ AsleepInv)'
    BY DEF Retire, Goto, DozingBits, Dozing, PassedSlot, CallAt, LogAt, DrainPCs, ThreadTypes, CallInv,
           DozingSingles, PassedSingle, Visiting, DozingFlush, AsleepInv, NotifyPending
  <1>8. (RuntimeTypes /\ ConsumerTypes /\ HistoryTypes /\ DozingStop)'
    BY DEF Retire, Goto, RuntimeTypes, DestroyPCs, ConsumerTypes, ConsumerPCs, HistoryTypes,
           DozingStop
  <1> QED
    BY <1>1, <1>2, <1>3, <1>4, <1>5, <1>6, <1>7, <1>8

\* FlushBegin: a flush touches nothing yet
LEMMA FlushBeginKeeps == ASSUME IInv, NEW t \in Threads, FlushBegin(t) PROVE IInv'
  <1> USE DEF IInv, TypeOK
  <1>1. ThreadTypes'
    BY SlotFacts DEF FlushBegin, Goto, ThreadTypes, ThreadPCs, Calls
  <1>2. CallInv'
    BY SlotFacts DEF FlushBegin, Goto, CallInv, FlushPCs, ThreadTypes
  <1>3. SingleProducer'
    BY DEF FlushBegin, Goto, SingleProducer, Owns, ThreadTypes, CallInv
  <1>4. (EnqueuedInv /\ DepthInv /\ RetiredInv)'
    BY DEF FlushBegin, Goto, EnqueuedInv, Visiting, CallAt, LogAt, ThreadTypes, CallInv, DepthInv,
           RetiredInv
  <1>5. (DozingBits /\ DozingSingles /\ DozingFlush /\ AsleepInv)'
    BY DEF FlushBegin, Goto, DozingBits, Dozing, PassedSlot, CallAt, LogAt, DrainPCs, ThreadTypes,
           CallInv, DozingSingles, PassedSingle, Visiting, DozingFlush, AsleepInv, NotifyPending
  <1>6. (QueueTypes /\ RuntimeTypes /\ ConsumerTypes /\ HistoryTypes /\ ConsumerInv /\
        FreeListInv /\ DozingStop)'
    BY DEF FlushBegin, Goto, QueueTypes, RuntimeTypes, DestroyPCs, ConsumerTypes, ConsumerPCs,
           HistoryTypes, ConsumerInv, DrainPCs, FreeListInv, Listed, DozingStop
  <1> QED
    BY <1>1, <1>2, <1>3, <1>4, <1>5, <1>6

-----------------------------------------------------------------------------
(* The call goes on *)

\* AcquireFree: the head of the free list gets one owner and leaves the list
LEMMA AcquireFreeKeeps == ASSUME IInv, NEW t \in Threads, AcquireFree(t) PROVE IInv'
  <1> USE DEF IInv, TypeOK
  <1>1. QueueTypes'
    BY SlotFacts DEF AcquireFree, Take, Goto, Return, QueueTypes
  <1>2. ThreadTypes'
    BY SlotFacts DEF AcquireFree, Take, Goto, Return, ThreadTypes, ThreadPCs, Calls, QueueTypes
  <1>3. CallInv'
    BY SlotFacts DEF AcquireFree, Take, Goto, Return, CallInv, FlushPCs, ThreadTypes,
           FreeListInv, Listed, ConsumerInv, QueueTypes
  <1>4. ConsumerInv'
    <2>1. freeHead \in Slots /\ freeHead < count /\ ~(cpc = "push" /\ cur = freeHead)
      BY SlotFacts DEF AcquireFree, FreeListInv, Listed, ConsumerInv, QueueTypes
    <2> QED
      BY <2>1 DEF AcquireFree, ConsumerInv, DrainPCs, QueueTypes
  <1>5. FreeListInv'
    BY DEF AcquireFree, Take, Goto, Return, FreeListInv, Listed, QueueTypes, CallInv
  <1>6. SingleProducer'
    <2>1. freeHead \in Slots /\ slotState[freeHead] = "free"
      BY DEF AcquireFree, FreeListInv, Listed, QueueTypes
    <2>2. /\ tls' = [tls EXCEPT ![t] = freeHead] /\ tls[t] = NoSlot
          /\ call[t] # "exit" /\ call'[t] # "exit"
          /\ \A u \in Threads \ {t} : call'[u] = call[u]
      BY DEF AcquireFree, Take, Return, Goto, CallInv, ThreadTypes
    <2>3. \A u \in Threads, s \in Slots : Owns(u, s)' <=> Owns(u, s) \/ (u = t /\ s = freeHead)
      BY <2>1, <2>2, SlotFacts DEF Owns, ThreadTypes
    <2>4. slotState' = [slotState EXCEPT ![freeHead] = "active"]
      BY DEF AcquireFree
    <2>5. \A u \in Threads : ~Owns(u, freeHead)
      BY <2>1 DEF SingleProducer
    <2> QED
      BY <2>1, <2>3, <2>4, <2>5 DEF SingleProducer, QueueTypes
  <1>7. (EnqueuedInv /\ RetiredInv)'
    BY DEF AcquireFree, Take, Goto, Return, EnqueuedInv, Visiting, CallAt, LogAt, QueueTypes,
           ThreadTypes, CallInv, RetiredInv
  <1>8. DepthInv'
    BY DEF AcquireFree, Take, Goto, Return, DepthInv, Visiting, CallAt, LogAt, QueueTypes, ThreadTypes,
           CallInv, EnqueuedInv, FreeListInv, Listed
  <1>9. (DozingBits /\ DozingSingles /\ DozingFlush /\ AsleepInv)'
    BY DEF AcquireFree, Take, Goto, Return, DozingBits, Dozing, PassedSlot, CallAt, LogAt, DrainPCs,
           ThreadTypes, CallInv, DozingSingles, PassedSingle, Visiting, QueueTypes, DozingFlush,
           AsleepInv, NotifyPending
  <1>10. (RuntimeTypes /\ ConsumerTypes /\ HistoryTypes /\ DozingStop)'
    BY DEF AcquireFree, Take, Goto, Return, RuntimeTypes, DestroyPCs, ConsumerTypes,
           ConsumerPCs, HistoryTypes, DozingStop
  <1> QED
    BY <1>1, <1>2, <1>3, <1>4, <1>5, <1>6, <1>7, <1>8, <1>9, <1>10

\* AcquireNew: a slot that never existed gets one owner
LEMMA AcquireNewKeeps == ASSUME IInv, NEW t \in Threads, AcquireNew(t) PROVE IInv'
  <1> USE DEF IInv, TypeOK
  <1>1. QueueTypes'
    BY SlotFacts DEF AcquireNew, Take, Goto, Return, QueueTypes
  <1>2. ThreadTypes'
    BY SlotFacts DEF AcquireNew, Take, Goto, Return, ThreadTypes, ThreadPCs, Calls, QueueTypes
  <1>3. CallInv'
    <2>1. \A u \in Threads : tls[u] # NoSlot => tls[u] < count
      BY DEF CallInv
    <2>2. \A u \in Threads : tls[u] # NoSlot => tls[u] \in Nat
      BY SlotFacts DEF ThreadTypes
    <2>3. count \in Slots /\ count \in Nat
      BY SlotFacts DEF AcquireNew, QueueTypes
    <2>4. \A u \in Threads : tls[u] # NoSlot => tls[u] < count + 1
      BY <2>1, <2>2, <2>3
    <2> QED
      BY <2>3, <2>4 DEF AcquireNew, Take, Return, Goto, CallInv, FlushPCs, ThreadTypes
  <1>4. ConsumerInv'
    <2>1. count \in Slots /\ slotState[count] = "none" /\ \A s \in Slots : s \in Nat
      BY SlotFacts DEF AcquireNew, ConsumerInv, QueueTypes
    <2>2. \A s \in Slots : s < count' <=> s < count \/ s = count
      BY <2>1 DEF AcquireNew, QueueTypes
    <2> QED
      BY <2>1, <2>2 DEF AcquireNew, ConsumerInv, DrainPCs, QueueTypes
  <1>5. FreeListInv'
    BY SlotFacts DEF AcquireNew, Take, Goto, Return, FreeListInv, Listed, QueueTypes, CallInv,
           ConsumerInv
  <1>6. SingleProducer'
    BY SlotFacts DEF AcquireNew, Take, Goto, Return, SingleProducer, Owns, QueueTypes,
           ThreadTypes, CallInv, ConsumerInv
  <1>7. (EnqueuedInv /\ DepthInv /\ RetiredInv)'
    BY DEF AcquireNew, Take, Goto, Return, EnqueuedInv, Visiting, CallAt, LogAt, ThreadTypes, CallInv,
           DepthInv, RetiredInv, QueueTypes
  <1>8. (DozingBits /\ DozingSingles /\ DozingFlush /\ AsleepInv)'
    BY DEF AcquireNew, Take, Goto, Return, DozingBits, Dozing, PassedSlot, CallAt, LogAt, DrainPCs,
           ThreadTypes, CallInv, DozingSingles, PassedSingle, Visiting, DozingFlush, AsleepInv,
           NotifyPending
  <1>9. (RuntimeTypes /\ ConsumerTypes /\ HistoryTypes /\ DozingStop)'
    BY DEF AcquireNew, Take, Goto, Return, RuntimeTypes, DestroyPCs, ConsumerTypes, ConsumerPCs,
           HistoryTypes, DozingStop
  <1> QED
    BY <1>1, <1>2, <1>3, <1>4, <1>5, <1>6, <1>7, <1>8, <1>9

\* AcquireFails: nothing but the call's place changes
LEMMA AcquireFailsKeeps == ASSUME IInv, NEW t \in Threads, AcquireFails(t) PROVE IInv'
  <1> USE DEF IInv, TypeOK
  <1>1. ThreadTypes'
    BY SlotFacts DEF AcquireFails, Return, Goto, ThreadTypes, ThreadPCs, Calls
  <1>2. CallInv'
    BY SlotFacts DEF AcquireFails, Return, Goto, CallInv, FlushPCs, ThreadTypes
  <1>3. SingleProducer'
    BY DEF AcquireFails, Return, Goto, SingleProducer, Owns, ThreadTypes, CallInv
  <1>4. (EnqueuedInv /\ DepthInv /\ RetiredInv)'
    BY DEF AcquireFails, Return, Goto, EnqueuedInv, Visiting, CallAt, LogAt, ThreadTypes, CallInv,
           DepthInv, RetiredInv
  <1>5. (DozingBits /\ DozingSingles /\ DozingFlush /\ AsleepInv)'
    BY DEF AcquireFails, Return, Goto, DozingBits, Dozing, PassedSlot, CallAt, LogAt, DrainPCs,
           ThreadTypes, CallInv, DozingSingles, PassedSingle, Visiting, DozingFlush, AsleepInv,
           NotifyPending
  <1>6. (QueueTypes /\ RuntimeTypes /\ ConsumerTypes /\ HistoryTypes /\ ConsumerInv /\
        FreeListInv /\ DozingStop)'
    BY DEF AcquireFails, Return, Goto, QueueTypes, RuntimeTypes, DestroyPCs, ConsumerTypes,
           ConsumerPCs, HistoryTypes, ConsumerInv, DrainPCs, FreeListInv, Listed, DozingStop
  <1> QED
    BY <1>1, <1>2, <1>3, <1>4, <1>5, <1>6

\* Produce: the record's thread is about to raise the flag
LEMMA ProduceKeeps == ASSUME IInv, NEW t \in Threads, Produce(t) PROVE IInv'
  <1> USE DEF IInv, TypeOK
  <1>1. QueueTypes'
    <2>1. tgt[t] \in Queues
      BY SlotFacts DEF Produce, Goto, CallInv
    <2>2. depth[tgt[t]] + 1 \in 0 .. Capacity
      BY <2>1, CapacityAssumption DEF Produce, QueueTypes
    <2> QED
      BY <2>2 DEF Produce, QueueTypes
  <1>2. ThreadTypes'
    BY SlotFacts DEF Produce, Goto, ThreadTypes, ThreadPCs, Calls
  <1>3. CallInv'
    BY SlotFacts DEF Produce, Goto, CallInv, FlushPCs, ThreadTypes
  <1>4. ConsumerInv'
    BY SlotFacts, CapacityAssumption DEF Produce, Goto, ConsumerInv, DrainPCs, QueueTypes,
           CallInv, ThreadTypes, ConsumerTypes
  <1>5. (EnqueuedInv /\ DepthInv /\ RetiredInv)'
    BY DEF Produce, Goto, EnqueuedInv, Visiting, CallAt, LogAt, ThreadTypes, CallInv, DepthInv,
           QueueTypes, RetiredInv
  <1>6. (DozingBits /\ DozingSingles /\ DozingFlush /\ AsleepInv)'
    BY DEF Produce, Goto, DozingBits, Dozing, PassedSlot, CallAt, LogAt, DrainPCs, ThreadTypes,
           CallInv, DozingSingles, PassedSingle, Visiting, DozingFlush, AsleepInv, NotifyPending
  <1>7. (RuntimeTypes /\ ConsumerTypes /\ HistoryTypes /\ FreeListInv /\ SingleProducer /\
        DozingStop)'
    BY DEF Produce, Goto, RuntimeTypes, DestroyPCs, ConsumerTypes, ConsumerPCs, HistoryTypes,
           FreeListInv, Listed, SingleProducer, Owns, DozingStop
  <1> QED
    BY <1>1, <1>2, <1>3, <1>4, <1>5, <1>6, <1>7

\* ProduceNothing: nothing but the call's place changes
LEMMA ProduceNothingKeeps == ASSUME IInv, NEW t \in Threads, ProduceNothing(t) PROVE IInv'
  <1> USE DEF IInv, TypeOK
  <1>1. ThreadTypes'
    BY SlotFacts DEF ProduceNothing, Return, Goto, ThreadTypes, ThreadPCs, Calls
  <1>2. CallInv'
    BY SlotFacts DEF ProduceNothing, Return, Goto, CallInv, FlushPCs, ThreadTypes
  <1>3. SingleProducer'
    BY DEF ProduceNothing, Return, Goto, SingleProducer, Owns, ThreadTypes, CallInv
  <1>4. (EnqueuedInv /\ DepthInv /\ RetiredInv)'
    BY DEF ProduceNothing, Return, Goto, EnqueuedInv, Visiting, CallAt, LogAt, ThreadTypes, CallInv,
           DepthInv, RetiredInv
  <1>5. (DozingBits /\ DozingSingles /\ DozingFlush /\ AsleepInv)'
    BY DEF ProduceNothing, Return, Goto, DozingBits, Dozing, PassedSlot, CallAt, LogAt, DrainPCs,
           ThreadTypes, CallInv, DozingSingles, PassedSingle, Visiting, DozingFlush, AsleepInv,
           NotifyPending
  <1>6. (QueueTypes /\ RuntimeTypes /\ ConsumerTypes /\ HistoryTypes /\ ConsumerInv /\
        FreeListInv /\ DozingStop)'
    BY DEF ProduceNothing, Return, Goto, QueueTypes, RuntimeTypes, DestroyPCs, ConsumerTypes,
           ConsumerPCs, HistoryTypes, ConsumerInv, DrainPCs, FreeListInv, Listed, DozingStop
  <1> QED
    BY <1>1, <1>2, <1>3, <1>4, <1>5, <1>6

\* Mark: the thread that raises the flag is about to set the bit, or to wake
LEMMA MarkKeeps == ASSUME IInv, NEW t \in Threads, Mark(t) PROVE IInv'
  <1> USE DEF IInv, TypeOK
  <1>1. QueueTypes'
    BY SlotFacts DEF Mark, Goto, Return, QueueTypes
  <1>2. ThreadTypes'
    BY SlotFacts DEF Mark, Goto, Return, ThreadTypes, ThreadPCs, Calls
  <1>3. CallInv'
    BY SlotFacts DEF Mark, Goto, Return, CallInv, FlushPCs, ThreadTypes
  <1>4. SingleProducer'
    BY DEF Mark, Goto, Return, SingleProducer, Owns, ThreadTypes, CallInv
  <1>5. (EnqueuedInv /\ DepthInv /\ RetiredInv)'
    BY DEF Mark, Goto, Return, EnqueuedInv, Visiting, CallAt, LogAt, QueueTypes, ThreadTypes, CallInv,
           DepthInv, RetiredInv
  <1>6. (DozingBits /\ DozingFlush /\ AsleepInv)'
    BY DEF Mark, Goto, Return, DozingBits, Dozing, PassedSlot, CallAt, LogAt, DrainPCs, ThreadTypes,
           CallInv, DozingFlush, AsleepInv, NotifyPending
  <1>7. DozingSingles'
    BY SlotFacts DEF Mark, Goto, Return, DozingSingles, Dozing, PassedSingle, Visiting, CallAt, LogAt,
           DrainPCs, QueueTypes, ThreadTypes, CallInv
  <1>8. (RuntimeTypes /\ ConsumerTypes /\ HistoryTypes /\ ConsumerInv /\ FreeListInv /\
        DozingStop)'
    BY DEF Mark, Goto, Return, RuntimeTypes, DestroyPCs, ConsumerTypes, ConsumerPCs,
           HistoryTypes, ConsumerInv, DrainPCs, FreeListInv, Listed, DozingStop
  <1> QED
    BY <1>1, <1>2, <1>3, <1>4, <1>5, <1>6, <1>7, <1>8

\* Publish: the thread that sets the bit is about to wake the consumer
LEMMA PublishKeeps == ASSUME IInv, NEW t \in Threads, Publish(t) PROVE IInv'
  <1> USE DEF IInv, TypeOK
  <1>1. QueueTypes'
    BY SlotFacts DEF Publish, Goto, PublishReadyBit, QueueTypes
  <1>2. ThreadTypes'
    BY SlotFacts DEF Publish, Goto, PublishReadyBit, ThreadTypes, ThreadPCs, Calls
  <1>3. CallInv'
    BY SlotFacts DEF Publish, Goto, PublishReadyBit, CallInv, FlushPCs, ThreadTypes
  <1>4. ConsumerInv'
    BY SlotFacts DEF Publish, Goto, PublishReadyBit, ConsumerInv, DrainPCs, QueueTypes, CallInv
  <1>5. (EnqueuedInv /\ DepthInv /\ RetiredInv)'
    BY DEF Publish, Goto, PublishReadyBit, EnqueuedInv, Visiting, CallAt, LogAt, QueueTypes,
           ThreadTypes, CallInv, DepthInv, RetiredInv
  <1>6. (DozingBits /\ DozingSingles /\ DozingFlush /\ AsleepInv)'
    BY DEF Publish, Goto, PublishReadyBit, DozingBits, Dozing, PassedSlot, CallAt, LogAt, DrainPCs,
           QueueTypes, ThreadTypes, CallInv, DozingSingles, PassedSingle, Visiting, DozingFlush,
           AsleepInv, NotifyPending
  <1>7. (RuntimeTypes /\ ConsumerTypes /\ HistoryTypes /\ FreeListInv /\ SingleProducer /\
        DozingStop)'
    BY DEF Publish, Goto, PublishReadyBit, RuntimeTypes, DestroyPCs, ConsumerTypes, ConsumerPCs,
           HistoryTypes, FreeListInv, Listed, SingleProducer, Owns, DozingStop
  <1> QED
    BY <1>1, <1>2, <1>3, <1>4, <1>5, <1>6, <1>7

\* Bump: a consumer that sleeps on the old ticket is about to be notified
LEMMA BumpKeeps == ASSUME IInv, NEW t \in Threads, Bump(t) PROVE IInv'
  <1> USE DEF IInv, TypeOK
  <1>1. RuntimeTypes'
    BY DEF Bump, Goto, RuntimeTypes, DestroyPCs
  <1>2. ThreadTypes'
    BY SlotFacts DEF Bump, Goto, ThreadTypes, ThreadPCs, Calls
  <1>3. CallInv'
    BY SlotFacts DEF Bump, Goto, CallInv, FlushPCs, ThreadTypes
  <1>4. (EnqueuedInv /\ DepthInv /\ RetiredInv)'
    BY DEF Bump, Goto, EnqueuedInv, Visiting, CallAt, LogAt, ThreadTypes, CallInv, DepthInv, RetiredInv
  <1>5. (DozingBits /\ DozingSingles /\ DozingFlush /\ DozingStop /\ AsleepInv)'
    BY DEF Bump, Goto, DozingBits, Dozing, PassedSlot, CallAt, LogAt, DrainPCs, RuntimeTypes,
           ThreadTypes, CallInv, DozingSingles, PassedSingle, Visiting, DozingFlush, DozingStop,
           AsleepInv, NotifyPending
  <1>6. (QueueTypes /\ ConsumerTypes /\ HistoryTypes /\ ConsumerInv /\ FreeListInv /\
        SingleProducer)'
    BY DEF Bump, Goto, QueueTypes, ConsumerTypes, ConsumerPCs, HistoryTypes, ConsumerInv,
           DrainPCs, FreeListInv, Listed, SingleProducer, Owns
  <1> QED
    BY <1>1, <1>2, <1>3, <1>4, <1>5, <1>6

\* Notify: the consumer compares its ticket again; an exiting thread lets its slot go
LEMMA NotifyKeeps == ASSUME IInv, NEW t \in Threads, Notify(t) PROVE IInv'
  <1> USE DEF IInv, TypeOK
  <1>1. ThreadTypes'
    BY SlotFacts DEF Notify, Goto, Return, NotifyConsumer, ThreadTypes, ThreadPCs, Calls
  <1>2. ConsumerTypes'
    BY SlotFacts DEF Notify, Goto, Return, NotifyConsumer, ConsumerTypes, ConsumerPCs
  <1>3. CallInv'
    BY SlotFacts DEF Notify, Goto, Return, NotifyConsumer, CallInv, FlushPCs, ThreadTypes
  <1>4. ConsumerInv'
    BY SlotFacts DEF Notify, Goto, Return, NotifyConsumer, ConsumerInv, DrainPCs, ConsumerTypes,
           CallInv
  <1>5. FreeListInv'
    BY DEF Notify, Goto, Return, NotifyConsumer, FreeListInv, Listed, ConsumerTypes, CallInv
  <1>6. SingleProducer'
    BY SlotFacts DEF Notify, Goto, Return, NotifyConsumer, SingleProducer, Owns, ThreadTypes,
           CallInv
  <1>7. (EnqueuedInv /\ DepthInv /\ RetiredInv)'
    BY DEF Notify, Goto, Return, NotifyConsumer, EnqueuedInv, Visiting, CallAt, LogAt, ThreadTypes,
           ConsumerTypes, CallInv, DepthInv, RetiredInv
  <1>8. (DozingBits /\ DozingSingles /\ DozingFlush /\ DozingStop /\ AsleepInv)'
    BY DEF Notify, Goto, Return, NotifyConsumer, DozingBits, Dozing, PassedSlot, CallAt, LogAt,
           DrainPCs, ThreadTypes, ConsumerTypes, CallInv, DozingSingles, PassedSingle, Visiting,
           DozingFlush, DozingStop, AsleepInv, NotifyPending
  <1>9. (QueueTypes /\ RuntimeTypes /\ HistoryTypes)'
    BY DEF Notify, Goto, Return, NotifyConsumer, QueueTypes, RuntimeTypes, DestroyPCs,
           HistoryTypes
  <1> QED
    BY <1>1, <1>2, <1>3, <1>4, <1>5, <1>6, <1>7, <1>8, <1>9

\* FlushEnter: only the count of flushers changes
LEMMA FlushEnterKeeps == ASSUME IInv, NEW t \in Threads, FlushEnter(t) PROVE IInv'
  <1> USE DEF IInv, TypeOK
  <1>1. RuntimeTypes'
    BY DEF FlushEnter, Goto, RuntimeTypes, DestroyPCs
  <1>2. ThreadTypes'
    BY SlotFacts DEF FlushEnter, Goto, ThreadTypes, ThreadPCs, Calls
  <1>3. CallInv'
    BY SlotFacts DEF FlushEnter, Goto, CallInv, FlushPCs, ThreadTypes
  <1>4. (EnqueuedInv /\ DepthInv /\ RetiredInv)'
    BY DEF FlushEnter, Goto, EnqueuedInv, Visiting, CallAt, LogAt, ThreadTypes, CallInv, DepthInv,
           RetiredInv
  <1>5. (DozingBits /\ DozingSingles /\ DozingFlush /\ AsleepInv)'
    BY DEF FlushEnter, Goto, DozingBits, Dozing, PassedSlot, CallAt, LogAt, DrainPCs, ThreadTypes,
           CallInv, DozingSingles, PassedSingle, Visiting, DozingFlush, AsleepInv, NotifyPending
  <1>6. (QueueTypes /\ ConsumerTypes /\ HistoryTypes /\ ConsumerInv /\ FreeListInv /\
        SingleProducer /\ DozingStop)'
    BY DEF FlushEnter, Goto, QueueTypes, ConsumerTypes, ConsumerPCs, HistoryTypes, ConsumerInv,
           DrainPCs, FreeListInv, Listed, SingleProducer, Owns, DozingStop
  <1> QED
    BY <1>1, <1>2, <1>3, <1>4, <1>5, <1>6

\* FlushCheck: nothing but the flush's place changes
LEMMA FlushCheckKeeps == ASSUME IInv, NEW t \in Threads, FlushCheck(t) PROVE IInv'
  <1> USE DEF IInv, TypeOK
  <1>1. ThreadTypes'
    BY SlotFacts DEF FlushCheck, Goto, ThreadTypes, ThreadPCs, Calls
  <1>2. CallInv'
    BY SlotFacts DEF FlushCheck, Goto, CallInv, FlushPCs, ThreadTypes
  <1>3. (EnqueuedInv /\ DepthInv /\ RetiredInv)'
    BY DEF FlushCheck, Goto, EnqueuedInv, Visiting, CallAt, LogAt, ThreadTypes, CallInv, DepthInv,
           RetiredInv
  <1>4. (DozingBits /\ DozingSingles /\ DozingFlush /\ AsleepInv)'
    BY DEF FlushCheck, Goto, DozingBits, Dozing, PassedSlot, CallAt, LogAt, DrainPCs, ThreadTypes,
           CallInv, DozingSingles, PassedSingle, Visiting, DozingFlush, AsleepInv, NotifyPending
  <1>5. (QueueTypes /\ RuntimeTypes /\ ConsumerTypes /\ HistoryTypes /\ ConsumerInv /\
        FreeListInv /\ SingleProducer /\ DozingStop)'
    BY DEF FlushCheck, Goto, QueueTypes, RuntimeTypes, DestroyPCs, ConsumerTypes, ConsumerPCs,
           HistoryTypes, ConsumerInv, DrainPCs, FreeListInv, Listed, SingleProducer, Owns,
           DozingStop
  <1> QED
    BY <1>1, <1>2, <1>3, <1>4, <1>5

\* FlushRequest: the flush is about to wake the consumer
LEMMA FlushRequestKeeps == ASSUME IInv, NEW t \in Threads, FlushRequest(t) PROVE IInv'
  <1> USE DEF IInv, TypeOK
  <1>1. RuntimeTypes'
    BY DEF FlushRequest, Goto, RuntimeTypes, DestroyPCs
  <1>2. ThreadTypes'
    BY SlotFacts DEF FlushRequest, Goto, ThreadTypes, ThreadPCs, Calls, RuntimeTypes
  <1>3. HistoryTypes'
    BY DEF FlushRequest, Goto, HistoryTypes, QueueTypes
  <1>4. CallInv'
    BY SlotFacts DEF FlushRequest, Goto, CallInv, FlushPCs, ThreadTypes
  <1>5. (EnqueuedInv /\ DepthInv /\ RetiredInv)'
    BY DEF FlushRequest, Goto, EnqueuedInv, Visiting, CallAt, LogAt, ThreadTypes, CallInv, DepthInv,
           RetiredInv
  <1>6. (DozingBits /\ DozingSingles /\ AsleepInv)'
    BY DEF FlushRequest, Goto, DozingBits, Dozing, PassedSlot, CallAt, LogAt, DrainPCs, ThreadTypes,
           CallInv, DozingSingles, PassedSingle, Visiting, AsleepInv, NotifyPending
  <1>7. DozingFlush'
    BY DEF FlushRequest, Goto, DozingFlush, RuntimeTypes, ThreadTypes, CallInv, FlushPCs
  <1>8. (QueueTypes /\ ConsumerTypes /\ ConsumerInv /\ FreeListInv /\ SingleProducer /\
        DozingStop)'
    BY DEF FlushRequest, Goto, QueueTypes, ConsumerTypes, ConsumerPCs, ConsumerInv, DrainPCs,
           FreeListInv, Listed, SingleProducer, Owns, DozingStop
  <1> QED
    BY <1>1, <1>2, <1>3, <1>4, <1>5, <1>6, <1>7, <1>8

\* FlushWait: nothing but the flush's place changes
LEMMA FlushWaitKeeps == ASSUME IInv, NEW t \in Threads, FlushWait(t) PROVE IInv'
  <1> USE DEF IInv, TypeOK
  <1>1. ThreadTypes'
    BY SlotFacts DEF FlushWait, Goto, ThreadTypes, ThreadPCs, Calls
  <1>2. CallInv'
    BY SlotFacts DEF FlushWait, Goto, CallInv, FlushPCs, ThreadTypes
  <1>3. (EnqueuedInv /\ DepthInv /\ RetiredInv)'
    BY DEF FlushWait, Goto, EnqueuedInv, Visiting, CallAt, LogAt, ThreadTypes, CallInv, DepthInv,
           RetiredInv
  <1>4. (DozingBits /\ DozingSingles /\ DozingFlush /\ AsleepInv)'
    BY DEF FlushWait, Goto, DozingBits, Dozing, PassedSlot, CallAt, LogAt, DrainPCs, ThreadTypes,
           CallInv, DozingSingles, PassedSingle, Visiting, DozingFlush, AsleepInv, NotifyPending
  <1>5. (QueueTypes /\ RuntimeTypes /\ ConsumerTypes /\ HistoryTypes /\ ConsumerInv /\
        FreeListInv /\ SingleProducer /\ DozingStop)'
    BY DEF FlushWait, Goto, QueueTypes, RuntimeTypes, DestroyPCs, ConsumerTypes, ConsumerPCs,
           HistoryTypes, ConsumerInv, DrainPCs, FreeListInv, Listed, SingleProducer, Owns,
           DozingStop
  <1> QED
    BY <1>1, <1>2, <1>3, <1>4, <1>5

\* FlushLeave: only the count of flushers changes
LEMMA FlushLeaveKeeps == ASSUME IInv, NEW t \in Threads, FlushLeave(t) PROVE IInv'
  <1> USE DEF IInv, TypeOK
  <1>1. RuntimeTypes'
    BY DEF FlushLeave, Goto, Return, RuntimeTypes, DestroyPCs
  <1>2. ThreadTypes'
    BY SlotFacts DEF FlushLeave, Goto, Return, ThreadTypes, ThreadPCs, Calls
  <1>3. CallInv'
    BY SlotFacts DEF FlushLeave, Goto, Return, CallInv, FlushPCs, ThreadTypes
  <1>4. SingleProducer'
    BY DEF FlushLeave, Goto, Return, SingleProducer, Owns, ThreadTypes, CallInv
  <1>5. (EnqueuedInv /\ DepthInv /\ RetiredInv)'
    BY DEF FlushLeave, Goto, Return, EnqueuedInv, Visiting, CallAt, LogAt, ThreadTypes, CallInv,
           DepthInv, RetiredInv
  <1>6. (DozingBits /\ DozingSingles /\ DozingFlush /\ AsleepInv)'
    BY DEF FlushLeave, Goto, Return, DozingBits, Dozing, PassedSlot, CallAt, LogAt, DrainPCs,
           ThreadTypes, CallInv, DozingSingles, PassedSingle, Visiting, DozingFlush, AsleepInv,
           NotifyPending
  <1>7. (QueueTypes /\ ConsumerTypes /\ HistoryTypes /\ ConsumerInv /\ FreeListInv /\
        DozingStop)'
    BY DEF FlushLeave, Goto, Return, QueueTypes, ConsumerTypes, ConsumerPCs, HistoryTypes,
           ConsumerInv, DrainPCs, FreeListInv, Listed, DozingStop
  <1> QED
    BY <1>1, <1>2, <1>3, <1>4, <1>5, <1>6, <1>7

\* FlushNotify: a destroyer may run again
LEMMA FlushNotifyKeeps == ASSUME IInv, NEW t \in Threads, FlushNotify(t) PROVE IInv'
  <1> USE DEF IInv, TypeOK
  <1>1. RuntimeTypes'
    BY DEF FlushNotify, Return, Goto, RuntimeTypes, DestroyPCs
  <1>2. ThreadTypes'
    BY SlotFacts DEF FlushNotify, Return, Goto, ThreadTypes, ThreadPCs, Calls
  <1>3. CallInv'
    BY SlotFacts DEF FlushNotify, Return, Goto, CallInv, FlushPCs, ThreadTypes
  <1>4. SingleProducer'
    BY DEF FlushNotify, Return, Goto, SingleProducer, Owns, ThreadTypes, CallInv
  <1>5. (EnqueuedInv /\ DepthInv /\ RetiredInv)'
    BY DEF FlushNotify, Return, Goto, EnqueuedInv, Visiting, CallAt, LogAt, ThreadTypes, CallInv,
           DepthInv, RetiredInv
  <1>6. (DozingBits /\ DozingSingles /\ DozingFlush /\ DozingStop /\ AsleepInv)'
    BY DEF FlushNotify, Return, Goto, DozingBits, Dozing, PassedSlot, CallAt, LogAt, DrainPCs,
           ThreadTypes, CallInv, DozingSingles, PassedSingle, Visiting, DozingFlush, DozingStop,
           RuntimeTypes, AsleepInv, NotifyPending
  <1>7. (QueueTypes /\ ConsumerTypes /\ HistoryTypes /\ ConsumerInv /\ FreeListInv)'
    BY DEF FlushNotify, Return, Goto, QueueTypes, ConsumerTypes, ConsumerPCs, HistoryTypes,
           ConsumerInv, DrainPCs, FreeListInv, Listed
  <1> QED
    BY <1>1, <1>2, <1>3, <1>4, <1>5, <1>6, <1>7

-----------------------------------------------------------------------------
(* The consumer *)

\* Sample: a pass begins that will visit everything
LEMMA SampleKeeps == ASSUME IInv, Sample PROVE IInv'
  <1> USE DEF IInv, TypeOK
  <1>1. RuntimeTypes'
    BY DEF Sample, CGoto, StartPass, RuntimeTypes, DestroyPCs
  <1>2. ConsumerTypes'
    BY SlotFacts DEF Sample, CGoto, StartPass, ConsumerTypes, ConsumerPCs
  <1>3. ConsumerInv'
    BY SlotFacts DEF Sample, CGoto, StartPass, ConsumerInv, DrainPCs, ConsumerTypes
  <1>4. FreeListInv'
    BY DEF Sample, CGoto, StartPass, FreeListInv, Listed, ConsumerTypes, ConsumerInv
  <1>5. EnqueuedInv'
    BY SlotFacts DEF Sample, CGoto, StartPass, EnqueuedInv, Visiting, CallAt, LogAt, ThreadTypes,
           ConsumerTypes, ConsumerInv, DrainPCs
  <1>6. DepthInv'
    BY SlotFacts DEF Sample, CGoto, StartPass, DepthInv, Visiting, CallAt, LogAt, ThreadTypes,
           ConsumerTypes, ConsumerInv, DrainPCs
  <1>7. RetiredInv'
    BY SlotFacts DEF Sample, CGoto, StartPass, RetiredInv, Visiting, CallAt, LogAt, ThreadTypes,
           ConsumerTypes, ConsumerInv, DrainPCs
  <1>8. (DozingBits /\ DozingSingles /\ DozingFlush /\ DozingStop /\ AsleepInv)'
    BY DEF Sample, CGoto, StartPass, DozingBits, Dozing, PassedSlot, CallAt, LogAt, DrainPCs,
           RuntimeTypes, ThreadTypes, ConsumerTypes, ConsumerInv, DozingSingles, PassedSingle,
           Visiting, DozingFlush, DozingStop, AsleepInv, NotifyPending
  <1>9. (QueueTypes /\ ThreadTypes /\ HistoryTypes /\ CallInv /\ SingleProducer)'
    BY DEF Sample, CGoto, StartPass, QueueTypes, ThreadTypes, ThreadPCs, Calls, HistoryTypes,
           CallInv, FlushPCs, SingleProducer, Owns
  <1> QED
    BY <1>1, <1>2, <1>3, <1>4, <1>5, <1>6, <1>7, <1>8, <1>9

\* Visit: the producer leaves what is pending for the consumer's hands
LEMMA VisitKeeps == ASSUME IInv, Visit PROVE IInv'
  <1> USE DEF IInv, TypeOK
  <1>1. ConsumerTypes'
    BY SlotFacts DEF Visit, ConsumerTypes, ConsumerPCs, QueueTypes
  <1>2. ConsumerInv'
    BY SlotFacts DEF Visit, ConsumerInv, DrainPCs, ConsumerTypes, QueueTypes
  <1>3. FreeListInv'
    BY DEF Visit, FreeListInv, Listed, ConsumerTypes, ConsumerInv
  <1>4. (EnqueuedInv /\ DepthInv /\ RetiredInv)'
    BY DEF Visit, EnqueuedInv, Visiting, CallAt, LogAt, ThreadTypes, ConsumerTypes, ConsumerInv,
           DepthInv, RetiredInv
  <1>5. (DozingBits /\ DozingSingles /\ DozingFlush /\ DozingStop /\ AsleepInv)'
    BY DEF Visit, DozingBits, Dozing, PassedSlot, CallAt, LogAt, DrainPCs, ThreadTypes, ConsumerTypes,
           ConsumerInv, DozingSingles, PassedSingle, Visiting, DozingFlush, DozingStop,
           AsleepInv, NotifyPending
  <1>6. (QueueTypes /\ RuntimeTypes /\ ThreadTypes /\ HistoryTypes /\ CallInv /\
        SingleProducer)'
    BY DEF Visit, QueueTypes, RuntimeTypes, DestroyPCs, ThreadTypes, ThreadPCs, Calls,
           HistoryTypes, CallInv, FlushPCs, SingleProducer, Owns
  <1> QED
    BY <1>1, <1>2, <1>3, <1>4, <1>5, <1>6

\* LoadCount: the pass covers every word, or every slot, there is
LEMMA LoadCountKeeps == ASSUME IInv, LoadCount PROVE IInv'
  <1> USE DEF IInv, TypeOK
  <1>1. ConsumerTypes'
    BY SlotFacts, SlotsPerWordAssumption DEF LoadCount, ConsumerTypes, ConsumerPCs, QueueTypes
  <1>2. ConsumerInv'
    BY SlotFacts DEF LoadCount, ConsumerInv, DrainPCs, ConsumerTypes, QueueTypes
  <1>3. (EnqueuedInv /\ DepthInv /\ RetiredInv)'
    BY DEF LoadCount, EnqueuedInv, Visiting, CallAt, LogAt, ThreadTypes, ConsumerTypes, ConsumerInv,
           DepthInv, RetiredInv
  <1>4. DozingBits'
    BY SlotFacts, LastWord, SlotsPerWordAssumption DEF LoadCount, DozingBits, Dozing,
           PassedSlot, CallAt, LogAt, DrainPCs, ThreadTypes, ConsumerTypes, ConsumerInv, QueueTypes
  <1>5. DozingSingles'
    BY DEF LoadCount, DozingSingles, Dozing, PassedSingle, Visiting, CallAt, LogAt, DrainPCs,
           ThreadTypes, ConsumerTypes, ConsumerInv
  <1>6. (QueueTypes /\ RuntimeTypes /\ ThreadTypes /\ HistoryTypes /\ CallInv /\ FreeListInv /\
        SingleProducer /\ DozingFlush /\ DozingStop /\ AsleepInv)'
    BY DEF LoadCount, QueueTypes, RuntimeTypes, DestroyPCs, ThreadTypes, ThreadPCs, Calls,
           HistoryTypes, CallInv, FlushPCs, FreeListInv, Listed, SingleProducer, Owns,
           DozingFlush, DozingStop, AsleepInv, NotifyPending
  <1> QED
    BY <1>1, <1>2, <1>3, <1>4, <1>5, <1>6

\* TakeWord: the bits of the word become pending
LEMMA TakeWordKeeps == ASSUME IInv, TakeWord PROVE IInv'
  <1> USE DEF IInv, TypeOK
  <1>1. QueueTypes'
    BY SlotFacts DEF TakeWord, WordSlots, NoDebt, QueueTypes
  <1>2. ConsumerTypes'
    <2>1. pending' \subseteq Queues
      BY SlotFacts DEF TakeWord, QueueTypes
    <2> QED
      BY <2>1 DEF TakeWord, ConsumerTypes
  <1>3. ConsumerInv'
    BY SlotFacts DEF TakeWord, WordSlots, NoDebt, ConsumerInv, DrainPCs, QueueTypes,
           ConsumerTypes
  <1>4. (EnqueuedInv /\ DepthInv /\ RetiredInv)'
    BY DEF TakeWord, WordSlots, NoDebt, EnqueuedInv, Visiting, CallAt, LogAt, QueueTypes, ThreadTypes,
           ConsumerTypes, ConsumerInv, DepthInv, RetiredInv
  <1>5. (DozingBits /\ DozingSingles)'
    BY DEF TakeWord, WordSlots, NoDebt, DozingBits, Dozing, PassedSlot, CallAt, LogAt, DrainPCs,
           QueueTypes, ThreadTypes, ConsumerTypes, ConsumerInv, DozingSingles, PassedSingle,
           Visiting
  <1>6. (RuntimeTypes /\ ThreadTypes /\ HistoryTypes /\ CallInv /\ FreeListInv /\ SingleProducer
        /\ DozingFlush /\ DozingStop /\ AsleepInv)'
    BY DEF TakeWord, WordSlots, NoDebt, RuntimeTypes, DestroyPCs, ThreadTypes, ThreadPCs, Calls,
           HistoryTypes, CallInv, FlushPCs, FreeListInv, Listed, SingleProducer, Owns,
           DozingFlush, DozingStop, AsleepInv, NotifyPending
  <1> QED
    BY <1>1, <1>2, <1>3, <1>4, <1>5, <1>6

\* EndPass: the pass has left every bit behind
LEMMA EndPassKeeps == ASSUME IInv, EndPass PROVE IInv'
  <1> USE DEF IInv, TypeOK
  <1>1. ConsumerTypes'
    BY SlotFacts DEF EndPass, StartPass, PassDone, ConsumerTypes, ConsumerPCs
  <1>2. ConsumerInv'
    BY SlotFacts DEF EndPass, StartPass, PassDone, ConsumerInv, DrainPCs, ConsumerTypes
  <1>3. FreeListInv'
    BY DEF EndPass, StartPass, PassDone, FreeListInv, Listed, ConsumerTypes, ConsumerInv
  <1>4. (EnqueuedInv /\ DepthInv /\ RetiredInv)'
    BY DEF EndPass, StartPass, PassDone, EnqueuedInv, Visiting, CallAt, LogAt, ThreadTypes,
           ConsumerTypes, ConsumerInv, DepthInv, RetiredInv
  <1>5. DozingBits'
    <2>1. word .. words - 1 = {} /\ cpc \in DrainPCs /\ stage = "registry"
      BY DEF EndPass, PassDone, ConsumerTypes, DrainPCs
    <2>2. \A s \in bits : PassedSlot(s)
      BY <2>1 DEF PassedSlot
    <2> QED
      BY <2>2 DEF EndPass, StartPass, DozingBits, Dozing, PassedSlot, CallAt, LogAt, ConsumerInv, DrainPCs
  <1>6. (DozingSingles /\ DozingFlush /\ DozingStop /\ AsleepInv)'
    BY DEF EndPass, StartPass, PassDone, DozingSingles, Dozing, PassedSingle, Visiting, CallAt, LogAt,
           DrainPCs, ThreadTypes, ConsumerTypes, ConsumerInv, DozingFlush, DozingStop,
           AsleepInv, NotifyPending
  <1>7. (QueueTypes /\ RuntimeTypes /\ ThreadTypes /\ HistoryTypes /\ CallInv /\
        SingleProducer)'
    BY DEF EndPass, StartPass, PassDone, QueueTypes, RuntimeTypes, DestroyPCs, ThreadTypes,
           ThreadPCs, Calls, HistoryTypes, CallInv, FlushPCs, SingleProducer, Owns
  <1> QED
    BY <1>1, <1>2, <1>3, <1>4, <1>5, <1>6, <1>7

\* Consume: one record less
LEMMA ConsumeKeeps == ASSUME IInv, Consume PROVE IInv'
  <1> USE DEF IInv, TypeOK
  <1>1. QueueTypes'
    BY SlotFacts, CapacityAssumption DEF Consume, CGoto, QueueTypes, ConsumerTypes, ConsumerInv
  <1>2. ConsumerTypes'
    BY SlotFacts, CapacityAssumption DEF Consume, CGoto, ConsumerTypes, ConsumerPCs, QueueTypes,
           ConsumerInv
  <1>3. HistoryTypes'
    BY CapacityAssumption DEF Consume, CGoto, HistoryTypes, ConsumerInv
  <1>4. ConsumerInv'
    BY SlotFacts DEF Consume, CGoto, ConsumerInv, DrainPCs, QueueTypes, ConsumerTypes
  <1>5. FreeListInv'
    BY DEF Consume, CGoto, FreeListInv, Listed, ConsumerTypes, ConsumerInv
  <1>6. (EnqueuedInv /\ DepthInv /\ RetiredInv)'
    BY DEF Consume, CGoto, EnqueuedInv, Visiting, CallAt, LogAt, ThreadTypes, ConsumerTypes,
           ConsumerInv, DepthInv, QueueTypes, RetiredInv
  <1>7. (DozingBits /\ DozingSingles /\ DozingFlush /\ DozingStop /\ AsleepInv)'
    BY DEF Consume, CGoto, DozingBits, Dozing, PassedSlot, CallAt, LogAt, DrainPCs, ThreadTypes,
           ConsumerTypes, ConsumerInv, DozingSingles, PassedSingle, Visiting, DozingFlush,
           DozingStop, AsleepInv, NotifyPending
  <1>8. (RuntimeTypes /\ ThreadTypes /\ CallInv /\ SingleProducer)'
    BY DEF Consume, CGoto, RuntimeTypes, DestroyPCs, ThreadTypes, ThreadPCs, Calls, CallInv,
           FlushPCs, SingleProducer, Owns
  <1> QED
    BY <1>1, <1>2, <1>3, <1>4, <1>5, <1>6, <1>7, <1>8

\* Check1: a producer with records gets its bit back
LEMMA Check1Keeps == ASSUME IInv, Check1 PROVE IInv'
  <1> USE DEF IInv, TypeOK
  <1>1. QueueTypes'
    BY SlotFacts DEF Check1, PublishReadyBit, QueueTypes
  <1>2. ConsumerTypes'
    BY SlotFacts DEF Check1, PublishReadyBit, ConsumerTypes, ConsumerPCs
  <1>3. ConsumerInv'
    BY SlotFacts DEF Check1, PublishReadyBit, ConsumerInv, DrainPCs, QueueTypes, ConsumerTypes
  <1>4. FreeListInv'
    BY DEF Check1, PublishReadyBit, FreeListInv, Listed, ConsumerTypes, ConsumerInv
  <1>5. (EnqueuedInv /\ DepthInv /\ RetiredInv)'
    BY DEF Check1, PublishReadyBit, EnqueuedInv, Visiting, CallAt, LogAt, QueueTypes, ThreadTypes,
           ConsumerTypes, ConsumerInv, DepthInv, RetiredInv
  <1>6. (DozingBits /\ DozingSingles /\ DozingFlush /\ DozingStop /\ AsleepInv)'
    BY DEF Check1, PublishReadyBit, DozingBits, Dozing, PassedSlot, CallAt, LogAt, DrainPCs,
           QueueTypes, ThreadTypes, ConsumerTypes, ConsumerInv, DozingSingles, PassedSingle,
           Visiting, DozingFlush, DozingStop, AsleepInv, NotifyPending
  <1>7. (RuntimeTypes /\ ThreadTypes /\ HistoryTypes /\ CallInv /\ SingleProducer)'
    BY DEF Check1, PublishReadyBit, RuntimeTypes, DestroyPCs, ThreadTypes, ThreadPCs, Calls,
           HistoryTypes, CallInv, FlushPCs, SingleProducer, Owns
  <1> QED
    BY <1>1, <1>2, <1>3, <1>4, <1>5, <1>6, <1>7

\* Clear: the flag goes down while the consumer looks again
LEMMA ClearKeeps == ASSUME IInv, Clear PROVE IInv'
  <1> USE DEF IInv, TypeOK
  <1>1. QueueTypes'
    BY SlotFacts DEF Clear, CGoto, QueueTypes
  <1>2. ConsumerTypes'
    BY SlotFacts DEF Clear, CGoto, ConsumerTypes, ConsumerPCs
  <1>3. ConsumerInv'
    BY SlotFacts DEF Clear, CGoto, ConsumerInv, DrainPCs, ConsumerTypes
  <1>4. FreeListInv'
    BY DEF Clear, CGoto, FreeListInv, Listed, ConsumerTypes, ConsumerInv
  <1>5. (EnqueuedInv /\ DepthInv /\ RetiredInv)'
    BY DEF Clear, CGoto, EnqueuedInv, Visiting, CallAt, LogAt, QueueTypes, ThreadTypes, ConsumerTypes,
           ConsumerInv, DepthInv, RetiredInv
  <1>6. (DozingBits /\ DozingSingles /\ DozingFlush /\ DozingStop /\ AsleepInv)'
    BY DEF Clear, CGoto, DozingBits, Dozing, PassedSlot, CallAt, LogAt, DrainPCs, ThreadTypes,
           ConsumerTypes, ConsumerInv, DozingSingles, PassedSingle, Visiting, QueueTypes,
           DozingFlush, DozingStop, AsleepInv, NotifyPending
  <1>7. (RuntimeTypes /\ ThreadTypes /\ HistoryTypes /\ CallInv /\ SingleProducer)'
    BY DEF Clear, CGoto, RuntimeTypes, DestroyPCs, ThreadTypes, ThreadPCs, Calls, HistoryTypes,
           CallInv, FlushPCs, SingleProducer, Owns
  <1> QED
    BY <1>1, <1>2, <1>3, <1>4, <1>5, <1>6, <1>7

\* Check2: a queue found empty needs no flag
LEMMA Check2Keeps == ASSUME IInv, Check2 PROVE IInv'
  <1> USE DEF IInv, TypeOK
  <1>1. ConsumerTypes'
    BY SlotFacts DEF Check2, CGoto, ConsumerTypes, ConsumerPCs
  <1>2. ConsumerInv'
    BY SlotFacts DEF Check2, CGoto, ConsumerInv, DrainPCs, ConsumerTypes
  <1>3. FreeListInv'
    BY DEF Check2, CGoto, FreeListInv, Listed, ConsumerTypes, ConsumerInv
  <1>4. (EnqueuedInv /\ DepthInv /\ RetiredInv)'
    BY DEF Check2, CGoto, EnqueuedInv, Visiting, CallAt, LogAt, ThreadTypes, ConsumerTypes,
           ConsumerInv, DepthInv, RetiredInv
  <1>5. (DozingBits /\ DozingSingles /\ DozingFlush /\ DozingStop /\ AsleepInv)'
    BY DEF Check2, CGoto, DozingBits, Dozing, PassedSlot, CallAt, LogAt, DrainPCs, ThreadTypes,
           ConsumerTypes, ConsumerInv, DozingSingles, PassedSingle, Visiting, DozingFlush,
           DozingStop, AsleepInv, NotifyPending
  <1>6. (QueueTypes /\ RuntimeTypes /\ ThreadTypes /\ HistoryTypes /\ CallInv /\
        SingleProducer)'
    BY DEF Check2, CGoto, QueueTypes, RuntimeTypes, DestroyPCs, ThreadTypes, ThreadPCs, Calls,
           HistoryTypes, CallInv, FlushPCs, SingleProducer, Owns
  <1> QED
    BY <1>1, <1>2, <1>3, <1>4, <1>5, <1>6

\* Remark: the flag and the bit go up together
LEMMA RemarkKeeps == ASSUME IInv, Remark PROVE IInv'
  <1> USE DEF IInv, TypeOK
  <1>1. QueueTypes'
    BY SlotFacts DEF Remark, PublishReadyBit, CGoto, QueueTypes
  <1>2. ConsumerTypes'
    BY SlotFacts DEF Remark, PublishReadyBit, CGoto, ConsumerTypes, ConsumerPCs
  <1>3. ConsumerInv'
    BY SlotFacts DEF Remark, PublishReadyBit, CGoto, ConsumerInv, DrainPCs, QueueTypes,
           ConsumerTypes
  <1>4. FreeListInv'
    BY DEF Remark, PublishReadyBit, CGoto, FreeListInv, Listed, ConsumerTypes, ConsumerInv
  <1>5. (EnqueuedInv /\ DepthInv)'
    BY DEF Remark, PublishReadyBit, CGoto, EnqueuedInv, Visiting, CallAt, LogAt, QueueTypes,
           ThreadTypes, ConsumerTypes, ConsumerInv, DepthInv
  <1>6. RetiredInv'
    BY SlotFacts DEF Remark, PublishReadyBit, CGoto, RetiredInv, Visiting, CallAt, LogAt, QueueTypes,
           ThreadTypes, ConsumerTypes, ConsumerInv, EnqueuedInv, SingleProducer, Owns, CallInv
  <1>7. (DozingBits /\ DozingSingles /\ DozingFlush /\ DozingStop /\ AsleepInv)'
    BY DEF Remark, PublishReadyBit, CGoto, DozingBits, Dozing, PassedSlot, CallAt, LogAt, DrainPCs,
           QueueTypes, ThreadTypes, ConsumerTypes, ConsumerInv, DozingSingles, PassedSingle,
           Visiting, DozingFlush, DozingStop, AsleepInv, NotifyPending
  <1>8. (RuntimeTypes /\ ThreadTypes /\ HistoryTypes /\ CallInv /\ SingleProducer)'
    BY DEF Remark, PublishReadyBit, CGoto, RuntimeTypes, DestroyPCs, ThreadTypes, ThreadPCs,
           Calls, HistoryTypes, CallInv, FlushPCs, SingleProducer, Owns
  <1> QED
    BY <1>1, <1>2, <1>3, <1>4, <1>5, <1>6, <1>7, <1>8

\* TryFree: a retired slot without records has no owner
LEMMA TryFreeKeeps == ASSUME IInv, TryFree PROVE IInv'
  <1> USE DEF IInv, TypeOK
  <1>1. QueueTypes'
    BY SlotFacts DEF TryFree, QueueTypes
  <1>2. ConsumerTypes'
    BY SlotFacts DEF TryFree, ConsumerTypes, ConsumerPCs
  <1>3. ConsumerInv'
    BY SlotFacts DEF TryFree, ConsumerInv, DrainPCs, QueueTypes, ConsumerTypes
  <1>4. (FreeListInv /\ SingleProducer)'
    BY DEF TryFree, FreeListInv, Listed, QueueTypes, ConsumerTypes, ConsumerInv, SingleProducer,
           Owns, ThreadTypes
  <1>5. (EnqueuedInv /\ DepthInv /\ RetiredInv)'
    BY DEF TryFree, EnqueuedInv, Visiting, CallAt, LogAt, ThreadTypes, ConsumerTypes, ConsumerInv,
           DepthInv, RetiredInv, QueueTypes
  <1>6. (DozingBits /\ DozingSingles /\ DozingFlush /\ DozingStop /\ AsleepInv)'
    BY DEF TryFree, DozingBits, Dozing, PassedSlot, CallAt, LogAt, DrainPCs, ThreadTypes,
           ConsumerTypes, ConsumerInv, DozingSingles, PassedSingle, Visiting, DozingFlush,
           DozingStop, AsleepInv, NotifyPending
  <1>7. (RuntimeTypes /\ ThreadTypes /\ HistoryTypes /\ CallInv)'
    BY DEF TryFree, RuntimeTypes, DestroyPCs, ThreadTypes, ThreadPCs, Calls, HistoryTypes,
           CallInv, FlushPCs
  <1> QED
    BY <1>1, <1>2, <1>3, <1>4, <1>5, <1>6, <1>7

\* Push: the freed slot becomes the head of the free list
LEMMA PushKeeps == ASSUME IInv, Push PROVE IInv'
  <1> USE DEF IInv, TypeOK
  <1>1. QueueTypes'
    BY SlotFacts DEF Push, CGoto, QueueTypes, ConsumerInv
  <1>2. ConsumerTypes'
    BY SlotFacts DEF Push, CGoto, ConsumerTypes, ConsumerPCs
  <1>3. HistoryTypes'
    BY DEF Push, CGoto, HistoryTypes
  <1>4. ConsumerInv'
    BY SlotFacts DEF Push, CGoto, ConsumerInv, DrainPCs, ConsumerTypes
  <1>5. FreeListInv'
    BY DEF Push, CGoto, FreeListInv, Listed, QueueTypes, ConsumerTypes, ConsumerInv
  <1>6. (EnqueuedInv /\ DepthInv /\ RetiredInv)'
    BY DEF Push, CGoto, EnqueuedInv, Visiting, CallAt, LogAt, ThreadTypes, ConsumerTypes, ConsumerInv,
           DepthInv, RetiredInv
  <1>7. (DozingBits /\ DozingSingles /\ DozingFlush /\ DozingStop /\ AsleepInv)'
    BY DEF Push, CGoto, DozingBits, Dozing, PassedSlot, CallAt, LogAt, DrainPCs, ThreadTypes,
           ConsumerTypes, ConsumerInv, DozingSingles, PassedSingle, Visiting, DozingFlush,
           DozingStop, AsleepInv, NotifyPending
  <1>8. (RuntimeTypes /\ ThreadTypes /\ CallInv /\ SingleProducer)'
    BY DEF Push, CGoto, RuntimeTypes, DestroyPCs, ThreadTypes, ThreadPCs, Calls, CallInv,
           FlushPCs, SingleProducer, Owns
  <1> QED
    BY <1>1, <1>2, <1>3, <1>4, <1>5, <1>6, <1>7, <1>8

\* CheckFlush: a request that is seen is served
LEMMA CheckFlushKeeps == ASSUME IInv, CheckFlush PROVE IInv'
  <1> USE DEF IInv, TypeOK
  <1>1. ConsumerTypes'
    BY SlotFacts DEF CheckFlush, StartPass, ConsumerTypes, ConsumerPCs, RuntimeTypes
  <1>2. ConsumerInv'
    BY SlotFacts DEF CheckFlush, StartPass, ConsumerInv, DrainPCs, ConsumerTypes
  <1>3. FreeListInv'
    BY DEF CheckFlush, StartPass, FreeListInv, Listed, ConsumerTypes, ConsumerInv
  <1>4. EnqueuedInv'
    BY SlotFacts DEF CheckFlush, StartPass, EnqueuedInv, Visiting, CallAt, LogAt, ThreadTypes,
           ConsumerTypes, ConsumerInv, DrainPCs
  <1>5. DepthInv'
    BY SlotFacts DEF CheckFlush, StartPass, DepthInv, Visiting, CallAt, LogAt, ThreadTypes,
           ConsumerTypes, ConsumerInv, DrainPCs
  <1>6. RetiredInv'
    BY SlotFacts DEF CheckFlush, StartPass, RetiredInv, Visiting, CallAt, LogAt, ThreadTypes,
           ConsumerTypes, ConsumerInv, DrainPCs
  <1>7. (DozingBits /\ DozingSingles /\ DozingFlush /\ DozingStop /\ AsleepInv)'
    BY DEF CheckFlush, StartPass, DozingBits, Dozing, PassedSlot, CallAt, LogAt, DrainPCs, ThreadTypes,
           ConsumerTypes, ConsumerInv, DozingSingles, PassedSingle, Visiting, DozingFlush,
           DozingStop, AsleepInv, NotifyPending
  <1>8. (QueueTypes /\ RuntimeTypes /\ ThreadTypes /\ HistoryTypes /\ CallInv /\
        SingleProducer)'
    BY DEF CheckFlush, StartPass, QueueTypes, RuntimeTypes, DestroyPCs, ThreadTypes, ThreadPCs,
           Calls, HistoryTypes, CallInv, FlushPCs, SingleProducer, Owns
  <1> QED
    BY <1>1, <1>2, <1>3, <1>4, <1>5, <1>6, <1>7, <1>8

\* FlushSinks: nothing the invariant reads
LEMMA FlushSinksKeeps == ASSUME IInv, FlushSinks PROVE IInv'
  <1> USE DEF IInv, TypeOK
  <1>1. ConsumerTypes'
    BY SlotFacts DEF FlushSinks, CGoto, NoDebt, ConsumerTypes, ConsumerPCs
  <1>2. HistoryTypes'
    BY DEF FlushSinks, CGoto, NoDebt, HistoryTypes
  <1>3. ConsumerInv'
    BY SlotFacts DEF FlushSinks, CGoto, NoDebt, ConsumerInv, DrainPCs, ConsumerTypes
  <1>4. FreeListInv'
    BY DEF FlushSinks, CGoto, NoDebt, FreeListInv, Listed, ConsumerTypes, ConsumerInv
  <1>5. (EnqueuedInv /\ DepthInv /\ RetiredInv)'
    BY DEF FlushSinks, CGoto, NoDebt, EnqueuedInv, Visiting, CallAt, LogAt, ThreadTypes, ConsumerTypes,
           ConsumerInv, DepthInv, RetiredInv
  <1>6. (DozingBits /\ DozingSingles /\ DozingFlush /\ DozingStop /\ AsleepInv)'
    BY DEF FlushSinks, CGoto, NoDebt, DozingBits, Dozing, PassedSlot, CallAt, LogAt, DrainPCs,
           ThreadTypes, ConsumerTypes, ConsumerInv, DozingSingles, PassedSingle, Visiting,
           DozingFlush, DozingStop, AsleepInv, NotifyPending
  <1>7. (QueueTypes /\ RuntimeTypes /\ ThreadTypes /\ CallInv /\ SingleProducer)'
    BY DEF FlushSinks, CGoto, NoDebt, QueueTypes, RuntimeTypes, DestroyPCs, ThreadTypes,
           ThreadPCs, Calls, CallInv, FlushPCs, SingleProducer, Owns
  <1> QED
    BY <1>1, <1>2, <1>3, <1>4, <1>5, <1>6, <1>7

\* Complete: the request is served
LEMMA CompleteKeeps == ASSUME IInv, Complete PROVE IInv'
  <1> USE DEF IInv, TypeOK
  <1>1. RuntimeTypes'
    BY DEF Complete, CGoto, RuntimeTypes, DestroyPCs, ConsumerTypes
  <1>2. ConsumerTypes'
    BY SlotFacts DEF Complete, CGoto, ConsumerTypes, ConsumerPCs
  <1>3. ConsumerInv'
    BY SlotFacts DEF Complete, CGoto, ConsumerInv, DrainPCs, ConsumerTypes
  <1>4. FreeListInv'
    BY DEF Complete, CGoto, FreeListInv, Listed, ConsumerTypes, ConsumerInv
  <1>5. (EnqueuedInv /\ DepthInv /\ RetiredInv)'
    BY DEF Complete, CGoto, EnqueuedInv, Visiting, CallAt, LogAt, ThreadTypes, ConsumerTypes,
           ConsumerInv, DepthInv, RetiredInv
  <1>6. (DozingBits /\ DozingSingles /\ DozingFlush /\ DozingStop /\ AsleepInv)'
    BY DEF Complete, CGoto, DozingBits, Dozing, PassedSlot, CallAt, LogAt, DrainPCs, ThreadTypes,
           ConsumerTypes, ConsumerInv, DozingSingles, PassedSingle, Visiting, DozingFlush,
           RuntimeTypes, DozingStop, AsleepInv, NotifyPending
  <1>7. (QueueTypes /\ ThreadTypes /\ HistoryTypes /\ CallInv /\ SingleProducer)'
    BY DEF Complete, CGoto, QueueTypes, ThreadTypes, ThreadPCs, Calls, HistoryTypes, CallInv,
           FlushPCs, SingleProducer, Owns
  <1> QED
    BY <1>1, <1>2, <1>3, <1>4, <1>5, <1>6, <1>7

\* NotifyAll: sleeping flushes compare again
LEMMA NotifyAllKeeps == ASSUME IInv, NotifyAll PROVE IInv'
  <1> USE DEF IInv, TypeOK
  <1>1. ThreadTypes'
    BY SlotFacts DEF NotifyAll, CGoto, ThreadTypes, ThreadPCs, Calls
  <1>2. ConsumerTypes'
    BY SlotFacts DEF NotifyAll, CGoto, ConsumerTypes, ConsumerPCs
  <1>3. CallInv'
    BY SlotFacts DEF NotifyAll, CGoto, CallInv, FlushPCs, ThreadTypes, ConsumerInv
  <1>4. ConsumerInv'
    BY SlotFacts DEF NotifyAll, CGoto, ConsumerInv, DrainPCs, ConsumerTypes
  <1>5. FreeListInv'
    BY DEF NotifyAll, CGoto, FreeListInv, Listed, ConsumerTypes, ConsumerInv
  <1>6. (EnqueuedInv /\ DepthInv /\ RetiredInv)'
    BY DEF NotifyAll, CGoto, EnqueuedInv, Visiting, CallAt, LogAt, ThreadTypes, ConsumerTypes,
           ConsumerInv, DepthInv, RetiredInv
  <1>7. (DozingBits /\ DozingSingles /\ DozingFlush /\ DozingStop /\ AsleepInv)'
    BY DEF NotifyAll, CGoto, DozingBits, Dozing, PassedSlot, CallAt, LogAt, DrainPCs, ThreadTypes,
           ConsumerTypes, ConsumerInv, DozingSingles, PassedSingle, Visiting, DozingFlush,
           DozingStop, AsleepInv, NotifyPending
  <1>8. (QueueTypes /\ RuntimeTypes /\ HistoryTypes /\ SingleProducer)'
    BY DEF NotifyAll, CGoto, QueueTypes, RuntimeTypes, DestroyPCs, HistoryTypes, SingleProducer,
           Owns
  <1> QED
    BY <1>1, <1>2, <1>3, <1>4, <1>5, <1>6, <1>7, <1>8

\* CheckStop: a stop request that is seen ends the loop
LEMMA CheckStopKeeps == ASSUME IInv, CheckStop PROVE IInv'
  <1> USE DEF IInv, TypeOK
  <1>1. ConsumerTypes'
    BY SlotFacts DEF CheckStop, StartPass, ConsumerTypes, ConsumerPCs
  <1>2. ConsumerInv'
    BY SlotFacts DEF CheckStop, StartPass, ConsumerInv, DrainPCs, ConsumerTypes
  <1>3. FreeListInv'
    BY DEF CheckStop, StartPass, FreeListInv, Listed, ConsumerTypes, ConsumerInv
  <1>4. EnqueuedInv'
    BY SlotFacts DEF CheckStop, StartPass, EnqueuedInv, Visiting, CallAt, LogAt, ThreadTypes,
           ConsumerTypes, ConsumerInv, DrainPCs
  <1>5. DepthInv'
    BY SlotFacts DEF CheckStop, StartPass, DepthInv, Visiting, CallAt, LogAt, ThreadTypes,
           ConsumerTypes, ConsumerInv, DrainPCs
  <1>6. RetiredInv'
    BY SlotFacts DEF CheckStop, StartPass, RetiredInv, Visiting, CallAt, LogAt, ThreadTypes,
           ConsumerTypes, ConsumerInv, DrainPCs
  <1>7. (DozingBits /\ DozingSingles /\ DozingFlush /\ DozingStop /\ AsleepInv)'
    BY DEF CheckStop, StartPass, DozingBits, Dozing, PassedSlot, CallAt, LogAt, DrainPCs, ThreadTypes,
           ConsumerTypes, ConsumerInv, DozingSingles, PassedSingle, Visiting, DozingFlush,
           DozingStop, AsleepInv, NotifyPending
  <1>8. (QueueTypes /\ RuntimeTypes /\ ThreadTypes /\ HistoryTypes /\ CallInv /\
        SingleProducer)'
    BY DEF CheckStop, StartPass, QueueTypes, RuntimeTypes, DestroyPCs, ThreadTypes, ThreadPCs,
           Calls, HistoryTypes, CallInv, FlushPCs, SingleProducer, Owns
  <1> QED
    BY <1>1, <1>2, <1>3, <1>4, <1>5, <1>6, <1>7, <1>8

\* Wait: the consumer sleeps only on a ticket nobody moved
LEMMA WaitKeeps == ASSUME IInv, Wait PROVE IInv'
  <1> USE DEF IInv, TypeOK
  <1>1. ConsumerTypes'
    BY SlotFacts DEF Wait, CGoto, ConsumerTypes, ConsumerPCs
  <1>2. ConsumerInv'
    BY SlotFacts DEF Wait, CGoto, ConsumerInv, DrainPCs, ConsumerTypes
  <1>3. FreeListInv'
    BY DEF Wait, CGoto, FreeListInv, Listed, ConsumerTypes, ConsumerInv
  <1>4. (EnqueuedInv /\ DepthInv /\ RetiredInv)'
    BY DEF Wait, CGoto, EnqueuedInv, Visiting, CallAt, LogAt, ThreadTypes, ConsumerTypes, ConsumerInv,
           DepthInv, RetiredInv
  <1>5. (DozingBits /\ DozingSingles /\ DozingFlush /\ DozingStop /\ AsleepInv)'
    BY DEF Wait, CGoto, DozingBits, Dozing, PassedSlot, CallAt, LogAt, DrainPCs, ThreadTypes,
           ConsumerTypes, ConsumerInv, DozingSingles, PassedSingle, Visiting, DozingFlush,
           DozingStop, AsleepInv, NotifyPending
  <1>6. (QueueTypes /\ RuntimeTypes /\ ThreadTypes /\ HistoryTypes /\ CallInv /\
        SingleProducer)'
    BY DEF Wait, CGoto, QueueTypes, RuntimeTypes, DestroyPCs, ThreadTypes, ThreadPCs, Calls,
           HistoryTypes, CallInv, FlushPCs, SingleProducer, Owns
  <1> QED
    BY <1>1, <1>2, <1>3, <1>4, <1>5, <1>6

-----------------------------------------------------------------------------
(* The destroyers *)

\* DestroyBegin: the gate closes
LEMMA DestroyBeginKeeps == ASSUME IInv, NEW d \in Destroyers, DestroyBegin(d) PROVE IInv'
  <1> USE DEF IInv, TypeOK
  <1>1. RuntimeTypes'
    BY DEF DestroyBegin, DGoto, InFlight, RuntimeTypes, DestroyPCs
  <1>2. HistoryTypes'
    BY CapacityAssumption DEF DestroyBegin, DGoto, InFlight, HistoryTypes, QueueTypes
  <1>3. (DozingStop /\ AsleepInv)'
    BY DEF DestroyBegin, DGoto, InFlight, DozingStop, RuntimeTypes, AsleepInv, NotifyPending,
           ThreadTypes
  <1>4. (QueueTypes /\ ThreadTypes /\ ConsumerTypes /\ CallInv /\ ConsumerInv /\ FreeListInv /\
        SingleProducer /\ EnqueuedInv /\ DepthInv /\ RetiredInv /\ DozingBits /\ DozingSingles
        /\ DozingFlush)'
    BY DEF DestroyBegin, DGoto, InFlight, QueueTypes, ThreadTypes, ThreadPCs, Calls,
           ConsumerTypes, ConsumerPCs, CallInv, FlushPCs, ConsumerInv, DrainPCs, FreeListInv,
           Listed, SingleProducer, Owns, EnqueuedInv, Visiting, CallAt, LogAt, DepthInv, RetiredInv,
           DozingBits, Dozing, PassedSlot, DozingSingles, PassedSingle, DozingFlush
  <1> QED
    BY <1>1, <1>2, <1>3, <1>4

\* DestroyTwice: nothing but the destroyer's place changes
LEMMA DestroyTwiceKeeps == ASSUME IInv, NEW d \in Destroyers, DestroyTwice(d) PROVE IInv'
  <1> USE DEF IInv, TypeOK
  <1>1. RuntimeTypes'
    BY DEF DestroyTwice, DGoto, RuntimeTypes, DestroyPCs
  <1>2. (DozingStop /\ AsleepInv)'
    BY DEF DestroyTwice, DGoto, DozingStop, RuntimeTypes, AsleepInv, NotifyPending, ThreadTypes
  <1>3. (QueueTypes /\ ThreadTypes /\ ConsumerTypes /\ HistoryTypes /\ CallInv /\ ConsumerInv /\
        FreeListInv /\ SingleProducer /\ EnqueuedInv /\ DepthInv /\ RetiredInv /\ DozingBits /\
        DozingSingles /\ DozingFlush)'
    BY DEF DestroyTwice, DGoto, QueueTypes, ThreadTypes, ThreadPCs, Calls, ConsumerTypes,
           ConsumerPCs, HistoryTypes, CallInv, FlushPCs, ConsumerInv, DrainPCs, FreeListInv,
           Listed, SingleProducer, Owns, EnqueuedInv, Visiting, CallAt, LogAt, DepthInv, RetiredInv,
           DozingBits, Dozing, PassedSlot, DozingSingles, PassedSingle, DozingFlush
  <1> QED
    BY <1>1, <1>2, <1>3

\* WaitFlushers: nothing but the destroyer's place changes
LEMMA WaitFlushersKeeps == ASSUME IInv, NEW d \in Destroyers, WaitFlushers(d) PROVE IInv'
  <1> USE DEF IInv, TypeOK
  <1>1. RuntimeTypes'
    BY DEF WaitFlushers, DGoto, RuntimeTypes, DestroyPCs
  <1>2. (DozingStop /\ AsleepInv)'
    BY DEF WaitFlushers, DGoto, DozingStop, RuntimeTypes, AsleepInv, NotifyPending, ThreadTypes
  <1>3. (QueueTypes /\ ThreadTypes /\ ConsumerTypes /\ HistoryTypes /\ CallInv /\ ConsumerInv /\
        FreeListInv /\ SingleProducer /\ EnqueuedInv /\ DepthInv /\ RetiredInv /\ DozingBits /\
        DozingSingles /\ DozingFlush)'
    BY DEF WaitFlushers, DGoto, QueueTypes, ThreadTypes, ThreadPCs, Calls, ConsumerTypes,
           ConsumerPCs, HistoryTypes, CallInv, FlushPCs, ConsumerInv, DrainPCs, FreeListInv,
           Listed, SingleProducer, Owns, EnqueuedInv, Visiting, CallAt, LogAt, DepthInv, RetiredInv,
           DozingBits, Dozing, PassedSlot, DozingSingles, PassedSingle, DozingFlush
  <1> QED
    BY <1>1, <1>2, <1>3

\* RequestStop: the destroyer is about to wake the consumer
LEMMA RequestStopKeeps == ASSUME IInv, NEW d \in Destroyers, RequestStop(d) PROVE IInv'
  <1> USE DEF IInv, TypeOK
  <1>1. RuntimeTypes'
    BY DEF RequestStop, DGoto, RuntimeTypes, DestroyPCs
  <1>2. (DozingStop /\ AsleepInv)'
    BY DEF RequestStop, DGoto, DozingStop, RuntimeTypes, AsleepInv, NotifyPending, ThreadTypes
  <1>3. (QueueTypes /\ ThreadTypes /\ ConsumerTypes /\ HistoryTypes /\ CallInv /\ ConsumerInv /\
        FreeListInv /\ SingleProducer /\ EnqueuedInv /\ DepthInv /\ RetiredInv /\ DozingBits /\
        DozingSingles /\ DozingFlush)'
    BY DEF RequestStop, DGoto, QueueTypes, ThreadTypes, ThreadPCs, Calls, ConsumerTypes,
           ConsumerPCs, HistoryTypes, CallInv, FlushPCs, ConsumerInv, DrainPCs, FreeListInv,
           Listed, SingleProducer, Owns, EnqueuedInv, Visiting, CallAt, LogAt, DepthInv, RetiredInv,
           DozingBits, Dozing, PassedSlot, DozingSingles, PassedSingle, DozingFlush
  <1> QED
    BY <1>1, <1>2, <1>3

\* BumpStop: a consumer that sleeps on the old ticket is about to be notified
LEMMA BumpStopKeeps == ASSUME IInv, NEW d \in Destroyers, BumpStop(d) PROVE IInv'
  <1> USE DEF IInv, TypeOK
  <1>1. RuntimeTypes'
    BY DEF BumpStop, DGoto, RuntimeTypes, DestroyPCs
  <1>2. (DozingBits /\ DozingSingles /\ DozingFlush /\ DozingStop /\ AsleepInv)'
    BY DEF BumpStop, DGoto, DozingBits, Dozing, PassedSlot, CallAt, LogAt, DrainPCs, RuntimeTypes,
           ThreadTypes, DozingSingles, PassedSingle, Visiting, DozingFlush, DozingStop,
           AsleepInv, NotifyPending
  <1>3. (QueueTypes /\ ThreadTypes /\ ConsumerTypes /\ HistoryTypes /\ CallInv /\ ConsumerInv /\
        FreeListInv /\ SingleProducer /\ EnqueuedInv /\ DepthInv /\ RetiredInv)'
    BY DEF BumpStop, DGoto, QueueTypes, ThreadTypes, ThreadPCs, Calls, ConsumerTypes,
           ConsumerPCs, HistoryTypes, CallInv, FlushPCs, ConsumerInv, DrainPCs, FreeListInv,
           Listed, SingleProducer, Owns, EnqueuedInv, Visiting, CallAt, LogAt, DepthInv, RetiredInv
  <1> QED
    BY <1>1, <1>2, <1>3

\* NotifyStop: the consumer compares its ticket again
LEMMA NotifyStopKeeps == ASSUME IInv, NEW d \in Destroyers, NotifyStop(d) PROVE IInv'
  <1> USE DEF IInv, TypeOK
  <1>1. RuntimeTypes'
    BY DEF NotifyStop, NotifyConsumer, DGoto, RuntimeTypes, DestroyPCs
  <1>2. ConsumerTypes'
    BY SlotFacts DEF NotifyStop, NotifyConsumer, DGoto, ConsumerTypes, ConsumerPCs
  <1>3. ConsumerInv'
    BY SlotFacts DEF NotifyStop, NotifyConsumer, DGoto, ConsumerInv, DrainPCs, ConsumerTypes
  <1>4. FreeListInv'
    BY DEF NotifyStop, NotifyConsumer, DGoto, FreeListInv, Listed, ConsumerTypes
  <1>5. (EnqueuedInv /\ DepthInv /\ RetiredInv)'
    BY DEF NotifyStop, NotifyConsumer, DGoto, EnqueuedInv, Visiting, CallAt, LogAt, ThreadTypes,
           ConsumerTypes, DepthInv, RetiredInv
  <1>6. (DozingBits /\ DozingSingles /\ DozingFlush /\ DozingStop /\ AsleepInv)'
    BY DEF NotifyStop, NotifyConsumer, DGoto, DozingBits, Dozing, PassedSlot, CallAt, LogAt, DrainPCs,
           ThreadTypes, ConsumerTypes, DozingSingles, PassedSingle, Visiting, DozingFlush,
           DozingStop, RuntimeTypes, AsleepInv, NotifyPending
  <1>7. (QueueTypes /\ ThreadTypes /\ HistoryTypes /\ CallInv /\ SingleProducer)'
    BY DEF NotifyStop, NotifyConsumer, DGoto, QueueTypes, ThreadTypes, ThreadPCs, Calls,
           HistoryTypes, CallInv, FlushPCs, SingleProducer, Owns
  <1> QED
    BY <1>1, <1>2, <1>3, <1>4, <1>5, <1>6, <1>7

\* Join: the consumer is gone
LEMMA JoinKeeps == ASSUME IInv, NEW d \in Destroyers, Join(d) PROVE IInv'
  <1> USE DEF IInv, TypeOK
  <1>1. RuntimeTypes'
    BY DEF Join, DGoto, RuntimeTypes, DestroyPCs
  <1>2. (DozingStop /\ AsleepInv)'
    BY DEF Join, DGoto, DozingStop, RuntimeTypes, AsleepInv, NotifyPending, ThreadTypes
  <1>3. (QueueTypes /\ ThreadTypes /\ ConsumerTypes /\ HistoryTypes /\ CallInv /\ ConsumerInv /\
        FreeListInv /\ SingleProducer /\ EnqueuedInv /\ DepthInv /\ RetiredInv /\ DozingBits /\
        DozingSingles /\ DozingFlush)'
    BY DEF Join, DGoto, QueueTypes, ThreadTypes, ThreadPCs, Calls, ConsumerTypes, ConsumerPCs,
           HistoryTypes, CallInv, FlushPCs, ConsumerInv, DrainPCs, FreeListInv, Listed,
           SingleProducer, Owns, EnqueuedInv, Visiting, CallAt, LogAt, DepthInv, RetiredInv,
           DozingBits, Dozing, PassedSlot, DozingSingles, PassedSingle, DozingFlush
  <1> QED
    BY <1>1, <1>2, <1>3

\* ResetSinks: nothing the invariant reads
LEMMA ResetSinksKeeps == ASSUME IInv, NEW d \in Destroyers, ResetSinks(d) PROVE IInv'
  <1> USE DEF IInv, TypeOK
  <1>1. RuntimeTypes'
    BY DEF ResetSinks, DGoto, RuntimeTypes, DestroyPCs
  <1>2. (DozingStop /\ AsleepInv)'
    BY DEF ResetSinks, DGoto, DozingStop, RuntimeTypes, AsleepInv, NotifyPending, ThreadTypes
  <1>3. (QueueTypes /\ ThreadTypes /\ ConsumerTypes /\ HistoryTypes /\ CallInv /\ ConsumerInv /\
        FreeListInv /\ SingleProducer /\ EnqueuedInv /\ DepthInv /\ RetiredInv /\ DozingBits /\
        DozingSingles /\ DozingFlush)'
    BY DEF ResetSinks, DGoto, QueueTypes, ThreadTypes, ThreadPCs, Calls, ConsumerTypes,
           ConsumerPCs, HistoryTypes, CallInv, FlushPCs, ConsumerInv, DrainPCs, FreeListInv,
           Listed, SingleProducer, Owns, EnqueuedInv, Visiting, CallAt, LogAt, DepthInv, RetiredInv,
           DozingBits, Dozing, PassedSlot, DozingSingles, PassedSingle, DozingFlush
  <1> QED
    BY <1>1, <1>2, <1>3

\* DestroyEnd: nothing the invariant reads
LEMMA DestroyEndKeeps == ASSUME IInv, NEW d \in Destroyers, DestroyEnd(d) PROVE IInv'
  <1> USE DEF IInv, TypeOK
  <1>1. RuntimeTypes'
    BY DEF DestroyEnd, DGoto, RuntimeTypes, DestroyPCs
  <1>2. (DozingStop /\ AsleepInv)'
    BY DEF DestroyEnd, DGoto, DozingStop, RuntimeTypes, AsleepInv, NotifyPending, ThreadTypes
  <1>3. (QueueTypes /\ ThreadTypes /\ ConsumerTypes /\ HistoryTypes /\ CallInv /\ ConsumerInv /\
        FreeListInv /\ SingleProducer /\ EnqueuedInv /\ DepthInv /\ RetiredInv /\ DozingBits /\
        DozingSingles /\ DozingFlush)'
    BY DEF DestroyEnd, DGoto, QueueTypes, ThreadTypes, ThreadPCs, Calls, ConsumerTypes,
           ConsumerPCs, HistoryTypes, CallInv, FlushPCs, ConsumerInv, DrainPCs, FreeListInv,
           Listed, SingleProducer, Owns, EnqueuedInv, Visiting, CallAt, LogAt, DepthInv, RetiredInv,
           DozingBits, Dozing, PassedSlot, DozingSingles, PassedSingle, DozingFlush
  <1> QED
    BY <1>1, <1>2, <1>3

-----------------------------------------------------------------------------
(* The theorems *)

\* a step that changes nothing breaks nothing
LEMMA StutterKeeps == ASSUME IInv, UNCHANGED vars PROVE IInv'
  <1> USE DEF IInv, TypeOK, vars
  <1>1. TypeOK'
    BY DEF QueueTypes, RuntimeTypes, ThreadTypes, ConsumerTypes, HistoryTypes
  <1>2. (CallInv /\ ConsumerInv /\ FreeListInv /\ SingleProducer)'
    BY DEF CallInv, ConsumerInv, FreeListInv, Listed, SingleProducer, Owns
  <1>3. (EnqueuedInv /\ DepthInv /\ RetiredInv)'
    BY DEF EnqueuedInv, DepthInv, RetiredInv, Visiting, CallAt, LogAt
  <1>4. (DozingBits /\ DozingSingles /\ DozingFlush /\ DozingStop /\ AsleepInv)'
    BY DEF DozingBits, DozingSingles, DozingFlush, DozingStop, AsleepInv, Dozing, PassedSlot,
           PassedSingle, Visiting, CallAt, LogAt, NotifyPending
  <1> QED
    BY <1>1, <1>2, <1>3, <1>4

\* every step of the handoff keeps the invariant
LEMMA NextKeeps == ASSUME IInv, [Next]_vars PROVE IInv'
  <1>1. ASSUME NEW t \in Threads, Begin(t) PROVE IInv'
    BY <1>1, LogSingleKeeps, LogThreadsafeKeeps, PrewarmKeeps, RetireKeeps, FlushBeginKeeps
    DEF Begin
  <1>2. ASSUME NEW t \in Threads, Continue(t) PROVE IInv'
    BY <1>2, AcquireFreeKeeps, AcquireNewKeeps, AcquireFailsKeeps, ProduceKeeps,
       ProduceNothingKeeps, MarkKeeps, PublishKeeps, BumpKeeps, NotifyKeeps,
       FlushEnterKeeps, FlushCheckKeeps, FlushRequestKeeps, FlushWaitKeeps, FlushLeaveKeeps, FlushNotifyKeeps
    DEF Continue
  <1>3. CASE Consumer
    BY <1>3, SampleKeeps, VisitKeeps, LoadCountKeeps, TakeWordKeeps, EndPassKeeps, ConsumeKeeps,
       Check1Keeps, ClearKeeps, Check2Keeps, RemarkKeeps, TryFreeKeeps, PushKeeps,
       CheckFlushKeeps, FlushSinksKeeps, CompleteKeeps, NotifyAllKeeps, CheckStopKeeps,
       WaitKeeps
    DEF Consumer, Drain
  <1>4. ASSUME NEW d \in Destroyers, DestroyBegin(d) \/ DestroyTwice(d) \/ DestroyStep(d)
        PROVE IInv'
    BY <1>4, DestroyBeginKeeps, DestroyTwiceKeeps, WaitFlushersKeeps, RequestStopKeeps,
       BumpStopKeeps, NotifyStopKeeps, JoinKeeps, ResetSinksKeeps, DestroyEndKeeps
    DEF DestroyStep
  <1> QED
    BY <1>1, <1>2, <1>3, <1>4, StutterKeeps DEF Next

\* The inductive invariant holds in every state of the handoff.
THEOREM Inductive == Spec => []IInv
  <1>1. Init => IInv
    BY InitIInv
  <1>2. IInv /\ [Next]_vars => IInv'
    BY NextKeeps
  <1> QED
    BY <1>1, <1>2, PTL DEF Spec

\* Every variable of the handoff stays in its type.
THEOREM TypeCorrect == Spec => []TypeOK
  BY Inductive, PTL DEF IInv

\* A queue is written by one thread at a time: the free list, the lifecycle of a
\* slot and the pointer a thread caches never give one slot to two threads.
THEOREM OneProducer == Spec => []SingleProducer
  BY Inductive, PTL DEF IInv

\* No record is stranded: a slot that holds records is visible to the consumer,
\* or the thread that put them there is about to make it so.
THEOREM NothingStranded == Spec => []NoStrandedQueue
  <1>1. IInv => NoStrandedQueue
    <2> SUFFICES ASSUME IInv, NEW s \in Slots, depth[s] > 0,
                        s \notin bits \cup pending,
                        ~(cur = s /\ cpc \in {"consume", "check1", "clear", "check2", "remark"})
                 PROVE  \E t \in Threads : WillWake(t, s) /\ pc[t] # "bump"
      BY DEF NoStrandedQueue
    <2>1. LogAt(s, {"publish"}) \/ (~enqueued[s] /\ LogAt(s, {"mark"}))
      BY SlotFacts DEF IInv, EnqueuedInv, DepthInv, Visiting
    <2> QED
      BY <2>1 DEF CallAt, LogAt, WillWake
  <1> QED
    BY <1>1, Inductive, PTL

\* The consumer never sleeps through work: the queue, retired slot, flush request
\* or stop request it has not seen is one whose thread is on its way to wake it.
THEOREM NoWakeupLost == Spec => []NoLostWakeup
  <1>1. IInv => NoLostWakeup
    <2> SUFFICES ASSUME IInv, cpc = "blocked", ~NotifyPending
                 PROVE  /\ \A q \in Queues : depth[q] > 0 => \E t \in Threads : WillWake(t, q)
                        /\ \A s \in Slots : slotState[s] = "retired" =>
                              \E t \in Threads : WillWake(t, s)
                        /\ flushRequested # flushCompleted =>
                              \E t \in Threads : call[t] = "flush" /\ pc[t] = "bump"
                        /\ stop => \E d \in Destroyers : dpc[d] = "bump"
      BY DEF NoLostWakeup
    <2>1. ~woken /\ Dozing /\ pending = {}
      BY DEF IInv, AsleepInv, ConsumerInv, DrainPCs, Dozing
    <2>2. \A s \in bits : CallAt(s, {"bump"})
      BY <2>1 DEF IInv, DozingBits, PassedSlot
    <2>3. \A s \in Slots : enqueued[s] => CallAt(s, {"publish", "bump"})
      BY <2>1, <2>2 DEF IInv, EnqueuedInv, Visiting, CallAt, LogAt
    <2>4. \A q \in Singles : enqueued[q] => CallAt(q, {"bump"})
      BY <2>1 DEF IInv, DozingSingles, PassedSingle
    <2>5. ASSUME NEW q \in Queues, depth[q] > 0 PROVE \E t \in Threads : WillWake(t, q)
      <3>1. CASE enqueued[q]
        BY <2>3, <2>4, <3>1 DEF Queues, CallAt, LogAt, WillWake
      <3>2. CASE ~enqueued[q]
        <4>1. LogAt(q, {"mark"}) \/ (q \in Slots /\ (q \in bits \/ LogAt(q, {"publish"})))
          BY <2>1, <2>5, <3>2 DEF IInv, DepthInv, Visiting
        <4> QED
          BY <2>2, <3>2, <4>1 DEF CallAt, LogAt, WillWake
      <3> QED
        BY <3>1, <3>2
    <2>6. ASSUME NEW s \in Slots, slotState[s] = "retired" PROVE \E t \in Threads : WillWake(t, s)
      <3>1. s \in bits \/ CallAt(s, {"publish"})
        BY <2>1, <2>6 DEF IInv, RetiredInv, Visiting
      <3> QED
        BY <2>2, <3>1 DEF CallAt, LogAt, WillWake
    <2>7. flushRequested # flushCompleted => \E t \in Threads : call[t] = "flush" /\ pc[t] = "bump"
      BY <2>1 DEF IInv, DozingFlush
    <2>8. stop => \E d \in Destroyers : dpc[d] = "bump"
      BY <2>1 DEF IInv, DozingStop
    <2> QED
      BY <2>5, <2>6, <2>7, <2>8
  <1> QED
    BY <1>1, Inductive, PTL
-----------------------------------------------------------------------------
(* The free list is exact *)

\* nothing changes on the list
LEMMA ListStays ==
    ASSUME FreeChainInv,
           UNCHANGED <<freeHead, nextFree>>, Listed' = Listed
    PROVE  FreeChainInv'
  BY DEF FreeChainInv, ListClosed

\* AcquireFree: the list loses its head, and a closed set needs it no more
LEMMA AcquireFreeKeepsChain ==
    ASSUME IInv, FreeChainInv, NEW t \in Threads, AcquireFree(t)
    PROVE  FreeChainInv'
  <1> USE DEF IInv, TypeOK, FreeChainInv
  <1>1. freeHead \in Listed /\ freeHead \in Slots /\ nextFree[freeHead] # freeHead
    BY DEF AcquireFree, FreeListInv, Listed
  <1>2. Listed' = Listed \ {freeHead}
    BY <1>1 DEF AcquireFree, Listed, QueueTypes
  <1>3. /\ freeHead' = nextFree[freeHead] /\ nextFree'[freeHead] = NoSlot
        /\ \A s \in Slots : s # freeHead => nextFree'[s] = nextFree[s]
    BY <1>1 DEF AcquireFree, QueueTypes
  <1>4. ASSUME NEW C \in SUBSET Slots, ListClosed(C)' PROVE Listed' \subseteq C
    <2>1. ListClosed(C \cup {freeHead})
      BY <1>1, <1>3, <1>4 DEF ListClosed
    <2> QED
      BY <1>1, <1>2, <2>1
  <1>5. Listed' # {} => \E s \in Listed' : nextFree'[s] = NoSlot
    <2>1. CASE nextFree[freeHead] = NoSlot
      <3>1. ListClosed({freeHead})
        BY <1>1, <2>1 DEF ListClosed
      <3> QED
        BY <1>1, <1>2, <3>1
    <2>2. CASE nextFree[freeHead] # NoSlot
      BY <1>1, <1>2, <1>3, <2>2 DEF Listed
    <2> QED
      BY <2>1, <2>2
  <1>6. \A s \in Slots \ Listed' : nextFree'[s] = NoSlot
    BY <1>1, <1>2, <1>3
  <1> QED
    BY <1>4, <1>5, <1>6

\* Push: the list gets a new head, which every closed set then holds
LEMMA PushKeepsChain == ASSUME IInv, FreeChainInv, Push PROVE FreeChainInv'
  <1> USE DEF IInv, TypeOK, FreeChainInv
  <1>1. cur \in Slots /\ cur \notin Listed /\ nextFree[cur] = NoSlot
    BY DEF Push, CGoto, ConsumerInv, Listed
  <1>2. Listed' = Listed \cup {cur}
    BY DEF Push, CGoto, ConsumerInv, Listed
  <1>3. /\ freeHead' = cur /\ nextFree'[cur] = freeHead
        /\ \A s \in Slots : s # cur => nextFree'[s] = nextFree[s]
    BY <1>1 DEF Push, QueueTypes
  <1>4. ASSUME NEW C \in SUBSET Slots, ListClosed(C)' PROVE Listed' \subseteq C
    <2>1. cur \in C
      BY <1>1, <1>3, <1>4, SlotFacts DEF ListClosed
    <2>2. ListClosed(C)
      BY <1>1, <1>3, <1>4, <2>1 DEF ListClosed
    <2> QED
      BY <1>2, <2>1, <2>2
  <1>5. \E s \in Listed' : nextFree'[s] = NoSlot
    <2>1. CASE Listed = {}
      BY <1>2, <1>3, <2>1 DEF FreeListInv
    <2>2. CASE Listed # {}
      BY <1>1, <1>2, <1>3, <2>2 DEF Listed
    <2> QED
      BY <2>1, <2>2
  <1>6. \A s \in Slots \ Listed' : nextFree'[s] = NoSlot
    BY <1>1, <1>2, <1>3
  <1> QED
    BY <1>4, <1>5, <1>6

\* no other step changes the list
LEMMA OthersKeepList ==
    ASSUME IInv, [Next]_vars, \A t \in Threads : ~AcquireFree(t), ~Push
    PROVE  UNCHANGED <<freeHead, nextFree>> /\ Listed' = Listed
  <1> USE DEF IInv, TypeOK
  <1>1. ASSUME NEW t \in Threads, Begin(t)
        PROVE UNCHANGED <<freeHead, nextFree>> /\ Listed' = Listed
    BY <1>1 DEF Begin, LogSingle, LogThreadsafe, Prewarm, Retire, FlushBegin, Listed, QueueTypes
  <1>2. ASSUME NEW t \in Threads, Continue(t)
        PROVE UNCHANGED <<freeHead, nextFree>> /\ Listed' = Listed
    <2>1. CASE AcquireNew(t)
      <3>1. count \in Slots /\ slotState[count] = "none"
        BY <2>1, SlotFacts DEF AcquireNew, QueueTypes, ConsumerInv
      <3> QED
        BY <2>1, <3>1 DEF AcquireNew, Listed, QueueTypes
    <2>2. CASE AcquireFails(t) \/ Produce(t) \/ ProduceNothing(t) \/ Mark(t) \/ Publish(t) \/ Bump(t)
      BY <2>2 DEF AcquireFails, Produce, ProduceNothing, Mark, Publish, Bump, Listed
    <2>3. CASE Notify(t)
      BY <2>3 DEF Notify, NotifyConsumer, Listed
    <2>4. CASE \/ FlushEnter(t) \/ FlushCheck(t) \/ FlushRequest(t) \/ FlushWait(t)
               \/ FlushLeave(t) \/ FlushNotify(t)
      BY <2>4 DEF FlushEnter, FlushCheck, FlushRequest, FlushWait, FlushLeave, FlushNotify, Listed
    <2> QED
      BY <1>2, <2>1, <2>2, <2>3, <2>4 DEF Continue
  <1>3. CASE Drain
    <2>1. CASE Visit \/ LoadCount \/ TakeWord \/ EndPass \/ Consume
      BY <2>1 DEF Visit, LoadCount, TakeWord, EndPass, PassDone, StartPass, Consume, CGoto, Listed
    <2>2. CASE Check1 \/ Clear \/ Check2 \/ Remark
      BY <2>2 DEF Check1, Clear, Check2, Remark, CGoto, Listed
    <2>3. CASE TryFree
      BY <2>3 DEF TryFree, Listed, QueueTypes, ConsumerInv
    <2> QED
      BY <1>3, <2>1, <2>2, <2>3 DEF Drain
  <1>4. CASE Sample \/ CheckFlush \/ FlushSinks \/ Complete \/ NotifyAll \/ CheckStop \/ Wait
    BY <1>4 DEF Sample, CheckFlush, FlushSinks, Complete, NotifyAll, CheckStop, Wait, StartPass,
                CGoto, Listed
  <1>5. ASSUME NEW d \in Destroyers, DestroyBegin(d) \/ DestroyTwice(d) \/ DestroyStep(d)
        PROVE UNCHANGED <<freeHead, nextFree>> /\ Listed' = Listed
    BY <1>5 DEF DestroyStep, DestroyBegin, DestroyTwice, WaitFlushers, RequestStop, BumpStop,
                NotifyStop, NotifyConsumer, Join, ResetSinks, DestroyEnd, Listed
  <1>6. CASE UNCHANGED vars
    BY <1>6 DEF vars, Listed
  <1> QED
    BY <1>1, <1>2, <1>3, <1>4, <1>5, <1>6 DEF Next, Consumer

\* From the head of the list every free slot is reached, in every state.
LEMMA FreeChainInductive == Spec => []FreeChainInv
  <1>1. Init => FreeChainInv
    BY SlotFacts DEF Init, FreeChainInv, Listed
  <1>2. IInv /\ FreeChainInv /\ [Next]_vars => FreeChainInv'
    BY AcquireFreeKeepsChain, PushKeepsChain, OthersKeepList, ListStays
  <1> QED
    BY <1>1, <1>2, Inductive, PTL DEF Spec

\* The free list holds the free slots, each once, and no other: a slot is given to
\* one thread at a time, and none is lost.
THEOREM FreeListIsExact == Spec => []FreeListExact
  <1>1. IInv /\ FreeChainInv => FreeListExact
    <2> SUFFICES ASSUME IInv, FreeChainInv PROVE FreeListExact
      OBVIOUS
    <2>1. ListClosed(Listed) /\ Listed \in SUBSET Slots
      BY DEF IInv, FreeListInv, ListClosed, Listed
    <2>2. FreeList = Listed
      BY <2>1 DEF FreeList, FreeChainInv
    <2>3. Listed = IF cpc = "push" THEN {s \in Slots : slotState[s] = "free"} \ {cur}
                   ELSE {s \in Slots : slotState[s] = "free"}
      BY DEF Listed
    <2>4. \A r, s \in Listed : nextFree[r] = nextFree[s] /\ nextFree[r] # NoSlot => r = s
      BY DEF IInv, FreeListInv
    <2> QED
      BY <2>2, <2>3, <2>4 DEF FreeListExact, FreeChainInv
  <1> QED
    BY <1>1, Inductive, FreeChainInductive, PTL
=============================================================================
