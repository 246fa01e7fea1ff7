------------------------------- MODULE Handoff -------------------------------
(***************************************************************************)
(* The producer / consumer handoff of the running logger: the producer     *)
(* slots and queues of include/unlog/backend/producer.hpp, the consumer    *)
(* thread, its eventcount, flush and destroy of src/channel.cpp, and the   *)
(* log call of include/unlog/channel.hpp.                                  *)
(*                                                                         *)
(* The model starts where start() has returned: the consumer runs and the  *)
(* routes are active.  One action is one access to shared state (an atomic *)
(* read-modify-write, a store, a queue operation, a critical section), so  *)
(* every interleaving of those accesses is a behaviour.  Accesses are      *)
(* sequentially consistent; README.md says what that leaves out.           *)
(*                                                                         *)
(* A queue is its depth: the queues are first in, first out and written by *)
(* one thread at a time, so a record is known by its position.             *)
(***************************************************************************)
EXTENDS Integers, FiniteSets

CONSTANTS
    Threads,        \* threads that log, flush and exit
    Destroyers,     \* callers of destroy_runtime
    MaxProducers,   \* global_config::max_producers
    SlotsPerWord,   \* ready bits in one active word: 64 in the code
    Capacity,       \* records one queue holds
    Singles,        \* single-threaded producers: -2 is normal, -1 is huge
    SingleOwner,    \* the one thread that uses a single-threaded producer
    MaxFlushes      \* bound: no flush begins after this many requests

ASSUME ThreadsAssumption      == IsFiniteSet(Threads) /\ IsFiniteSet(Destroyers)
ASSUME MaxProducersAssumption == MaxProducers \in Nat \ {0}
ASSUME SlotsPerWordAssumption == SlotsPerWord \in Nat \ {0}
ASSUME CapacityAssumption     == Capacity \in Nat \ {0}
ASSUME SinglesAssumption      == Singles \subseteq {-2, -1}
ASSUME SingleOwnerAssumption  == SingleOwner \in [Singles -> Threads]
ASSUME MaxFlushesAssumption   == MaxFlushes \in Nat

Slots == 0 .. MaxProducers - 1      \* producer indices of the registry
NoSlot == MaxProducers              \* invalid_producer_index
Queues == Slots \cup Singles

VARIABLES
    \* the producers and their registry
    depth,          \* records in each queue
    enqueued,       \* enqueued_ of each producer
    slotState,      \* lifecycle_ of each slot, "none" before it is created
    nextFree,       \* next_free_index_ of each slot
    freeHead,       \* free_head
    count,          \* count = storage.size()
    bits,           \* slots whose bit is set in active_words
    \* runtime_state and runtime_control
    woken,          \* wake_seq differs from the consumer's ticket
    flushRequested, flushCompleted, activeFlushers,
    stop,           \* stop_requested
    lifecycle,
    enabled,        \* the route's level_ lets the records through
    consumerStarted,
    sinksOpen,      \* the sinks have not been reset
    \* the logging threads
    pc, call, tgt,  \* where each is, in which call, on which producer
    tls,            \* tls_state::producer
    target,         \* the flush request each waits for
    \* the consumer thread
    cpc, mode, allDrained, stage, word, words, pending, cur, todo, requested,
    \* the threads that destroy the runtime
    dpc,
    \* what each flush, and destroy, still owes its caller (history)
    owed, durable, owedSlots, owedAtExit

queueVars    == <<depth, enqueued>>
registryVars == <<slotState, nextFree, freeHead, count>>
flushVars    == <<flushRequested, flushCompleted, activeFlushers>>
controlVars  == <<stop, lifecycle, enabled, consumerStarted, sinksOpen>>
threadVars   == <<pc, call, tgt, tls, target>>
passVars     == <<mode, allDrained, stage, word, words, pending, cur, todo, requested>>
historyVars  == <<owed, durable, owedSlots, owedAtExit>>
vars == <<queueVars, registryVars, bits, woken, flushVars, controlVars,
          threadVars, cpc, passVars, dpc, historyVars>>

ThreadPCs   == {"idle", "acquire", "produce", "mark", "publish", "bump", "notify",
                "flushEnter", "flushCheck", "flushRequest", "flushWait", "flushBlocked",
                "flushLeave", "flushNotify"}
Calls       == {"none", "log", "prewarm", "exit", "flush"}
ConsumerPCs == {"sample", "next", "consume", "check1", "clear", "check2", "remark",
                "tryFree", "push", "checkFlush", "flushSinks", "complete", "notifyAll",
                "checkStop", "wait", "blocked", "finalFlush", "exited"}
DestroyPCs  == {"idle", "waitFlushers", "flushersBlocked", "stop", "bump", "notify",
                "join", "reset", "final", "done"}
WordSlots(w) == {s \in Slots : s \div SlotsPerWord = w}
NoDebt == [q \in Queues |-> 0]

QueueTypes ==
    /\ depth \in [Queues -> 0 .. Capacity]
    /\ enqueued \in [Queues -> BOOLEAN]
    /\ slotState \in [Slots -> {"none", "active", "retired", "free"}]
    /\ nextFree \in [Slots -> Slots \cup {NoSlot}]
    /\ freeHead \in Slots \cup {NoSlot}
    /\ count \in 0 .. MaxProducers
    /\ bits \subseteq Slots

RuntimeTypes ==
    /\ woken \in BOOLEAN
    /\ flushRequested \in Nat /\ flushCompleted \in Nat
    /\ activeFlushers \in Int
    /\ stop \in BOOLEAN /\ enabled \in BOOLEAN
    /\ consumerStarted \in BOOLEAN /\ sinksOpen \in BOOLEAN
    /\ lifecycle \in {"running", "shutting_down", "shut_down"}
    /\ dpc \in [Destroyers -> DestroyPCs]

ThreadTypes ==
    /\ pc \in [Threads -> ThreadPCs]
    /\ call \in [Threads -> Calls]
    /\ tgt \in [Threads -> Queues \cup {NoSlot}]
    /\ tls \in [Threads -> Slots \cup {NoSlot}]
    /\ target \in [Threads -> Nat]

ConsumerTypes ==
    /\ cpc \in ConsumerPCs
    /\ mode \in {"ready", "flush", "final"}
    /\ stage \in {"singles", "registry"}
    /\ allDrained \in BOOLEAN
    /\ word \in Nat /\ words \in Nat /\ requested \in Nat
    /\ pending \subseteq Queues
    /\ cur \in Queues \cup {NoSlot}
    /\ todo \in 0 .. Capacity

HistoryTypes ==
    /\ owed \in [Threads -> [Queues -> 0 .. Capacity]]
    /\ durable \in [Threads -> BOOLEAN]
    /\ owedSlots \in [Threads -> SUBSET Slots]
    /\ owedAtExit \in [Queues -> 0 .. Capacity]

TypeOK == QueueTypes /\ RuntimeTypes /\ ThreadTypes /\ ConsumerTypes /\ HistoryTypes

Init ==
    /\ depth = NoDebt
    /\ enqueued = [q \in Queues |-> FALSE]
    /\ slotState = [s \in Slots |-> "none"]
    /\ nextFree = [s \in Slots |-> NoSlot]
    /\ freeHead = NoSlot /\ count = 0 /\ bits = {}
    /\ woken = FALSE /\ stop = FALSE
    /\ flushRequested = 0 /\ flushCompleted = 0 /\ activeFlushers = 0
    /\ lifecycle = "running" /\ enabled = TRUE
    /\ consumerStarted = TRUE /\ sinksOpen = TRUE
    /\ pc = [t \in Threads |-> "idle"]
    /\ call = [t \in Threads |-> "none"]
    /\ tgt = [t \in Threads |-> NoSlot]
    /\ tls = [t \in Threads |-> NoSlot]
    /\ target = [t \in Threads |-> 0]
    /\ cpc = "sample" /\ mode = "ready" /\ allDrained = TRUE
    /\ stage = "singles" /\ word = 0 /\ words = 0 /\ pending = {}
    /\ cur = NoSlot /\ todo = 0 /\ requested = 0
    /\ dpc = [d \in Destroyers |-> "idle"]
    /\ owed = [t \in Threads |-> NoDebt]
    /\ durable = [t \in Threads |-> TRUE]
    /\ owedSlots = [t \in Threads |-> {}]
    /\ owedAtExit = NoDebt

-----------------------------------------------------------------------------
(* What the steps are built from *)

Goto(t, from, to) == pc[t] = from /\ pc' = [pc EXCEPT ![t] = to]

\* the call of a thread returns, and its local variables are gone
Return(t, from) ==
    /\ Goto(t, from, "idle")
    /\ call' = [call EXCEPT ![t] = "none"]
    /\ tgt' = [tgt EXCEPT ![t] = NoSlot]
    /\ target' = [target EXCEPT ![t] = 0]

\* wake_seq.notify_one: the consumer is its only waiter, and compares again
NotifyConsumer == cpc' = IF cpc = "blocked" THEN "wait" ELSE cpc

\* publish_ready_bit: a single-threaded producer has no active word
PublishReadyBit(q) == bits' = IF q \in Slots THEN bits \cup {q} ELSE bits

-----------------------------------------------------------------------------
(* A log call: channel.hpp log_message, producer.hpp threadsafe_producer and *)
(* note_work                                                                 *)

\* log with a single-threaded channel: no slot to look up
LogSingle(t) ==
    /\ enabled
    /\ Goto(t, "idle", "produce")
    /\ call' = [call EXCEPT ![t] = "log"]
    /\ \E q \in Singles : SingleOwner[q] = t /\ tgt' = [tgt EXCEPT ![t] = q]
    /\ UNCHANGED <<queueVars, registryVars, bits, woken, flushVars, controlVars,
                   tls, target, cpc, passVars, dpc, historyVars>>

\* log with a threadsafe channel: the thread's own slot, or one to acquire
LogThreadsafe(t) ==
    /\ enabled
    /\ IF tls[t] = NoSlot THEN Goto(t, "idle", "acquire") ELSE Goto(t, "idle", "produce")
    /\ call' = [call EXCEPT ![t] = "log"]
    /\ tgt' = [tgt EXCEPT ![t] = tls[t]]
    /\ UNCHANGED <<queueVars, registryVars, bits, woken, flushVars, controlVars,
                   tls, target, cpc, passVars, dpc, historyVars>>

\* prewarm_thread: acquires a slot and logs nothing
Prewarm(t) ==
    /\ lifecycle = "running"
    /\ tls[t] = NoSlot
    /\ Goto(t, "idle", "acquire")
    /\ call' = [call EXCEPT ![t] = "prewarm"]
    /\ UNCHANGED <<queueVars, registryVars, bits, woken, flushVars, controlVars,
                   tgt, tls, target, cpc, passVars, dpc, historyVars>>

\* the thread takes slot s: a log call goes on, a prewarm returns
Take(t, s) ==
    /\ tls' = [tls EXCEPT ![t] = s]
    /\ IF call[t] = "log"
       THEN /\ Goto(t, "acquire", "produce")
            /\ tgt' = [tgt EXCEPT ![t] = s]
            /\ UNCHANGED <<call, target>>
       ELSE Return(t, "acquire")

AcquireFree(t) ==
    /\ freeHead # NoSlot
    /\ Take(t, freeHead)
    /\ freeHead' = nextFree[freeHead]
    /\ nextFree' = [nextFree EXCEPT ![freeHead] = NoSlot]
    /\ enqueued' = [enqueued EXCEPT ![freeHead] = FALSE]
    /\ slotState' = [slotState EXCEPT ![freeHead] = "active"]
    /\ UNCHANGED <<depth, count, bits, woken, flushVars, controlVars,
                   cpc, passVars, dpc, historyVars>>

\* Mutant: the bound is off by one.
AcquireNewOverrun(t) ==
    /\ freeHead = NoSlot
    /\ count <= MaxProducers
    /\ Take(t, count)
    /\ slotState' = [slotState EXCEPT ![count] = "active"]
    /\ count' = count + 1
    /\ UNCHANGED <<queueVars, nextFree, freeHead, bits, woken, flushVars, controlVars,
                   cpc, passVars, dpc, historyVars>>

AcquireNew(t) ==
    /\ freeHead = NoSlot
    /\ count < MaxProducers
    /\ Take(t, count)
    /\ slotState' = [slotState EXCEPT ![count] = "active"]
    /\ count' = count + 1
    /\ UNCHANGED <<queueVars, nextFree, freeHead, bits, woken, flushVars, controlVars,
                   cpc, passVars, dpc, historyVars>>

\* "threadsafe producer capacity exceeded"
AcquireFails(t) ==
    /\ freeHead = NoSlot
    /\ count >= MaxProducers
    /\ Return(t, "acquire")
    /\ UNCHANGED <<queueVars, registryVars, bits, woken, flushVars, controlVars,
                   tls, cpc, passVars, dpc, historyVars>>

\* queue().produce publishes the record at the queue's tail
Produce(t) ==
    /\ Goto(t, "produce", "mark")
    /\ depth[tgt[t]] < Capacity
    /\ depth' = [depth EXCEPT ![tgt[t]] = @ + 1]
    /\ UNCHANGED <<enqueued, registryVars, bits, woken, flushVars, controlVars,
                   call, tgt, tls, target, cpc, passVars, dpc, historyVars>>

\* the queue is full, the record is refused by its policy, or formatting threw
ProduceNothing(t) ==
    /\ Return(t, "produce")
    /\ UNCHANGED <<queueVars, registryVars, bits, woken, flushVars, controlVars,
                   tls, cpc, passVars, dpc, historyVars>>

\* note_work, try_mark_enqueued: whoever finds the flag down must wake the consumer
Mark(t) ==
    /\ pc[t] = "mark"
    /\ IF enqueued[tgt[t]]
       THEN Return(t, "mark")
       ELSE /\ Goto(t, "mark", IF tgt[t] \in Slots THEN "publish" ELSE "bump")
            /\ UNCHANGED <<call, tgt, target>>
    /\ enqueued' = [enqueued EXCEPT ![tgt[t]] = TRUE]
    /\ UNCHANGED <<depth, registryVars, bits, woken, flushVars, controlVars,
                   tls, cpc, passVars, dpc, historyVars>>

Publish(t) ==
    /\ Goto(t, "publish", "bump")
    /\ PublishReadyBit(tgt[t])
    /\ UNCHANGED <<queueVars, registryVars, woken, flushVars, controlVars,
                   call, tgt, tls, target, cpc, passVars, dpc, historyVars>>

\* wake_consumer, in two steps
Bump(t) ==
    /\ Goto(t, "bump", "notify")
    /\ woken' = TRUE
    /\ UNCHANGED <<queueVars, registryVars, bits, flushVars, controlVars,
                   call, tgt, tls, target, cpc, passVars, dpc, historyVars>>

\* after which a log call returns, an exiting thread lets its slot go and a
\* flush waits
Notify(t) ==
    /\ NotifyConsumer
    /\ IF call[t] = "flush"
       THEN Goto(t, "notify", "flushWait") /\ UNCHANGED <<call, tgt, target>>
       ELSE Return(t, "notify")
    /\ tls' = IF call[t] = "exit" THEN [tls EXCEPT ![t] = NoSlot] ELSE tls
    /\ UNCHANGED <<queueVars, registryVars, bits, woken, flushVars, controlVars,
                   passVars, dpc, historyVars>>

-----------------------------------------------------------------------------
(* A thread exits: ~tls_state and retire_threadsafe_producer.  The thread of *)
(* the same name that logs afterwards is a new one.                          *)

\* Mutant: the exiting thread leaves its slot without a ready bit or a wake.
RetireQuietly(t) ==
    /\ tls[t] # NoSlot
    /\ slotState[tls[t]] = "active"
    /\ pc[t] = "idle"
    /\ tls' = [tls EXCEPT ![t] = NoSlot]
    /\ slotState' = [slotState EXCEPT ![tls[t]] = "retired"]
    /\ UNCHANGED <<queueVars, nextFree, freeHead, count, bits, woken, flushVars,
                   controlVars, pc, call, tgt, target, cpc, passVars, dpc, historyVars>>

Retire(t) ==
    /\ tls[t] # NoSlot
    /\ slotState[tls[t]] = "active"
    /\ Goto(t, "idle", "publish")
    /\ call' = [call EXCEPT ![t] = "exit"]
    /\ tgt' = [tgt EXCEPT ![t] = tls[t]]
    /\ slotState' = [slotState EXCEPT ![tls[t]] = "retired"]
    /\ UNCHANGED <<queueVars, nextFree, freeHead, count, bits, woken, flushVars,
                   controlVars, tls, target, cpc, passVars, dpc, historyVars>>

-----------------------------------------------------------------------------
(* flush: flush_backend *)

\* access_producer_backend lets a running runtime through, and throws after
\* destroy has begun
FlushBegin(t) ==
    /\ lifecycle = "running"
    /\ flushRequested < MaxFlushes
    /\ Goto(t, "idle", "flushEnter")
    /\ call' = [call EXCEPT ![t] = "flush"]
    /\ UNCHANGED <<queueVars, registryVars, bits, woken, flushVars, controlVars,
                   tgt, tls, target, cpc, passVars, dpc, historyVars>>

FlushEnter(t) ==
    /\ Goto(t, "flushEnter", "flushCheck")
    /\ activeFlushers' = activeFlushers + 1
    /\ UNCHANGED <<queueVars, registryVars, bits, woken, flushRequested, flushCompleted,
                   controlVars, call, tgt, tls, target, cpc, passVars, dpc, historyVars>>

FlushCheck(t) ==
    /\ Goto(t, "flushCheck", IF lifecycle = "running" THEN "flushRequest" ELSE "flushLeave")
    /\ UNCHANGED <<queueVars, registryVars, bits, woken, flushVars, controlVars,
                   call, tgt, tls, target, cpc, passVars, dpc, historyVars>>

\* the request: from here on the flush owes its caller every record that is in
\* a queue and every slot that is retired
FlushRequest(t) ==
    /\ Goto(t, "flushRequest", "bump")
    /\ flushRequested' = flushRequested + 1
    /\ target' = [target EXCEPT ![t] = flushRequested + 1]
    /\ owed' = [owed EXCEPT ![t] = depth]
    /\ durable' = [durable EXCEPT ![t] = FALSE]
    /\ owedSlots' = [owedSlots EXCEPT ![t] =
                        {s \in Slots : slotState[s] = "retired" \/ (cpc = "push" /\ cur = s)}]
    /\ UNCHANGED <<queueVars, registryVars, bits, woken, flushCompleted, activeFlushers,
                   controlVars, call, tgt, tls, cpc, passVars, dpc, owedAtExit>>

\* flush_completed.wait: load, compare, sleep
FlushWait(t) ==
    /\ Goto(t, "flushWait",
            IF flushCompleted >= target[t] THEN "flushLeave" ELSE "flushBlocked")
    /\ UNCHANGED <<queueVars, registryVars, bits, woken, flushVars, controlVars,
                   call, tgt, tls, target, cpc, passVars, dpc, historyVars>>

\* Mutant: nobody notifies the thread that waits for the flushers.
FlushLeaveQuietly(t) ==
    /\ Return(t, "flushLeave")
    /\ activeFlushers' = activeFlushers - 1
    /\ UNCHANGED <<queueVars, registryVars, bits, woken, flushRequested, flushCompleted,
                   controlVars, tls, cpc, passVars, dpc, historyVars>>

\* the last flusher to leave notifies the thread that waits for none
FlushLeave(t) ==
    /\ IF activeFlushers = 1
       THEN Goto(t, "flushLeave", "flushNotify") /\ UNCHANGED <<call, tgt, target>>
       ELSE Return(t, "flushLeave")
    /\ activeFlushers' = activeFlushers - 1
    /\ UNCHANGED <<queueVars, registryVars, bits, woken, flushRequested, flushCompleted,
                   controlVars, tls, cpc, passVars, dpc, historyVars>>

FlushNotify(t) ==
    /\ Return(t, "flushNotify")
    /\ dpc' = [d \in Destroyers |->
                  IF dpc[d] = "flushersBlocked" THEN "waitFlushers" ELSE dpc[d]]
    /\ UNCHANGED <<queueVars, registryVars, bits, woken, flushVars, controlVars,
                   tls, cpc, passVars, historyVars>>

-----------------------------------------------------------------------------
(* The consumer thread: consumer_main *)

CGoto(from, to) == cpc = from /\ cpc' = to

\* a drain visits the single-threaded producers, then the registry
StartPass(m) ==
    /\ mode' = m
    /\ allDrained' = TRUE
    /\ stage' = "singles"
    /\ pending' = Singles

\* the wake ticket is read before any condition
Sample ==
    /\ CGoto("sample", "next")
    /\ woken' = FALSE
    /\ StartPass("ready")
    /\ UNCHANGED <<queueVars, registryVars, bits, flushVars, controlVars, threadVars,
                   word, words, cur, todo, requested, dpc, historyVars>>

\* consume_all reads the queue's tail once: records behind it are for later
Visit ==
    /\ cpc = "next"
    /\ \E q \in pending :
          /\ \A p \in pending : q <= p
          /\ cpc' = IF depth[q] = 0 THEN "check1" ELSE "consume"
          /\ cur' = q
          /\ todo' = depth[q]
          /\ pending' = pending \ {q}
    /\ UNCHANGED <<queueVars, registryVars, bits, woken, flushVars, controlVars, threadVars,
                   mode, allDrained, stage, word, words, requested, dpc, historyVars>>

\* Mutant: flush drains the slots whose bit is set, as every pass does.
LoadCountReady ==
    /\ cpc = "next" /\ pending = {} /\ stage = "singles"
    /\ stage' = "registry"
    /\ word' = 0
    /\ words' = (count + SlotsPerWord - 1) \div SlotsPerWord
    /\ UNCHANGED <<queueVars, registryVars, bits, woken, flushVars, controlVars, threadVars,
                   cpc, mode, allDrained, pending, cur, todo, requested, dpc, historyVars>>

\* drain_registry and drain_registry_flush read the number of slots once
LoadCount ==
    /\ cpc = "next" /\ pending = {} /\ stage = "singles"
    /\ stage' = "registry"
    /\ word' = 0
    /\ IF mode = "flush"
       THEN words' = 0 /\ pending' = 0 .. count - 1
       ELSE words' = (count + SlotsPerWord - 1) \div SlotsPerWord /\ pending' = {}
    /\ UNCHANGED <<queueVars, registryVars, bits, woken, flushVars, controlVars, threadVars,
                   cpc, mode, allDrained, cur, todo, requested, dpc, historyVars>>

\* one exchange takes every bit of an active word
TakeWord ==
    /\ cpc = "next" /\ pending = {} /\ stage = "registry" /\ word < words
    /\ pending' = bits \cap WordSlots(word)
    /\ bits' = bits \ WordSlots(word)
    /\ word' = word + 1
    /\ UNCHANGED <<queueVars, registryVars, woken, flushVars, controlVars, threadVars,
                   cpc, mode, allDrained, stage, words, cur, todo, requested, dpc, historyVars>>

PassDone == cpc = "next" /\ pending = {} /\ stage = "registry" /\ word = words

\* drain_until_idle runs passes until one finds every queue drained
EndPass ==
    /\ PassDone
    /\ \/ mode = "final" /\ ~allDrained /\ StartPass("final") /\ UNCHANGED cpc
       \/ /\ \/ mode = "ready" /\ cpc' = "checkFlush"
             \/ mode = "flush" /\ cpc' = "flushSinks"
             \/ mode = "final" /\ allDrained /\ cpc' = "finalFlush"
          /\ UNCHANGED <<mode, allDrained, stage, pending>>
    /\ word' = 0 /\ words' = 0 /\ cur' = NoSlot
    /\ UNCHANGED <<queueVars, registryVars, bits, woken, flushVars, controlVars, threadVars,
                   todo, requested, dpc, historyVars>>

\* one record leaves its queue and is written to its sinks
Consume ==
    /\ CGoto("consume", IF todo = 1 THEN "check1" ELSE "consume")
    /\ todo' = todo - 1
    /\ depth' = [depth EXCEPT ![cur] = @ - 1]
    /\ owed' = [t \in Threads |->
                   [owed[t] EXCEPT ![cur] = IF @ > 0 THEN @ - 1 ELSE 0]]
    /\ owedAtExit' = [owedAtExit EXCEPT ![cur] = IF @ > 0 THEN @ - 1 ELSE 0]
    /\ UNCHANGED <<enqueued, registryVars, bits, woken, flushVars, controlVars, threadVars,
                   mode, allDrained, stage, word, words, pending, cur, requested, dpc,
                   durable, owedSlots>>

(* finish_drain *)

\* Mutant: records behind the snapshot are left to their producer.
Check1Dropping ==
    /\ CGoto("check1", IF depth[cur] > 0 THEN "next" ELSE "clear")
    /\ UNCHANGED <<queueVars, registryVars, bits, woken, flushVars, controlVars, threadVars,
                   passVars, dpc, historyVars>>

\* records arrived behind the snapshot: keep the producer ready
Check1 ==
    /\ cpc = "check1"
    /\ IF depth[cur] > 0
       THEN cpc' = "next" /\ PublishReadyBit(cur) /\ allDrained' = FALSE
       ELSE cpc' = "clear" /\ UNCHANGED <<bits, allDrained>>
    /\ UNCHANGED <<queueVars, registryVars, woken, flushVars, controlVars, threadVars,
                   mode, stage, word, words, pending, cur, todo, requested, dpc, historyVars>>

Clear ==
    /\ CGoto("clear", "check2")
    /\ enqueued' = [enqueued EXCEPT ![cur] = FALSE]
    /\ UNCHANGED <<depth, registryVars, bits, woken, flushVars, controlVars, threadVars,
                   passVars, dpc, historyVars>>

\* Mutant: there is no second look at the queue.
Check2Skipped ==
    /\ CGoto("check2", IF cur \in Slots THEN "tryFree" ELSE "next")
    /\ UNCHANGED <<queueVars, registryVars, bits, woken, flushVars, controlVars, threadVars,
                   passVars, dpc, historyVars>>

\* the queue is looked at again: a record may have slipped in before the clear
Check2 ==
    /\ CGoto("check2", IF depth[cur] > 0 THEN "remark"
                       ELSE IF cur \in Slots THEN "tryFree" ELSE "next")
    /\ UNCHANGED <<queueVars, registryVars, bits, woken, flushVars, controlVars, threadVars,
                   passVars, dpc, historyVars>>

\* Mutant: the flag goes up again without the ready bit.
RemarkOnly ==
    /\ CGoto("remark", "next")
    /\ enqueued' = [enqueued EXCEPT ![cur] = TRUE]
    /\ allDrained' = FALSE
    /\ UNCHANGED <<depth, registryVars, bits, woken, flushVars, controlVars, threadVars,
                   mode, stage, word, words, pending, cur, todo, requested, dpc, historyVars>>

Remark ==
    /\ CGoto("remark", "next")
    /\ IF enqueued[cur] THEN UNCHANGED bits ELSE PublishReadyBit(cur)
    /\ enqueued' = [enqueued EXCEPT ![cur] = TRUE]
    /\ allDrained' = FALSE
    /\ UNCHANGED <<depth, registryVars, woken, flushVars, controlVars, threadVars,
                   mode, stage, word, words, pending, cur, todo, requested, dpc, historyVars>>

(* drain_registry_producer: a drained slot whose thread is gone is recycled *)

\* Mutant: a drained slot is freed though its thread lives.
TryFreeActive ==
    /\ CGoto("tryFree", "push")
    /\ slotState' = [slotState EXCEPT ![cur] = "free"]
    /\ UNCHANGED <<queueVars, nextFree, freeHead, count, bits, woken, flushVars, controlVars,
                   threadVars, passVars, dpc, historyVars>>

TryFree ==
    /\ cpc = "tryFree"
    /\ IF slotState[cur] = "retired"
       THEN cpc' = "push" /\ slotState' = [slotState EXCEPT ![cur] = "free"]
       ELSE cpc' = "next" /\ UNCHANGED slotState
    /\ UNCHANGED <<queueVars, nextFree, freeHead, count, bits, woken, flushVars, controlVars,
                   threadVars, passVars, dpc, historyVars>>

\* Mutant: the new head of the free list is not linked to the old one.
PushUnlinked ==
    /\ CGoto("push", "next")
    /\ freeHead' = cur
    /\ owedSlots' = [t \in Threads |-> owedSlots[t] \ {cur}]
    /\ UNCHANGED <<queueVars, slotState, nextFree, count, bits, woken, flushVars, controlVars,
                   threadVars, passVars, dpc, owed, durable, owedAtExit>>

Push ==
    /\ CGoto("push", "next")
    /\ nextFree' = [nextFree EXCEPT ![cur] = freeHead]
    /\ freeHead' = cur
    /\ owedSlots' = [t \in Threads |-> owedSlots[t] \ {cur}]
    /\ UNCHANGED <<queueVars, slotState, count, bits, woken, flushVars, controlVars,
                   threadVars, passVars, dpc, owed, durable, owedAtExit>>

(* the rest of the loop *)

CheckFlush ==
    /\ cpc = "checkFlush"
    /\ requested' = flushRequested
    /\ IF flushRequested # flushCompleted
       THEN cpc' = "next" /\ StartPass("flush")
       ELSE cpc' = "checkStop" /\ UNCHANGED <<mode, allDrained, stage, pending>>
    /\ UNCHANGED <<queueVars, registryVars, bits, woken, flushVars, controlVars, threadVars,
                   word, words, cur, todo, dpc, historyVars>>

\* Mutant: a flush is answered without flushing the sinks.
FlushSinksAtExit ==
    /\ \/ CGoto("flushSinks", "complete") /\ UNCHANGED durable
       \/ CGoto("finalFlush", "exited") /\ durable' = [t \in Threads |-> durable[t] \/ owed[t] = NoDebt]
    /\ UNCHANGED <<queueVars, registryVars, bits, woken, flushVars, controlVars, threadVars,
                   passVars, dpc, owed, owedSlots, owedAtExit>>

\* flush_runtime_sinks: what has been written so far is now durable
FlushSinks ==
    /\ \/ CGoto("flushSinks", "complete")
       \/ CGoto("finalFlush", "exited")
    /\ durable' = [t \in Threads |-> durable[t] \/ owed[t] = NoDebt]
    /\ UNCHANGED <<queueVars, registryVars, bits, woken, flushVars, controlVars, threadVars,
                   passVars, dpc, owed, owedSlots, owedAtExit>>

\* Mutant: the request is read again, after the queues were drained for it.
CompleteLatest ==
    /\ CGoto("complete", "notifyAll")
    /\ flushCompleted' = flushRequested
    /\ UNCHANGED <<queueVars, registryVars, bits, woken, flushRequested, activeFlushers,
                   controlVars, threadVars, passVars, dpc, historyVars>>

Complete ==
    /\ CGoto("complete", "notifyAll")
    /\ flushCompleted' = requested
    /\ UNCHANGED <<queueVars, registryVars, bits, woken, flushRequested, activeFlushers,
                   controlVars, threadVars, passVars, dpc, historyVars>>

\* Mutant: a sleeping flush is not notified.
NotifyNobody ==
    /\ CGoto("notifyAll", "sample")
    /\ UNCHANGED <<queueVars, registryVars, bits, woken, flushVars, controlVars, threadVars,
                   passVars, dpc, historyVars>>

NotifyAll ==
    /\ CGoto("notifyAll", "sample")
    /\ pc' = [t \in Threads |-> IF pc[t] = "flushBlocked" THEN "flushWait" ELSE pc[t]]
    /\ UNCHANGED <<queueVars, registryVars, bits, woken, flushVars, controlVars,
                   call, tgt, tls, target, passVars, dpc, historyVars>>

\* Mutant: the consumer stops without the last drain.
CheckStopAtOnce ==
    /\ CGoto("checkStop", IF stop THEN "finalFlush" ELSE IF allDrained THEN "wait" ELSE "sample")
    /\ UNCHANGED <<queueVars, registryVars, bits, woken, flushVars, controlVars, threadVars,
                   passVars, dpc, historyVars>>

CheckStop ==
    /\ cpc = "checkStop"
    /\ IF stop
       THEN cpc' = "next" /\ StartPass("final")
       ELSE /\ cpc' = IF allDrained THEN "wait" ELSE "sample"
            /\ UNCHANGED <<mode, allDrained, stage, pending>>
    /\ UNCHANGED <<queueVars, registryVars, bits, woken, flushVars, controlVars, threadVars,
                   word, words, cur, todo, requested, dpc, historyVars>>

\* Mutant: the ticket is read again just before the wait.
WaitOnFreshTicket ==
    /\ CGoto("wait", "blocked")
    /\ UNCHANGED <<queueVars, registryVars, bits, woken, flushVars, controlVars, threadVars,
                   passVars, dpc, historyVars>>

\* wake_seq.wait: sleep only if no wake came since the ticket was read
Wait ==
    /\ CGoto("wait", IF woken THEN "sample" ELSE "blocked")
    /\ UNCHANGED <<queueVars, registryVars, bits, woken, flushVars, controlVars, threadVars,
                   passVars, dpc, historyVars>>

-----------------------------------------------------------------------------
(* destroy_runtime and shutdown_runtime_state *)

DGoto(d, from, to) == dpc[d] = from /\ dpc' = [dpc EXCEPT ![d] = to]

\* the log calls that have passed the level gate and found their queue: what they
\* may still put into it comes behind every record that is there
InFlight(q) == {t \in Threads : call[t] = "log" /\ tgt[t] = q}

\* the lifecycle and the levels change in one critical section; from here on
\* destroy owes the records of every queue that no log call is working on
DestroyBegin(d) ==
    /\ lifecycle # "shutting_down"
    /\ DGoto(d, "idle", "waitFlushers")
    /\ lifecycle' = "shutting_down"
    /\ enabled' = FALSE
    /\ owedAtExit' = [q \in Queues |->
                         IF InFlight(q) = {} /\ cpc # "exited" THEN depth[q] ELSE 0]
    /\ UNCHANGED <<queueVars, registryVars, bits, woken, flushVars, stop, consumerStarted,
                   sinksOpen, threadVars, cpc, passVars, owed, durable, owedSlots>>

\* another thread is already at it
DestroyTwice(d) ==
    /\ lifecycle = "shutting_down"
    /\ DGoto(d, "idle", "done")
    /\ UNCHANGED <<queueVars, registryVars, bits, woken, flushVars, controlVars, threadVars,
                   cpc, passVars, historyVars>>

\* Mutant: the consumer is stopped under the flushes that wait for it.
WaitForNobody(d) ==
    /\ DGoto(d, "waitFlushers", IF consumerStarted THEN "stop" ELSE "reset")
    /\ UNCHANGED <<queueVars, registryVars, bits, woken, flushVars, controlVars, threadVars,
                   cpc, passVars, historyVars>>

WaitFlushers(d) ==
    /\ DGoto(d, "waitFlushers", IF activeFlushers # 0 THEN "flushersBlocked"
                                ELSE IF consumerStarted THEN "stop" ELSE "reset")
    /\ UNCHANGED <<queueVars, registryVars, bits, woken, flushVars, controlVars, threadVars,
                   cpc, passVars, historyVars>>

RequestStop(d) ==
    /\ DGoto(d, "stop", "bump")
    /\ stop' = TRUE
    /\ UNCHANGED <<queueVars, registryVars, bits, woken, flushVars, lifecycle, enabled,
                   consumerStarted, sinksOpen, threadVars, cpc, passVars, historyVars>>

BumpStop(d) ==
    /\ DGoto(d, "bump", "notify")
    /\ woken' = TRUE
    /\ UNCHANGED <<queueVars, registryVars, bits, flushVars, controlVars, threadVars,
                   cpc, passVars, historyVars>>

NotifyStop(d) ==
    /\ DGoto(d, "notify", "join")
    /\ NotifyConsumer
    /\ UNCHANGED <<queueVars, registryVars, bits, woken, flushVars, controlVars, threadVars,
                   passVars, historyVars>>

Join(d) ==
    /\ cpc = "exited"
    /\ DGoto(d, "join", "reset")
    /\ consumerStarted' = FALSE
    /\ stop' = FALSE
    /\ UNCHANGED <<queueVars, registryVars, bits, woken, flushVars, lifecycle, enabled,
                   sinksOpen, threadVars, cpc, passVars, historyVars>>

ResetSinks(d) ==
    /\ DGoto(d, "reset", "final")
    /\ sinksOpen' = FALSE
    /\ UNCHANGED <<queueVars, registryVars, bits, woken, flushVars, stop, lifecycle, enabled,
                   consumerStarted, threadVars, cpc, passVars, historyVars>>

DestroyEnd(d) ==
    /\ DGoto(d, "final", "done")
    /\ lifecycle' = "shut_down"
    /\ UNCHANGED <<queueVars, registryVars, bits, woken, flushVars, stop, enabled,
                   consumerStarted, sinksOpen, threadVars, cpc, passVars, historyVars>>

-----------------------------------------------------------------------------
(* a thread is free to begin a call or to exit, but a call it began goes on *)
Begin(t) ==
    \/ LogSingle(t) \/ LogThreadsafe(t) \/ Prewarm(t) \/ Retire(t) \/ FlushBegin(t)

Continue(t) ==
    \/ AcquireFree(t) \/ AcquireNew(t) \/ AcquireFails(t)
    \/ Produce(t) \/ ProduceNothing(t) \/ Mark(t) \/ Publish(t) \/ Bump(t) \/ Notify(t)
    \/ FlushEnter(t) \/ FlushCheck(t) \/ FlushRequest(t) \/ FlushWait(t)
    \/ FlushLeave(t) \/ FlushNotify(t)

Drain ==
    \/ Visit \/ LoadCount \/ TakeWord \/ EndPass \/ Consume
    \/ Check1 \/ Clear \/ Check2 \/ Remark \/ TryFree \/ Push

Consumer ==
    \/ Sample \/ Drain \/ CheckFlush \/ FlushSinks \/ Complete \/ NotifyAll
    \/ CheckStop \/ Wait

DestroyStep(d) ==
    \/ WaitFlushers(d) \/ RequestStop(d) \/ BumpStop(d) \/ NotifyStop(d)
    \/ Join(d) \/ ResetSinks(d) \/ DestroyEnd(d)

Next ==
    \/ \E t \in Threads : Begin(t) \/ Continue(t)
    \/ Consumer
    \/ \E d \in Destroyers : DestroyBegin(d) \/ DestroyTwice(d) \/ DestroyStep(d)

Spec == Init /\ [][Next]_vars

\* The operating system runs every runnable thread: a call that was begun goes
\* on, the consumer runs unless it sleeps, and so does a destroyer.  Nothing
\* makes a thread begin a call.
Fairness ==
    /\ \A t \in Threads : WF_vars(Continue(t))
    /\ WF_vars(Consumer)
    /\ \A d \in Destroyers : WF_vars(DestroyStep(d))

LiveSpec == Spec /\ Fairness
-----------------------------------------------------------------------------
(* Safety *)

\* A call on producer q that has still to wake the consumer.  A log call that
\* finds the enqueued flag up will not.
WillWake(t, q) ==
    /\ tgt[t] = q
    /\ call[t] \in {"log", "exit"}
    /\ \/ pc[t] \in {"publish", "bump"}
       \/ pc[t] = "mark" /\ ~enqueued[q]

\* wake_seq has moved and the matching notify_one is still to come
NotifyPending ==
    \/ \E t \in Threads : pc[t] = "notify"
    \/ \E d \in Destroyers : dpc[d] = "notify"

\* The consumer never sleeps through work (consumer_main's eventcount and
\* finish_drain's double check): while it sleeps, a queue that holds records, a
\* retired slot, a flush request or a stop request is one whose thread is still
\* on its way to wake it.
NoLostWakeup ==
    cpc = "blocked" /\ ~NotifyPending =>
        /\ \A q \in Queues : depth[q] > 0 => \E t \in Threads : WillWake(t, q)
        /\ \A s \in Slots : slotState[s] = "retired" => \E t \in Threads : WillWake(t, s)
        /\ flushRequested # flushCompleted =>
              \E t \in Threads : call[t] = "flush" /\ pc[t] = "bump"
        /\ stop => \E d \in Destroyers : dpc[d] = "bump"

\* No record is stranded (the enqueued flag, the ready bits, and reactivate
\* clearing the flag of a reused slot): a slot whose queue holds records has its
\* bit set, is in the consumer's hands, or its thread is about to set the bit.
NoStrandedQueue ==
    \A s \in Slots : depth[s] > 0 =>
        \/ s \in bits \cup pending
        \/ cur = s /\ cpc \in {"consume", "check1", "clear", "check2", "remark"}
        \/ \E t \in Threads : WillWake(t, s) /\ pc[t] # "bump"

\* the free list: the smallest set that holds its head and what its slots point to
ListClosed(C) ==
    /\ freeHead # NoSlot => freeHead \in C
    /\ \A s \in C : nextFree[s] # NoSlot => nextFree[s] \in C
FreeList == {s \in Slots : \A C \in SUBSET Slots : ListClosed(C) => s \in C}

\* The free list holds the free slots, each once, and no other (threadsafe_producer
\* pops it and drain_registry_producer pushes on it, in critical sections apart
\* from the lifecycle changes): a slot on it twice would go to two threads, a
\* slot off it would never be used again.
FreeListExact ==
    LET free == {s \in Slots : slotState[s] = "free"} IN
    /\ FreeList = IF cpc = "push" THEN free \ {cur} ELSE free
    /\ FreeList # {} => \E s \in FreeList : nextFree[s] = NoSlot
    /\ \A r, s \in FreeList : nextFree[r] = nextFree[s] /\ nextFree[r] # NoSlot => r = s

\* thread t may write to the queue of slot s, and has not let go of it
Owns(t, s) == tls[t] = s /\ call[t] # "exit"

\* A queue has one producer at a time (the queues are single-producer): two
\* threads never own one slot, and only an active slot is owned.  The cached
\* pointer in tls_state outlives the retire, and must not be used after it.
SingleProducer ==
    \A s \in Slots :
        /\ \A t, u \in Threads : Owns(t, s) /\ Owns(u, s) => t = u
        /\ slotState[s] = "active" <=> \E t \in Threads : Owns(t, s)

Flushed(t) == call[t] = "flush" /\ pc[t] = "flushLeave" /\ target[t] > 0
                  /\ flushCompleted >= target[t]

\* flush keeps its promise (flush_backend, drain_flush): when it returns, every
\* record that was in a queue at its request has been written and the sinks
\* flushed afterwards, though its slot's bit may be set by nobody yet.
FlushDurable == \A t \in Threads : Flushed(t) => durable[t]

\* and every slot whose thread had exited is back on the free list, which is
\* what lets max_producers be smaller than the number of threads over time
\* (tests/007.cpp "retired producer slots are reused across thread churn")
FlushReclaims == \A t \in Threads : Flushed(t) => owedSlots[t] = {}

\* A record whose log call had returned before destroy began is written before
\* the consumer exits (drain_runtime_queues_until_idle), unless its thread had by
\* then passed the level gate of another log call on the same queue: that call may
\* raise the enqueued flag and keep the ready bit back until the consumer is gone.
DrainedAtExit == cpc = "exited" => owedAtExit = NoDebt

\* The sinks outlive the consumer, and no flush waits for a consumer that is gone
\* (wait_for_active_flushers before stop, join before the sinks are reset).
ShutdownOrder ==
    /\ ~sinksOpen => cpc = "exited"
    /\ cpc = "exited" =>
          \A t \in Threads : pc[t] # "flushRequest" /\ target[t] <= flushCompleted

-----------------------------------------------------------------------------
(* Liveness *)

\* no queue is starved: it is drained, or records of it are written, again and
\* again until the consumer exits
NoStarvation ==
    \A q \in Queues :
        []<>(depth[q] = 0 \/ (cpc = "consume" /\ cur = q) \/ cpc = "exited")

\* thread t's flush returns
FlushReturnsTo(t) == call[t] = "flush" ~> call[t] # "flush"

\* the slot of an exited thread is recycled without anyone flushing
SlotsRecycled ==
    \A s \in Slots : slotState[s] = "retired" ~> slotState[s] # "retired" \/ cpc = "exited"

\* destroy ends
DestroyEnds == \A d \in Destroyers : dpc[d] # "idle" ~> dpc[d] = "done"
=============================================================================
