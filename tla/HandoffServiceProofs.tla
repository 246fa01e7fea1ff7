------------------------- MODULE HandoffServiceProofs -------------------------
(***************************************************************************)
(* Handoff implements LogService, for any number of threads, destroyers    *)
(* and slots: its initial states are the service's, and under the          *)
(* invariants of the handoff every step is a step of the service or leaves *)
(* the service as it is.                                                   *)
(***************************************************************************)
EXTENDS HandoffService, HandoffPromisesProofs

-----------------------------------------------------------------------------
(* One log call per queue *)

\* a thread is on a producer only in a log call that has found one, or when it exits
NoTargetInv ==
    \A t \in Threads : call[t] \notin {"log", "exit"} \/ pc[t] = "acquire" => tgt[t] = NoSlot

LEMMA NoTargetStep == IInv /\ NoTargetInv /\ [Next]_vars => NoTargetInv'
  <1> SUFFICES ASSUME IInv, NoTargetInv, [Next]_vars PROVE NoTargetInv'
    OBVIOUS
  <1> USE DEF IInv, TypeOK, ThreadTypes, CallInv, NoTargetInv
  <1>1. ASSUME NEW t \in Threads, Begin(t) PROVE NoTargetInv'
    BY <1>1 DEF Begin, LogSingle, LogThreadsafe, Prewarm, Retire, FlushBegin, Goto
  <1>2. ASSUME NEW t \in Threads, Continue(t) PROVE NoTargetInv'
    <2>1. CASE AcquireFree(t) \/ AcquireNew(t)
      BY <2>1 DEF AcquireFree, AcquireNew, Take, Return, Goto
    <2>2. CASE AcquireFails(t) \/ ProduceNothing(t) \/ Mark(t) \/ Notify(t)
      BY <2>2 DEF AcquireFails, ProduceNothing, Mark, Notify, Return, Goto
    <2>3. CASE Produce(t) \/ Publish(t) \/ Bump(t)
      BY <2>3 DEF Produce, Publish, Bump, Goto
    <2>4. CASE FlushEnter(t) \/ FlushCheck(t) \/ FlushRequest(t) \/ FlushWait(t)
      BY <2>4 DEF FlushEnter, FlushCheck, FlushRequest, FlushWait, Goto
    <2>5. CASE FlushLeave(t) \/ FlushNotify(t)
      BY <2>5 DEF FlushLeave, FlushNotify, Return, Goto
    <2> QED
      BY <1>2, <2>1, <2>2, <2>3, <2>4, <2>5 DEF Continue
  <1>3. CASE Consumer
    <2>1. CASE NotifyAll
      BY <2>1 DEF NotifyAll
    <2>2. CASE UNCHANGED threadVars
      BY <2>2 DEF threadVars
    <2> QED
      BY <1>3, <2>1, <2>2
      DEF Consumer, Drain, Sample, Visit, LoadCount, TakeWord, EndPass, Consume, Check1, Clear,
          Check2, Remark, TryFree, Push, CheckFlush, FlushSinks, Complete, CheckStop, Wait
  <1>4. ASSUME NEW d \in Destroyers, DestroyBegin(d) \/ DestroyTwice(d) \/ DestroyStep(d)
        PROVE NoTargetInv'
    BY <1>4 DEF DestroyBegin, DestroyTwice, DestroyStep, WaitFlushers, RequestStop, BumpStop,
                NotifyStop, Join, ResetSinks, DestroyEnd, threadVars
  <1>5. CASE UNCHANGED vars
    BY <1>5 DEF vars, threadVars
  <1> QED
    BY <1>1, <1>2, <1>3, <1>4, <1>5 DEF Next

\* Calls that work on no producer name none (threadsafe_producer looks it up first).
LEMMA NoTargetInductive == Spec => []NoTargetInv
  <1>1. Init => NoTargetInv
    BY DEF Init, NoTargetInv
  <1> QED
    BY <1>1, NoTargetStep, Inductive, PTL DEF Spec

\* a queue has at most one log call at work on it
LEMMA OneLogCall ==
    ASSUME IInv, NoTargetInv, NEW q \in Queues, NEW t \in InFlight(q)
    PROVE  InFlight(q) = {t}
  <1> SUFFICES ASSUME NEW u \in InFlight(q) PROVE u = t
    OBVIOUS
  <1>1. q # NoSlot
    BY MaxProducersAssumption, SinglesAssumption DEF Queues, Slots, NoSlot
  <1>2. \A v \in InFlight(q) : v \in Threads /\ call[v] = "log" /\ tgt[v] = q /\ pc[v] # "acquire"
    BY <1>1 DEF InFlight, NoTargetInv
  <1>3. \A v \in InFlight(q) :
           \/ q \in Slots /\ tls[v] = q
           \/ q \in Singles /\ SingleOwner[q] = v
    BY <1>2 DEF IInv, CallInv
  <1>4. Slots \cap Singles = {}
    BY SinglesAssumption DEF Slots
  <1>5. CASE q \in Slots
    <2>1. Owns(u, q) /\ Owns(t, q)
      BY <1>2, <1>3, <1>4, <1>5 DEF Owns
    <2> QED
      BY <1>2, <1>5, <2>1 DEF IInv, SingleProducer
  <1>6. CASE q \in Singles
    BY <1>3, <1>4, <1>6
  <1> QED
    BY <1>5, <1>6 DEF Queues

-----------------------------------------------------------------------------
(* What leaves the service's view of a queue, or of a flush, as it is *)

LEMMA LogOfSame ==
    ASSUME NEW q \in Queues, InFlight(q)' = InFlight(q),
           \A t \in InFlight(q) : pc'[t] = "produce" <=> pc[t] = "produce"
    PROVE  LogOf(q)' = LogOf(q)
  BY DEF LogOf

LEMMA FlushOfSame ==
    ASSUME NEW t \in Threads, flushCompleted' = flushCompleted, target'[t] = target[t],
           (call'[t] = "flush") <=> (call[t] = "flush")
    PROVE  FlushOf(t)' = FlushOf(t)
  BY DEF FlushOf

\* the service sees nothing of a step that keeps to these
Unseen ==
    /\ (cpc' = "exited") <=> (cpc = "exited")
    /\ (lifecycle' = "running") <=> (lifecycle = "running")
    /\ UNCHANGED <<depth, flushCompleted, owed, durable, owedAtExit>>

LEMMA UnseenPhase == Unseen => Phase' = Phase
  BY DEF Unseen, Phase

LEMMA StutterOf ==
    ASSUME Unseen,
           \A q \in Queues : LogOf(q)' = LogOf(q),
           \A t \in Threads : FlushOf(t)' = FlushOf(t)
    PROVE  UNCHANGED Service!vars
  BY UnseenPhase DEF Unseen, Service!vars

\* no step of the consumer and of destroy but those below is seen
LEMMA QuietStep ==
    ASSUME Unseen, UNCHANGED <<call, tgt, target>>,
           \A t \in Threads : pc'[t] = "produce" <=> pc[t] = "produce"
    PROVE  UNCHANGED Service!vars
  <1>1. ASSUME NEW q \in Queues PROVE LogOf(q)' = LogOf(q)
    <2>1. InFlight(q)' = InFlight(q)
      BY DEF InFlight
    <2> QED
      BY <2>1, LogOfSame DEF InFlight
  <1>2. ASSUME NEW t \in Threads PROVE FlushOf(t)' = FlushOf(t)
    BY FlushOfSame DEF Unseen
  <1> QED
    BY <1>1, <1>2, StutterOf

\* the step of thread t changes nothing of other threads
Alone(t) ==
    /\ \A u \in Threads \ {t} :
          call'[u] = call[u] /\ tgt'[u] = tgt[u] /\ pc'[u] = pc[u] /\ target'[u] = target[u]

\* nor of queues that it does not log to
LEMMA OtherQueues ==
    ASSUME NEW t \in Threads, Alone(t), NEW q \in Queues,
           t \notin InFlight(q), ~(call'[t] = "log" /\ tgt'[t] = q)
    PROVE  LogOf(q)' = LogOf(q)
  <1>1. InFlight(q)' = InFlight(q)
    BY DEF Alone, InFlight
  <1>2. \A u \in InFlight(q) : pc'[u] = pc[u]
    BY DEF Alone, InFlight
  <1> QED
    BY <1>1, <1>2, LogOfSame

LEMMA OtherFlushes ==
    ASSUME NEW t \in Threads, Alone(t), flushCompleted' = flushCompleted,
           NEW u \in Threads \ {t}
    PROVE  FlushOf(u)' = FlushOf(u)
  BY FlushOfSame DEF Alone

\* a thread outside flush has none, before and after
LEMMA NoFlush ==
    ASSUME NEW t \in Threads, Alone(t), flushCompleted' = flushCompleted,
           call[t] # "flush" \/ target[t] = 0, call'[t] # "flush" \/ target'[t] = 0
    PROVE  \A u \in Threads : FlushOf(u)' = FlushOf(u)
  <1>1. FlushOf(t)' = FlushOf(t)
    BY DEF FlushOf
  <1> QED
    BY <1>1, OtherFlushes

\* a step of thread t that is not in a log call, and begins none on a queue
LEMMA NoLog ==
    ASSUME NEW t \in Threads, Alone(t),
           \A q \in Queues : t \notin InFlight(q) /\ ~(call'[t] = "log" /\ tgt'[t] = q)
    PROVE  \A q \in Queues : LogOf(q)' = LogOf(q)
  BY OtherQueues

-----------------------------------------------------------------------------
(* What the service sees of a log call *)

\* thread t comes to log to queue q, which nobody logs to
LEMMA LogBegins ==
    ASSUME IInv, NEW t \in Threads, NEW q \in Queues, Unseen, Alone(t),
           InFlight(q) = {}, \A r \in Queues : t \notin InFlight(r),
           call[t] # "flush", call'[t] = "log", tgt'[t] = q, pc'[t] = "produce"
    PROVE  Service!Log(q)
  <1>1. LogOf(q) = "none"
    BY DEF LogOf
  <1>2. LogOf(q)' = "begun"
    BY DEF LogOf, InFlight
  <1>3. \A r \in Queues \ {q} : LogOf(r)' = LogOf(r)
    BY OtherQueues
  <1>4. \A u \in Threads : FlushOf(u)' = FlushOf(u)
    BY NoFlush DEF Unseen
  <1> QED
    BY <1>1, <1>2, <1>3, <1>4, UnseenPhase DEF Service!Log, Unseen

\* and it returns
LEMMA LogReturns ==
    ASSUME IInv, NoTargetInv, NEW t \in Threads, NEW q \in Queues, Unseen, Alone(t),
           t \in InFlight(q), call'[t] = "none"
    PROVE  Service!Acknowledge(q)
  <1>1. InFlight(q) = {t}
    BY OneLogCall
  <1>2. LogOf(q) # "none"
    BY <1>1 DEF LogOf
  <1>3. InFlight(q)' = {}
    BY <1>1 DEF InFlight, Alone
  <1>4. LogOf(q)' = "none"
    BY <1>3 DEF LogOf
  <1>5. \A r \in Queues \ {q} : LogOf(r)' = LogOf(r)
    BY OtherQueues DEF InFlight
  <1>6. \A u \in Threads : FlushOf(u)' = FlushOf(u)
    BY NoFlush DEF Unseen, InFlight
  <1> QED
    BY <1>2, <1>4, <1>5, <1>6, UnseenPhase DEF Service!Acknowledge, Unseen

\* it goes on, its record accepted or not
LEMMA LogGoesOn ==
    ASSUME IInv, NoTargetInv, NEW t \in Threads, NEW q \in Queues, Unseen, Alone(t),
           t \in InFlight(q), t \in InFlight(q)', (pc'[t] = "produce") <=> (pc[t] = "produce")
    PROVE  UNCHANGED Service!vars
  <1>1. InFlight(q)' = InFlight(q)
    BY DEF InFlight, Alone
  <1>2. LogOf(q)' = LogOf(q)
    BY <1>1, LogOfSame DEF InFlight, Alone
  <1>3. \A r \in Queues \ {q} : LogOf(r)' = LogOf(r)
    BY OtherQueues DEF InFlight
  <1>4. \A u \in Threads : FlushOf(u)' = FlushOf(u)
    BY NoFlush DEF Unseen, InFlight
  <1> QED
    BY <1>2, <1>3, <1>4, StutterOf

\* a step of thread t that has to do with neither a log call nor a flush
LEMMA SilentStep ==
    ASSUME NEW t \in Threads, Unseen, Alone(t),
           \A q \in Queues : t \notin InFlight(q) /\ ~(call'[t] = "log" /\ tgt'[t] = q),
           call[t] # "flush" \/ target[t] = 0, call'[t] # "flush" \/ target'[t] = 0
    PROVE  UNCHANGED Service!vars
  BY NoLog, NoFlush, StutterOf DEF Unseen

-----------------------------------------------------------------------------
(* The threads *)

LEMMA NoSlotIsNoQueue == NoSlot \notin Queues
  BY MaxProducersAssumption, SinglesAssumption DEF Queues, Slots, NoSlot

\* nobody logs to a slot that thread t owns, while t is in no log call, or that
\* nobody owns
LEMMA NobodyLogs ==
    ASSUME IInv, NoTargetInv, NEW s \in Slots,
           \/ slotState[s] # "active"
           \/ \E t \in Threads : Owns(t, s) /\ call[t] # "log"
    PROVE  InFlight(s) = {}
  <1> SUFFICES ASSUME NEW u \in InFlight(s) PROVE FALSE
    OBVIOUS
  <1>1. u \in Threads /\ call[u] = "log" /\ tgt[u] = s /\ s \in Queues
    BY DEF InFlight, Queues
  <1>2. pc[u] # "acquire"
    BY <1>1, NoSlotIsNoQueue DEF NoTargetInv
  <1>3. s \notin Singles
    BY SinglesAssumption DEF Slots
  <1>4. Owns(u, s)
    BY <1>1, <1>2, <1>3 DEF IInv, CallInv, Owns
  <1> QED
    BY <1>1, <1>4 DEF IInv, SingleProducer

LEMMA LogSingleMaps ==
    ASSUME IInv, NoTargetInv, NEW t \in Threads, LogSingle(t)
    PROVE  \E q \in Queues : Service!Log(q)
  <1>1. PICK q \in Singles : SingleOwner[q] = t /\ tgt' = [tgt EXCEPT ![t] = q]
    BY DEF LogSingle
  <1>2. q \in Queues /\ q \notin Slots
    BY SinglesAssumption DEF Queues, Slots
  <1>3. call[t] = "none" /\ pc[t] = "idle"
    BY DEF LogSingle, Goto, IInv, CallInv
  <1>4. InFlight(q) = {}
    <2> SUFFICES ASSUME NEW u \in InFlight(q) PROVE FALSE
      OBVIOUS
    <2>1. u \in Threads /\ call[u] = "log" /\ tgt[u] = q
      BY DEF InFlight
    <2>2. pc[u] # "acquire"
      BY <2>1, <1>2, NoSlotIsNoQueue DEF NoTargetInv
    <2>3. u = t
      BY <2>1, <2>2, <1>1, <1>2 DEF IInv, CallInv
    <2> QED
      BY <2>1, <2>3, <1>3
  <1>5. call'[t] = "log" /\ tgt'[t] = q /\ pc'[t] = "produce" /\ Alone(t)
    BY <1>1 DEF LogSingle, Goto, Alone, IInv, TypeOK, ThreadTypes
  <1>6. Unseen
    BY DEF LogSingle, Unseen, queueVars, flushVars, controlVars, historyVars
  <1>7. \A r \in Queues : t \notin InFlight(r)
    BY <1>3 DEF InFlight
  <1> QED
    BY <1>2, <1>3, <1>4, <1>5, <1>6, <1>7, LogBegins

LEMMA LogThreadsafeMaps ==
    ASSUME IInv, NoTargetInv, NEW t \in Threads, LogThreadsafe(t)
    PROVE  (\E q \in Queues : Service!Log(q)) \/ UNCHANGED Service!vars
  <1>1. call[t] = "none" /\ pc[t] = "idle"
    BY DEF LogThreadsafe, Goto, IInv, CallInv
  <1>2. call'[t] = "log" /\ tgt'[t] = tls[t] /\ Alone(t)
    BY DEF LogThreadsafe, Goto, Alone, IInv, TypeOK, ThreadTypes
  <1>3. Unseen
    BY DEF LogThreadsafe, Unseen, queueVars, flushVars, controlVars, historyVars
  <1>4. \A r \in Queues : t \notin InFlight(r)
    BY <1>1 DEF InFlight
  <1>5. CASE tls[t] = NoSlot
    <2>1. call'[t] # "flush" /\ call[t] # "flush"
      BY <1>1, <1>2
    <2> QED
      BY <1>2, <1>3, <1>4, <1>5, <2>1, NoSlotIsNoQueue, SilentStep
  <1>6. CASE tls[t] # NoSlot
    <2>1. tls[t] \in Slots /\ tls[t] \in Queues
      BY <1>6 DEF IInv, TypeOK, ThreadTypes, Queues
    <2>2. InFlight(tls[t]) = {}
      BY <1>1, <2>1, NobodyLogs DEF Owns
    <2>3. pc'[t] = "produce"
      BY <1>6 DEF LogThreadsafe, Goto, IInv, TypeOK, ThreadTypes
    <2> QED
      BY <1>1, <1>2, <1>3, <1>4, <2>1, <2>2, <2>3, LogBegins
  <1> QED
    BY <1>5, <1>6

LEMMA TakeMaps ==
    ASSUME IInv, NoTargetInv, NEW t \in Threads, NEW s \in Slots, Take(t, s), Unseen,
           slotState[s] # "active"
    PROVE  (\E q \in Queues : Service!Log(q)) \/ UNCHANGED Service!vars
  <1>1. pc[t] = "acquire" /\ call[t] \in {"log", "prewarm"}
    BY DEF Take, Return, Goto, IInv, CallInv
  <1>2. \A r \in Queues : t \notin InFlight(r)
    BY <1>1, NoSlotIsNoQueue DEF InFlight, NoTargetInv
  <1>3. Alone(t)
    BY DEF Take, Return, Goto, Alone, IInv, TypeOK, ThreadTypes
  <1>4. CASE call[t] = "log"
    <2>1. s \in Queues /\ InFlight(s) = {}
      BY NobodyLogs DEF Queues
    <2>2. call'[t] = "log" /\ tgt'[t] = s /\ pc'[t] = "produce"
      BY <1>4 DEF Take, Goto, IInv, TypeOK, ThreadTypes
    <2> QED
      BY <1>1, <1>2, <1>3, <2>1, <2>2, LogBegins
  <1>5. CASE call[t] = "prewarm"
    <2>1. call'[t] = "none"
      BY <1>5 DEF Take, Return, Goto, IInv, TypeOK, ThreadTypes
    <2> QED
      BY <1>2, <1>3, <1>5, <2>1, SilentStep
  <1> QED
    BY <1>1, <1>4, <1>5

LEMMA AcquireMaps ==
    ASSUME IInv, NoTargetInv, NEW t \in Threads,
           AcquireFree(t) \/ AcquireNew(t) \/ AcquireFails(t)
    PROVE  (\E q \in Queues : Service!Log(q)) \/ UNCHANGED Service!vars
  <1>1. Unseen
    BY DEF AcquireFree, AcquireNew, AcquireFails, Unseen, queueVars, flushVars, controlVars,
           historyVars
  <1>2. CASE AcquireFree(t)
    <2>1. freeHead \in Slots /\ slotState[freeHead] # "active"
      BY <1>2 DEF AcquireFree, IInv, FreeListInv, Listed
    <2> QED
      BY <1>1, <1>2, <2>1, TakeMaps DEF AcquireFree
  <1>3. CASE AcquireNew(t)
    <2>1. count \in Slots
      BY <1>3, MaxProducersAssumption DEF AcquireNew, IInv, TypeOK, QueueTypes, Slots
    <2>2. slotState[count] # "active"
      BY <2>1 DEF IInv, ConsumerInv, TypeOK, QueueTypes, Slots
    <2> QED
      BY <1>1, <1>3, <2>1, <2>2, TakeMaps DEF AcquireNew
  <1>4. CASE AcquireFails(t)
    <2>1. pc[t] = "acquire" /\ call[t] # "flush"
      BY <1>4 DEF AcquireFails, Return, Goto, IInv, CallInv
    <2>2. \A r \in Queues : t \notin InFlight(r)
      BY <2>1, NoSlotIsNoQueue DEF InFlight, NoTargetInv
    <2>3. call'[t] = "none" /\ Alone(t)
      BY <1>4 DEF AcquireFails, Return, Goto, Alone, IInv, TypeOK, ThreadTypes
    <2> QED
      BY <1>1, <2>1, <2>2, <2>3, SilentStep
  <1> QED
    BY <1>2, <1>3, <1>4

\* where the target of a log call is
LEMMA InOwnQueue ==
    ASSUME IInv, NEW t \in Threads, call[t] = "log", pc[t] # "acquire"
    PROVE  tgt[t] \in Queues /\ t \in InFlight(tgt[t])
  BY DEF IInv, CallInv, InFlight, Queues

LEMMA ProduceMaps ==
    ASSUME IInv, NoTargetInv, NEW t \in Threads, Produce(t)
    PROVE  \E q \in Queues : Service!Accept(q)
  <1>1. pc[t] = "produce" /\ call[t] = "log"
    BY DEF Produce, Goto, IInv, CallInv
  <1>2. PICK q \in Queues : q = tgt[t] /\ t \in InFlight(q)
    BY <1>1, InOwnQueue
  <1>3. InFlight(q) = {t}
    BY <1>2, OneLogCall
  <1>4. pc'[t] = "mark" /\ Alone(t) /\ InFlight(q)' = {t}
    BY <1>3 DEF Produce, Goto, Alone, InFlight, IInv, TypeOK, ThreadTypes
  <1>5. LogOf(q) = "begun" /\ LogOf(q)' = "accepted"
    BY <1>1, <1>3, <1>4 DEF LogOf
  <1>6. \A r \in Queues \ {q} : LogOf(r)' = LogOf(r)
    BY <1>2, <1>4, OtherQueues DEF Produce, InFlight
  <1>7. \A u \in Threads : FlushOf(u)' = FlushOf(u)
    BY <1>1, <1>4, NoFlush DEF Produce, flushVars
  <1>8. Phase' = Phase
    BY DEF Produce, Phase, controlVars
  <1>9. Service!Accept(q)
    BY <1>2, <1>5, <1>6, <1>7, <1>8 DEF Produce, Service!Accept, historyVars
  <1> QED
    BY <1>9

LEMMA ReturnMaps ==
    ASSUME IInv, NoTargetInv, NEW t \in Threads, Unseen, NEW from \in ThreadPCs,
           Return(t, from), call[t] = "log", from # "acquire"
    PROVE  \E q \in Queues : Service!Acknowledge(q)
  <1>1. tgt[t] \in Queues /\ t \in InFlight(tgt[t])
    BY InOwnQueue DEF Return, Goto
  <1>2. call'[t] = "none" /\ Alone(t)
    BY DEF Return, Goto, Alone, IInv, TypeOK, ThreadTypes
  <1> QED
    BY <1>1, <1>2, LogReturns

LEMMA LogCallMaps ==
    ASSUME IInv, NoTargetInv, NEW t \in Threads, ProduceNothing(t) \/ Mark(t)
    PROVE  (\E q \in Queues : Service!Acknowledge(q)) \/ UNCHANGED Service!vars
  <1>1. Unseen
    BY DEF ProduceNothing, Mark, Unseen, queueVars, flushVars, controlVars, historyVars
  <1>2. call[t] = "log" /\ pc[t] \in {"produce", "mark"}
    BY DEF ProduceNothing, Mark, Return, Goto, IInv, CallInv
  <1>3. CASE Return(t, "produce") \/ Return(t, "mark")
    BY <1>1, <1>2, <1>3, ReturnMaps DEF ThreadPCs
  <1>4. CASE ~(Return(t, "produce") \/ Return(t, "mark"))
    <2>1. Mark(t) /\ ~enqueued[tgt[t]]
      BY <1>4 DEF ProduceNothing, Mark
    <2>2. pc[t] # "produce" /\ pc'[t] # "produce" /\ Alone(t) /\ UNCHANGED <<call, tgt>>
      BY <2>1 DEF Mark, Goto, Alone, IInv, TypeOK, ThreadTypes
    <2>3. tgt[t] \in Queues /\ t \in InFlight(tgt[t])
      BY <1>2, InOwnQueue
    <2>4. t \in InFlight(tgt[t])'
      BY <1>2, <2>2 DEF InFlight
    <2> QED
      BY <1>1, <2>2, <2>3, <2>4, LogGoesOn
  <1> QED
    BY <1>3, <1>4

LEMMA WakeMaps ==
    ASSUME IInv, NoTargetInv, FlushInv, NEW t \in Threads,
           Publish(t) \/ Bump(t) \/ Notify(t)
    PROVE  (\E q \in Queues : Service!Acknowledge(q)) \/ UNCHANGED Service!vars
  <1>1. Unseen
    BY DEF Publish, Bump, Notify, NotifyConsumer, Unseen, queueVars, flushVars, controlVars,
           historyVars
  <1>2. pc[t] \in {"publish", "bump", "notify"} /\ pc'[t] # "produce"
    BY DEF Publish, Bump, Notify, Return, Goto, IInv, TypeOK, ThreadTypes
  <1>3. call[t] \in {"log", "exit", "flush"}
    BY <1>2 DEF IInv, CallInv
  <1>4. CASE UNCHANGED <<call, tgt, target>>
    <2>1. \A u \in Threads : pc'[u] = "produce" <=> pc[u] = "produce"
      BY <1>2 DEF Publish, Bump, Notify, Return, Goto, IInv, TypeOK, ThreadTypes
    <2> QED
      BY <1>1, <1>4, <2>1, QuietStep
  <1>5. CASE ~UNCHANGED <<call, tgt, target>>
    <2>1. Return(t, "notify") /\ call[t] # "flush"
      BY <1>5 DEF Publish, Bump, Notify
    <2>2. CASE call[t] = "log"
      BY <1>1, <1>2, <2>1, <2>2, ReturnMaps DEF ThreadPCs
    <2>3. CASE call[t] = "exit"
      <3>1. \A r \in Queues : t \notin InFlight(r)
        BY <2>3 DEF InFlight
      <3>2. call'[t] = "none" /\ Alone(t)
        BY <2>1 DEF Return, Goto, Alone, IInv, TypeOK, ThreadTypes
      <3> QED
        BY <1>1, <2>3, <3>1, <3>2, SilentStep
    <2> QED
      BY <1>3, <2>1, <2>2, <2>3
  <1> QED
    BY <1>4, <1>5

LEMMA BeginMaps ==
    ASSUME IInv, NoTargetInv, FlushInv, NEW t \in Threads, Begin(t)
    PROVE  (\E q \in Queues : Service!Log(q)) \/ UNCHANGED Service!vars
  <1>1. CASE LogSingle(t) \/ LogThreadsafe(t)
    BY <1>1, LogSingleMaps, LogThreadsafeMaps
  <1>2. CASE Prewarm(t) \/ Retire(t) \/ FlushBegin(t)
    <2>1. pc[t] = "idle" /\ call[t] = "none"
      BY <1>2 DEF Prewarm, Retire, FlushBegin, Goto, IInv, CallInv
    <2>2. Unseen
      BY <1>2 DEF Prewarm, Retire, FlushBegin, Unseen, queueVars, flushVars, controlVars,
                  historyVars
    <2>3. call'[t] \in {"prewarm", "exit", "flush"} /\ Alone(t) /\ UNCHANGED target
      BY <1>2 DEF Prewarm, Retire, FlushBegin, Goto, Alone, IInv, TypeOK, ThreadTypes
    <2>4. \A r \in Queues : t \notin InFlight(r)
      BY <2>1 DEF InFlight
    <2>5. CASE call'[t] # "flush"
      BY <2>1, <2>2, <2>3, <2>4, <2>5, SilentStep
    <2>6. CASE call'[t] = "flush"
      <3>1. target[t] = 0
        BY <2>1 DEF FlushInv, RequestInv, IInv, TypeOK, ThreadTypes
      <3> QED
        BY <2>1, <2>2, <2>3, <2>4, <2>6, <3>1, SilentStep
    <2> QED
      BY <2>5, <2>6
  <1> QED
    BY <1>1, <1>2 DEF Begin

\* flush: the request is asked for, and its answer returned
LEMMA FlushMaps ==
    ASSUME IInv, NoTargetInv, FlushInv, ShutdownInv, NEW t \in Threads,
           \/ FlushEnter(t) \/ FlushCheck(t) \/ FlushRequest(t) \/ FlushWait(t)
           \/ FlushLeave(t) \/ FlushNotify(t)
    PROVE  Service!Ask(t) \/ Service!Return(t) \/ UNCHANGED Service!vars
  <1>1. call[t] = "flush" /\ pc[t] \in FlushPCs /\ pc'[t] # "produce"
    BY DEF FlushEnter, FlushCheck, FlushRequest, FlushWait, FlushLeave, FlushNotify, Return, Goto,
           FlushPCs, IInv, CallInv, TypeOK, ThreadTypes
  <1>2. \A r \in Queues : t \notin InFlight(r)
    BY <1>1 DEF InFlight
  <1>3. Alone(t)
    BY DEF FlushEnter, FlushCheck, FlushRequest, FlushWait, FlushLeave, FlushNotify, Return, Goto,
           Alone, IInv, TypeOK, ThreadTypes
  <1>4. call'[t] # "log"
    BY <1>1 DEF FlushEnter, FlushCheck, FlushRequest, FlushWait, FlushLeave, FlushNotify, Return,
                Goto, IInv, TypeOK, ThreadTypes
  <1>5. \A q \in Queues : LogOf(q)' = LogOf(q)
    BY <1>2, <1>3, <1>4, NoLog
  <1>6. flushCompleted' = flushCompleted
    BY DEF FlushEnter, FlushCheck, FlushRequest, FlushWait, FlushLeave, FlushNotify, flushVars
  <1>7. \A u \in Threads \ {t} : FlushOf(u)' = FlushOf(u)
    BY <1>3, <1>6, OtherFlushes
  <1>8. CASE FlushRequest(t)
    <2>1. NeedsConsumer(t) /\ target[t] = 0
      BY <1>1, <1>8 DEF FlushRequest, Goto, NeedsConsumer, FlushInv, RequestInv, IInv, TypeOK,
                        ThreadTypes
    <2>2. cpc # "exited"
      BY <2>1 DEF ShutdownInv, LastPassInv, QuietInv
    <2>3. Phase # "closed" /\ Phase' = Phase
      BY <1>8, <2>2 DEF FlushRequest, Phase, controlVars
    <2>4. FlushOf(t) = "none"
      BY <2>1 DEF FlushOf
    <2>5. target'[t] = flushRequested + 1 /\ call'[t] = "flush"
      BY <1>1, <1>8 DEF FlushRequest, IInv, TypeOK, ThreadTypes
    <2>6. flushRequested + 1 # 0 /\ flushCompleted < flushRequested + 1
      BY DEF FlushInv, RequestInv, IInv, TypeOK, RuntimeTypes, ConsumerTypes
    <2>7. FlushOf(t)' = "asked"
      BY <1>6, <2>5, <2>6 DEF FlushOf
    <2>8. Service!Ask(t)
      BY <1>5, <1>7, <1>8, <2>3, <2>4, <2>7 DEF FlushRequest, Service!Ask, queueVars
    <2> QED
      BY <2>8
  <1>9. CASE ~FlushRequest(t) /\ UNCHANGED <<call, target>>
    <2>1. Unseen
      BY <1>9 DEF FlushEnter, FlushCheck, FlushWait, FlushLeave, FlushNotify, Unseen, queueVars,
                  flushVars, controlVars, historyVars
    <2>2. \A u \in Threads : FlushOf(u)' = FlushOf(u)
      BY <1>6, <1>9, FlushOfSame
    <2> QED
      BY <1>5, <2>1, <2>2, StutterOf
  <1>10. CASE ~FlushRequest(t) /\ ~UNCHANGED <<call, target>>
    <2>1. Return(t, "flushLeave") \/ Return(t, "flushNotify")
      BY <1>10 DEF FlushEnter, FlushCheck, FlushWait, FlushLeave, FlushNotify
    <2>2. pc[t] \in {"flushLeave", "flushNotify"} /\ call'[t] = "none"
      BY <2>1 DEF Return, Goto, IInv, TypeOK, ThreadTypes
    <2>3. target[t] <= flushCompleted /\ target[t] \in Nat /\ flushCompleted \in Nat
      BY <2>2 DEF FlushInv, RequestInv, IInv, TypeOK, ThreadTypes, RuntimeTypes
    <2>4. FlushOf(t)' = "none"
      BY <2>2 DEF FlushOf
    <2>5. Unseen
      BY <1>10 DEF FlushEnter, FlushCheck, FlushWait, FlushLeave, FlushNotify, Unseen, queueVars,
                  flushVars, controlVars, historyVars
    <2>6. CASE target[t] = 0
      <3>1. FlushOf(t) = "none"
        BY <2>6 DEF FlushOf
      <3> QED
        BY <1>5, <1>7, <2>4, <2>5, <3>1, StutterOf
    <2>7. CASE target[t] # 0
      <3>1. FlushOf(t) = "answered"
        BY <1>1, <2>3, <2>7 DEF FlushOf
      <3>2. Service!Return(t)
        BY <1>5, <1>7, <2>4, <2>5, <3>1, UnseenPhase DEF Service!Return, Unseen
      <3> QED
        BY <3>2
    <2> QED
      BY <2>6, <2>7
  <1> QED
    BY <1>8, <1>9, <1>10

-----------------------------------------------------------------------------
(* The consumer *)

\* a record is written
LEMMA ConsumeMaps ==
    ASSUME IInv, Consume
    PROVE  \E q \in Queues : Service!Write(q)
  <1>1. cpc = "consume" /\ cpc' # "exited" /\ cur \in Queues
    BY DEF Consume, CGoto, IInv, ConsumerInv
  <1>2. depth[cur] > 0
    BY <1>1 DEF IInv, ConsumerInv, TypeOK, QueueTypes, ConsumerTypes
  <1>3. \A q \in Queues : LogOf(q)' = LogOf(q)
    BY LogOfSame DEF Consume, threadVars, InFlight
  <1>4. \A t \in Threads : FlushOf(t)' = FlushOf(t)
    BY FlushOfSame DEF Consume, threadVars, flushVars
  <1>5. Phase # "closed" /\ Phase' = Phase
    BY <1>1 DEF Consume, Phase, controlVars
  <1>6. Service!Write(cur)
    BY <1>1, <1>2, <1>3, <1>4, <1>5 DEF Consume, Service!Write, Service!Less
  <1> QED
    BY <1>1, <1>6

\* the sinks are flushed, for the flushes or for the last time
LEMMA FlushSinksMaps ==
    ASSUME IInv, FlushInv, ShutdownInv, FlushSinks
    PROVE  Service!Sync \/ Service!EndClose
  <1>1. \A q \in Queues : LogOf(q)' = LogOf(q)
    BY LogOfSame DEF FlushSinks, threadVars, InFlight
  <1>2. \A t \in Threads : FlushOf(t)' = FlushOf(t)
    BY FlushOfSame DEF FlushSinks, threadVars, flushVars
  <1>3. CASE CGoto("flushSinks", "complete")
    <2>1. Phase # "closed" /\ Phase' = Phase
      BY <1>3 DEF CGoto, FlushSinks, Phase, controlVars
    <2>2. Service!Sync
      BY <1>1, <1>2, <2>1 DEF FlushSinks, Service!Sync, Service!NoDebt, NoDebt, queueVars
    <2> QED
      BY <2>2
  <1>4. CASE CGoto("finalFlush", "exited")
    <2>1. mode = "final" /\ allDrained /\ pending = {} /\ Stopping
      BY <1>4 DEF CGoto, ShutdownInv, LastPassInv, IInv, ConsumerInv, DrainPCs
    <2>2. cpc # "exited" /\ lifecycle # "running"
      BY <1>4, <2>1 DEF CGoto, Stopping, ShutdownInv, DestroyInv, Working
    <2>3. Phase = "closing" /\ Phase' = "closed"
      BY <1>4, <2>2 DEF CGoto, Phase
    <2>4. owedAtExit = NoDebt
      <3>1. \A q \in Queues : ~(owedAtExit[q] > 0)
        BY <1>4, <2>1 DEF CGoto, ShutdownInv, FinalPassInv, AtSlot, DrainPCs
      <3> QED
        BY <3>1 DEF NoDebt, IInv, TypeOK, HistoryTypes
    <2>5. ASSUME NEW t \in Threads PROVE FlushOf(t) # "asked"
      <3>1. ~NeedsConsumer(t)
        BY <2>1 DEF ShutdownInv, QuietInv
      <3>2. target[t] > 0 => pc[t] \in {"flushLeave", "flushNotify"}
        BY <3>1 DEF NeedsConsumer, FlushInv, RequestInv, IInv, CallInv, TypeOK, ThreadTypes,
                    ThreadPCs
      <3>3. target[t] <= flushCompleted
        BY <3>2 DEF FlushInv, RequestInv, IInv, TypeOK, ThreadTypes, RuntimeTypes
      <3> QED
        BY <3>3 DEF FlushOf, IInv, TypeOK, ThreadTypes, RuntimeTypes
    <2>6. Service!EndClose
      BY <1>1, <1>2, <2>3, <2>4, <2>5
      DEF FlushSinks, Service!EndClose, Service!NoDebt, NoDebt, queueVars
    <2> QED
      BY <2>6
  <1> QED
    BY <1>3, <1>4 DEF FlushSinks

\* the flushes that the pass was for are answered
LEMMA CompleteMaps ==
    ASSUME IInv, FlushInv, Complete
    PROVE  Service!Answer
  <1> DEFINE C == {t \in Threads : FlushOf(t) = "asked" /\ target[t] <= requested}
  <1>1. cpc = "complete" /\ flushCompleted' = requested /\ UNCHANGED <<call, tgt, target, pc>>
    BY DEF Complete, CGoto, threadVars
  <1>2. \A q \in Queues : LogOf(q)' = LogOf(q)
    BY <1>1, LogOfSame DEF InFlight
  <1>3. \A t \in C : durable[t]
    BY <1>1 DEF FlushOf, Served, FlushInv, AnsweredInv, IInv, TypeOK, ThreadTypes
  <1>4. ASSUME NEW t \in Threads
        PROVE  FlushOf(t)' = IF t \in C THEN "answered" ELSE FlushOf(t)
    <2>1. flushCompleted \in Nat /\ requested \in Nat /\ target[t] \in Nat
          /\ flushCompleted <= requested
      BY DEF FlushInv, RequestInv, IInv, TypeOK, ThreadTypes, RuntimeTypes, ConsumerTypes
    <2> QED
      BY <1>1, <2>1 DEF FlushOf
  <1>5. Phase' = Phase
    BY DEF Complete, CGoto, Phase, controlVars
  <1>6. C \in SUBSET Threads
    OBVIOUS
  <1> HIDE DEF C
  <1>7. \A t \in C : FlushOf(t) = "asked"
    BY DEF C
  <1> QED
    BY <1>2, <1>3, <1>4, <1>5, <1>6, <1>7 DEF Complete, Service!Answer, queueVars, historyVars

LEMMA ConsumerMaps ==
    ASSUME IInv, FlushInv, ShutdownInv, Consumer
    PROVE  \/ \E q \in Queues : Service!Write(q)
           \/ Service!Sync \/ Service!EndClose \/ Service!Answer \/ UNCHANGED Service!vars
  <1>1. CASE Consume
    BY <1>1, ConsumeMaps
  <1>2. CASE FlushSinks
    BY <1>2, FlushSinksMaps
  <1>3. CASE Complete
    BY <1>3, CompleteMaps
  <1>4. CASE NotifyAll
    <2>1. Unseen
      BY <1>4 DEF NotifyAll, CGoto, Unseen, queueVars, flushVars, controlVars, historyVars
    <2>2. \A t \in Threads : pc'[t] = "produce" <=> pc[t] = "produce"
      BY <1>4 DEF NotifyAll
    <2> QED
      BY <1>4, <2>1, <2>2, QuietStep DEF NotifyAll
  <1>5. CASE \/ Sample \/ Visit \/ LoadCount \/ TakeWord \/ EndPass \/ Check1 \/ Clear \/ Check2
             \/ Remark \/ TryFree \/ Push \/ CheckFlush \/ CheckStop \/ Wait
    <2>1. Unseen /\ UNCHANGED <<call, tgt, target, pc>>
      <3>1. CASE Sample \/ Visit \/ LoadCount \/ TakeWord \/ EndPass
        BY <3>1 DEF Sample, Visit, LoadCount, TakeWord, EndPass, PassDone, CGoto, Unseen, queueVars,
                    flushVars, controlVars, historyVars, threadVars
      <3>2. CASE Check1 \/ Clear \/ Check2 \/ Remark \/ TryFree \/ Push
        BY <3>2 DEF Check1, Clear, Check2, Remark, TryFree, Push, CGoto, Unseen, queueVars,
                    flushVars, controlVars, historyVars, threadVars
      <3>3. CASE CheckFlush \/ CheckStop \/ Wait
        BY <3>3 DEF CheckFlush, CheckStop, Wait, CGoto, Unseen, queueVars,
                    flushVars, controlVars, historyVars, threadVars
      <3> QED
        BY <1>5, <3>1, <3>2, <3>3
    <2> QED
      BY <2>1, QuietStep
  <1> QED
    BY <1>1, <1>2, <1>3, <1>4, <1>5 DEF Consumer, Drain

-----------------------------------------------------------------------------
(* Destroy *)

LEMMA DestroyBeginMaps ==
    ASSUME IInv, ShutdownInv, NEW d \in Destroyers, DestroyBegin(d)
    PROVE  Service!BeginClose \/ UNCHANGED Service!vars
  <1>1. \A q \in Queues : LogOf(q)' = LogOf(q)
    BY LogOfSame DEF DestroyBegin, threadVars, InFlight
  <1>2. \A t \in Threads : FlushOf(t)' = FlushOf(t)
    BY FlushOfSame DEF DestroyBegin, threadVars, flushVars
  <1>3. CASE cpc = "exited"
    <2>1. \A q \in Queues : ~(owedAtExit[q] > 0)
      BY <1>3 DEF ShutdownInv, LastPassInv, FinalPassInv, AtSlot, DrainPCs, IInv, ConsumerInv
    <2>2. owedAtExit = NoDebt
      BY <2>1 DEF NoDebt, IInv, TypeOK, HistoryTypes
    <2>3. owedAtExit' = NoDebt
      BY <1>3 DEF DestroyBegin, NoDebt
    <2>4. lifecycle # "running"
      BY <1>3 DEF ShutdownInv, LastPassInv, Stopping, DestroyInv, Working
    <2>5. Unseen
      BY <2>2, <2>3, <2>4 DEF DestroyBegin, Unseen, queueVars, flushVars
    <2> QED
      BY <1>1, <1>2, <2>5, StutterOf
  <1>4. CASE cpc # "exited"
    <2>1. lifecycle = "running" /\ lifecycle' # "running"
      BY <1>4 DEF DestroyBegin, ShutdownInv, DestroyInv, IInv, TypeOK, RuntimeTypes
    <2>2. Phase = "open" /\ Phase' = "closing"
      BY <1>4, <2>1 DEF DestroyBegin, Phase
    <2>3. \A q \in Queues : InFlight(q) = {} <=> LogOf(q) = "none"
      BY DEF LogOf
    <2>4. owedAtExit' = [q \in Queues |-> IF LogOf(q) = "none" THEN depth[q] ELSE 0]
      BY <1>4, <2>3 DEF DestroyBegin
    <2>5. Service!BeginClose
      BY <1>1, <1>2, <2>2, <2>4 DEF DestroyBegin, Service!BeginClose, queueVars
    <2> QED
      BY <2>5
  <1> QED
    BY <1>3, <1>4

LEMMA DestroyStepMaps ==
    ASSUME IInv, ShutdownInv, NEW d \in Destroyers, DestroyTwice(d) \/ DestroyStep(d)
    PROVE  UNCHANGED Service!vars
  <1>1. UNCHANGED <<call, tgt, target, pc>>
    BY DEF DestroyTwice, DestroyStep, WaitFlushers, RequestStop, BumpStop, NotifyStop, Join,
           ResetSinks, DestroyEnd, threadVars
  <1>2. Unseen
    <2>1. CASE DestroyEnd(d)
      <3>1. lifecycle # "running"
        BY <2>1 DEF DestroyEnd, DGoto, ShutdownInv, DestroyInv, Working
      <3> QED
        BY <2>1, <3>1 DEF DestroyEnd, Unseen, queueVars, flushVars, historyVars
    <2>2. CASE ~DestroyEnd(d)
      BY <2>2 DEF DestroyTwice, DestroyStep, WaitFlushers, RequestStop, BumpStop, NotifyStop,
                  NotifyConsumer, Join, ResetSinks, Unseen, queueVars, flushVars, controlVars,
                  historyVars
    <2> QED
      BY <2>1, <2>2
  <1> QED
    BY <1>1, <1>2, QuietStep

-----------------------------------------------------------------------------
(* The refinement *)

LEMMA InitMaps == Init => Service!Init
  <1> SUFFICES ASSUME Init PROVE Service!Init
    OBVIOUS
  <1>1. Phase = "open"
    BY DEF Init, Phase
  <1>2. \A q \in Queues : LogOf(q) = "none"
    BY DEF Init, LogOf, InFlight
  <1>3. \A t \in Threads : FlushOf(t) = "none"
    BY DEF Init, FlushOf
  <1> QED
    BY <1>1, <1>2, <1>3 DEF Init, Service!Init, Service!NoDebt, NoDebt

LEMMA StepMaps ==
    IInv /\ NoTargetInv /\ FlushInv /\ ShutdownInv /\ [Next]_vars => [Service!Next]_Service!vars
  <1> SUFFICES ASSUME IInv, NoTargetInv, FlushInv, ShutdownInv, [Next]_vars
               PROVE  Service!Next \/ UNCHANGED Service!vars
    OBVIOUS
  <1>1. ASSUME NEW t \in Threads, Begin(t) PROVE Service!Next \/ UNCHANGED Service!vars
    BY <1>1, BeginMaps DEF Service!Next
  <1>2. ASSUME NEW t \in Threads, Continue(t) PROVE Service!Next \/ UNCHANGED Service!vars
    <2>1. \/ \E q \in Queues : Service!Log(q) \/ Service!Accept(q) \/ Service!Acknowledge(q)
          \/ Service!Ask(t) \/ Service!Return(t) \/ UNCHANGED Service!vars
      BY <1>2, AcquireMaps, ProduceMaps, LogCallMaps, WakeMaps, FlushMaps DEF Continue
    <2> QED
      BY <2>1 DEF Service!Next
  <1>3. ASSUME Consumer PROVE Service!Next \/ UNCHANGED Service!vars
    BY <1>3, ConsumerMaps DEF Service!Next
  <1>4. ASSUME NEW d \in Destroyers, DestroyBegin(d) \/ DestroyTwice(d) \/ DestroyStep(d)
        PROVE  Service!Next \/ UNCHANGED Service!vars
    BY <1>4, DestroyBeginMaps, DestroyStepMaps DEF Service!Next
  <1>5. ASSUME UNCHANGED vars PROVE UNCHANGED Service!vars
    <2>1. Unseen /\ UNCHANGED <<call, tgt, target, pc>>
      BY <1>5 DEF vars, Unseen, queueVars, flushVars, controlVars, historyVars, threadVars
    <2> QED
      BY <2>1, QuietStep
  <1> QED
    BY <1>1, <1>2, <1>3, <1>4, <1>5 DEF Next

\* Every run of the producer / consumer handoff is one the service allows.
THEOREM HandoffImplementsService == Spec => ImplementsService
  <1>1. Init => Service!Init
    BY InitMaps
  <1>2. IInv /\ NoTargetInv /\ FlushInv /\ ShutdownInv /\ [Next]_vars
            => [Service!Next]_Service!vars
    BY StepMaps
  <1> QED
    BY <1>1, <1>2, Inductive, NoTargetInductive, FlushInductive, ShutdownInductive, PTL
    DEF Spec, ImplementsService, Service!Spec
=============================================================================
