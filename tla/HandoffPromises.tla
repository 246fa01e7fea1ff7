---------------------------- MODULE HandoffPromises ----------------------------
(***************************************************************************)
(* What has to hold, beyond IInv, for flush and destroy to keep their      *)
(* promises: FlushInv and ShutdownInv are inductive together with IInv.    *)
(* The runs check them; HandoffPromisesProofs proves them.                 *)
(***************************************************************************)
EXTENDS HandoffInvariant

-----------------------------------------------------------------------------
(* Flush *)

\* thread t is counted in activeFlushers
Flushing(t) == call[t] = "flush" /\ pc[t] \notin {"flushEnter", "flushNotify"}

\* it is past the check of the lifecycle, and needs the consumer to go on
NeedsConsumer(t) ==
    call[t] = "flush" /\ pc[t] \in {"flushRequest", "bump", "notify", "flushWait", "flushBlocked"}

\* the request counts follow each other, and each flush's own request them
RequestInv ==
    /\ flushCompleted <= requested /\ requested <= flushRequested
    /\ \A t \in Threads :
          /\ target[t] <= flushRequested
          /\ target[t] > 0 =>
                call[t] = "flush" /\ pc[t] \notin {"flushEnter", "flushCheck", "flushRequest"}
          /\ NeedsConsumer(t) /\ pc[t] # "flushRequest" => target[t] > 0
          /\ pc[t] \in {"flushLeave", "flushNotify"} => target[t] <= flushCompleted

\* no more is owed than is there: queues are first in, first out
OwedInv ==
    /\ \A t \in Threads : \A q \in Queues : owed[t][q] <= depth[q]
    /\ \A q \in Queues : owedAtExit[q] <= depth[q]

\* a slot that a flush owes its caller keeps waiting for the consumer
OwedSlotsInv ==
    \A t \in Threads : \A s \in owedSlots[t] : slotState[s] = "retired" \/ (cpc = "push" /\ cur = s)

FlushPass == mode = "flush" /\ cpc \in DrainPCs \cup {"flushSinks"}

\* the consumer has read the request of thread t's flush
Served(t) == target[t] > 0 /\ target[t] <= requested

\* the flush pass has still to visit q
Coming(q) == q \in pending \/ (stage = "singles" /\ q \in Slots)

\* a flush pass walks the slots that were there, and looks at no ready bit
WalkInv ==
    /\ FlushPass /\ stage = "registry" => word = words
    /\ cpc = "flushSinks" => mode = "flush" /\ stage = "registry"

\* what a flush pass owes those it serves is still ahead of it
FlushPassInv ==
    FlushPass => \A t \in Threads : Served(t) => \A q \in Queues : owed[t][q] > 0 =>
        Coming(q) \/ (cur = q /\ cpc = "consume" /\ owed[t][q] <= todo)

ReclaimPassInv ==
    FlushPass => \A t \in Threads : Served(t) => \A s \in owedSlots[t] :
        \/ Coming(s)
        \/ /\ cur = s
           /\ \/ cpc = "consume" /\ depth[s] = todo
              \/ cpc \in {"check1", "clear", "check2"} /\ depth[s] = 0
              \/ cpc \in {"tryFree", "push"}

\* a flush that is answered, or about to be, has got what it asked for
AnsweredInv ==
    \A t \in Threads :
        target[t] > 0 /\ (target[t] <= flushCompleted \/ (cpc = "complete" /\ Served(t))) =>
            durable[t] /\ owedSlots[t] = {}

FlushInv ==
    /\ RequestInv /\ OwedInv /\ OwedSlotsInv
    /\ WalkInv /\ FlushPassInv /\ ReclaimPassInv /\ AnsweredInv

-----------------------------------------------------------------------------
(* Shutdown *)

\* flushes are counted in and out
CountInv == activeFlushers = Cardinality({t \in Threads : Flushing(t)})

Working(d) == dpc[d] \notin {"idle", "done"}

\* the consumer may have been told to stop
Stopping == stop \/ ~consumerStarted

\* destroyers work one at a time and take the runtime down in order
DestroyInv ==
    /\ \A d \in Destroyers : Working(d) => lifecycle = "shutting_down"
    /\ \A d, e \in Destroyers : Working(d) /\ Working(e) => d = e
    /\ \A d \in Destroyers : dpc[d] \in {"stop", "bump", "notify", "join"} => consumerStarted
    /\ \A d \in Destroyers : dpc[d] \in {"bump", "notify", "join"} => stop
    /\ stop => \E d \in Destroyers : dpc[d] \in {"bump", "notify", "join"}
    /\ \A d \in Destroyers : dpc[d] \in {"reset", "final"} => ~consumerStarted
    /\ lifecycle = "shut_down" => ~consumerStarted
    /\ lifecycle = "running" <=> enabled
    /\ ~consumerStarted => lifecycle # "running" /\ cpc = "exited"
    /\ ~sinksOpen => ~consumerStarted

\* the consumer drains for the last time only when it is told to stop
LastPassInv ==
    /\ mode = "final" => Stopping /\ cpc \in DrainPCs \cup {"finalFlush", "exited"}
    /\ cpc \in {"finalFlush", "exited"} => mode = "final" /\ allDrained

\* from the moment that destroy has found no flusher, none needs the consumer
QuietInv ==
    Stopping \/ (\E d \in Destroyers : dpc[d] = "stop") => \A t \in Threads : ~NeedsConsumer(t)

AtSlot == {"consume", "check1", "clear", "check2", "remark"}

\* A slot may be freed with a record in it, one that came and whose thread went
\* between the last look at the queue and the look at the lifecycle.  The consumer
\* that comes for it takes all there is.
FreedInv ==
    \A s \in Slots : cur = s /\ slotState[s] = "free" =>
        /\ cpc = "consume" => depth[s] <= todo
        /\ cpc \in AtSlot \ {"consume"} => depth[s] = 0

\* A slot with a debt has its ready bit, or is in the consumer's hands, with no
\* log call about that could raise its flag and keep the bit back.
DebtInv ==
    \A q \in Queues : owedAtExit[q] > 0 =>
        /\ ~enabled
        /\ q \in Slots =>
              \/ q \in bits \cup pending
              \/ cur = q /\ cpc = "consume" /\ owedAtExit[q] <= todo
              \/ cur = q /\ cpc \in AtSlot /\ InFlight(q) = {} /\ slotState[q] # "free"

\* a last pass that ends with all queues drained has left no debt behind
FinalPassInv ==
    mode = "final" /\ allDrained => \A q \in Queues : owedAtExit[q] > 0 =>
        \/ q \in pending
        \/ cur = q /\ cpc \in AtSlot
        \/ /\ cpc \in DrainPCs /\ q \in Slots
           /\ stage = "singles" \/ q \div SlotsPerWord \in word .. words - 1

ShutdownInv ==
    /\ CountInv /\ DestroyInv /\ LastPassInv /\ QuietInv
    /\ FreedInv /\ DebtInv /\ FinalPassInv

-----------------------------------------------------------------------------
PInv == IInv /\ FreeChainInv /\ FlushInv /\ ShutdownInv
=============================================================================
