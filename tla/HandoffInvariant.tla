--------------------------- MODULE HandoffInvariant ---------------------------
(***************************************************************************)
(* The inductive invariant behind the safety properties of Handoff, as     *)
(* named conjuncts.  The runs check it, HandoffProofs proves it.           *)
(***************************************************************************)
EXTENDS Handoff

DrainPCs == {"next", "consume", "check1", "clear", "check2", "remark", "tryFree", "push"}
FlushPCs == {"flushEnter", "flushCheck", "flushRequest", "flushWait", "flushBlocked",
             "flushLeave", "flushNotify"}

\* the consumer is at producer q and has yet to take its enqueued flag down
Visiting(q) == cur = q /\ cpc \in {"consume", "check1", "clear"}

\* some thread is at one of these points of a log or exit call on producer q
CallAt(q, points) ==
    \E t \in Threads : tgt[t] = q /\ call[t] \in {"log", "exit"} /\ pc[t] \in points

\* the same of a log call
LogAt(q, points) ==
    \E t \in Threads : tgt[t] = q /\ call[t] = "log" /\ pc[t] \in points

\* where each call may be, and on which producer
CallInv ==
    \A t \in Threads :
        /\ pc[t] = "idle" <=> call[t] = "none"
        /\ pc[t] = "acquire" => call[t] \in {"log", "prewarm"} /\ tls[t] = NoSlot
        /\ pc[t] \in {"produce", "mark"} => call[t] = "log"
        /\ pc[t] = "publish" => call[t] \in {"log", "exit"} /\ tgt[t] \in Slots
        /\ pc[t] \in {"bump", "notify"} => call[t] \in {"log", "exit", "flush"}
        /\ pc[t] \in FlushPCs => call[t] = "flush"
        /\ call[t] = "log" /\ pc[t] # "acquire" =>
              \/ tgt[t] \in Slots /\ tgt[t] = tls[t]
              \/ tgt[t] \in Singles /\ SingleOwner[tgt[t]] = t
        /\ call[t] = "exit" => tgt[t] \in Slots /\ tgt[t] = tls[t]
        /\ call[t] = "exit" => pc[t] \in {"publish", "bump", "notify"}
        /\ tls[t] # NoSlot => tls[t] < count

\* what the consumer's local variables hold at each point of its loop
ConsumerInv ==
    /\ cpc = "consume" => cur \in Queues /\ 1 <= todo /\ todo <= depth[cur]
    /\ cpc \in {"check1", "clear", "check2", "remark"} => cur \in Queues
    /\ cpc \in {"tryFree", "push"} => cur \in Slots
    /\ cpc = "push" => slotState[cur] = "free"
    /\ cpc \notin DrainPCs => pending = {}
    /\ stage = "singles" => pending \subseteq Singles
    /\ cpc \in {"checkFlush", "checkStop", "wait", "blocked"} => mode = "ready"
    /\ cpc \in {"wait", "blocked"} => allDrained
    /\ \A s \in Slots : s \in bits \cup pending \cup {cur} => s < count
    /\ \A s \in Slots : s < count <=> slotState[s] # "none"

\* the slots that are on the free list
Listed == {s \in Slots : slotState[s] = "free" /\ ~(cpc = "push" /\ cur = s)}

\* no listed slot is pointed at twice, and none is lost from the front
FreeListInv ==
    /\ freeHead # NoSlot => freeHead \in Listed
    /\ \A s \in Listed : nextFree[s] # NoSlot =>
          /\ nextFree[s] \in Listed
          /\ nextFree[s] # freeHead
          /\ \A r \in Listed : nextFree[r] = nextFree[s] => r = s

\* a raised enqueued flag has somebody who will visit the slot
EnqueuedInv ==
    \A s \in Slots : enqueued[s] =>
        s \in bits \cup pending \/ Visiting(s) \/ LogAt(s, {"publish"})

\* so has a queue that holds records
DepthInv ==
    \A q \in Queues : depth[q] > 0 =>
        \/ enqueued[q]
        \/ cur = q /\ cpc \in {"check2", "remark"}
        \/ LogAt(q, {"mark"})
        \/ q \in Slots /\ (q \in bits \cup pending \/ Visiting(q) \/ LogAt(q, {"publish"}))

\* and a retired slot
RetiredInv ==
    \A s \in Slots : slotState[s] = "retired" =>
        \/ s \in bits \cup pending \/ Visiting(s)
        \/ cur = s /\ cpc \in {"check2", "remark", "tryFree"}
        \/ CallAt(s, {"publish"})

\* The consumer is about to sleep on a ticket nobody has moved.
Dozing == ~woken /\ mode = "ready" /\ allDrained

\* the consumer's pass has left slot s, or single q, behind
PassedSlot(s) ==
    \/ cpc \in {"checkFlush", "checkStop", "wait", "blocked"}
    \/ cpc \in DrainPCs /\ stage = "registry" /\ s \div SlotsPerWord \notin word .. words - 1
PassedSingle(q) ==
    \/ cpc \in {"checkFlush", "checkStop", "wait", "blocked"}
    \/ cpc \in DrainPCs /\ q \notin pending /\ ~Visiting(q)

\* What a dozing consumer has passed by and will not see again before it sleeps,
\* somebody is about to wake it for: a ready bit, a single-threaded producer, a
\* flush request, a stop request.
DozingBits ==
    Dozing => \A s \in bits : PassedSlot(s) => CallAt(s, {"bump"})
DozingSingles ==
    Dozing => \A q \in Singles : enqueued[q] /\ PassedSingle(q) => CallAt(q, {"bump"})
DozingFlush ==
    ~woken /\ cpc \in {"checkStop", "wait", "blocked"} /\ flushRequested # flushCompleted =>
        \E t \in Threads : call[t] = "flush" /\ pc[t] = "bump"
DozingStop ==
    ~woken /\ cpc \in {"wait", "blocked"} /\ stop => \E d \in Destroyers : dpc[d] = "bump"

\* a consumer that sleeps on a ticket that has moved is about to be notified
AsleepInv == cpc = "blocked" /\ woken => NotifyPending

IInv ==
    /\ TypeOK /\ CallInv /\ ConsumerInv
    /\ FreeListInv /\ SingleProducer
    /\ EnqueuedInv /\ DepthInv /\ RetiredInv
    /\ DozingBits /\ DozingSingles /\ DozingFlush /\ DozingStop /\ AsleepInv

\* The free list reaches every listed slot and has an end, and a slot off the list
\* points nowhere: inductive together with IInv.
FreeChainInv ==
    /\ \A C \in SUBSET Slots : ListClosed(C) => Listed \subseteq C
    /\ Listed # {} => \E s \in Listed : nextFree[s] = NoSlot
    /\ \A s \in Slots \ Listed : nextFree[s] = NoSlot
=============================================================================
