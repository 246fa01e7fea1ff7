------------------------------ MODULE LogService ------------------------------
(***************************************************************************)
(* What the logger promises to those who use it, without the machinery     *)
(* that keeps the promise: records are accepted into queues and written    *)
(* from them in order, a flush is answered only when everything that was   *)
(* queued when it was asked for has been written and synced, and a closed  *)
(* service has written what it owed and leaves no flush waiting.           *)
(*                                                                         *)
(* Handoff implements this specification (module HandoffService).          *)
(***************************************************************************)
EXTENDS Naturals

CONSTANTS
    Queues,     \* producers, each with a queue of its own
    Clients,    \* threads that ask for a flush
    Capacity    \* records one queue holds

VARIABLES
    phase,      \* "open", "closing" or "closed"
    queued,     \* records accepted and not yet written
    logging,    \* the log call that works on each queue
    flush,      \* each client's flush
    debt,       \* records a flush, once asked for, still has to see written
    synced,     \* they have been, and the sinks were flushed afterwards
    lastDebt    \* records that must be written before the service closes

vars == <<phase, queued, logging, flush, debt, synced, lastDebt>>

NoDebt == [q \in Queues |-> 0]
Less(n) == IF n > 0 THEN n - 1 ELSE 0

Init ==
    /\ phase = "open"
    /\ queued = NoDebt
    /\ logging = [q \in Queues |-> "none"]
    /\ flush = [c \in Clients |-> "none"]
    /\ debt = [c \in Clients |-> NoDebt]
    /\ synced = [c \in Clients |-> TRUE]
    /\ lastDebt = NoDebt

\* a thread comes to log to queue q
Log(q) ==
    /\ logging[q] = "none"
    /\ logging' = [logging EXCEPT ![q] = "begun"]
    /\ UNCHANGED <<phase, queued, flush, debt, synced, lastDebt>>

\* its record is accepted, if need be while the service closes
Accept(q) ==
    /\ logging[q] = "begun"
    /\ queued[q] < Capacity
    /\ queued' = [queued EXCEPT ![q] = @ + 1]
    /\ logging' = [logging EXCEPT ![q] = "accepted"]
    /\ UNCHANGED <<phase, flush, debt, synced, lastDebt>>

\* the log call returns, its record accepted or not
Acknowledge(q) ==
    /\ logging[q] # "none"
    /\ logging' = [logging EXCEPT ![q] = "none"]
    /\ UNCHANGED <<phase, queued, flush, debt, synced, lastDebt>>

\* the oldest record of a queue is written to its sinks
Write(q) ==
    /\ phase # "closed"
    /\ queued[q] > 0
    /\ queued' = [queued EXCEPT ![q] = @ - 1]
    /\ debt' = [c \in Clients |-> [debt[c] EXCEPT ![q] = Less(@)]]
    /\ lastDebt' = [lastDebt EXCEPT ![q] = Less(@)]
    /\ UNCHANGED <<phase, logging, flush, synced>>

\* the sinks are flushed
Sync ==
    /\ phase # "closed"
    /\ synced' = [c \in Clients |-> synced[c] \/ debt[c] = NoDebt]
    /\ UNCHANGED <<phase, queued, logging, flush, debt, lastDebt>>

Ask(c) ==
    /\ phase # "closed"
    /\ flush[c] = "none"
    /\ flush' = [flush EXCEPT ![c] = "asked"]
    /\ debt' = [debt EXCEPT ![c] = queued]
    /\ synced' = [synced EXCEPT ![c] = FALSE]
    /\ UNCHANGED <<phase, queued, logging, lastDebt>>

\* one answer may serve several flushes
Answer ==
    \E C \in SUBSET Clients :
        /\ \A c \in C : flush[c] = "asked" /\ synced[c]
        /\ flush' = [c \in Clients |-> IF c \in C THEN "answered" ELSE flush[c]]
        /\ UNCHANGED <<phase, queued, logging, debt, synced, lastDebt>>

Return(c) ==
    /\ flush[c] = "answered"
    /\ flush' = [flush EXCEPT ![c] = "none"]
    /\ UNCHANGED <<phase, queued, logging, debt, synced, lastDebt>>

\* what a queue holds is owed, unless somebody is still logging to it
BeginClose ==
    /\ phase = "open"
    /\ phase' = "closing"
    /\ lastDebt' = [q \in Queues |-> IF logging[q] = "none" THEN queued[q] ELSE 0]
    /\ UNCHANGED <<queued, logging, flush, debt, synced>>

\* the service closes with a last sync, all debts paid
EndClose ==
    /\ phase = "closing"
    /\ lastDebt = NoDebt
    /\ \A c \in Clients : flush[c] # "asked"
    /\ phase' = "closed"
    /\ synced' = [c \in Clients |-> synced[c] \/ debt[c] = NoDebt]
    /\ UNCHANGED <<queued, logging, flush, debt, lastDebt>>

Next ==
    \/ \E q \in Queues : Log(q) \/ Accept(q) \/ Acknowledge(q) \/ Write(q)
    \/ \E c \in Clients : Ask(c) \/ Return(c)
    \/ Sync \/ Answer \/ BeginClose \/ EndClose

Spec == Init /\ [][Next]_vars
=============================================================================
