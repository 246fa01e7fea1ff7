---------------------------- MODULE HandoffService ----------------------------
(***************************************************************************)
(* Handoff implements LogService: the refinement mapping.  A flush exists  *)
(* for the service from its request to its return, and is answered when    *)
(* the completed count has reached it; the service is closed when the      *)
(* consumer has exited.                                                    *)
(***************************************************************************)
EXTENDS HandoffPromises

FlushOf(t) ==
    IF call[t] # "flush" \/ target[t] = 0 THEN "none"
    ELSE IF flushCompleted < target[t] THEN "asked" ELSE "answered"

\* a producer has one log call at a time
LogOf(q) ==
    IF InFlight(q) = {} THEN "none"
    ELSE IF \E t \in InFlight(q) : pc[t] = "produce" THEN "begun" ELSE "accepted"

Phase == IF cpc = "exited" THEN "closed" ELSE IF lifecycle = "running" THEN "open" ELSE "closing"

Service == INSTANCE LogService WITH
    Clients  <- Threads,
    phase    <- Phase,
    queued   <- depth,
    logging  <- [q \in Queues |-> LogOf(q)],
    flush    <- [t \in Threads |-> FlushOf(t)],
    debt     <- owed,
    synced   <- durable,
    lastDebt <- owedAtExit

\* Every run of the producer / consumer handoff is one the service allows: no
\* record is written twice or after the last sync, no flush is answered before the
\* records it was asked to wait for are durable, and the consumer exits only with
\* the debts of destroy paid and no flush left waiting.
ImplementsService == Service!Spec
=============================================================================
