-------------------------- MODULE LifecycleInvariant --------------------------
(* The inductive invariant of Lifecycle, which LifecycleProofs proves. *)
EXTENDS Lifecycle

Alive(g) == consumer[g] \in {"loop", "checked"}

\* TypeOK, but for the counts, in two parts
StateTypes ==
    /\ lifecycle \in {"uninitialized", "configuring", "running", "shutting_down", "shut_down"}
    /\ state \in States \cup {None}
    /\ config \in [States -> Configs \cup {"none"}]
    /\ configured \in [States -> [Names -> Levels \cup {"none"}]]
    /\ level \in [States -> [Names -> Levels]]
    /\ globalLevel \in [States -> Levels]
    /\ producers \in [States -> SUBSET {"single_normal_", "single_huge_"}]
    /\ consumer \in [States -> {"none", "loop", "checked", "exited"}]
    /\ stop \in [States -> BOOLEAN] /\ sinksOpen \in [States -> BOOLEAN]

CallTypes ==
    /\ pc \in [Threads -> {"idle"} \cup Calls \cup FlushPCs \cup DestroyPCs]
    /\ backend \in [Threads -> States \cup {None}]
    /\ held \in [Threads -> States \cup {None}]
    /\ finalLifecycle \in [Threads -> {"none", "uninitialized", "shut_down"}]

\* states are numbered by creation
Numbered == \E k \in 0 .. MaxStates : created = 1 .. k

\* and those to come are as new
FreshInv ==
    /\ state # None => state \in created
    /\ \A g \in States \ created :
          /\ consumer[g] = "none" /\ ~stop[g] /\ sinksOpen[g]
          /\ \A n \in Names : level[g][n] = "off"

\* when there is a current state, and what is still ahead of it
ControlInv ==
    /\ lifecycle \in {"configuring", "running", "shutting_down"} => state # None
    /\ lifecycle = "uninitialized" => state = None
    /\ lifecycle = "configuring" => consumer[state] = "none" /\ ~stop[state] /\ sinksOpen[state]
    /\ lifecycle \in {"uninitialized", "shut_down"} => \A g \in States : ~Alive(g)

\* one thread destroys at a time, the current state, and past the join nothing runs
DestroyInv ==
    /\ \A t \in Threads : pc[t] \in DestroyPCs =>
          /\ lifecycle = "shutting_down" /\ held[t] = state
          /\ finalLifecycle[t] \in {"uninitialized", "shut_down"}
          /\ pc[t] \in {"reset", "final"} => ~Alive(state)
    /\ \A t, u \in Threads : pc[t] \in DestroyPCs /\ pc[u] \in DestroyPCs => t = u

\* the single-threaded producers of a running state's channels are there
PreparedInv == lifecycle = "running" => Needed(state) \subseteq producers[state]

LInv ==
    /\ StateTypes /\ CallTypes /\ Numbered /\ FreshInv /\ ControlInv /\ DestroyInv /\ PreparedInv
    /\ OneConsumer /\ RunningIsServed /\ ProducersReady
    /\ StartFails \/ InertUnlessRunning

-----------------------------------------------------------------------------
(* Flushes, which hold a state without a lock, whatever becomes of it *)

\* states become current in the order they are numbered, and a flush holds one of them
OrderInv ==
    /\ state # None => \A g \in created : g <= state
    /\ \A t \in Threads : pc[t] \in FlushPCs => held[t] \in created

\* flushes are counted in and out of the state they hold
Counted(t, g) == held[t] = g /\ pc[t] \in FlushPCs \ {"flushEnter"}
FlushersInv == flushers = [g \in States |-> Cardinality({t \in Threads : Counted(t, g)})]

\* the state of a flush that has found the lifecycle running is the running one, or
\* another has taken its place since
Attended(g) == Alive(g) /\ ~stop[g]
ServedInv ==
    \A t \in Threads : pc[t] \in {"flushRequest", "flushWait"} =>
        Attended(held[t]) \/ \E g \in created : held[t] < g

FlushesInv == OrderInv /\ FlushersInv /\ ServedInv

\* The whole inductive invariant.
LifecycleInv == TypeOK /\ LInv /\ FlushesInv
=============================================================================
