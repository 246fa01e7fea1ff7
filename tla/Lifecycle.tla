------------------------------ MODULE Lifecycle ------------------------------
(***************************************************************************)
(* The control plane of src/channel.cpp: one runtime_control, the          *)
(* runtime_state it points to and those it has retired, and the calls that *)
(* configure, start, flush and destroy the runtime.                        *)
(*                                                                         *)
(* Every public call first looks the producer backend up                   *)
(* (access_producer_backend, a critical section of its own) and then works *)
(* on it in a second critical section, or in flush's case in none: another *)
(* call may come between.  What the consumer does with records is the      *)
(* subject of Handoff; here it serves flush requests and stops.            *)
(***************************************************************************)
EXTENDS Integers, FiniteSets

CONSTANTS
    Threads,            \* threads that use the library
    Names,              \* channel names
    ProducerOf,         \* what each name's channel logs to: the backend's "single_normal_"
                        \* or "single_huge_", or a "threadsafe" slot of the calling thread
    Configs,            \* compile-time global configurations
    MaxStates,          \* bound: runtime states created in a run
    MaxFlushes,         \* bound: flush requests made of one state
    StartFails          \* whether memory or threads may run out in start

ASSUME ThreadsAssumption == IsFiniteSet(Threads)
ASSUME StatesAssumption == MaxStates \in Nat \ {0} /\ MaxFlushes \in Nat
ASSUME ConfigsAssumption == "none" \notin Configs
ASSUME KindsAssumption == ProducerOf \in [Names -> {"single_normal_", "single_huge_", "threadsafe"}]
ASSUME FailsAssumption == StartFails \in BOOLEAN

States == 1 .. MaxStates            \* runtime states, in order of creation
None == 0                           \* a null state pointer
Levels == {"info", "off"}
Calls == {"make_channel", "add_sink", "start", "set_global_level", "query", "flush"}

VARIABLES
    lifecycle,      \* runtime_control::lifecycle
    state,          \* runtime_control::state
    hook,           \* process_exit_hook_registered, and then run
    created,        \* the runtime states that exist
    config,         \* global, once the state has a producer backend
    configured,     \* each channel's configured_level_, "none" if there is none
    level,          \* each channel's level_
    globalLevel,    \* global_level
    producers,      \* the single-threaded producers each state's backend has
    consumer,       \* each state's consumer thread
    stop, sinksOpen,
    requested, completed, flushers,
    pc, backend,    \* each thread's place in its call, and the backend it holds
    held,           \* the state a flush, or a destroy, works on
    target,         \* the flush request it waits for
    finalLifecycle  \* final_lifecycle of a destroy, "none" otherwise

controlVars == <<lifecycle, state, hook>>
configVars  == <<created, config, configured, level, globalLevel>>
runVars     == <<producers, consumer, stop, sinksOpen>>
flushVars   == <<requested, completed, flushers>>
threadVars  == <<pc, backend, held, target, finalLifecycle>>
vars == <<controlVars, configVars, runVars, flushVars, threadVars>>

FlushPCs   == {"flushEnter", "flushCheck", "flushRequest", "flushWait", "flushLeave"}
DestroyPCs == {"waitFlushers", "join", "reset", "final"}

TypeOK ==
    /\ lifecycle \in {"uninitialized", "configuring", "running", "shutting_down", "shut_down"}
    /\ state \in States \cup {None}
    /\ hook \in {"none", "registered", "run"}
    /\ created \subseteq States
    /\ config \in [States -> Configs \cup {"none"}]
    /\ configured \in [States -> [Names -> Levels \cup {"none"}]]
    /\ level \in [States -> [Names -> Levels]]
    /\ globalLevel \in [States -> Levels]
    /\ producers \in [States -> SUBSET {"single_normal_", "single_huge_"}]
    /\ consumer \in [States -> {"none", "loop", "checked", "exited"}]
    /\ stop \in [States -> BOOLEAN] /\ sinksOpen \in [States -> BOOLEAN]
    /\ requested \in [States -> Nat] /\ completed \in [States -> Nat]
    /\ flushers \in [States -> Nat]
    /\ pc \in [Threads -> {"idle"} \cup Calls \cup FlushPCs \cup DestroyPCs]
    /\ backend \in [Threads -> States \cup {None}]
    /\ held \in [Threads -> States \cup {None}]
    /\ target \in [Threads -> Nat]
    /\ finalLifecycle \in [Threads -> {"none", "uninitialized", "shut_down"}]

Init ==
    /\ lifecycle = "uninitialized" /\ state = None /\ hook = "none"
    /\ created = {}
    /\ config = [g \in States |-> "none"]
    /\ configured = [g \in States |-> [n \in Names |-> "none"]]
    /\ level = [g \in States |-> [n \in Names |-> "off"]]
    /\ globalLevel = [g \in States |-> "info"]
    /\ producers = [g \in States |-> {}]
    /\ consumer = [g \in States |-> "none"]
    /\ stop = [g \in States |-> FALSE]
    /\ sinksOpen = [g \in States |-> TRUE]
    /\ requested = [g \in States |-> 0]
    /\ completed = [g \in States |-> 0]
    /\ flushers = [g \in States |-> 0]
    /\ pc = [t \in Threads |-> "idle"]
    /\ backend = [t \in Threads |-> None]
    /\ held = [t \in Threads |-> None]
    /\ target = [t \in Threads |-> 0]
    /\ finalLifecycle = [t \in Threads |-> "none"]

-----------------------------------------------------------------------------
(* What the calls are built from *)

Goto(t, from, to) == pc[t] = from /\ pc' = [pc EXCEPT ![t] = to]

\* the call returns, or throws, and its local variables are gone
Return(t) ==
    /\ pc' = [pc EXCEPT ![t] = "idle"]
    /\ backend' = [backend EXCEPT ![t] = None]
    /\ held' = [held EXCEPT ![t] = None]
    /\ target' = [target EXCEPT ![t] = 0]
    /\ finalLifecycle' = [finalLifecycle EXCEPT ![t] = "none"]

\* ensure_state_created_locked leaves state g current, and throws if there is
\* none and the runtime is being, or has been, shut down.  Bound: MaxStates.
EnsureState(g) ==
    /\ lifecycle \notin {"shutting_down", "shut_down"}
    /\ IF state # None
       THEN g = state /\ UNCHANGED <<lifecycle, state, created>>
       ELSE /\ g = Cardinality(created) + 1 /\ g \in States
            /\ state' = g
            /\ created' = created \cup {g}
            /\ lifecycle' = "configuring"

RegisterHook == hook' = IF hook = "none" THEN "registered" ELSE hook

\* does the state a call finds own the backend the call looked up?
Owns(g, t) == config[g] # "none" /\ g = backend[t]

LifecycleAfter(g) == IF state = None THEN "configuring" ELSE lifecycle

Channels(g) == {n \in Names : configured[g][n] # "none"}

-----------------------------------------------------------------------------
(* access_producer_backend, the first half of every public call *)

Access(t, c, op) ==
    /\ Goto(t, "idle", op)
    /\ \E g \in States :
          /\ EnsureState(g)
          /\ config[g] \in {"none", c}
          /\ config' = [config EXCEPT ![g] = c]
          /\ backend' = [backend EXCEPT ![t] = g]
    /\ RegisterHook
    /\ UNCHANGED <<configured, level, globalLevel, runVars, flushVars,
                   held, target, finalLifecycle>>

\* "process already uses a different compile-time global configuration": the
\* state and the exit hook stay behind
AccessMismatch(t, c) ==
    /\ pc[t] = "idle"
    /\ state # None /\ config[state] \notin {"none", c}
    /\ lifecycle \notin {"shutting_down", "shut_down"}
    /\ RegisterHook
    /\ UNCHANGED <<lifecycle, state, configVars, runVars, flushVars, threadVars>>

\* The second half of make_channel, add_sink or set_global_level throws: the
\* runtime has been shut down, is past configuring, or belongs to another
\* backend.  A state that was created on the way stays behind.
Refused(t, op, needsConfiguring) ==
    /\ pc[t] = op
    /\ Return(t)
    /\ IF lifecycle \in {"shutting_down", "shut_down"}
       THEN UNCHANGED <<controlVars, created>>
       ELSE /\ \E g \in States :
                  /\ EnsureState(g)
                  /\ ~Owns(g, t) \/ (needsConfiguring /\ LifecycleAfter(g) # "configuring")
            /\ RegisterHook
    /\ UNCHANGED <<config, configured, level, globalLevel, runVars, flushVars>>

\* make_channel_route
MakeChannel(t, n) ==
    /\ pc[t] = "make_channel"
    /\ lifecycle = "configuring"
    /\ Owns(state, t)
    /\ n \notin Channels(state)
    /\ configured' = [configured EXCEPT ![state][n] = globalLevel[state]]
    /\ Return(t)
    /\ UNCHANGED <<controlVars, created, config, level, globalLevel, runVars, flushVars>>

\* the name is taken, or the sink cannot be made: the registry is as it was
MakeChannelFails(t) ==
    /\ pc[t] = "make_channel"
    /\ lifecycle = "configuring"
    /\ Owns(state, t)
    /\ Return(t)
    /\ UNCHANGED <<controlVars, configVars, runVars, flushVars>>

\* add_sink_route
AddSink(t) ==
    /\ pc[t] = "add_sink"
    /\ lifecycle = "configuring"
    /\ Owns(state, t)
    /\ sinksOpen' = [sinksOpen EXCEPT ![state] = TRUE]
    /\ Return(t)
    /\ UNCHANGED <<controlVars, configVars, producers, consumer, stop, flushVars>>

SetGlobalLevel(t, l) ==
    /\ pc[t] = "set_global_level"
    /\ lifecycle \notin {"shutting_down", "shut_down"}
    /\ state # None /\ Owns(state, t)
    /\ globalLevel' = [globalLevel EXCEPT ![state] = l]
    /\ configured' = [configured EXCEPT ![state] =
                         [n \in Names |-> IF n \in Channels(state) THEN l ELSE "none"]]
    /\ level' = IF lifecycle = "running"
                THEN [level EXCEPT ![state] =
                         [n \in Names |-> IF n \in Channels(state) THEN l ELSE "off"]]
                ELSE level
    /\ Return(t)
    /\ UNCHANGED <<controlVars, created, config, runVars, flushVars>>

\* Mutant: the handle's backend is not compared with the current one.
SetRouteLevelAnywhere(t, g, n, l) ==
    /\ pc[t] = "idle"
    /\ n \in Channels(g)
    /\ configured' = [configured EXCEPT ![g][n] = l]
    /\ level' = IF lifecycle = "running" THEN [level EXCEPT ![g][n] = l] ELSE level
    /\ UNCHANGED <<controlVars, created, config, globalLevel, runVars, flushVars, threadVars>>

\* set_route_level through a handle to channel n of state g: a handle that a
\* reset has made stale finds another state, or none, and does nothing
SetRouteLevel(t, g, n, l) ==
    /\ pc[t] = "idle"
    /\ n \in Channels(g)
    /\ g = state
    /\ configured' = [configured EXCEPT ![g][n] = l]
    /\ level' = IF lifecycle = "running" THEN [level EXCEPT ![g][n] = l] ELSE level
    /\ UNCHANGED <<controlVars, created, config, globalLevel, runVars, flushVars, threadVars>>

\* get_global_level, stats and prewarm_thread: what they do here is done already
Query(t) ==
    /\ pc[t] = "query"
    /\ Return(t)
    /\ UNCHANGED <<controlVars, configVars, runVars, flushVars>>

-----------------------------------------------------------------------------
(* start_backend *)

\* Mutant: a runtime without channels may be started.
StartReadyAnyway(t) ==
    /\ pc[t] = "start"
    /\ lifecycle = "configuring" /\ state # None
    /\ Owns(state, t)

StartReady(t) ==
    /\ pc[t] = "start"
    /\ lifecycle = "configuring" /\ state # None
    /\ Channels(state) # {}
    /\ Owns(state, t)

Activated == [level EXCEPT ![state] =
                 [n \in Names |-> IF n \in Channels(state) THEN configured[state][n] ELSE "off"]]

\* the single-threaded producers that register_channel has asked for
Needed(g) == {ProducerOf[n] : n \in Channels(g)} \ {"threadsafe"}

Missing(g) == Needed(g) \ producers[g]

\* Mutant: what an earlier start that failed has made is taken for all.
PrepareOnce(made) ==
    producers' = [producers EXCEPT ![state] = IF @ = {} THEN made ELSE @]

\* prepare_start adds those that are missing
Prepare(made) == producers' = [producers EXCEPT ![state] = @ \cup made]

Start(t) ==
    /\ StartReady(t)
    /\ Prepare(Needed(state))
    /\ level' = Activated
    /\ consumer' = [consumer EXCEPT ![state] = "loop"]
    /\ stop' = [stop EXCEPT ![state] = FALSE]
    /\ lifecycle' = "running"
    /\ Return(t)
    /\ UNCHANGED <<state, hook, created, config, configured, globalLevel, sinksOpen, flushVars>>

\* prepare_start runs out of memory at one producer or the other; or std::thread
\* throws, after the routes were activated
StartThrows(t) ==
    /\ StartFails
    /\ StartReady(t)
    /\ \/ "single_normal_" \in Missing(state) /\ UNCHANGED <<producers, level>>
       \/ "single_huge_" \in Missing(state) /\ Prepare(Needed(state) \ {"single_huge_"}) /\ UNCHANGED level
       \/ Prepare(Needed(state)) /\ level' = Activated
    /\ Return(t)
    /\ UNCHANGED <<controlVars, created, config, configured, globalLevel, consumer, stop,
                   sinksOpen, flushVars>>

\* already running; or no channel, another backend, shut down
StartElse(t) ==
    /\ pc[t] = "start"
    /\ IF lifecycle \in {"shutting_down", "shut_down"}
       THEN UNCHANGED <<controlVars, created>>
       ELSE /\ \E g \in States :
                  /\ EnsureState(g)
                  /\ \/ LifecycleAfter(g) = "running"
                     \/ Channels(g) = {}
                     \/ ~Owns(g, t)
            /\ RegisterHook
    /\ Return(t)
    /\ UNCHANGED <<config, configured, level, globalLevel, runVars, flushVars>>

-----------------------------------------------------------------------------
(* flush_backend, which takes no lock *)

FlushLoad(t) ==
    /\ pc[t] = "flush"
    /\ IF state # None /\ Owns(state, t)
       THEN /\ pc' = [pc EXCEPT ![t] = "flushEnter"]
            /\ held' = [held EXCEPT ![t] = state]
            /\ UNCHANGED <<backend, target, finalLifecycle>>
       ELSE Return(t)
    /\ UNCHANGED <<controlVars, configVars, runVars, flushVars>>

FlushEnter(t) ==
    /\ Goto(t, "flushEnter", "flushCheck")
    /\ flushers' = [flushers EXCEPT ![held[t]] = @ + 1]
    /\ UNCHANGED <<controlVars, configVars, runVars, requested, completed,
                   backend, held, target, finalLifecycle>>

\* Mutant: the lifecycle is not looked at.
FlushCheckSkipped(t) ==
    /\ Goto(t, "flushCheck", "flushRequest")
    /\ UNCHANGED <<controlVars, configVars, runVars, flushVars, backend, held, target,
                   finalLifecycle>>

\* Mutant: the early return leaves the count as it is.
FlushCheckLeaks(t) ==
    /\ pc[t] = "flushCheck"
    /\ IF lifecycle = "running"
       THEN /\ Goto(t, "flushCheck", "flushRequest")
            /\ UNCHANGED <<backend, held, target, finalLifecycle>>
       ELSE Return(t)
    /\ UNCHANGED <<controlVars, configVars, runVars, flushVars>>

\* the lifecycle is the process's, not the held state's
FlushCheck(t) ==
    /\ Goto(t, "flushCheck", IF lifecycle = "running" THEN "flushRequest" ELSE "flushLeave")
    /\ UNCHANGED <<controlVars, configVars, runVars, flushVars, backend, held, target,
                   finalLifecycle>>

FlushRequest(t) ==
    /\ Goto(t, "flushRequest", "flushWait")
    /\ requested' = [requested EXCEPT ![held[t]] = @ + 1]
    /\ target' = [target EXCEPT ![t] = requested[held[t]] + 1]
    /\ UNCHANGED <<controlVars, configVars, runVars, completed, flushers,
                   backend, held, finalLifecycle>>

FlushWait(t) ==
    /\ Goto(t, "flushWait", "flushLeave")
    /\ completed[held[t]] >= target[t]
    /\ UNCHANGED <<controlVars, configVars, runVars, flushVars, backend, held, target,
                   finalLifecycle>>

FlushLeave(t) ==
    /\ pc[t] = "flushLeave"
    /\ flushers' = [flushers EXCEPT ![held[t]] = @ - 1]
    /\ Return(t)
    /\ UNCHANGED <<controlVars, configVars, runVars, requested, completed>>

-----------------------------------------------------------------------------
(* consumer_main: flush requests first, then the stop request *)

ServeFlush(g) ==
    /\ consumer[g] = "loop"
    /\ IF requested[g] # completed[g]
       THEN completed' = [completed EXCEPT ![g] = requested[g]] /\ UNCHANGED consumer
       ELSE consumer' = [consumer EXCEPT ![g] = "checked"] /\ UNCHANGED completed
    /\ UNCHANGED <<controlVars, configVars, producers, stop, sinksOpen, requested, flushers, threadVars>>

CheckStop(g) ==
    /\ consumer[g] = "checked"
    /\ consumer' = [consumer EXCEPT ![g] = IF stop[g] THEN "exited" ELSE "loop"]
    /\ UNCHANGED <<controlVars, configVars, producers, stop, sinksOpen, flushVars, threadVars>>

-----------------------------------------------------------------------------
(* destroy_runtime, by a test's reset (which ends in "uninitialized") or by  *)
(* the process-exit hook (which ends in "shut_down", once)                   *)

\* Mutant: the channels are not silenced.
DestroyLoudly(t, final) ==
    /\ pc[t] = "idle"
    /\ lifecycle # "shutting_down" /\ state # None
    /\ lifecycle' = "shutting_down"
    /\ pc' = [pc EXCEPT ![t] = "waitFlushers"]
    /\ held' = [held EXCEPT ![t] = state]
    /\ finalLifecycle' = [finalLifecycle EXCEPT ![t] = final]
    /\ UNCHANGED <<state, hook, configVars, runVars, flushVars, backend, target>>

Destroy(t, final) ==
    /\ pc[t] = "idle"
    /\ IF final = "shut_down" THEN hook = "registered" /\ hook' = "run" ELSE UNCHANGED hook
    /\ \/ /\ lifecycle = "shutting_down"
          /\ UNCHANGED <<lifecycle, level, pc, held, finalLifecycle>>
       \/ /\ lifecycle # "shutting_down" /\ state = None
          /\ lifecycle' = final
          /\ UNCHANGED <<level, pc, held, finalLifecycle>>
       \/ /\ lifecycle # "shutting_down" /\ state # None
          /\ lifecycle' = "shutting_down"
          /\ level' = [level EXCEPT ![state] = [n \in Names |-> "off"]]
          /\ pc' = [pc EXCEPT ![t] = "waitFlushers"]
          /\ held' = [held EXCEPT ![t] = state]
          /\ finalLifecycle' = [finalLifecycle EXCEPT ![t] = final]
    /\ UNCHANGED <<state, created, config, configured, globalLevel, runVars, flushVars,
                   backend, target>>

\* Mutant: nobody waits for the flushers.
WaitForNobody(t) ==
    /\ pc[t] = "waitFlushers"
    /\ IF consumer[held[t]] \in {"loop", "checked"}
       THEN /\ Goto(t, "waitFlushers", "join")
            /\ stop' = [stop EXCEPT ![held[t]] = TRUE]
       ELSE Goto(t, "waitFlushers", "reset") /\ UNCHANGED stop
    /\ UNCHANGED <<controlVars, configVars, producers, consumer, sinksOpen, flushVars, backend, held, target,
                   finalLifecycle>>

\* wait_for_active_flushers, then ask a consumer that runs to stop
WaitFlushers(t) ==
    /\ pc[t] = "waitFlushers"
    /\ flushers[held[t]] = 0
    /\ IF consumer[held[t]] \in {"loop", "checked"}
       THEN /\ Goto(t, "waitFlushers", "join")
            /\ stop' = [stop EXCEPT ![held[t]] = TRUE]
       ELSE Goto(t, "waitFlushers", "reset") /\ UNCHANGED stop
    /\ UNCHANGED <<controlVars, configVars, producers, consumer, sinksOpen, flushVars, backend, held, target,
                   finalLifecycle>>

\* Mutant: the consumer is not joined.
JoinAtOnce(t) ==
    /\ Goto(t, "join", "reset")
    /\ UNCHANGED <<controlVars, configVars, runVars, flushVars, backend, held, target,
                   finalLifecycle>>

Join(t) ==
    /\ Goto(t, "join", "reset")
    /\ consumer[held[t]] = "exited"
    /\ stop' = [stop EXCEPT ![held[t]] = FALSE]
    /\ UNCHANGED <<controlVars, configVars, producers, consumer, sinksOpen, flushVars, backend, held, target,
                   finalLifecycle>>

ResetSinks(t) ==
    /\ Goto(t, "reset", "final")
    /\ sinksOpen' = [sinksOpen EXCEPT ![held[t]] = FALSE]
    /\ UNCHANGED <<controlVars, configVars, producers, consumer, stop, flushVars, backend, held, target,
                   finalLifecycle>>

DestroyEnd(t) ==
    /\ pc[t] = "final"
    /\ lifecycle' = finalLifecycle[t]
    /\ state' = IF finalLifecycle[t] = "uninitialized" THEN None ELSE state
    /\ Return(t)
    /\ UNCHANGED <<hook, configVars, runVars, flushVars>>

-----------------------------------------------------------------------------
Configure(t) ==
    \/ \E n \in Names : MakeChannel(t, n)
    \/ MakeChannelFails(t) \/ AddSink(t)
    \/ Refused(t, "make_channel", TRUE) \/ Refused(t, "add_sink", TRUE)
    \/ Refused(t, "set_global_level", FALSE)
    \/ \E l \in Levels : SetGlobalLevel(t, l)
    \/ Start(t) \/ StartThrows(t) \/ StartElse(t) \/ Query(t)

Flush(t) ==
    \/ FlushLoad(t) \/ FlushEnter(t) \/ FlushCheck(t) \/ FlushRequest(t)
    \/ FlushWait(t) \/ FlushLeave(t)

DestroyStep(t) == WaitFlushers(t) \/ Join(t) \/ ResetSinks(t) \/ DestroyEnd(t)

Consumer(g) == ServeFlush(g) \/ CheckStop(g)

Begin(t) ==
    \/ \E c \in Configs : AccessMismatch(t, c) \/ \E op \in Calls \ {"flush"} : Access(t, c, op)
    \/ \E c \in Configs : Access(t, c, "flush")
          /\ \A g \in States : requested[g] < MaxFlushes
    \/ \E g \in States, n \in Names, l \in Levels : SetRouteLevel(t, g, n, l)
    \/ Destroy(t, "uninitialized") \/ Destroy(t, "shut_down")

Next ==
    \/ \E t \in Threads : Begin(t) \/ Configure(t) \/ Flush(t) \/ DestroyStep(t)
    \/ \E g \in States : Consumer(g)

Spec == Init /\ [][Next]_vars

\* every call that was begun is run on, and so is every consumer thread
Fairness ==
    /\ \A t \in Threads : WF_vars(Configure(t) \/ Flush(t) \/ DestroyStep(t))
    /\ \A g \in States : WF_vars(Consumer(g))

LiveSpec == Spec /\ Fairness

-----------------------------------------------------------------------------
(* Safety *)

\* A channel lets records through only while its own state is the running one:
\* before start, after a reset, and in every state a reset has retired, logging
\* is inert (tests/007.cpp "logging before start is inert and does not seal
\* configuration", tests/010.cpp "stale channel handle is inert after reset").
InertUnlessRunning ==
    \A g \in States, n \in Names : level[g][n] # "off" => lifecycle = "running" /\ g = state

\* A log call that passes the gate finds the producer it dereferences without a
\* look (configured_producer_backend::producer): whatever came before, failed starts
\* and channels made after them included, none is let through without.
ProducersReady ==
    \A g \in States, n \in Names :
        level[g][n] # "off" => ProducerOf[n] \in producers[g] \cup {"threadsafe"}

\* What running promises to the calls that trust it without a lock (flush, the
\* log gate): the current state has a backend, a channel, sinks, and a consumer
\* that will serve a flush.
RunningIsServed ==
    lifecycle = "running" =>
        /\ state # None /\ config[state] # "none"
        /\ Channels(state) # {} /\ sinksOpen[state]
        /\ consumer[state] \in {"loop", "checked"} /\ ~stop[state]

\* A consumer thread is joined before its state is retired, so two never run at
\* once, and none runs over sinks that have been reset.
OneConsumer ==
    \A g \in States : consumer[g] \in {"loop", "checked"} => g = state /\ sinksOpen[g]

\* A flush that waits has a consumer to wait for.
FlushIsServed ==
    \A t \in Threads : pc[t] = "flushWait" /\ completed[held[t]] < target[t] =>
        consumer[held[t]] \in {"loop", "checked"}

\* A retired state is not touched again, except for the counts of the flushes
\* that still hold it ("stale references held by racing threads stay valid").
Retired(g) == g \in created /\ g # state
RetiredUntouched ==
    [][\A g \in States : Retired(g) =>
          /\ config'[g] = config[g] /\ configured'[g] = configured[g] /\ level'[g] = level[g]
          /\ consumer'[g] = consumer[g] /\ sinksOpen'[g] = sinksOpen[g]
          /\ completed'[g] = completed[g] /\ Retired(g)']_vars

-----------------------------------------------------------------------------
(* Liveness *)

\* flush returns
FlushReturns == \A t \in Threads : pc[t] \in FlushPCs ~> pc[t] \notin FlushPCs

\* destroy waits for the flushes it has found and for the consumer, and ends
DestroyEnds == \A t \in Threads : pc[t] \in DestroyPCs ~> pc[t] \notin DestroyPCs
=============================================================================
