---------------------------- MODULE LifecycleProofs ----------------------------
(***************************************************************************)
(* Lifecycle's safety, for any threads, channels, configurations and       *)
(* number of runtime states.  One lemma per action shows that it keeps     *)
(* LInv; NextKeeps collects them.                                          *)
(***************************************************************************)
EXTENDS LifecycleInvariant, FiniteSetTheorems, TLAPS

USE DEF States, None, Levels, Calls, FlushPCs, DestroyPCs

\* what a call finds current, or creates: EnsureState yields the current state, or,
\* if there is none, the next in number, which is as new
LEMMA EnsuredState ==
    ASSUME LInv, NEW g \in States, EnsureState(g)
    PROVE  \/ /\ state # None /\ g = state
              /\ lifecycle' = lifecycle /\ state' = state /\ created' = created
           \/ /\ state = None /\ lifecycle = "uninitialized" /\ g \notin created
              /\ lifecycle' = "configuring" /\ state' = g /\ created' = created \cup {g}
              /\ Numbered'
<1>1. CASE state # None
  BY <1>1 DEF EnsureState
<1>2. CASE state = None
  <2>1. PICK k \in 0 .. MaxStates : created = 1 .. k
    BY DEF LInv, Numbered
  <2>2. Cardinality(created) = k
    BY <2>1, FS_Interval
  <2>3. g = k + 1 /\ created' = created \cup {g} /\ state' = g /\ lifecycle' = "configuring"
    BY <1>2, <2>2 DEF EnsureState
  <2>4. created' = 1 .. (k + 1) /\ k + 1 \in 0 .. MaxStates
    BY <2>1, <2>3, StatesAssumption
  <2>5. lifecycle = "uninitialized"
    BY <1>2 DEF LInv, StateTypes, ControlInv, EnsureState
  <2> QED
    BY <1>2, <2>1, <2>3, <2>4, <2>5 DEF Numbered
<1> QED
  BY <1>1, <1>2

\* nothing but the calls' places has changed
LEMMA Stays ==
    ASSUME LInv, CallTypes', DestroyInv',
           UNCHANGED <<lifecycle, state, configVars, runVars>>
    PROVE  LInv'
<1> USE DEF configVars, runVars
<1>1. StateTypes' /\ Numbered' /\ FreshInv'
  BY DEF LInv, StateTypes, Numbered, FreshInv
<1>2. ControlInv' /\ PreparedInv' /\ OneConsumer'
  BY DEF LInv, ControlInv, PreparedInv, OneConsumer, Alive, Needed, Channels
<1>3. RunningIsServed' /\ ProducersReady' /\ (StartFails \/ InertUnlessRunning')
  BY DEF LInv, RunningIsServed, ProducersReady, InertUnlessRunning, Channels
<1> QED
  BY <1>1, <1>2, <1>3 DEF LInv

\* a call that is not a destroy returns
LEMMA Returns ==
    ASSUME LInv, NEW t \in Threads, pc[t] \notin DestroyPCs, Return(t),
           UNCHANGED <<lifecycle, state, consumer>>
    PROVE  CallTypes' /\ DestroyInv'
<1>1. CallTypes'
  BY DEF LInv, CallTypes, Return
<1>2. DestroyInv'
  BY DEF LInv, CallTypes, DestroyInv, Return, Alive
<1> QED
  BY <1>1, <1>2

\* a call finds or creates a state, and may give it a backend
LEMMA Ensures ==
    ASSUME LInv, NEW g \in States, EnsureState(g),
           CallTypes', \A t \in Threads : pc'[t] \in DestroyPCs => pc[t] \in DestroyPCs,
           config' \in [States -> Configs \cup {"none"}],
           \A h \in States : config[h] # "none" => config'[h] # "none",
           UNCHANGED <<configured, level, globalLevel, runVars>>
    PROVE  LInv'
<1> USE DEF runVars
<1>1. \A t \in Threads : pc'[t] \notin DestroyPCs
  BY DEF LInv, DestroyInv, EnsureState
<1>2. DestroyInv'
  BY <1>1 DEF DestroyInv
<1>3. CASE state # None
  <2>1. lifecycle' = lifecycle /\ state' = state /\ created' = created
    BY <1>3 DEF EnsureState
  <2>2. StateTypes' /\ Numbered' /\ FreshInv'
    BY <2>1 DEF LInv, StateTypes, Numbered, FreshInv
  <2>3. ControlInv' /\ PreparedInv' /\ OneConsumer'
    BY <2>1 DEF LInv, ControlInv, PreparedInv, OneConsumer, Alive, Needed, Channels
  <2>4. RunningIsServed' /\ ProducersReady' /\ (StartFails \/ InertUnlessRunning')
    BY <2>1 DEF LInv, StateTypes, RunningIsServed, ProducersReady, InertUnlessRunning, Channels
  <2> QED
    BY <1>2, <2>2, <2>3, <2>4 DEF LInv
<1>4. CASE state = None
  <2>1. /\ lifecycle = "uninitialized" /\ g \notin created
        /\ lifecycle' = "configuring" /\ state' = g /\ created' = created \cup {g} /\ Numbered'
    BY <1>4, EnsuredState
  <2>2. StateTypes' /\ FreshInv'
    BY <2>1 DEF LInv, StateTypes, FreshInv
  <2>3. ControlInv' /\ PreparedInv' /\ OneConsumer'
    BY <2>1 DEF LInv, FreshInv, ControlInv, PreparedInv, OneConsumer, Alive
  <2>4. RunningIsServed' /\ ProducersReady' /\ (StartFails \/ InertUnlessRunning')
    BY <2>1 DEF LInv, RunningIsServed, ProducersReady, InertUnlessRunning
  <2> QED
    BY <1>2, <2>1, <2>2, <2>3, <2>4 DEF LInv
<1> QED
  BY <1>3, <1>4

LEMMA MakeChannelFailsKeeps ==
    ASSUME LInv, NEW t \in Threads, MakeChannelFails(t)
    PROVE  LInv'
  BY Returns, Stays DEF MakeChannelFails, controlVars, runVars

LEMMA QueryKeeps ==
    ASSUME LInv, NEW t \in Threads, Query(t)
    PROVE  LInv'
  BY Returns, Stays DEF Query, controlVars, runVars

LEMMA AccessMismatchKeeps ==
    ASSUME LInv, NEW t \in Threads, NEW c \in Configs, AccessMismatch(t, c)
    PROVE  LInv'
<1>1. UNCHANGED <<lifecycle, state, configVars, runVars, threadVars>>
  BY DEF AccessMismatch
<1>2. CallTypes' /\ DestroyInv'
  BY <1>1 DEF LInv, CallTypes, DestroyInv, Alive, threadVars, runVars
<1> QED
  BY <1>1, <1>2, Stays

LEMMA FlushEnterKeeps ==
    ASSUME LInv, NEW t \in Threads, FlushEnter(t)
    PROVE  LInv'
<1> USE DEF FlushEnter, Goto, controlVars, runVars
<1>1. CallTypes'
  BY DEF LInv, CallTypes
<1>2. DestroyInv'
  BY DEF LInv, CallTypes, DestroyInv, Alive
<1> QED
  BY <1>1, <1>2, Stays

LEMMA FlushCheckKeeps ==
    ASSUME LInv, NEW t \in Threads, FlushCheck(t)
    PROVE  LInv'
<1> USE DEF FlushCheck, Goto, controlVars, runVars
<1>1. CallTypes'
  BY DEF LInv, CallTypes
<1>2. DestroyInv'
  BY DEF LInv, CallTypes, DestroyInv, Alive
<1> QED
  BY <1>1, <1>2, Stays

LEMMA FlushRequestKeeps ==
    ASSUME LInv, NEW t \in Threads, FlushRequest(t)
    PROVE  LInv'
<1> USE DEF FlushRequest, Goto, controlVars, runVars
<1>1. CallTypes'
  BY DEF LInv, CallTypes
<1>2. DestroyInv'
  BY DEF LInv, CallTypes, DestroyInv, Alive
<1> QED
  BY <1>1, <1>2, Stays

LEMMA FlushWaitKeeps ==
    ASSUME LInv, NEW t \in Threads, FlushWait(t)
    PROVE  LInv'
<1> USE DEF FlushWait, Goto, controlVars, runVars
<1>1. CallTypes'
  BY DEF LInv, CallTypes
<1>2. DestroyInv'
  BY DEF LInv, CallTypes, DestroyInv, Alive
<1> QED
  BY <1>1, <1>2, Stays

LEMMA FlushLoadKeeps ==
    ASSUME LInv, NEW t \in Threads, FlushLoad(t)
    PROVE  LInv'
<1> USE DEF FlushLoad, controlVars, runVars
<1>1. CASE state # None /\ Owns(state, t)
  <2> pc' = [pc EXCEPT ![t] = "flushEnter"] /\ held' = [held EXCEPT ![t] = state]
    BY <1>1
  <2> UNCHANGED <<backend, finalLifecycle>>
    BY <1>1
  <2>1. CallTypes'
    BY DEF LInv, StateTypes, CallTypes
  <2>2. DestroyInv'
    BY <1>1 DEF LInv, CallTypes, DestroyInv, Alive
  <2> QED
    BY <2>1, <2>2, Stays
<1>2. CASE ~(state # None /\ Owns(state, t))
  BY <1>2, Returns, Stays
<1> QED
  BY <1>1, <1>2

LEMMA FlushLeaveKeeps ==
    ASSUME LInv, NEW t \in Threads, FlushLeave(t)
    PROVE  LInv'
  BY Returns, Stays DEF FlushLeave, controlVars, runVars

LEMMA AccessKeeps ==
    ASSUME LInv, NEW t \in Threads, NEW c \in Configs, NEW op \in Calls, Access(t, c, op)
    PROVE  LInv'
<1> PICK g \in States : /\ EnsureState(g)
                        /\ config' = [config EXCEPT ![g] = c]
                        /\ backend' = [backend EXCEPT ![t] = g]
  BY DEF Access
<1>1. CallTypes'
  BY DEF LInv, CallTypes, Access, Goto
<1>2. \A u \in Threads : pc'[u] \in DestroyPCs => pc[u] \in DestroyPCs
  BY DEF LInv, CallTypes, Access, Goto
<1>3. config' \in [States -> Configs \cup {"none"}]
     /\ \A h \in States : config[h] # "none" => config'[h] # "none"
  BY ConfigsAssumption DEF LInv, StateTypes
<1> QED
  BY <1>1, <1>2, <1>3, Ensures DEF Access

LEMMA RefusedKeeps ==
    ASSUME LInv, NEW t \in Threads, NEW op \in Calls, NEW needsConfiguring \in BOOLEAN,
           Refused(t, op, needsConfiguring)
    PROVE  LInv'
<1> USE DEF Refused
<1>1. CASE lifecycle \in {"shutting_down", "shut_down"}
  BY <1>1, Returns, Stays DEF controlVars, configVars, runVars
<1>2. CASE lifecycle \notin {"shutting_down", "shut_down"}
  <2> PICK g \in States : EnsureState(g)
    BY <1>2
  <2>1. CallTypes'
    BY DEF LInv, CallTypes, Return
  <2>2. \A u \in Threads : pc'[u] \in DestroyPCs => pc[u] \in DestroyPCs
    BY DEF LInv, CallTypes, Return
  <2>3. config' \in [States -> Configs \cup {"none"}]
       /\ \A h \in States : config[h] # "none" => config'[h] # "none"
    BY DEF LInv, StateTypes
  <2> QED
    BY <2>1, <2>2, <2>3, Ensures
<1> QED
  BY <1>1, <1>2

LEMMA StartElseKeeps ==
    ASSUME LInv, NEW t \in Threads, StartElse(t)
    PROVE  LInv'
<1> USE DEF StartElse
<1>1. CASE lifecycle \in {"shutting_down", "shut_down"}
  BY <1>1, Returns, Stays DEF controlVars, configVars, runVars
<1>2. CASE lifecycle \notin {"shutting_down", "shut_down"}
  <2> PICK g \in States : EnsureState(g)
    BY <1>2
  <2>1. CallTypes'
    BY DEF LInv, CallTypes, Return
  <2>2. \A u \in Threads : pc'[u] \in DestroyPCs => pc[u] \in DestroyPCs
    BY DEF LInv, CallTypes, Return
  <2>3. config' \in [States -> Configs \cup {"none"}]
       /\ \A h \in States : config[h] # "none" => config'[h] # "none"
    BY DEF LInv, StateTypes
  <2> QED
    BY <2>1, <2>2, <2>3, Ensures
<1> QED
  BY <1>1, <1>2

LEMMA MakeChannelKeeps ==
    ASSUME LInv, NEW t \in Threads, NEW n \in Names, MakeChannel(t, n)
    PROVE  LInv'
<1> USE DEF MakeChannel, Owns, Return, controlVars, runVars
<1>1. StateTypes'
  <2>1. state \in States
    BY DEF LInv, StateTypes, ControlInv
  <2>2. configured' \in [States -> [Names -> Levels \cup {"none"}]]
    BY <2>1 DEF LInv, StateTypes
  <2> QED
    BY <2>2 DEF LInv, StateTypes
<1>2. CallTypes' /\ Numbered'
  BY DEF LInv, StateTypes, CallTypes, Numbered
<1>3. FreshInv'
  BY DEF LInv, StateTypes, FreshInv, ControlInv, DestroyInv, RunningIsServed
<1>4. ControlInv' /\ DestroyInv' /\ OneConsumer'
  BY DEF LInv, StateTypes, FreshInv, ControlInv, DestroyInv, OneConsumer, Alive, CallTypes
<1>5. PreparedInv' /\ RunningIsServed' /\ ProducersReady'
  BY DEF LInv, StateTypes, ControlInv, DestroyInv, PreparedInv, Needed, Channels, CallTypes,
     RunningIsServed, Alive, ProducersReady
<1>6. (StartFails \/ InertUnlessRunning')
  BY DEF LInv, StateTypes, ControlInv, DestroyInv, InertUnlessRunning
<1> QED
  BY <1>1, <1>2, <1>3, <1>4, <1>5, <1>6 DEF LInv

LEMMA AddSinkKeeps ==
    ASSUME LInv, NEW t \in Threads, AddSink(t)
    PROVE  LInv'
<1> USE DEF AddSink, Owns, Return, controlVars, configVars
<1>1. StateTypes'
  BY DEF LInv, StateTypes, CallTypes, DestroyInv
<1>2. CallTypes' /\ Numbered'
  BY DEF LInv, StateTypes, CallTypes, Numbered
<1>3. FreshInv'
  BY DEF LInv, StateTypes, FreshInv, ControlInv, DestroyInv, RunningIsServed
<1>4. ControlInv' /\ DestroyInv' /\ OneConsumer'
  BY DEF LInv, StateTypes, FreshInv, ControlInv, DestroyInv, OneConsumer, Alive, CallTypes
<1>5. PreparedInv' /\ RunningIsServed' /\ ProducersReady'
  BY DEF LInv, StateTypes, ControlInv, DestroyInv, PreparedInv, Needed, Channels, CallTypes,
     RunningIsServed, Alive, ProducersReady
<1>6. (StartFails \/ InertUnlessRunning')
  BY DEF LInv, StateTypes, ControlInv, DestroyInv, InertUnlessRunning
<1> QED
  BY <1>1, <1>2, <1>3, <1>4, <1>5, <1>6 DEF LInv

LEMMA SetGlobalLevelKeeps ==
    ASSUME LInv, NEW t \in Threads, NEW l \in Levels, SetGlobalLevel(t, l)
    PROVE  LInv'
<1> USE DEF SetGlobalLevel, Owns, Return, controlVars, runVars
<1>1. StateTypes'
  BY DEF LInv, StateTypes, CallTypes, DestroyInv
<1>2. CallTypes' /\ Numbered'
  BY DEF LInv, StateTypes, CallTypes, Numbered
<1>3. FreshInv'
  BY DEF LInv, StateTypes, FreshInv, ControlInv, DestroyInv, RunningIsServed
<1>4. ControlInv' /\ DestroyInv' /\ OneConsumer'
  BY DEF LInv, StateTypes, FreshInv, ControlInv, DestroyInv, OneConsumer, Alive, CallTypes
<1>5. PreparedInv' /\ RunningIsServed' /\ ProducersReady'
  BY DEF LInv, StateTypes, ControlInv, DestroyInv, PreparedInv, Needed, Channels, CallTypes,
     RunningIsServed, Alive, ProducersReady
<1>6. (StartFails \/ InertUnlessRunning')
  BY DEF LInv, StateTypes, ControlInv, DestroyInv, InertUnlessRunning
<1> QED
  BY <1>1, <1>2, <1>3, <1>4, <1>5, <1>6 DEF LInv

LEMMA SetRouteLevelKeeps ==
    ASSUME LInv, NEW t \in Threads, NEW g \in States, NEW n \in Names, NEW l \in Levels,
           SetRouteLevel(t, g, n, l)
    PROVE  LInv'
<1> USE DEF SetRouteLevel, controlVars, runVars, threadVars
<1>1. StateTypes'
  BY DEF LInv, StateTypes, CallTypes, DestroyInv
<1>2. CallTypes' /\ Numbered'
  BY DEF LInv, StateTypes, CallTypes, Numbered
<1>3. FreshInv'
  BY DEF LInv, StateTypes, FreshInv, ControlInv, DestroyInv, RunningIsServed
<1>4. ControlInv' /\ DestroyInv' /\ OneConsumer'
  BY DEF LInv, StateTypes, FreshInv, ControlInv, DestroyInv, OneConsumer, Alive, CallTypes
<1>5. PreparedInv' /\ RunningIsServed' /\ ProducersReady'
  BY DEF LInv, StateTypes, ControlInv, DestroyInv, PreparedInv, Needed, Channels, CallTypes,
     RunningIsServed, Alive, ProducersReady
<1>6. (StartFails \/ InertUnlessRunning')
  BY DEF LInv, StateTypes, ControlInv, DestroyInv, InertUnlessRunning
<1> QED
  BY <1>1, <1>2, <1>3, <1>4, <1>5, <1>6 DEF LInv

LEMMA StartKeeps ==
    ASSUME LInv, NEW t \in Threads, Start(t)
    PROVE  LInv'
<1> USE DEF Start, StartReady, Activated, Prepare, Owns, Return
<1>1. StateTypes'
  <2>1. state \in States
    BY DEF LInv, StateTypes, ControlInv
  <2>2. level' \in [States -> [Names -> Levels]]
    BY <2>1 DEF LInv, StateTypes, Channels
  <2>3. producers' \in [States -> SUBSET {"single_normal_", "single_huge_"}]
    BY <2>1, KindsAssumption DEF LInv, StateTypes, Needed, Channels
  <2> QED
    BY <2>1, <2>2, <2>3 DEF LInv, StateTypes
<1>2. CallTypes' /\ Numbered'
  BY DEF LInv, StateTypes, CallTypes, Numbered
<1>3. FreshInv'
  BY DEF LInv, StateTypes, FreshInv, ControlInv, DestroyInv, RunningIsServed
<1>4. ControlInv' /\ DestroyInv' /\ OneConsumer'
  BY DEF LInv, StateTypes, FreshInv, ControlInv, DestroyInv, OneConsumer, Alive, CallTypes
<1>5. PreparedInv' /\ RunningIsServed' /\ ProducersReady'
  BY DEF LInv, StateTypes, ControlInv, DestroyInv, PreparedInv, Needed, Channels, CallTypes,
     RunningIsServed, Alive, ProducersReady
<1>6. (StartFails \/ InertUnlessRunning')
  BY DEF LInv, StateTypes, ControlInv, DestroyInv, InertUnlessRunning
<1> QED
  BY <1>1, <1>2, <1>3, <1>4, <1>5, <1>6 DEF LInv

LEMMA StartThrowsKeeps ==
    ASSUME LInv, NEW t \in Threads, StartThrows(t)
    PROVE  LInv'
<1> USE DEF StartThrows, StartReady, Activated, Prepare, Missing, Owns, Return, controlVars
<1>1. StateTypes'
  <2>1. state \in States
    BY DEF LInv, StateTypes, ControlInv
  <2>2. level' \in [States -> [Names -> Levels]]
    BY <2>1 DEF LInv, StateTypes, Channels
  <2>3. Needed(state) \subseteq {"single_normal_", "single_huge_"}
    BY KindsAssumption DEF Needed, Channels
  <2>4. producers' \in [States -> SUBSET {"single_normal_", "single_huge_"}]
    BY <2>1, <2>3 DEF LInv, StateTypes
  <2> QED
    BY <2>2, <2>4 DEF LInv, StateTypes
<1>2. CallTypes' /\ Numbered'
  BY DEF LInv, StateTypes, CallTypes, Numbered
<1>3. FreshInv'
  <2>1. state \in States /\ state \in created
    BY DEF LInv, StateTypes, FreshInv, ControlInv
  <2>2. \A g \in States \ created : level'[g] = level[g]
    BY <2>1 DEF LInv, StateTypes
  <2> QED
    BY <2>2 DEF LInv, FreshInv
<1>4. ControlInv' /\ DestroyInv' /\ OneConsumer'
  BY DEF LInv, StateTypes, FreshInv, ControlInv, DestroyInv, OneConsumer, Alive, CallTypes
<1>5. ProducersReady'
  <2>1. state \in States
    BY DEF LInv, StateTypes, ControlInv
  <2>2. \A g \in States : producers[g] \subseteq producers'[g]
    <3>1. ASSUME NEW made, Prepare(made)
          PROVE  \A g \in States : producers[g] \subseteq producers'[g]
      BY <2>1, <3>1 DEF LInv, StateTypes
    <3>2. UNCHANGED producers \/ \E made : Prepare(made)
      OBVIOUS
    <3> QED
      BY <3>1, <3>2
  <2>3. CASE UNCHANGED level
    BY <2>2, <2>3 DEF LInv, ProducersReady
  <2>4. CASE producers' = [producers EXCEPT ![state] = @ \cup Needed(state)] /\ level' = Activated
    <3>1. \A g \in States \ {state} : level'[g] = level[g]
      BY <2>1, <2>4 DEF LInv, StateTypes
    <3>2. \A n \in Names : level'[state][n] # "off" => n \in Channels(state)
      BY <2>1, <2>4 DEF LInv, StateTypes
    <3>3. \A n \in Channels(state) : ProducerOf[n] \in producers'[state] \cup {"threadsafe"}
      BY <2>1, <2>4 DEF LInv, StateTypes, Needed
    <3> QED
      BY <2>2, <3>1, <3>2, <3>3 DEF LInv, ProducersReady, Channels
  <2> QED
    BY <2>3, <2>4
<1>6. PreparedInv' /\ RunningIsServed'
  BY DEF LInv, StateTypes, ControlInv, DestroyInv, PreparedInv, Needed, Channels, CallTypes,
     RunningIsServed, Alive
<1>7. (StartFails \/ InertUnlessRunning')
  BY DEF LInv, StateTypes, ControlInv, DestroyInv, InertUnlessRunning
<1> QED
  BY <1>1, <1>2, <1>3, <1>4, <1>5, <1>6, <1>7 DEF LInv

LEMMA ServeFlushKeeps ==
    ASSUME LInv, NEW g \in States, ServeFlush(g)
    PROVE  LInv'
<1> USE DEF ServeFlush, controlVars, configVars, threadVars
<1>1. StateTypes'
  BY DEF LInv, StateTypes, CallTypes, DestroyInv
<1>2. CallTypes' /\ Numbered'
  BY DEF LInv, StateTypes, CallTypes, Numbered
<1>3. FreshInv'
  <2>1. g \in created
    BY DEF LInv, FreshInv
  <2>2. \A h \in States \ created : consumer'[h] = consumer[h]
    BY <2>1 DEF LInv, StateTypes
  <2> QED
    BY <2>2 DEF LInv, FreshInv
<1>4. ControlInv'
  BY DEF LInv, StateTypes, FreshInv, ControlInv, DestroyInv, OneConsumer, Alive
<1>5. DestroyInv'
  BY DEF LInv, StateTypes, CallTypes, ControlInv, DestroyInv, OneConsumer, Alive
<1>6. OneConsumer'
  BY DEF LInv, StateTypes, ControlInv, DestroyInv, OneConsumer, Alive
<1>7. RunningIsServed'
  <2>1. \A h \in States : Alive(h)' <=> Alive(h)
    BY DEF LInv, StateTypes, Alive
  <2> QED
    BY <2>1 DEF LInv, StateTypes, RunningIsServed, Alive, Channels
<1>8. PreparedInv' /\ ProducersReady'
  BY DEF LInv, StateTypes, ControlInv, DestroyInv, PreparedInv, Needed, Channels, ProducersReady
<1>9. (StartFails \/ InertUnlessRunning')
  BY DEF LInv, StateTypes, ControlInv, DestroyInv, InertUnlessRunning
<1> QED
  BY <1>1, <1>2, <1>3, <1>4, <1>5, <1>6, <1>7, <1>8, <1>9 DEF LInv

LEMMA CheckStopKeeps ==
    ASSUME LInv, NEW g \in States, CheckStop(g)
    PROVE  LInv'
<1> USE DEF CheckStop, controlVars, configVars, threadVars
<1>1. StateTypes'
  BY DEF LInv, StateTypes, CallTypes, DestroyInv
<1>2. CallTypes' /\ Numbered'
  BY DEF LInv, StateTypes, CallTypes, Numbered
<1>3. FreshInv'
  BY DEF LInv, StateTypes, FreshInv, ControlInv, DestroyInv, RunningIsServed
<1>4. ControlInv' /\ DestroyInv' /\ OneConsumer'
  BY DEF LInv, StateTypes, FreshInv, ControlInv, DestroyInv, OneConsumer, Alive, CallTypes
<1>5. PreparedInv' /\ RunningIsServed' /\ ProducersReady'
  BY DEF LInv, StateTypes, ControlInv, DestroyInv, PreparedInv, Needed, Channels, CallTypes,
     RunningIsServed, Alive, ProducersReady
<1>6. (StartFails \/ InertUnlessRunning')
  BY DEF LInv, StateTypes, ControlInv, DestroyInv, InertUnlessRunning
<1> QED
  BY <1>1, <1>2, <1>3, <1>4, <1>5, <1>6 DEF LInv

\* a destroy that finds another under way does nothing; one that finds no state has
\* only the lifecycle to set; else the calling thread has work to do
LEMMA DestroyKeeps ==
    ASSUME LInv, NEW t \in Threads, NEW final \in {"uninitialized", "shut_down"},
           Destroy(t, final)
    PROVE  LInv'
<1>1. CASE UNCHANGED <<lifecycle, level, pc, held, finalLifecycle>>
  <2>1. UNCHANGED <<lifecycle, state, configVars, runVars>>
    BY <1>1 DEF Destroy, configVars
  <2>2. CallTypes' /\ DestroyInv'
    BY <1>1, <2>1 DEF Destroy, LInv, CallTypes, DestroyInv, Alive, runVars
  <2> QED
    BY <2>1, <2>2, Stays
<1>2. CASE /\ lifecycle # "shutting_down" /\ state = None /\ lifecycle' = final
           /\ UNCHANGED <<level, pc, held, finalLifecycle>>
  <2> UNCHANGED <<state, configVars, runVars, threadVars>>
    BY <1>2 DEF Destroy, configVars, threadVars
  <2> USE DEF configVars, runVars, threadVars
  <2>1. lifecycle \in {"uninitialized", "shut_down"} /\ \A g \in States : ~Alive(g)
    BY <1>2 DEF LInv, StateTypes, ControlInv
  <2>2. StateTypes' /\ CallTypes' /\ Numbered' /\ FreshInv'
    BY <1>2 DEF LInv, StateTypes, CallTypes, Numbered, FreshInv
  <2>3. ControlInv' /\ DestroyInv' /\ OneConsumer'
    BY <1>2, <2>1 DEF LInv, ControlInv, DestroyInv, OneConsumer, Alive
  <2>4. PreparedInv' /\ RunningIsServed' /\ ProducersReady' /\ (StartFails \/ InertUnlessRunning')
    BY <1>2, <2>1 DEF LInv, PreparedInv, RunningIsServed, ProducersReady, InertUnlessRunning
  <2> QED
    BY <2>2, <2>3, <2>4 DEF LInv
<1>3. CASE /\ lifecycle # "shutting_down" /\ state # None /\ lifecycle' = "shutting_down"
           /\ level' = [level EXCEPT ![state] = [n \in Names |-> "off"]]
           /\ pc' = [pc EXCEPT ![t] = "waitFlushers"]
           /\ held' = [held EXCEPT ![t] = state]
           /\ finalLifecycle' = [finalLifecycle EXCEPT ![t] = final]
  <2> UNCHANGED <<state, created, config, configured, globalLevel, runVars, backend>>
    BY DEF Destroy
  <2> USE DEF runVars
  <2>1. state \in States /\ level' \in [States -> [Names -> Levels]]
    BY <1>3 DEF LInv, StateTypes
  <2>2. \A g \in States, n \in Names :
            level'[g][n] # "off" => g # state /\ level'[g][n] = level[g][n]
    BY <1>3, <2>1 DEF LInv, StateTypes
  <2>3. StateTypes' /\ CallTypes' /\ Numbered'
    BY <1>3, <2>1 DEF LInv, StateTypes, CallTypes, Numbered
  <2>4. FreshInv'
    BY <2>1, <2>2 DEF LInv, FreshInv, StateTypes
  <2>5. ControlInv' /\ DestroyInv' /\ OneConsumer'
    BY <1>3, <2>1 DEF LInv, StateTypes, CallTypes, ControlInv, DestroyInv, OneConsumer, Alive
  <2>6. PreparedInv' /\ RunningIsServed' /\ ProducersReady'
    BY <1>3, <2>1, <2>2 DEF LInv, PreparedInv, RunningIsServed, ProducersReady
  <2>7. StartFails \/ InertUnlessRunning'
    BY <1>3, <2>1, <2>2 DEF LInv, InertUnlessRunning
  <2> QED
    BY <2>3, <2>4, <2>5, <2>6, <2>7 DEF LInv
<1> QED
  BY <1>1, <1>2, <1>3 DEF Destroy

LEMMA WaitFlushersKeeps ==
    ASSUME LInv, NEW t \in Threads, WaitFlushers(t)
    PROVE  LInv'
<1> USE DEF WaitFlushers, Goto, controlVars, configVars
<1>1. StateTypes'
  <2>1. stop' \in [States -> BOOLEAN]
    BY DEF LInv, StateTypes
  <2> QED
    BY <2>1 DEF LInv, StateTypes
<1>2. CallTypes'
  <2>1. pc' \in [Threads -> {"idle"} \cup Calls \cup FlushPCs \cup DestroyPCs]
    BY DEF LInv, CallTypes, DestroyPCs
  <2> QED
    BY <2>1 DEF LInv, CallTypes
<1>3. Numbered'
  BY DEF LInv, Numbered
<1>4. FreshInv'
  <2>1. held[t] \in created
    BY DEF LInv, FreshInv, ControlInv, DestroyInv
  <2>2. \A g \in States \ created : stop'[g] = stop[g]
    BY <2>1 DEF LInv, StateTypes
  <2> QED
    BY <2>2 DEF LInv, FreshInv
<1>5. ControlInv' /\ DestroyInv' /\ OneConsumer'
  BY DEF LInv, StateTypes, FreshInv, ControlInv, DestroyInv, OneConsumer, Alive, CallTypes
<1>6. PreparedInv' /\ RunningIsServed' /\ ProducersReady'
  BY DEF LInv, StateTypes, ControlInv, DestroyInv, PreparedInv, Needed, Channels, CallTypes,
     RunningIsServed, Alive, ProducersReady
<1>7. (StartFails \/ InertUnlessRunning')
  BY DEF LInv, StateTypes, ControlInv, DestroyInv, InertUnlessRunning
<1> QED
  BY <1>1, <1>2, <1>3, <1>4, <1>5, <1>6, <1>7 DEF LInv

LEMMA JoinKeeps ==
    ASSUME LInv, NEW t \in Threads, Join(t)
    PROVE  LInv'
<1> USE DEF Join, Goto, controlVars, configVars
<1>1. StateTypes'
  BY DEF LInv, StateTypes, CallTypes, DestroyInv
<1>2. CallTypes' /\ Numbered'
  BY DEF LInv, StateTypes, CallTypes, Numbered
<1>3. FreshInv'
  BY DEF LInv, StateTypes, FreshInv, ControlInv, DestroyInv, RunningIsServed
<1>4. ControlInv' /\ DestroyInv' /\ OneConsumer'
  BY DEF LInv, StateTypes, FreshInv, ControlInv, DestroyInv, OneConsumer, Alive, CallTypes
<1>5. PreparedInv' /\ RunningIsServed' /\ ProducersReady'
  BY DEF LInv, StateTypes, ControlInv, DestroyInv, PreparedInv, Needed, Channels, CallTypes,
     RunningIsServed, Alive, ProducersReady
<1>6. (StartFails \/ InertUnlessRunning')
  BY DEF LInv, StateTypes, ControlInv, DestroyInv, InertUnlessRunning
<1> QED
  BY <1>1, <1>2, <1>3, <1>4, <1>5, <1>6 DEF LInv

LEMMA ResetSinksKeeps ==
    ASSUME LInv, NEW t \in Threads, ResetSinks(t)
    PROVE  LInv'
<1> USE DEF ResetSinks, Goto, controlVars, configVars
<1>1. StateTypes'
  BY DEF LInv, StateTypes, CallTypes, DestroyInv
<1>2. CallTypes' /\ Numbered'
  BY DEF LInv, StateTypes, CallTypes, Numbered
<1>3. FreshInv'
  BY DEF LInv, StateTypes, FreshInv, ControlInv, DestroyInv, RunningIsServed
<1>4. ControlInv' /\ DestroyInv' /\ OneConsumer'
  BY DEF LInv, StateTypes, FreshInv, ControlInv, DestroyInv, OneConsumer, Alive, CallTypes
<1>5. PreparedInv' /\ RunningIsServed' /\ ProducersReady'
  BY DEF LInv, StateTypes, ControlInv, DestroyInv, PreparedInv, Needed, Channels, CallTypes,
     RunningIsServed, Alive, ProducersReady
<1>6. (StartFails \/ InertUnlessRunning')
  BY DEF LInv, StateTypes, ControlInv, DestroyInv, InertUnlessRunning
<1> QED
  BY <1>1, <1>2, <1>3, <1>4, <1>5, <1>6 DEF LInv

LEMMA DestroyEndKeeps ==
    ASSUME LInv, NEW t \in Threads, DestroyEnd(t)
    PROVE  LInv'
<1> USE DEF DestroyEnd, Return, configVars, runVars
<1>1. StateTypes'
  BY DEF LInv, StateTypes, CallTypes, DestroyInv
<1>2. CallTypes' /\ Numbered'
  BY DEF LInv, StateTypes, CallTypes, Numbered
<1>3. FreshInv'
  BY DEF LInv, StateTypes, FreshInv, ControlInv, DestroyInv, RunningIsServed
<1>4. ControlInv' /\ DestroyInv' /\ OneConsumer'
  BY DEF LInv, StateTypes, FreshInv, ControlInv, DestroyInv, OneConsumer, Alive, CallTypes
<1>5. PreparedInv' /\ RunningIsServed' /\ ProducersReady'
  BY DEF LInv, StateTypes, ControlInv, DestroyInv, PreparedInv, Needed, Channels, CallTypes,
     RunningIsServed, Alive, ProducersReady
<1>6. (StartFails \/ InertUnlessRunning')
  BY DEF LInv, StateTypes, ControlInv, DestroyInv, InertUnlessRunning
<1> QED
  BY <1>1, <1>2, <1>3, <1>4, <1>5, <1>6 DEF LInv

LEMMA Initially == Init => LInv
<1> SUFFICES ASSUME Init PROVE LInv
  OBVIOUS
<1> USE DEF Init
<1>1. StateTypes /\ CallTypes
  BY DEF StateTypes, CallTypes
<1>2. Numbered
  <2>1. created = 1 .. 0 /\ 0 \in 0 .. MaxStates
    BY StatesAssumption
  <2> QED
    BY <2>1 DEF Numbered
<1>3. FreshInv /\ ControlInv /\ DestroyInv /\ PreparedInv
  BY DEF FreshInv, ControlInv, DestroyInv, PreparedInv, Alive
<1>4. OneConsumer /\ RunningIsServed /\ ProducersReady /\ InertUnlessRunning
  BY DEF OneConsumer, RunningIsServed, ProducersReady, InertUnlessRunning
<1> QED
  BY <1>1, <1>2, <1>3, <1>4 DEF LInv

LEMMA NextKeeps ==
    ASSUME LInv, [Next]_vars
    PROVE  LInv'
<1>1. ASSUME NEW t \in Threads, Begin(t)
      PROVE  LInv'
  BY <1>1, AccessKeeps, AccessMismatchKeeps, SetRouteLevelKeeps, DestroyKeeps DEF Begin
<1>2. ASSUME NEW t \in Threads, Configure(t)
      PROVE  LInv'
  BY <1>2, MakeChannelKeeps, MakeChannelFailsKeeps, AddSinkKeeps, RefusedKeeps,
     SetGlobalLevelKeeps,
     StartKeeps, StartThrowsKeeps, StartElseKeeps, QueryKeeps DEF Configure
<1>3. ASSUME NEW t \in Threads, Flush(t)
      PROVE  LInv'
  BY <1>3, FlushLoadKeeps, FlushEnterKeeps, FlushCheckKeeps, FlushRequestKeeps, FlushWaitKeeps,
     FlushLeaveKeeps DEF Flush
<1>4. ASSUME NEW t \in Threads, DestroyStep(t)
      PROVE  LInv'
  BY <1>4, WaitFlushersKeeps, JoinKeeps, ResetSinksKeeps, DestroyEndKeeps DEF DestroyStep
<1>5. ASSUME NEW g \in States, Consumer(g)
      PROVE  LInv'
  BY <1>5, ServeFlushKeeps, CheckStopKeeps DEF Consumer
<1>6. CASE UNCHANGED vars
  <2>1. CallTypes' /\ DestroyInv'
    BY <1>6 DEF LInv, CallTypes, DestroyInv, Alive, vars, controlVars, runVars, threadVars
  <2> QED
    BY <1>6, <2>1, Stays DEF vars, controlVars
<1> QED
  BY <1>1, <1>2, <1>3, <1>4, <1>5, <1>6 DEF Next

\* The strengthening holds in every reachable state.
THEOREM LifecycleInductive == Spec => []LInv
  BY Initially, NextKeeps, PTL DEF Spec

\* A consumer thread runs only for the current state and over open sinks, so two never
\* run at once (ensure_consumer_started_locked, destroy_runtime).
THEOREM ConsumerAlone == Spec => []OneConsumer
<1>1. LInv => OneConsumer
  BY DEF LInv
<1> QED
  BY <1>1, LifecycleInductive, PTL

\* Running means a backend, a channel, open sinks and a consumer that has not been told
\* to stop (start_backend, destroy_runtime).
THEOREM RunningServed == Spec => []RunningIsServed
<1>1. LInv => RunningIsServed
  BY DEF LInv
<1> QED
  BY <1>1, LifecycleInductive, PTL

\* A log call that passes the gate finds its single-threaded producer, also after
\* starts that failed half-way (prepare_start, configured_producer_backend::producer).
THEOREM ProducersThere == Spec => []ProducersReady
<1>1. LInv => ProducersReady
  BY DEF LInv
<1> QED
  BY <1>1, LifecycleInductive, PTL

\* If start cannot fail half-way, logging is inert unless the handle's own state runs
\* (route_state's levels; the run lifecycle_failed_start shows why the condition).
THEOREM Inert ==
    ASSUME ~StartFails
    PROVE  Spec => []InertUnlessRunning
<1>1. LInv => InertUnlessRunning
  BY DEF LInv
<1> QED
  BY <1>1, LifecycleInductive, PTL

-----------------------------------------------------------------------------
(* Retired states: every action that is not a flush's works on the current   *)
(* state, and a new state is none of those that exist                        *)

CountInv == requested \in [States -> Nat] /\ completed \in [States -> Nat]

LEMMA CountsKeep ==
    ASSUME CountInv, [Next]_vars
    PROVE  CountInv'
<1> USE DEF CountInv, flushVars
<1>1. ASSUME NEW t \in Threads, Begin(t) \/ Configure(t)
      PROVE  UNCHANGED flushVars
  BY <1>1 DEF Begin, Configure, Access, AccessMismatch, SetRouteLevel, Destroy, MakeChannel,
     MakeChannelFails, AddSink, Refused, SetGlobalLevel, Start, StartThrows, StartElse, Query
<1>2. ASSUME NEW t \in Threads, DestroyStep(t)
      PROVE  UNCHANGED flushVars
  BY <1>2 DEF DestroyStep, WaitFlushers, Join, ResetSinks, DestroyEnd
<1>3. ASSUME NEW t \in Threads, Flush(t)
      PROVE  CountInv'
  BY <1>3 DEF Flush, FlushLoad, FlushEnter, FlushCheck, FlushRequest, FlushWait, FlushLeave
<1>4. ASSUME NEW g \in States, Consumer(g)
      PROVE  CountInv'
  BY <1>4 DEF Consumer, ServeFlush, CheckStop
<1>5. CASE UNCHANGED vars
  BY <1>5 DEF vars
<1> QED
  BY <1>1, <1>2, <1>3, <1>4, <1>5 DEF Next

Untouched(g) ==
    /\ config'[g] = config[g] /\ configured'[g] = configured[g] /\ level'[g] = level[g]
    /\ consumer'[g] = consumer[g] /\ sinksOpen'[g] = sinksOpen[g]
    /\ completed'[g] = completed[g] /\ Retired(g)'

LEMMA RetiredStays ==
    ASSUME LInv, CountInv, [Next]_vars, NEW g \in States, Retired(g)
    PROVE  Untouched(g)
<1> USE DEF Untouched, Retired, configVars, runVars, flushVars
<1>1. ASSUME NEW h \in States, EnsureState(h)
      PROVE  g # h /\ Retired(g)'
  BY <1>1, EnsuredState
<1>2. ASSUME NEW t \in Threads, Begin(t)
      PROVE  Untouched(g)
  <2>1. ASSUME NEW c \in Configs, NEW op \in Calls, Access(t, c, op)
        PROVE  Untouched(g)
    BY <2>1, <1>1 DEF Access, LInv, StateTypes
  <2>2. ASSUME NEW c \in Configs, AccessMismatch(t, c)
        PROVE  Untouched(g)
    BY <2>2 DEF AccessMismatch
  <2>3. ASSUME NEW h \in States, NEW n \in Names, NEW l \in Levels, SetRouteLevel(t, h, n, l)
        PROVE  Untouched(g)
    BY <2>3 DEF SetRouteLevel, controlVars, LInv, StateTypes
  <2>4. ASSUME NEW final \in {"uninitialized", "shut_down"}, Destroy(t, final)
        PROVE  Untouched(g)
    BY <2>4 DEF Destroy, LInv, StateTypes
  <2> QED
    BY <1>2, <2>1, <2>2, <2>3, <2>4 DEF Begin
<1>3. ASSUME NEW t \in Threads, Configure(t)
      PROVE  Untouched(g)
  <2>1. ASSUME NEW op \in Calls, NEW needsConfiguring \in BOOLEAN,
               Refused(t, op, needsConfiguring) \/ StartElse(t)
        PROVE  Untouched(g)
    BY <2>1, <1>1 DEF Refused, StartElse, controlVars
  <2>2. ASSUME Start(t) \/ StartThrows(t)
        PROVE  Untouched(g)
    BY <2>2 DEF Start, StartThrows, StartReady, Activated, controlVars, LInv, StateTypes
  <2>3. ASSUME NEW n \in Names, MakeChannel(t, n)
        PROVE  Untouched(g)
    BY <2>3 DEF MakeChannel, controlVars, LInv, StateTypes
  <2>4. ASSUME NEW l \in Levels, SetGlobalLevel(t, l)
        PROVE  Untouched(g)
    BY <2>4 DEF SetGlobalLevel, controlVars, LInv, StateTypes
  <2>5. ASSUME MakeChannelFails(t) \/ AddSink(t) \/ Query(t)
        PROVE  Untouched(g)
    BY <2>5 DEF MakeChannelFails, AddSink, Query, controlVars, LInv, StateTypes
  <2> QED
    BY <1>3, <2>1, <2>2, <2>3, <2>4, <2>5 DEF Configure
<1>4. ASSUME NEW t \in Threads, Flush(t)
      PROVE  Untouched(g)
  BY <1>4 DEF Flush, FlushLoad, FlushEnter, FlushCheck, FlushRequest, FlushWait, FlushLeave,
     controlVars
<1>5. ASSUME NEW t \in Threads, DestroyStep(t)
      PROVE  Untouched(g)
  <2> held[t] = state
    BY <1>5 DEF DestroyStep, WaitFlushers, Join, ResetSinks, DestroyEnd, Goto, LInv, DestroyInv
  <2>1. CASE DestroyEnd(t)
    BY <2>1 DEF DestroyEnd
  <2>2. CASE WaitFlushers(t) \/ Join(t) \/ ResetSinks(t)
    BY <2>2 DEF WaitFlushers, Join, ResetSinks, controlVars, LInv, StateTypes
  <2> QED
    BY <1>5, <2>1, <2>2 DEF DestroyStep
<1>6. ASSUME NEW h \in States, Consumer(h)
      PROVE  Untouched(g)
  <2> h = state
    BY <1>6 DEF Consumer, ServeFlush, CheckStop, LInv, OneConsumer
  <2> QED
    BY <1>6 DEF Consumer, ServeFlush, CheckStop, controlVars, LInv, StateTypes, CountInv
<1>7. CASE UNCHANGED vars
  BY <1>7 DEF vars, controlVars
<1> QED
  BY <1>2, <1>3, <1>4, <1>5, <1>6, <1>7 DEF Next

\* Whatever a reset has retired is left as it was, whoever still holds it.
THEOREM RetiredAlone == Spec => RetiredUntouched
<1>1. Init => CountInv
  BY DEF Init, CountInv
<1>2. LInv /\ CountInv /\ [Next]_vars =>
      [\A g \in States : Retired(g) =>
          /\ config'[g] = config[g] /\ configured'[g] = configured[g] /\ level'[g] = level[g]
          /\ consumer'[g] = consumer[g] /\ sinksOpen'[g] = sinksOpen[g]
          /\ completed'[g] = completed[g] /\ Retired(g)']_vars
  BY RetiredStays DEF Untouched
<1> QED
  BY <1>1, <1>2, CountsKeep, LifecycleInductive, PTL DEF Spec, RetiredUntouched

-----------------------------------------------------------------------------
(* Flushes: counted, and served unless their state has been replaced *)

CountedAt(g) == {t \in Threads : Counted(t, g)}

LEMMA CountedFinite ==
    ASSUME NEW g PROVE IsFiniteSet(CountedAt(g)) /\ Cardinality(CountedAt(g)) \in Nat
<1>1. CountedAt(g) \subseteq Threads
  BY DEF CountedAt
<1> QED
  BY <1>1, ThreadsAssumption, FS_Subset, FS_CardinalityType

LEMMA HeldStates ==
    ASSUME LInv
    PROVE  /\ created \subseteq States
           /\ OrderInv => \A t \in Threads : pc[t] \in FlushPCs => held[t] \in States
<1>1. PICK k \in 0 .. MaxStates : created = 1 .. k
  BY DEF LInv, Numbered
<1>2. created \subseteq States
  BY <1>1, StatesAssumption
<1> QED
  BY <1>2 DEF OrderInv

\* the state that is current is the newest, also when it has just been created
LEMMA NewestEnsured ==
    ASSUME LInv, OrderInv, NEW g \in States, EnsureState(g)
    PROVE  /\ created \subseteq created' /\ created' \subseteq States
           /\ state' # None /\ \A h \in created' : h <= state'
<1>1. CASE state # None
  <2>1. state' = state /\ created' = created
    BY <1>1, EnsuredState
  <2> QED
    BY <1>1, <2>1, HeldStates DEF OrderInv
<1>2. CASE state = None
  <2>1. PICK k \in 0 .. MaxStates : created = 1 .. k
    BY DEF LInv, Numbered
  <2>2. Cardinality(created) = k
    BY <2>1, FS_Interval
  <2>3. g = k + 1 /\ created' = created \cup {g} /\ state' = g
    BY <1>2, <2>2 DEF EnsureState
  <2> QED
    BY <2>1, <2>3, StatesAssumption
<1> QED
  BY <1>1, <1>2

Newest == state # None => \A g \in created : g <= state

\* a step of thread t outside flush, and of destroy
LEMMA OutsideFlush ==
    ASSUME LInv, FlushesInv, NEW t \in Threads,
           pc[t] \notin FlushPCs, pc'[t] \notin FlushPCs,
           \A u \in Threads \ {t} : pc'[u] = pc[u] /\ held'[u] = held[u],
           UNCHANGED flushers,
           created \subseteq created', Newest',
           \A u \in Threads : pc[u] \in {"flushRequest", "flushWait"} /\ Attended(held[u]) =>
               Attended(held[u])'
    PROVE  FlushesInv'
<1>1. OrderInv'
  BY DEF FlushesInv, OrderInv, Newest
<1>2. \A g \in States : CountedAt(g)' = CountedAt(g)
  BY DEF CountedAt, Counted
<1>3. FlushersInv'
  BY <1>2 DEF FlushesInv, FlushersInv, CountedAt
<1>4. ServedInv'
  <2> SUFFICES ASSUME NEW u \in Threads, pc'[u] \in {"flushRequest", "flushWait"}
               PROVE  Attended(held[u])' \/ \E g \in created' : held'[u] < g
    BY DEF ServedInv, Attended, Alive
  <2>1. pc[u] \in {"flushRequest", "flushWait"} /\ held'[u] = held[u]
    OBVIOUS
  <2> QED
    BY <2>1 DEF FlushesInv, ServedInv
<1> QED
  BY <1>1, <1>3, <1>4 DEF FlushesInv

LEMMA BeginKeepsFlushes ==
    ASSUME LInv, FlushesInv, NEW t \in Threads, Begin(t)
    PROVE  FlushesInv'
<1> USE DEF controlVars, configVars, runVars, flushVars, threadVars
<1>1. ASSUME NEW c \in Configs, NEW op \in Calls, Access(t, c, op)
      PROVE  FlushesInv'
  <2>1. PICK g \in States : EnsureState(g)
    BY <1>1 DEF Access
  <2>2. created \subseteq created' /\ Newest'
    BY <2>1, NewestEnsured DEF FlushesInv, Newest
  <2>3. /\ pc[t] \notin FlushPCs /\ pc'[t] \notin FlushPCs
        /\ \A u \in Threads \ {t} : pc'[u] = pc[u] /\ held'[u] = held[u]
    BY <1>1 DEF Access, Goto, LInv, CallTypes
  <2>5. \A u \in Threads : Attended(held[u]) => Attended(held[u])'
    BY <1>1 DEF Access, Attended, Alive
  <2>6. UNCHANGED flushers
    BY <1>1 DEF Access
  <2> QED
    BY <2>2, <2>3, <2>5, <2>6, OutsideFlush
<1>2. ASSUME \/ \E c \in Configs : AccessMismatch(t, c)
             \/ \E g \in States, n \in Names, l \in Levels : SetRouteLevel(t, g, n, l)
      PROVE  FlushesInv'
  <2>1. UNCHANGED <<pc, held, flushers, consumer, stop, created, state>>
    BY <1>2 DEF AccessMismatch, SetRouteLevel
  <2>2. pc[t] \notin FlushPCs
    BY <1>2 DEF AccessMismatch, SetRouteLevel
  <2>3. Newest' /\ \A u \in Threads : Attended(held[u]) => Attended(held[u])'
    BY <2>1 DEF Newest, Attended, Alive, FlushesInv, OrderInv
  <2> QED
    BY <2>1, <2>2, <2>3, OutsideFlush
<1>3. ASSUME NEW final \in {"uninitialized", "shut_down"}, Destroy(t, final)
      PROVE  FlushesInv'
  <2>1. UNCHANGED <<flushers, consumer, stop, created, state>>
    BY <1>3 DEF Destroy
  <2>2. /\ pc[t] \notin FlushPCs /\ pc'[t] \notin FlushPCs
        /\ \A u \in Threads \ {t} : pc'[u] = pc[u] /\ held'[u] = held[u]
    BY <1>3 DEF Destroy, LInv, CallTypes
  <2>3. Newest'
    BY <2>1 DEF Newest, FlushesInv, OrderInv
  <2>4. \A u \in Threads : pc[u] \in {"flushRequest", "flushWait"} /\ Attended(held[u]) =>
            Attended(held[u])'
    BY <2>1, <2>2 DEF Attended, Alive
  <2> QED
    BY <2>1, <2>2, <2>3, <2>4, OutsideFlush
<1> QED
  BY <1>1, <1>2, <1>3 DEF Begin

LEMMA ConfigureKeepsFlushes ==
    ASSUME LInv, FlushesInv, NEW t \in Threads, Configure(t)
    PROVE  FlushesInv'
<1> USE DEF controlVars, configVars, runVars, flushVars, threadVars
<1>1. pc[t] \notin FlushPCs
  BY DEF Configure, MakeChannel, MakeChannelFails, AddSink, Refused, SetGlobalLevel, Start, StartReady,
         StartThrows, StartElse, Query
<1>2. Return(t) /\ UNCHANGED flushers
  BY DEF Configure, MakeChannel, MakeChannelFails, AddSink, Refused, SetGlobalLevel, Start,
         StartThrows, StartElse, Query
<1>3. /\ pc'[t] \notin FlushPCs
      /\ \A u \in Threads \ {t} : pc'[u] = pc[u] /\ held'[u] = held[u]
  BY <1>2 DEF Return, LInv, CallTypes
<1>4. created \subseteq created' /\ Newest'
  <2>1. CASE UNCHANGED <<state, created>>
    BY <2>1 DEF Newest, FlushesInv, OrderInv
  <2>2. CASE \E g \in States : EnsureState(g)
    BY <2>2, NewestEnsured DEF FlushesInv, Newest
  <2> QED
    BY <2>1, <2>2 DEF Configure, MakeChannel, MakeChannelFails, AddSink, Refused, SetGlobalLevel, Start,
         StartThrows, StartElse, Query
<1>5. ASSUME NEW u \in Threads, pc[u] \in {"flushRequest", "flushWait"}, Attended(held[u])
      PROVE  Attended(held[u])'
  <2> held'[u] = held[u] /\ held[u] \in States
    BY <1>1, <1>3, <1>5, HeldStates DEF FlushesInv
  <2>1. CASE Start(t)
    BY <2>1, <1>5 DEF Start, StartReady, Attended, Alive, LInv, StateTypes
  <2>2. CASE ~Start(t)
    BY <2>2, <1>5 DEF Configure, MakeChannel, MakeChannelFails, AddSink, Refused, SetGlobalLevel,
         StartThrows, StartElse, Query, Prepare, Attended, Alive
  <2> QED
    BY <2>1, <2>2
<1> QED
  BY <1>1, <1>2, <1>3, <1>4, <1>5, OutsideFlush

\* nobody that destroy has not waited for needs the consumer it stops
LEMMA DestroyStepKeepsFlushes ==
    ASSUME LInv, FlushesInv, NEW t \in Threads, DestroyStep(t)
    PROVE  FlushesInv'
<1> USE DEF controlVars, configVars, runVars, flushVars, threadVars
<1>1. pc[t] \in DestroyPCs /\ held[t] = state /\ state \in States
  BY DEF DestroyStep, WaitFlushers, Join, ResetSinks, DestroyEnd, Goto, LInv, DestroyInv, StateTypes,
         ControlInv
<1>2. UNCHANGED <<flushers, created, consumer>>
  BY DEF DestroyStep, WaitFlushers, Join, ResetSinks, DestroyEnd
<1>3. /\ pc'[t] \notin FlushPCs
      /\ \A u \in Threads \ {t} : pc'[u] = pc[u] /\ held'[u] = held[u]
  BY DEF DestroyStep, WaitFlushers, Join, ResetSinks, DestroyEnd, Goto, Return, LInv, CallTypes
<1>4. Newest'
  BY <1>2 DEF DestroyStep, WaitFlushers, Join, ResetSinks, DestroyEnd, Newest, FlushesInv, OrderInv
<1>5. ASSUME NEW u \in Threads, pc[u] \in {"flushRequest", "flushWait"}, Attended(held[u])
      PROVE  Attended(held[u])'
  <2>0. u # t /\ held'[u] = held[u] /\ held[u] \in States
    BY <1>1, <1>3, <1>5, HeldStates DEF FlushesInv
  <2>1. CASE WaitFlushers(t)
    <3>1. CountedAt(state) = {}
      BY <2>1, <1>1, CountedFinite, FS_EmptySet DEF WaitFlushers, FlushesInv, FlushersInv, CountedAt
    <3>2. held[u] # state
      BY <1>5, <3>1 DEF CountedAt, Counted
    <3> QED
      BY <2>0, <2>1, <1>1, <1>2, <1>5, <3>2 DEF WaitFlushers, Attended, Alive, LInv, StateTypes
  <2>2. CASE Join(t)
    BY <2>0, <2>2, <1>1, <1>2, <1>5 DEF Join, Attended, Alive, LInv, StateTypes, CallTypes
  <2>3. CASE ResetSinks(t) \/ DestroyEnd(t)
    BY <2>0, <2>3, <1>2, <1>5 DEF ResetSinks, DestroyEnd, Attended, Alive
  <2> QED
    BY <2>1, <2>2, <2>3 DEF DestroyStep
<1> QED
  BY <1>1, <1>2, <1>3, <1>4, <1>5, OutsideFlush

\* a step of thread t inside flush: what it leaves alone
LEMMA InsideFlush ==
    ASSUME LInv, FlushesInv, NEW t \in Threads,
           \A u \in Threads \ {t} : pc'[u] = pc[u] /\ held'[u] = held[u],
           UNCHANGED <<created, state, consumer, stop>>,
           pc'[t] \in FlushPCs => held'[t] \in created,
           FlushersInv',
           pc'[t] \in {"flushRequest", "flushWait"} =>
               Attended(held[t])' \/ \E g \in created : held'[t] < g
    PROVE  FlushesInv'
<1>1. OrderInv'
  BY DEF FlushesInv, OrderInv
<1>2. \A u \in Threads \ {t} : Attended(held[u])' = Attended(held[u])
  BY DEF Attended, Alive
<1>3. ServedInv'
  <2> SUFFICES ASSUME NEW u \in Threads, pc'[u] \in {"flushRequest", "flushWait"}
               PROVE  Attended(held[u])' \/ \E g \in created' : held'[u] < g
    BY DEF ServedInv, Attended, Alive
  <2> QED
    BY <1>2 DEF FlushesInv, ServedInv
<1> QED
  BY <1>1, <1>3 DEF FlushesInv

LEMMA FlushKeepsFlushes ==
    ASSUME LInv, FlushesInv, NEW t \in Threads, Flush(t)
    PROVE  FlushesInv'
<1> USE DEF controlVars, configVars, runVars, flushVars, threadVars
<1>1. UNCHANGED <<created, state, consumer, stop>>
  BY DEF Flush, FlushLoad, FlushEnter, FlushCheck, FlushRequest, FlushWait, FlushLeave
<1>2. \A u \in Threads \ {t} : pc'[u] = pc[u] /\ held'[u] = held[u]
  BY DEF Flush, FlushLoad, FlushEnter, FlushCheck, FlushRequest, FlushWait, FlushLeave, Goto, Return,
         LInv, CallTypes
<1>3. CASE FlushLoad(t)
  <2>1. pc'[t] \in FlushPCs => pc'[t] = "flushEnter" /\ held'[t] \in created
    BY <1>3 DEF FlushLoad, Return, LInv, CallTypes, FreshInv, StateTypes
  <2>2. \A g \in States : CountedAt(g)' = CountedAt(g)
    BY <1>2, <1>3, <2>1 DEF FlushLoad, CountedAt, Counted
  <2>3. FlushersInv'
    BY <1>3, <2>2 DEF FlushLoad, FlushesInv, FlushersInv, CountedAt
  <2> QED
    BY <1>1, <1>2, <2>1, <2>3, InsideFlush
<1>4. CASE FlushEnter(t)
  <2>1. pc[t] = "flushEnter" /\ pc'[t] = "flushCheck" /\ UNCHANGED held /\ held[t] \in created
    BY <1>4 DEF FlushEnter, Goto, LInv, CallTypes, FlushesInv, OrderInv
  <2>2. FlushersInv'
    <3> flushers \in [States -> Nat]
      BY CountedFinite DEF FlushesInv, FlushersInv, CountedAt
    <3> flushers' = [flushers EXCEPT ![held[t]] = @ + 1]
      BY <1>4 DEF FlushEnter
    <3> SUFFICES ASSUME NEW g \in States PROVE flushers'[g] = Cardinality(CountedAt(g)')
      BY DEF FlushersInv, CountedAt, Counted
    <3>1. flushers[g] = Cardinality(CountedAt(g)) /\ flushers[g] \in Nat
      BY CountedFinite DEF FlushesInv, FlushersInv, CountedAt
    <3>2. CASE g = held[t]
      <4>1. CountedAt(g)' = CountedAt(g) \cup {t} /\ t \notin CountedAt(g)
        BY <1>2, <2>1, <3>2 DEF CountedAt, Counted
      <4>2. Cardinality(CountedAt(g) \cup {t}) = Cardinality(CountedAt(g)) + 1
        BY <4>1, CountedFinite, FS_AddElement
      <4>3. flushers'[g] = flushers[g] + 1
        BY <3>2
      <4> QED
        BY <3>1, <4>1, <4>2, <4>3
    <3>3. CASE g # held[t]
      <4>1. CountedAt(g)' = CountedAt(g)
        BY <1>2, <2>1, <3>3 DEF CountedAt, Counted
      <4> QED
        BY <1>4, <3>1, <3>3, <4>1 DEF FlushEnter
    <3> QED
      BY <3>2, <3>3
  <2> QED
    BY <1>1, <1>2, <2>1, <2>2, InsideFlush
<1>5. CASE FlushCheck(t) \/ FlushRequest(t) \/ FlushWait(t)
  <2>1. /\ pc[t] \in FlushPCs \ {"flushEnter"} /\ pc'[t] \in FlushPCs \ {"flushEnter"}
        /\ UNCHANGED <<held, flushers>>
    BY <1>5 DEF FlushCheck, FlushRequest, FlushWait, Goto, LInv, CallTypes
  <2>2. held[t] \in created
    BY <2>1 DEF FlushesInv, OrderInv
  <2>3. \A g \in States : CountedAt(g)' = CountedAt(g)
    BY <1>2, <2>1 DEF CountedAt, Counted
  <2>4. FlushersInv'
    BY <2>1, <2>3 DEF FlushesInv, FlushersInv, CountedAt
  <2>5. ASSUME pc'[t] \in {"flushRequest", "flushWait"}
        PROVE  Attended(held[t])' \/ \E g \in created : held'[t] < g
    <3>1. Attended(held[t])' = Attended(held[t])
      BY <1>1, <2>1 DEF Attended, Alive
    <3>2. CASE FlushCheck(t)
      <4>1. lifecycle = "running"
        BY <2>5, <3>2 DEF FlushCheck, Goto, LInv, CallTypes
      <4>2. state \in created /\ Attended(state)
        BY <4>1 DEF LInv, RunningIsServed, FreshInv, Attended, Alive
      <4>3. held[t] <= state /\ held[t] \in Nat /\ state \in Nat
        BY <2>2, <4>2 DEF FlushesInv, OrderInv, LInv, Numbered
      <4> QED
        BY <2>1, <3>1, <4>2, <4>3
    <3>3. CASE FlushRequest(t) \/ FlushWait(t)
      <4>1. pc[t] \in {"flushRequest", "flushWait"}
        BY <3>3 DEF FlushRequest, FlushWait, Goto
      <4> QED
        BY <2>1, <3>1, <4>1 DEF FlushesInv, ServedInv
    <3> QED
      BY <1>5, <3>2, <3>3
  <2> QED
    BY <1>1, <1>2, <2>1, <2>2, <2>4, <2>5, InsideFlush
<1>6. CASE FlushLeave(t)
  <2>1. pc[t] = "flushLeave" /\ pc'[t] = "idle"
    BY <1>6 DEF FlushLeave, Return, LInv, CallTypes
  <2>2. FlushersInv'
    <3> flushers \in [States -> Nat]
      BY CountedFinite DEF FlushesInv, FlushersInv, CountedAt
    <3> flushers' = [flushers EXCEPT ![held[t]] = @ - 1]
      BY <1>6 DEF FlushLeave
    <3> SUFFICES ASSUME NEW g \in States PROVE flushers'[g] = Cardinality(CountedAt(g)')
      BY DEF FlushersInv, CountedAt, Counted
    <3>1. flushers[g] = Cardinality(CountedAt(g)) /\ flushers[g] \in Nat
      BY CountedFinite DEF FlushesInv, FlushersInv, CountedAt
    <3>2. CASE g = held[t]
      <4>1. CountedAt(g)' = CountedAt(g) \ {t} /\ t \in CountedAt(g)
        BY <1>2, <2>1, <3>2 DEF CountedAt, Counted
      <4>2. Cardinality(CountedAt(g) \ {t}) = Cardinality(CountedAt(g)) - 1
        BY <4>1, CountedFinite, FS_RemoveElement
      <4>3. flushers'[g] = flushers[g] - 1
        BY <3>2
      <4> QED
        BY <3>1, <4>1, <4>2, <4>3
    <3>3. CASE g # held[t]
      <4>1. CountedAt(g)' = CountedAt(g)
        BY <1>2, <2>1, <3>3 DEF CountedAt, Counted
      <4> QED
        BY <1>6, <3>1, <3>3, <4>1 DEF FlushLeave
    <3> QED
      BY <3>2, <3>3
  <2> QED
    BY <1>1, <1>2, <2>1, <2>2, InsideFlush
<1> QED
  BY <1>3, <1>4, <1>5, <1>6 DEF Flush

LEMMA ConsumerKeepsFlushes ==
    ASSUME LInv, FlushesInv, NEW g \in States, Consumer(g)
    PROVE  FlushesInv'
<1> USE DEF controlVars, configVars, runVars, flushVars, threadVars
<1>1. UNCHANGED <<pc, held, flushers, created, state, stop>>
  BY DEF Consumer, ServeFlush, CheckStop
<1>2. ASSUME NEW h \in States, Attended(h) PROVE Attended(h)'
  BY <1>2 DEF Consumer, ServeFlush, CheckStop, Attended, Alive, LInv, StateTypes
<1>3. OrderInv' /\ FlushersInv'
  BY <1>1 DEF FlushesInv, OrderInv, FlushersInv, Counted
<1>4. ServedInv'
  <2>1. \A t \in Threads : pc[t] \in {"flushRequest", "flushWait"} /\ Attended(held[t]) =>
            Attended(held[t])'
    BY <1>1, <1>2, HeldStates DEF FlushesInv
  <2> QED
    BY <1>1, <2>1 DEF FlushesInv, ServedInv
<1> QED
  BY <1>3, <1>4 DEF FlushesInv

LEMMA NextKeepsFlushes ==
    ASSUME LInv, FlushesInv, [Next]_vars
    PROVE  FlushesInv'
<1>1. CASE UNCHANGED vars
  BY <1>1 DEF vars, controlVars, configVars, runVars, flushVars, threadVars, FlushesInv, OrderInv,
     FlushersInv, Counted, ServedInv, Attended, Alive
<1> QED
  BY <1>1, BeginKeepsFlushes, ConfigureKeepsFlushes, FlushKeepsFlushes, DestroyStepKeepsFlushes,
     ConsumerKeepsFlushes DEF Next

LEMMA InitFlushes == Init => FlushesInv
<1> SUFFICES ASSUME Init PROVE FlushesInv
  OBVIOUS
<1>1. OrderInv /\ ServedInv
  BY DEF Init, OrderInv, ServedInv
<1>2. \A g \in States : CountedAt(g) = {}
  BY DEF Init, CountedAt, Counted
<1>3. FlushersInv
  BY <1>2, FS_EmptySet DEF Init, FlushersInv, CountedAt
<1> QED
  BY <1>1, <1>3 DEF FlushesInv

\* Flushes are counted, and served unless a restart has replaced the state they hold.
THEOREM FlushesInductive == Spec => []FlushesInv
<1>1. LInv /\ FlushesInv /\ [Next]_vars => FlushesInv'
  BY NextKeepsFlushes
<1> QED
  BY <1>1, InitFlushes, LifecycleInductive, PTL DEF Spec

-----------------------------------------------------------------------------
(* Types *)

\* what LInv and FlushesInv do not say of the types
RestTypes ==
    /\ hook \in {"none", "registered", "run"}
    /\ CountInv
    /\ target \in [Threads -> Nat]

LEMMA RestTypesKeep ==
    ASSUME LInv, FlushesInv, RestTypes, [Next]_vars
    PROVE  RestTypes'
<1>1. CountInv'
  BY CountsKeep DEF RestTypes
<1>2. hook' \in {"none", "registered", "run"}
  BY DEF RestTypes, Next, Begin, Configure, Flush, DestroyStep, Consumer, Access, AccessMismatch,
     SetRouteLevel, Destroy, MakeChannel, MakeChannelFails, AddSink, Refused, SetGlobalLevel, Start,
     StartThrows, StartElse, Query, FlushLoad, FlushEnter, FlushCheck, FlushRequest, FlushWait,
     FlushLeave, WaitFlushers, Join, ResetSinks, DestroyEnd, ServeFlush, CheckStop, RegisterHook,
     controlVars, vars
<1>3. target' \in [Threads -> Nat]
  <2>1. ASSUME NEW t \in Threads, Begin(t) \/ DestroyStep(t)
        PROVE  target' \in [Threads -> Nat]
    BY <2>1 DEF RestTypes, Begin, DestroyStep, Access, AccessMismatch, SetRouteLevel, Destroy,
       WaitFlushers, Join, ResetSinks, DestroyEnd, Return, threadVars
  <2>2. ASSUME NEW t \in Threads, Configure(t)
        PROVE  target' \in [Threads -> Nat]
    BY <2>2 DEF RestTypes, Configure, MakeChannel, MakeChannelFails, AddSink, Refused, SetGlobalLevel,
       Start, StartThrows, StartElse, Query, Return
  <2>3. ASSUME NEW t \in Threads, FlushRequest(t)
        PROVE  target' \in [Threads -> Nat]
    <3>1. held[t] \in States
      BY <2>3, HeldStates DEF FlushRequest, Goto, FlushesInv
    <3> QED
      BY <2>3, <3>1 DEF FlushRequest, RestTypes, CountInv
  <2>4. ASSUME NEW t \in Threads, Flush(t), ~FlushRequest(t)
        PROVE  target' \in [Threads -> Nat]
    BY <2>4 DEF RestTypes, Flush, FlushLoad, FlushEnter, FlushCheck, FlushWait, FlushLeave, Return
  <2>5. ASSUME NEW g \in States, Consumer(g)
        PROVE  target' \in [Threads -> Nat]
    BY <2>5 DEF RestTypes, Consumer, ServeFlush, CheckStop, threadVars
  <2>6. CASE UNCHANGED vars
    BY <2>6 DEF RestTypes, vars, threadVars
  <2> QED
    BY <2>1, <2>2, <2>3, <2>4, <2>5, <2>6 DEF Next
<1> QED
  BY <1>1, <1>2, <1>3 DEF RestTypes

LEMMA RestTypesInductive == Spec => []RestTypes
<1>1. Init => RestTypes
  BY DEF Init, RestTypes, CountInv
<1>2. LInv /\ FlushesInv /\ RestTypes /\ [Next]_vars => RestTypes'
  BY RestTypesKeep
<1> QED
  BY <1>1, <1>2, LifecycleInductive, FlushesInductive, PTL DEF Spec

LEMMA FlushersTypes == FlushersInv => flushers \in [States -> Nat]
  BY CountedFinite DEF FlushersInv, CountedAt

\* Every variable keeps its type: the counts of flushes are never below zero.
THEOREM TypesCorrect == Spec => []TypeOK
<1>1. LInv /\ FlushesInv /\ RestTypes => TypeOK
  <2> SUFFICES ASSUME LInv, FlushesInv, RestTypes PROVE TypeOK
    OBVIOUS
  <2>1. flushers \in [States -> Nat] /\ created \subseteq States
    BY FlushersTypes, HeldStates DEF FlushesInv
  <2> QED
    BY <2>1 DEF TypeOK, LInv, StateTypes, CallTypes, RestTypes, CountInv
<1> QED
  BY <1>1, LifecycleInductive, FlushesInductive, RestTypesInductive, PTL

\* The whole inductive invariant of the control plane.
THEOREM LifecycleHolds == Spec => []LifecycleInv
  BY LifecycleInductive, FlushesInductive, TypesCorrect, PTL DEF LifecycleInv

\* A flush waits in vain only if another state has taken the place of the one it holds
\* (flush_backend's unlocked read of the state pointer): without a restart none does.
THEOREM FlushServed ==
    ASSUME MaxStates = 1
    PROVE  Spec => []FlushIsServed
<1>1. LInv /\ FlushesInv => FlushIsServed
  <2> SUFFICES ASSUME LInv, FlushesInv, NEW t \in Threads, pc[t] = "flushWait"
               PROVE  consumer[held[t]] \in {"loop", "checked"}
    BY DEF FlushIsServed
  <2>1. ~\E g \in created : held[t] < g
    BY HeldStates DEF FlushesInv
  <2> QED
    BY <2>1 DEF FlushesInv, ServedInv, Attended, Alive
<1> QED
  BY <1>1, LifecycleInductive, FlushesInductive, PTL
=============================================================================
