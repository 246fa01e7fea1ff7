------------------------------ MODULE OwnerCheck ------------------------------
(***************************************************************************)
(* diagnostic_thread_owner (src/backend/producer.cpp), which diagnostic    *)
(* builds run before every use of a single-threaded producer: the first    *)
(* thread that logs becomes its owner, and any other is refused.  That the *)
(* producer has one user is what Handoff assumes (SingleOwnerAssumption).  *)
(***************************************************************************)
EXTENDS TLAPS

CONSTANT Threads

VARIABLES
    owner,      \* owner_: no thread, or one
    pc,         \* "idle", "claim" or "using"
    users       \* threads that have been let through (history)

vars == <<owner, pc, users>>

Init ==
    /\ owner = {}
    /\ pc = [t \in Threads |-> "idle"]
    /\ users = {}

Enter(t) ==
    /\ pc' = [pc EXCEPT ![t] = "using"]
    /\ users' = users \cup {t}

\* owner_.load finds this thread, no thread, or another: then the log call throws
Load(t) ==
    /\ pc[t] = "idle"
    /\ \/ owner = {t} /\ Enter(t)
       \/ owner = {} /\ pc' = [pc EXCEPT ![t] = "claim"] /\ UNCHANGED users
       \/ owner \notin {{}, {t}} /\ UNCHANGED <<pc, users>>
    /\ UNCHANGED owner

\* owner_.compare_exchange_strong succeeds, or another thread was faster and the
\* log call throws
Claim(t) ==
    /\ pc[t] = "claim"
    /\ \/ owner = {} /\ owner' = {t} /\ Enter(t)
       \/ owner # {} /\ pc' = [pc EXCEPT ![t] = "idle"] /\ UNCHANGED <<owner, users>>

\* the log call is done with the producer
Leave(t) ==
    /\ pc[t] = "using"
    /\ pc' = [pc EXCEPT ![t] = "idle"]
    /\ UNCHANGED <<owner, users>>

Next == \E t \in Threads : Load(t) \/ Claim(t) \/ Leave(t)

Spec == Init /\ [][Next]_vars
-----------------------------------------------------------------------------
\* All uses of a single-threaded producer are one thread's, however many threads
\* make their first log call at once (diagnostic_assert_thread; tests/007.cpp
\* "single-thread ownership binds on the first enabled log").
OneUser == \A t, u \in users : t = u

TypeInv ==
    /\ owner \subseteq Threads
    /\ pc \in [Threads -> {"idle", "claim", "using"}]
    /\ users \subseteq Threads

\* nobody has been let through before there was an owner, and nobody else after
OwnerInv ==
    /\ TypeInv
    /\ users \subseteq owner
    /\ \A t, u \in owner : t = u

LEMMA OwnerInvInit == Init => OwnerInv
  BY DEF Init, OwnerInv, TypeInv

LEMMA OwnerInvNext == OwnerInv /\ [Next]_vars => OwnerInv'
<1> SUFFICES ASSUME OwnerInv, [Next]_vars
             PROVE  OwnerInv'
  OBVIOUS
<1> USE DEF OwnerInv, TypeInv
<1>1. ASSUME NEW t \in Threads, Load(t)
      PROVE  OwnerInv'
  BY <1>1 DEF Load, Enter
<1>2. ASSUME NEW t \in Threads, Claim(t)
      PROVE  OwnerInv'
  BY <1>2 DEF Claim, Enter
<1>3. ASSUME NEW t \in Threads, Leave(t)
      PROVE  OwnerInv'
  BY <1>3 DEF Leave
<1>4. CASE UNCHANGED vars
  BY <1>4 DEF vars
<1> QED
  BY <1>1, <1>2, <1>3, <1>4 DEF Next

\* All uses of a single-threaded producer are one thread's, for any set of threads
\* (diagnostic_assert_thread).
THEOREM OneUserAlways == Spec => []OneUser
<1>1. OwnerInv => OneUser
  BY DEF OwnerInv, OneUser
<1> QED
  BY <1>1, OwnerInvInit, OwnerInvNext, PTL DEF Spec
=============================================================================
