------------------------------ MODULE MCHandoff ------------------------------
(* Small instances of Handoff for TLC. *)
EXTENDS HandoffService, TLC

CONSTANTS t1, t2, t3, d1, d2

NoSingles == {}
NormalSingle == {-2}
NoOwner == [q \in {} |-> t1]
FirstOwns == [q \in {-2} |-> t1]

\* threads that own no single-threaded producer are interchangeable
ThreadSymmetry == Permutations({t1, t2, t3} \cap Threads)

\* so are threads that only destroy
DestroyerSymmetry == Permutations({d1, d2} \cap Destroyers)

\* flush returns, whatever the other threads log meanwhile (tests/011.cpp "flush
\* completes under concurrent producer load"): stated of one thread, since all
\* threads are alike and it halves the search
FlushReturns == FlushReturnsTo(t1)
=============================================================================
