------------------------------ MODULE MCMyApp ------------------------------
(* A small instance of MyApp for TLC. *)
EXTENDS MyApp, TLC

CONSTANTS u1, u2, h1, h2

MCUsers == {u1, u2}
TwoHandlers == {h1, h2}
OneHandler == {h1}
OneUser == {u1}

\* Users and invocations are interchangeable.
UserHandlerSymmetry == Permutations(MCUsers) \cup Permutations(TwoHandlers)
=============================================================================
