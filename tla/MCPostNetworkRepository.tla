---------------------- MODULE MCPostNetworkRepository ----------------------
(* A small instance of PostNetworkRepository for TLC: the first user has   *)
(* two phones, the second one.                                             *)
EXTENDS PostNetworkRepository, TLC

CONSTANTS u1, u2, p1, p2, p3, c1, c2, c3

MCPhones == {p1, p2, p3}
MCUsers == {u1, u2}
MCUserOf == [p \in MCPhones |-> IF p = p3 THEN u2 ELSE u1]
ThreeCalls == {c1, c2, c3}

\* Calls, and the phones of the first user, are interchangeable.
CallSymmetry == Permutations(ThreeCalls) \cup Permutations({p1, p2})
=============================================================================
