---------------------- MODULE MCUserNetworkRepository ----------------------
(* Small instances of UserNetworkRepository for TLC. *)
EXTENDS UserNetworkRepository, TLC

CONSTANTS u1, u2, c1, c2, c3, c4

MCUsers == {u1, u2}
OneRegistered == {u1}
AllRegistered == {u1, u2}
ThreeCalls == {c1, c2, c3}
FourCalls == {c1, c2, c3, c4}

\* The slots are interchangeable: the specification never tells them apart.
ThreeCallsSymmetry == Permutations(ThreeCalls)
FourCallsSymmetry == Permutations(FourCalls)
=============================================================================
