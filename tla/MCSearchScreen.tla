-------------------------- MODULE MCSearchScreen --------------------------
(* Small instances of SearchScreen for TLC. *)
EXTENDS SearchScreen, TLC

CONSTANTS u1, u2, c1, c2, c3, p1, p2

MCUsers == {u1, u2}
OneRegistered == {u1}
AllRegistered == {u1, u2}
TwoCalls == {c1, c2}
ThreeCalls == {c1, c2, c3}
OnePhone == {p1}
TwoPhones == {p1, p2}

\* Slots are interchangeable.
CallSymmetry == Permutations(ThreeCalls)

\* States are told apart without the histories that no guard reads and only
\* the invariants of UserNetworkRepository name.
WithoutHistory ==
    <<users, phoneVars,
      [c \in Calls |->
          [call[c] EXCEPT !.at = 0, !.again = FALSE,
                          !.applied = @ /\ call[c].op = "follow"]]>>
=============================================================================
