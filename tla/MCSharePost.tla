---------------------------- MODULE MCSharePost ----------------------------
(* A small instance of SharePost for TLC. *)
EXTENDS SharePost

CONSTANTS s1, s2, s3

OneShare == {s1}
TwoShares == {s1, s2}
ThreeShares == {s1, s2, s3}

\* The runs are interchangeable.
ShareSymmetry == Permutations(ThreeShares)
=============================================================================
