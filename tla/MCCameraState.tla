--------------------------- MODULE MCCameraState ---------------------------
(* A small instance of CameraState for TLC. *)
EXTENDS CameraState

CONSTANTS s1, s2, s3

TwoScreens == {s1, s2}
ThreeScreens == {s1, s2, s3}

\* The screens are interchangeable.
ScreenSymmetry == Permutations(ThreeScreens)
=============================================================================
