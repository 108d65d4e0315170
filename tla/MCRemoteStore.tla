--------------------------- MODULE MCRemoteStore ---------------------------
(* A small instance of RemoteStore for TLC. *)
EXTENDS RemoteStore

CONSTANTS u1, u2

MCUsers == {u1, u2}
=============================================================================
