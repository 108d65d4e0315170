---------------------------- MODULE SocialGraph ----------------------------
(***************************************************************************)
(* What the users collection promises its callers, without calls, answers  *)
(* or retries: a set of accounts and a relation between them.  Opening an  *)
(* account, also one that is already open, leaves it following nobody;     *)
(* following and unfollowing are atomic and need both accounts.            *)
(***************************************************************************)
CONSTANTS Users, Registered

VARIABLES accounts, edges

Init == accounts = Registered /\ edges = {}

Open(u) ==
    /\ accounts' = accounts \cup {u}
    /\ edges' = {e \in edges : e[1] # u}

Follow(u, v) ==
    /\ {u, v} \subseteq accounts
    /\ edges' = edges \cup {<<u, v>>}
    /\ UNCHANGED accounts

Unfollow(u, v) ==
    /\ {u, v} \subseteq accounts
    /\ edges' = edges \ {<<u, v>>}
    /\ UNCHANGED accounts

Next ==
    \E u, v \in Users : Open(u) \/ Follow(u, v) \/ Unfollow(u, v)

Spec == Init /\ [][Next]_<<accounts, edges>>
=============================================================================
