----------------------------- MODULE WriteQueue -----------------------------
(***************************************************************************)
(* What the Firestore SDK promises of the writes an app does not await:    *)
(* each user's writes form a queue; the server commits them from the front *)
(* on and may begin again at the front at any time; a write leaves the     *)
(* queue from the front, when its commit is answered or when the server    *)
(* refuses it.  No pipeline, stream, reconnection, or restart.             *)
(***************************************************************************)
EXTENDS Naturals, Sequences

CONSTANTS Users, Writes

VARIABLES
    pending,    \* each user's writes in the order they were made
    log,        \* the commits of the server
    unread      \* how many of the first pending writes are committed, unanswered

Init ==
    /\ pending = [u \in Users |-> <<>>]
    /\ log = <<>>
    /\ unread = [u \in Users |-> 0]

Issue(u, w) ==
    /\ pending' = [pending EXCEPT ![u] = Append(@, w)]
    /\ UNCHANGED <<log, unread>>

Commit(u) ==
    /\ unread[u] < Len(pending[u])
    /\ log' = Append(log, pending[u][unread[u] + 1])
    /\ unread' = [unread EXCEPT ![u] = @ + 1]
    /\ UNCHANGED pending

\* The server answers the oldest commit.
Settle(u) ==
    /\ pending[u] # <<>> /\ unread[u] > 0
    /\ pending' = [pending EXCEPT ![u] = Tail(@)]
    /\ unread' = [unread EXCEPT ![u] = @ - 1]
    /\ UNCHANGED log

\* A refusal ends the connection, and its unread answers are lost.
Refuse(u) ==
    /\ pending[u] # <<>>
    /\ pending' = [pending EXCEPT ![u] = Tail(@)]
    /\ unread' = [unread EXCEPT ![u] = 0]
    /\ UNCHANGED log

\* The connection is lost and the answers under way with it.
BeginAgain(u) ==
    /\ unread' = [unread EXCEPT ![u] = 0]
    /\ UNCHANGED <<pending, log>>

Next ==
    \E u \in Users :
        \/ \E w \in Writes : Issue(u, w)
        \/ Commit(u) \/ Settle(u) \/ Refuse(u) \/ BeginAgain(u)

Spec == Init /\ [][Next]_<<pending, log, unread>>
=============================================================================
