----------------------- MODULE UserNetworkRepository -----------------------
(***************************************************************************)
(* The users collection and the three calls that write to it:              *)
(* attemptCreateUser, followUser and unfollowUser of                       *)
(* lib/repo/user_network_repository.dart.                                  *)
(*                                                                         *)
(* Any number of phones call the repository at once.  A call is a slot of  *)
(* Calls that is used once; each answer it awaits is one step, so that the *)
(* steps of different calls interleave.  The start of a call and the       *)
(* answer to its first get() are one step: nothing happens between them.   *)
(* A get() answered from the offline cache is a call that read and         *)
(* stalled.                                                                *)
(***************************************************************************)
EXTENDS Integers

CONSTANTS
    Users,       \* the uids of the accounts
    Calls,       \* repository calls, each made at most once
    Registered,  \* the users whose document was created before
    NoUser,      \* what the key of a call not yet made holds
    MaxRetries   \* kRetryCount of the transaction runner

ASSUME RegisteredAssumption == Registered \subseteq Users
ASSUME NoUserAssumption == NoUser \notin Users
ASSUME RetryAssumption == MaxRetries \in Nat

VARIABLES
    users,      \* the documents of COLLECTION_USERS on the server
    call,       \* the calls and what each has captured
    follows,    \* history: followUser calls whose write was applied, by target
    unfollows,  \* history: unfollowUser calls whose write was applied
    wiped,      \* history: users whose document was set while it existed
    raced       \* history: targets written from a count that was out of date

docVars == <<users>>
histVars == <<follows, unfollows, wiped, raced>>
vars == <<users, call, follows, unfollows, wiped, raced>>

----------------------------------------------------------------------------
UserDoc == [exists : BOOLEAN, followers : Int, followings : SUBSET Users]

NoDocument == [exists |-> FALSE, followers |-> 0, followings |-> {}]

getMapForCreateUser == [exists |-> TRUE, followers |-> 0, followings |-> {}]

Ops == {"create", "follow", "unfollow"}

CallState ==
    [pc      : {"idle", "set", "getOther", "tx", "done"},
     op      : Ops,
     me      : Users \cup {NoUser},  \* userKey, myUserKey
     other   : Users \cup {NoUser},  \* otherUserKey
     mine    : BOOLEAN,              \* mySnapshot.exists, snapshot.exists
     theirs  : BOOLEAN,              \* otherSnapshot.exists
     base    : Int,                  \* currentFollowers, captured
     tries   : Nat,                  \* attempts of the transaction so far
     at      : Nat,                  \* history: writes on other when base was read
     applied : BOOLEAN,              \* history: an attempt, or the set, was applied
     again   : BOOLEAN]              \* history: the set was applied more than once

NotMade ==
    [pc |-> "idle", op |-> "create", me |-> NoUser, other |-> NoUser,
     mine |-> FALSE, theirs |-> FALSE, base |-> 0, tries |-> 0, at |-> 0,
     applied |-> FALSE, again |-> FALSE]

\* The counted writes on v: calls whose transaction was applied.
Writes(v) == follows[v] + unfollows[v]

\* What get() may answer for u: the server's document, or, on the phone that
\* has a set of u still in its queue of local writes, that local document.
Get(u) ==
    IF \E c \in Calls : call[c].pc = "set" /\ call[c].me = u
    THEN {users[u], getMapForCreateUser}
    ELSE {users[u]}

----------------------------------------------------------------------------
Init ==
    /\ users = [u \in Users |-> IF u \in Registered THEN getMapForCreateUser
                                                    ELSE NoDocument]
    /\ call = [c \in Calls |-> NotMade]
    /\ follows = [u \in Users |-> 0]
    /\ unfollows = [u \in Users |-> 0]
    /\ wiped = {}
    /\ raced = {}

\* Mutant: the set is issued whatever the snapshot says.
attemptCreateUserAlways(c, u) ==
    /\ call[c].pc = "idle"
    /\ \E snapshot \in Get(u) :
         call' = [call EXCEPT ![c] =
                    [NotMade EXCEPT !.pc = "set", !.me = u, !.mine = snapshot.exists]]
    /\ UNCHANGED <<users, histVars>>

\* get() of the user's own document; a set is issued only when it is missing.
attemptCreateUser(c, u) ==
    /\ call[c].pc = "idle"
    /\ \E snapshot \in Get(u) :
         call' = [call EXCEPT ![c] =
                    [NotMade EXCEPT !.pc = IF snapshot.exists THEN "done" ELSE "set",
                                    !.me = u,
                                    !.mine = snapshot.exists]]
    /\ UNCHANGED <<users, histVars>>

\* The set reaches the server, whatever the document has become meanwhile.  It
\* waits in the queue of writes, which commits at least once (RemoteStore): when
\* the answer is lost it is sent again.
SetLands(c) ==
    LET u == call[c].me IN
    /\ call[c].pc = "set"
    /\ users' = [users EXCEPT ![u] = getMapForCreateUser]
    /\ \E pc \in {"set", "done"} :
         call' = [call EXCEPT ![c] = [@ EXCEPT !.pc = pc, !.applied = TRUE,
                                               !.again = call[c].applied]]
    /\ wiped' = IF users[u].exists THEN wiped \cup {u} ELSE wiped
    /\ UNCHANGED <<follows, unfollows, raced>>

\* followUser and unfollowUser share their two reads.
GetMine(c, op, me, other) ==
    /\ call[c].pc = "idle"
    /\ \E mySnapshot \in Get(me) :
         call' = [call EXCEPT ![c] =
                    [NotMade EXCEPT !.pc = "getOther", !.op = op, !.me = me,
                                    !.other = other, !.mine = mySnapshot.exists]]
    /\ UNCHANGED <<users, histVars>>

followUser(c, me, other) == GetMine(c, "follow", me, other)

unfollowUser(c, me, other) == GetMine(c, "unfollow", me, other)

GetOther(c) ==
    LET v == call[c].other IN
    /\ call[c].pc = "getOther"
    /\ \E otherSnapshot \in Get(v) :
         /\ call' = [call EXCEPT ![c] =
                       [@ EXCEPT !.pc = "tx", !.theirs = otherSnapshot.exists,
                                 !.base = otherSnapshot.followers, !.at = Writes(v)]]
         /\ raced' = IF otherSnapshot = users[v] THEN raced ELSE raced \cup {v}
    /\ UNCHANGED <<users, follows, unfollows, wiped>>

\* The handler of runTransaction writes only when both snapshots existed.
HandlerWrites(c) == call[c].mine /\ call[c].theirs

\* The two updates of the handler, applied at once.  followUser and
\* unfollowUser may be given the same key twice: both fields of one document.
ArrayEdit(op, s, v) == IF op = "follow" THEN s \cup {v} ELSE s \ {v}

\* Mutant: unfollowUser writes the count back as it was.
CountEditNeverDown(op, n) == IF op = "follow" THEN n + 1 ELSE n

CountEdit(op, n) == IF op = "follow" THEN n + 1 ELSE n - 1

\* Mutant: the count is incremented on the server.
TxWritesIncrement(k) ==
    [u \in Users |->
        [users[u] EXCEPT
            !.followings = IF u = k.me THEN ArrayEdit(k.op, @, k.other) ELSE @,
            !.followers = IF u = k.other THEN CountEdit(k.op, @) ELSE @]]

\* Mutant: the count goes to the wrong document.
TxWritesOwnCount(k) ==
    [u \in Users |->
        [users[u] EXCEPT
            !.followings = IF u = k.me THEN ArrayEdit(k.op, @, k.other) ELSE @,
            !.followers = IF u = k.me THEN CountEdit(k.op, k.base) ELSE @]]

TxWrites(k) ==
    [u \in Users |->
        [exists     |-> users[u].exists,
         followings |-> IF u = k.me
                        THEN ArrayEdit(k.op, users[u].followings, k.other)
                        ELSE users[u].followings,
         followers  |-> IF u = k.other
                        THEN CountEdit(k.op, k.base)
                        ELSE users[u].followers]]

CountCall(c, op, count) ==
    IF call[c].op = op /\ ~call[c].applied
    THEN [count EXCEPT ![call[c].other] = @ + 1] ELSE count

\* After an attempt the runner is told (done), or it retries with the
\* snapshots captured before: the handler reads nothing again.
AfterAttempt(k, applied) ==
    {[k EXCEPT !.pc = "done", !.applied = applied]} \cup
    IF k.tries < MaxRetries
    THEN {[k EXCEPT !.tries = @ + 1, !.applied = applied]}
    ELSE {}

\* Mutant: the handler sets instead of updating, which needs no document.
CommitTransactionSets(c) ==
    LET k == call[c] IN
    /\ k.pc = "tx"
    /\ HandlerWrites(c)
    /\ users' = TxWrites(k)
    /\ \E next \in AfterAttempt(k, TRUE) : call' = [call EXCEPT ![c] = next]
    /\ follows' = CountCall(c, "follow", follows)
    /\ unfollows' = CountCall(c, "unfollow", unfollows)
    /\ UNCHANGED <<wiped, raced>>

\* An attempt is applied: both documents exist, the precondition of a write
\* to a document the transaction has not read.  If its answer is lost the
\* runner tries again.
CommitTransaction(c) ==
    LET k == call[c] IN
    /\ k.pc = "tx"
    /\ HandlerWrites(c)
    /\ users[k.me].exists /\ users[k.other].exists
    /\ users' = TxWrites(k)
    /\ \E next \in AfterAttempt(k, TRUE) : call' = [call EXCEPT ![c] = next]
    /\ follows' = CountCall(c, "follow", follows)
    /\ unfollows' = CountCall(c, "unfollow", unfollows)
    /\ raced' = IF Writes(k.other) = k.at + (IF k.applied THEN 1 ELSE 0)
                THEN raced ELSE raced \cup {k.other}
    /\ UNCHANGED wiped

\* An attempt that is not applied and is retried, or is the last one.
AbortTransaction(c) ==
    LET k == call[c] IN
    /\ k.pc = "tx"
    /\ HandlerWrites(c)
    /\ \E next \in AfterAttempt(k, k.applied) : call' = [call EXCEPT ![c] = next]
    /\ UNCHANGED <<users, histVars>>

\* The handler returns without a write: the empty transaction succeeds.
EmptyTransaction(c) ==
    /\ call[c].pc = "tx"
    /\ ~HandlerWrites(c)
    /\ call' = [call EXCEPT ![c].pc = "done"]
    /\ UNCHANGED <<users, histVars>>

\* A get() that throws, the end of the process before the second one, or a set
\* that the server refuses, ends the call; a set that is queued survives the
\* process.
CallLost(c) ==
    /\ call[c].pc \in {"set", "getOther"}
    /\ call' = [call EXCEPT ![c].pc = "done"]
    /\ UNCHANGED <<users, histVars>>

CallSteps(c) ==
    \/ SetLands(c)
    \/ GetOther(c)
    \/ CommitTransaction(c)
    \/ AbortTransaction(c)
    \/ EmptyTransaction(c)
    \/ CallLost(c)

Next ==
    \E c \in Calls :
        \/ \E u \in Users : attemptCreateUser(c, u)
        \/ \E me, other \in Users : \/ followUser(c, me, other)
                                    \/ unfollowUser(c, me, other)
        \/ CallSteps(c)

Spec == Init /\ [][Next]_vars

----------------------------------------------------------------------------
TypeOK ==
    /\ users \in [Users -> UserDoc]
    /\ call \in [Calls -> CallState]
    /\ follows \in [Users -> Nat]
    /\ unfollows \in [Users -> Nat]
    /\ wiped \subseteq Users
    /\ raced \subseteq Users

\* Nobody follows, and nobody is followed by, an account without a document:
\* a transaction whose snapshots are stale never creates half an edge.
FollowsAreReal ==
    \A u, v \in Users :
        v \in users[u].followings => users[u].exists /\ users[v].exists

\* However reads, commits and retries interleave, a count never exceeds the
\* followUser calls that took effect on its user, and never falls below minus
\* the unfollowUser calls: in particular a retry of a transaction whose
\* answer was lost does not count twice.
CountWithinWrites ==
    \A v \in Users :
        -unfollows[v] <= users[v].followers /\ users[v].followers <= follows[v]

\* The count is exact unless two calls on that user overlapped (a write from
\* a count read before another call's write) or its document was set twice:
\* interleaving and a lost answer are the only ways the counter loses anything.
ExactUnlessRaced ==
    \A v \in Users \ (raced \cup wiped) :
        users[v].followers = follows[v] - unfollows[v]

\* As long as nobody unfollows v and its document is set once, a user
\* that someone follows shows at least one follower, although updates of the
\* count are lost: the edge and the count are one atomic write.
FollowedIsCounted ==
    \A u, v \in Users :
        v \in users[u].followings /\ unfollows[v] = 0 /\ v \notin wiped
            => users[v].followers >= 1

\* A set by c of the document of u, which c saw missing, has landed.
Landed(c, u) ==
    /\ call[c].op = "create" /\ call[c].me = u
    /\ call[c].applied /\ ~call[c].mine

\* A document is overwritten only by a second set of it, and every set is of an
\* attemptCreateUser that saw the document missing: two of them, or one whose
\* set was sent again.  A document from before is never overwritten, and a
\* profile is lost only to two first sign-ins or to one lost answer.
WipeNeedsTwoSets ==
    \A u \in wiped :
        \E c1, c2 \in Calls :
            Landed(c1, u) /\ Landed(c2, u) /\ (c1 # c2 \/ call[c1].again)

\* The collection implements SocialGraph: every step of every call is an
\* account opened, one edge added or removed between two accounts, or nothing.
Accounts == {u \in Users : users[u].exists}

Edges == {e \in Users \X Users : e[2] \in users[e[1]].followings}

Graph == INSTANCE SocialGraph WITH accounts <- Accounts, edges <- Edges

ImplementsSocialGraph == Graph!Spec
=============================================================================
