----------------------- MODULE PostNetworkRepository -----------------------
(***************************************************************************)
(* The two calls that write to a post after it was shared: toggleLike of   *)
(* lib/repo/post_network_repository.dart and createNewComment of           *)
(* lib/repo/comment_network_repository.dart, for one post and any number   *)
(* of phones.                                                              *)
(*                                                                         *)
(* toggleLike does not await its update: the update goes into the phone's  *)
(* queue of writes, of which WriteQueue says what it promises and which    *)
(* RemoteStore implements.  A get() answers with the server's document and *)
(* the phone's own pending writes on top.                                  *)
(*                                                                         *)
(* A phone without a connection answers a get() from its cache, as old as  *)
(* that is.  Here this is a call that has read then and has stalled since: *)
(* it counts as made at the same time as all that came in between, in      *)
(* racedLikes and in overlapped.  A phone with no copy of the document     *)
(* throws, and its call writes nothing.                                    *)
(***************************************************************************)
EXTENDS Integers, Sequences, FiniteSets

CONSTANTS
    Phones,
    Users,
    UserOf,       \* the user who is signed in on each phone
    Calls,        \* repository calls, each made at most once
    MaxRetries,   \* kRetryCount of the transaction runner
    MaxCommits    \* bound: commits of updates, repeated ones included

ASSUME UserOfAssumption == UserOf \in [Phones -> Users]
ASSUME CommentRetryAssumption == MaxRetries \in Nat

VARIABLES
    likeable,     \* the post has a list of likes and a count of comments
    likes,        \* num_of_likes
    comments,     \* the documents of its COLLECTION_COMMENTS
    numOfComments,
    lastComment,
    call,         \* the calls and what each has captured
    pending, log, unread,  \* the phones' queues of writes
    wanted,       \* history: users whose last tap, as they saw it, was a like
    racedLikes,   \* history: users whose taps overlapped, or were refused
    overlapped    \* history: comments were made at the same time

postVars == <<likes, comments, numOfComments, lastComment>>
queueVars == <<pending, log, unread>>
vars == <<likeable, postVars, call, queueVars, wanted, racedLikes, overlapped>>

Updates == INSTANCE WriteQueue WITH Users <- Phones, Writes <- Calls

----------------------------------------------------------------------------
CallState ==
    [pc    : {"idle", "liking", "tx", "done"},
     phone : Phones,
     found : BOOLEAN,   \* the likes of the snapshot contain the user
     base  : Nat,       \* numOfComments of the snapshot
     tries : 0..MaxRetries]

NoComment == <<>>

\* Mutant: doc() is called in the handler, which runs again with each attempt.
CommentRefPerAttempt(c) == <<c, call[c].tries>>

\* commentRef: doc() makes up a key before the transaction, one per call.
CommentRef(c) == <<c, 0>>

Init ==
    /\ likeable \in BOOLEAN
    /\ likes = {}
    /\ comments = {}
    /\ numOfComments = 0
    /\ lastComment = NoComment
    /\ call \in [Calls -> {[pc |-> "idle", phone |-> p, found |-> FALSE,
                            base |-> 0, tries |-> 0] : p \in Phones}]
    /\ Updates!Init
    /\ wanted = {}
    /\ racedLikes = {}
    /\ overlapped = FALSE

Me(c) == UserOf[call[c].phone]

\* Mutant: the answer is the server's document alone.
LikedOnServer(p) == UserOf[p] \in likes

\* What get() says on phone p: its last pending write, or else the server.
Liked(p) ==
    IF pending[p] = <<>>
    THEN UserOf[p] \in likes
    ELSE ~call[pending[p][Len(pending[p])]].found

\* toggleLike: get() is answered.  On a post as getMapForCreatePost makes it,
\* whose num_of_likes is the number 0, contains throws.  The tap overlaps an
\* earlier one of this user whose update is not yet issued, or which is in the
\* queue of another phone.
toggleLike(c) ==
    LET p == call[c].phone
        u == Me(c)
        found == Liked(p)
    IN  /\ call[c].pc = "idle"
        /\ IF likeable
           THEN /\ call' = [call EXCEPT ![c].pc = "liking", ![c].found = found]
                /\ wanted' = IF u \in wanted THEN wanted \ {u} ELSE wanted \cup {u}
                /\ racedLikes' =
                     IF \/ \E d \in Calls : call[d].pc = "liking" /\ Me(d) = u
                        \/ \E q \in Phones \ {p} : UserOf[q] = u /\ pending[q] # <<>>
                     THEN racedLikes \cup {u} ELSE racedLikes
           ELSE /\ call' = [call EXCEPT ![c].pc = "done"]
                /\ UNCHANGED <<wanted, racedLikes>>
        /\ UNCHANGED <<likeable, postVars, queueVars, overlapped>>

\* The update is issued, arrayRemove if the user was found and arrayUnion if
\* not, and the call returns.
IssueUpdate(c) ==
    /\ call[c].pc = "liking"
    /\ Updates!Issue(call[c].phone, c)
    /\ call' = [call EXCEPT ![c].pc = "done"]
    /\ UNCHANGED <<likeable, postVars, wanted, racedLikes, overlapped>>

\* Mutant: the list of the snapshot is written back, without what others did.
UpdateWhole(c) == IF call[c].found THEN {} ELSE {Me(c)}

\* The likes after the update of c: arrayRemove or arrayUnion.
Update(c) == IF call[c].found THEN likes \ {Me(c)} ELSE likes \cup {Me(c)}

\* The server commits the next update of a phone, perhaps not the first time.
CommitUpdate(p) ==
    /\ Updates!Commit(p)
    /\ likes' = Update(log'[Len(log')])
    /\ UNCHANGED <<likeable, comments, numOfComments, lastComment, call, wanted,
                   racedLikes, overlapped>>

UpdateAnswered(p) ==
    /\ Updates!Settle(p)
    /\ UNCHANGED <<likeable, postVars, call, wanted, racedLikes, overlapped>>

\* The connection of a phone is lost, and the answers with it.
ConnectionLost(p) ==
    /\ unread[p] > 0
    /\ Len(log) + Len(pending[p]) <= MaxCommits
    /\ Updates!BeginAgain(p)
    /\ UNCHANGED <<likeable, postVars, call, wanted, racedLikes, overlapped>>

\* The rules of the database refuse an update.
UpdateRefused(p) ==
    /\ Updates!Refuse(p)
    /\ racedLikes' = racedLikes \cup {UserOf[p]}
    /\ UNCHANGED <<likeable, postVars, call, wanted, overlapped>>

\* createNewComment: get() is answered; commentRef is made.
createNewComment(c) ==
    /\ call[c].pc = "idle"
    /\ call' = [call EXCEPT ![c].pc = "tx", ![c].base = numOfComments]
    /\ overlapped' = (overlapped \/ \E d \in Calls : call[d].pc = "tx")
    /\ UNCHANGED <<likeable, postVars, queueVars, wanted, racedLikes>>

\* After an attempt: its answer arrives, or it is lost or says that the
\* attempt was aborted, and the runner tries again or gives up.
AttemptEnds(c) ==
    \/ call' = [call EXCEPT ![c].pc = "done"]
    \/ call[c].tries < MaxRetries /\ call' = [call EXCEPT ![c].tries = @ + 1]

\* Mutant: the post is updated outside the transaction.
CommitCommentWithoutCount(c) ==
    /\ call[c].pc = "tx" /\ likeable
    /\ comments' = comments \cup {CommentRef(c)}
    /\ lastComment' = CommentRef(c)
    /\ AttemptEnds(c)
    /\ UNCHANGED <<likeable, likes, numOfComments, queueVars, wanted, racedLikes, overlapped>>

\* Mutant: the comment itself is not set.
CommitCommentUpdateOnly(c) ==
    /\ call[c].pc = "tx" /\ likeable
    /\ numOfComments' = call[c].base + 1
    /\ lastComment' = CommentRef(c)
    /\ AttemptEnds(c)
    /\ UNCHANGED <<likeable, likes, comments, queueVars, wanted, racedLikes, overlapped>>

\* An attempt of the transaction is applied: both writes are blind, so that
\* the count is the one of the snapshot plus one whatever it has become.
CommitComment(c) ==
    /\ call[c].pc = "tx" /\ likeable
    /\ comments' = comments \cup {CommentRef(c)}
    /\ numOfComments' = call[c].base + 1
    /\ lastComment' = CommentRef(c)
    /\ AttemptEnds(c)
    /\ UNCHANGED <<likeable, likes, queueVars, wanted, racedLikes, overlapped>>

\* An attempt is not applied: aborted by the server, or, on a post without
\* num_of_comments, ended by the handler, which throws after the set.
CommentFails(c) ==
    /\ call[c].pc = "tx"
    /\ IF likeable THEN AttemptEnds(c) ELSE call' = [call EXCEPT ![c].pc = "done"]
    /\ UNCHANGED <<likeable, postVars, queueVars, wanted, racedLikes, overlapped>>

Next ==
    \/ \E c \in Calls :
         \/ toggleLike(c) \/ IssueUpdate(c)
         \/ createNewComment(c) \/ CommitComment(c) \/ CommentFails(c)
    \/ \E p \in Phones :
         CommitUpdate(p) \/ UpdateAnswered(p) \/ ConnectionLost(p) \/ UpdateRefused(p)

Spec == Init /\ [][Next]_vars

----------------------------------------------------------------------------
TypeOK ==
    /\ likeable \in BOOLEAN
    /\ likes \subseteq Users
    /\ comments \subseteq Calls \X Nat
    /\ numOfComments \in Nat
    /\ lastComment \in (Calls \X Nat) \cup {NoComment}
    /\ call \in [Calls -> CallState]
    /\ pending \in [Phones -> Seq(Calls)]
    /\ log \in Seq(Calls)
    /\ unread \in [Phones -> Nat]
    /\ wanted \subseteq Users
    /\ racedLikes \subseteq Users
    /\ overlapped \in BOOLEAN

\* Every tap on the heart flips it, however often updates are repeated by the
\* SDK: when nothing of a user is under way, the like is what the last tap
\* asked for, unless two taps of that user overlapped.
TapsFlipTheLike ==
    \A u \in Users \ racedLikes :
        (/\ \A p \in Phones : UserOf[p] = u => pending[p] = <<>>
         /\ \A c \in Calls : call[c].pc = "liking" => Me(c) # u)
            => (u \in likes <=> u \in wanted)

Committed(c) == \E i \in DOMAIN log : log[i] = c

\* Nobody's like is given or taken by the taps of others, overlapping or
\* repeated: it is there only if an update of this user put it there, and
\* gone again only if an update of this user took it away.
LikesAreOnesOwn ==
    \A u \in Users :
        /\ u \in likes =>
             \E c \in Calls : Committed(c) /\ Me(c) = u /\ ~call[c].found
        /\ (\E c \in Calls : Committed(c) /\ Me(c) = u) /\ u \notin likes =>
             \E c \in Calls : Committed(c) /\ Me(c) = u /\ call[c].found

\* Retries of the transaction add no second comment: the key was made before.
OneCommentPerCall == \A x, y \in comments : x[1] = y[1] => x = y

\* num_of_comments can fall behind but is never ahead, and it is exact as long
\* as no two comments were made at the same time.
CountIsNeverAhead ==
    /\ numOfComments <= Cardinality(comments)
    /\ ~overlapped => numOfComments = Cardinality(comments)

\* last_comment is a comment that is there, and there is one if there are any.
LastCommentIsThere ==
    IF comments = {} THEN lastComment = NoComment ELSE lastComment \in comments
=============================================================================
