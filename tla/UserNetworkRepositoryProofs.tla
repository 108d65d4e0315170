-------------------- MODULE UserNetworkRepositoryProofs --------------------
(***************************************************************************)
(* Theorems about UserNetworkRepository, for any accounts, any number of   *)
(* calls and any retry bound.                                              *)
(***************************************************************************)
EXTENDS UserNetworkRepository, TLAPS

\* Which keys and operation a call at each of its steps carries.
CallShape ==
    \A c \in Calls :
        /\ call[c].pc # "idle" => call[c].me \in Users
        /\ call[c].pc = "set" => call[c].op = "create" /\ ~call[c].mine
        /\ call[c].pc \in {"getOther", "tx"} =>
              /\ call[c].op \in {"follow", "unfollow"}
              /\ call[c].other \in Users
        /\ call[c].pc \in {"idle", "getOther"} => ~call[c].applied

MissingIsEmpty ==
    \A u \in Users : ~users[u].exists => users[u] = NoDocument

Shape == TypeOK /\ CallShape /\ MissingIsEmpty

----------------------------------------------------------------------------
\* A document that get() may answer is a document, with a count.
LEMMA GetType ==
    ASSUME TypeOK, NEW u \in Users, NEW d \in Get(u)
    PROVE  d \in UserDoc
<1>1. d = users[u] \/ d = getMapForCreateUser
  BY DEF Get
<1>2. users[u] \in UserDoc
  BY DEF TypeOK
<1>3. getMapForCreateUser \in UserDoc
  BY DEF UserDoc, getMapForCreateUser
<1> QED BY <1>1, <1>2, <1>3

\* A call stays a call after an attempt, applied or not.
LEMMA AfterAttemptType ==
    ASSUME NEW k \in CallState, NEW b \in BOOLEAN, NEW n \in AfterAttempt(k, b)
    PROVE  /\ n \in CallState
           /\ n.pc \in {"done", k.pc}
           /\ n.op = k.op /\ n.me = k.me /\ n.other = k.other
           /\ n.mine = k.mine /\ n.theirs = k.theirs
           /\ n.base = k.base /\ n.at = k.at /\ n.applied = b
<1>1. k.tries + 1 \in Nat
  BY DEF CallState
<1>2. \/ n = [k EXCEPT !.pc = "done", !.applied = b]
      \/ n = [k EXCEPT !.tries = @ + 1, !.applied = b]
  BY RetryAssumption DEF AfterAttempt
<1> QED BY <1>1, <1>2 DEF CallState

\* The two updates of a transaction leave documents.
LEMMA TxWritesType ==
    ASSUME TypeOK, NEW k \in CallState, k.other \in Users
    PROVE  TxWrites(k) \in [Users -> UserDoc]
<1> SUFFICES ASSUME NEW u \in Users
             PROVE  TxWrites(k)[u] \in UserDoc
  BY DEF TxWrites
<1>1. ArrayEdit(k.op, users[u].followings, k.other) \in SUBSET Users
  BY DEF ArrayEdit, TypeOK, UserDoc
<1>2. CountEdit(k.op, k.base) \in Int
  BY DEF CountEdit, CallState
<1> QED BY <1>1, <1>2 DEF TxWrites, TypeOK, UserDoc

\* The history of writes stays a count for every user.
LEMMA CountCallType ==
    ASSUME NEW c \in Calls, call[c].other \in Users, NEW op,
           NEW f \in [Users -> Nat]
    PROVE  CountCall(c, op, f) \in [Users -> Nat]
BY DEF CountCall

\* Spec keeps every variable in its type, every call in one of its shapes and
\* every missing document empty.
THEOREM ShapeCorrect == Spec => []Shape
<1>1. Init => Shape
  BY RegisteredAssumption, RetryAssumption
  DEF Init, Shape, TypeOK, CallShape, MissingIsEmpty, UserDoc, NoDocument,
      getMapForCreateUser, CallState, NotMade, Ops
<1>2. Shape /\ [Next]_vars => Shape'
  <2> SUFFICES ASSUME Shape, [Next]_vars
               PROVE  Shape'
    OBVIOUS
  <2>1. ASSUME NEW c \in Calls, NEW u \in Users, attemptCreateUser(c, u)
        PROVE  Shape'
    <3>1. PICK s \in Get(u) :
            call' = [call EXCEPT ![c] =
                       [NotMade EXCEPT !.pc = IF s.exists THEN "done" ELSE "set",
                                       !.me = u, !.mine = s.exists]]
      BY <2>1 DEF attemptCreateUser
    <3>2. s \in UserDoc
      BY GetType DEF Shape
    <3>3. NotMade \in CallState
      BY DEF NotMade, CallState, Ops
    <3>4. call' \in [Calls -> CallState]
      BY <3>1, <3>2, <3>3 DEF Shape, TypeOK, CallState, UserDoc
    <3> QED BY <2>1, <3>1, <3>2, <3>4
            DEF Shape, TypeOK, CallShape, MissingIsEmpty, attemptCreateUser,
                NotMade, CallState, Ops, UserDoc, histVars
  <2>2. ASSUME NEW c \in Calls, NEW me \in Users, NEW other \in Users,
               NEW op \in {"follow", "unfollow"}, GetMine(c, op, me, other)
        PROVE  Shape'
    <3>1. PICK s \in Get(me) :
            call' = [call EXCEPT ![c] =
                       [NotMade EXCEPT !.pc = "getOther", !.op = op, !.me = me,
                                       !.other = other, !.mine = s.exists]]
      BY <2>2 DEF GetMine
    <3>2. s \in UserDoc
      BY GetType DEF Shape
    <3>3. NotMade \in CallState
      BY DEF NotMade, CallState, Ops
    <3>4. call' \in [Calls -> CallState]
      BY <3>1, <3>2, <3>3 DEF Shape, TypeOK, CallState, UserDoc, Ops
    <3> QED BY <2>2, <3>1, <3>2, <3>4
            DEF Shape, TypeOK, CallShape, MissingIsEmpty, GetMine,
                NotMade, CallState, Ops, UserDoc, histVars
  <2>3. ASSUME NEW c \in Calls, SetLands(c)
        PROVE  Shape'
    <3>0. PICK pc \in {"set", "done"} :
            call' = [call EXCEPT ![c] = [@ EXCEPT !.pc = pc, !.applied = TRUE,
                                                  !.again = call[c].applied]]
      BY <2>3 DEF SetLands
    <3>1. call' \in [Calls -> CallState]
      <4>1. call[c] \in CallState
        BY DEF Shape, TypeOK
      <4>2. [call[c] EXCEPT !.pc = pc, !.applied = TRUE,
                            !.again = call[c].applied] \in CallState
        BY <4>1 DEF CallState
      <4> QED BY <3>0, <4>2 DEF Shape, TypeOK
    <3>2. getMapForCreateUser \in UserDoc /\ getMapForCreateUser.exists
      BY DEF UserDoc, getMapForCreateUser
    <3>3. users' \in [Users -> UserDoc] /\ MissingIsEmpty'
      BY <2>3, <3>2 DEF SetLands, Shape, TypeOK, MissingIsEmpty
    <3>4. wiped' \subseteq Users
      BY <2>3 DEF SetLands, Shape, TypeOK, CallShape
    <3>5. CallShape'
      <4>1. call[c] \in CallState /\ call[c].pc = "set"
        BY <2>3 DEF SetLands, Shape, TypeOK
      <4>2. /\ call'[c].pc \in {"set", "done"} /\ call'[c].op = call[c].op
            /\ call'[c].me = call[c].me /\ call'[c].mine = call[c].mine
        BY <3>0, <4>1 DEF CallState, Shape, TypeOK
      <4>3. \A b \in Calls \ {c} : call'[b] = call[b]
        BY <3>0 DEF Shape, TypeOK
      <4> QED BY <4>1, <4>2, <4>3 DEF Shape, CallShape
    <3> QED BY <2>3, <3>1, <3>3, <3>4, <3>5 DEF SetLands, Shape, TypeOK
  <2>4. ASSUME NEW c \in Calls, GetOther(c)
        PROVE  Shape'
    <3> DEFINE v == call[c].other
    <3>1. v \in Users
      BY <2>4 DEF Shape, CallShape, GetOther
    <3>2. PICK s \in Get(v) :
            /\ call' = [call EXCEPT ![c] =
                          [@ EXCEPT !.pc = "tx", !.theirs = s.exists,
                                    !.base = s.followers, !.at = Writes(v)]]
            /\ raced' = IF s = users[v] THEN raced ELSE raced \cup {v}
      BY <2>4 DEF GetOther
    <3>3. s \in UserDoc
      BY <3>1, GetType DEF Shape
    <3>4. Writes(v) \in Nat
      BY <3>1 DEF Writes, Shape, TypeOK
    <3>5. call' \in [Calls -> CallState]
      <4>1. call[c] \in CallState
        BY DEF Shape, TypeOK
      <4>2. s.exists \in BOOLEAN /\ s.followers \in Int
        BY <3>3 DEF UserDoc
      <4>3. [call[c] EXCEPT !.pc = "tx", !.theirs = s.exists,
                            !.base = s.followers, !.at = Writes(v)] \in CallState
        BY <3>4, <4>1, <4>2 DEF CallState
      <4> QED BY <3>2, <4>3 DEF Shape, TypeOK
    <3>6. CallShape'
      <4>1. call[c] \in CallState /\ call[c].pc = "getOther"
        BY <2>4 DEF GetOther, Shape, TypeOK
      <4>2. /\ call'[c].pc = "tx" /\ call'[c].op = call[c].op
            /\ call'[c].me = call[c].me /\ call'[c].other = call[c].other
        BY <3>2, <4>1 DEF CallState, Shape, TypeOK
      <4>3. \A b \in Calls \ {c} : call'[b] = call[b]
        BY <3>2 DEF Shape, TypeOK
      <4> QED BY <4>1, <4>2, <4>3 DEF Shape, CallShape
    <3>7. raced' \subseteq Users
      BY <3>1, <3>2 DEF Shape, TypeOK
    <3>8. UNCHANGED <<users, follows, unfollows, wiped>>
      BY <2>4 DEF GetOther
    <3> QED BY <3>5, <3>6, <3>7, <3>8 DEF Shape, TypeOK, MissingIsEmpty
  <2>5. ASSUME NEW c \in Calls, CommitTransaction(c)
        PROVE  Shape'
    <3> DEFINE k == call[c]
    <3>1. k \in CallState /\ k.other \in Users /\ k.me \in Users /\ k.pc = "tx"
      BY <2>5 DEF Shape, TypeOK, CallShape, CommitTransaction
    <3>2. PICK n \in AfterAttempt(k, TRUE) : call' = [call EXCEPT ![c] = n]
      BY <2>5 DEF CommitTransaction
    <3>3. /\ n \in CallState /\ n.pc \in {"done", "tx"}
          /\ n.op = k.op /\ n.me = k.me /\ n.other = k.other
      BY <3>1, <3>2, AfterAttemptType
    <3>4. call' \in [Calls -> CallState]
      BY <3>2, <3>3 DEF Shape, TypeOK
    <3>5. users' \in [Users -> UserDoc]
      BY <2>5, <3>1, TxWritesType DEF CommitTransaction, Shape
    <3>6. follows' \in [Users -> Nat] /\ unfollows' \in [Users -> Nat]
      BY <2>5, <3>1, CountCallType DEF CommitTransaction, Shape, TypeOK
    <3>7. wiped' \subseteq Users /\ raced' \subseteq Users
      BY <2>5, <3>1 DEF CommitTransaction, Shape, TypeOK
    <3>8. CallShape'
      BY <3>1, <3>2, <3>3 DEF Shape, TypeOK, CallShape
    <3>9. MissingIsEmpty'
      <4> SUFFICES ASSUME NEW u \in Users, ~users'[u].exists
                   PROVE  users'[u] = NoDocument
        BY DEF MissingIsEmpty
      <4>1. users' = TxWrites(k) /\ users[k.me].exists /\ users[k.other].exists
        BY <2>5 DEF CommitTransaction
      <4>2. users[u] \in UserDoc
        BY DEF Shape, TypeOK
      <4>3. users'[u].exists = users[u].exists
        BY <4>1, <4>2 DEF TxWrites, UserDoc
      <4>4. u # k.me /\ u # k.other
        BY <4>1, <4>3
      <4>5. users'[u] = users[u]
        BY <4>1, <4>2, <4>4 DEF TxWrites, UserDoc
      <4> QED BY <4>3, <4>5 DEF Shape, MissingIsEmpty
    <3> QED BY <3>4, <3>5, <3>6, <3>7, <3>8, <3>9 DEF Shape, TypeOK
  <2>6. ASSUME NEW c \in Calls, AbortTransaction(c)
        PROVE  Shape'
    <3> DEFINE k == call[c]
    <3>1. k \in CallState
      BY DEF Shape, TypeOK
    <3>2. k.applied \in BOOLEAN
      BY <3>1 DEF CallState
    <3>3. PICK n \in AfterAttempt(k, k.applied) : call' = [call EXCEPT ![c] = n]
      BY <2>6 DEF AbortTransaction
    <3>4. /\ n \in CallState /\ n.pc \in {"done", k.pc}
          /\ n.op = k.op /\ n.me = k.me /\ n.other = k.other
      BY <3>1, <3>2, <3>3, AfterAttemptType
    <3>5. call' \in [Calls -> CallState]
      BY <3>3, <3>4 DEF Shape, TypeOK
    <3>6. CallShape'
      BY <2>6, <3>1, <3>3, <3>4 DEF Shape, TypeOK, CallShape, AbortTransaction
    <3> QED BY <2>6, <3>5, <3>6
            DEF Shape, TypeOK, MissingIsEmpty, AbortTransaction, histVars
  <2>7. ASSUME NEW c \in Calls, EmptyTransaction(c) \/ CallLost(c)
        PROVE  Shape'
    BY <2>7 DEF Shape, TypeOK, CallShape, MissingIsEmpty, EmptyTransaction,
                CallLost, CallState, histVars
  <2>8. CASE UNCHANGED vars
    BY <2>8 DEF Shape, TypeOK, CallShape, MissingIsEmpty, vars
  <2> QED BY <2>1, <2>2, <2>3, <2>4, <2>5, <2>6, <2>7, <2>8
          DEF Next, CallSteps, followUser, unfollowUser
<1> QED BY <1>1, <1>2, PTL DEF Spec

\* Type correctness: the state of the collection and of the calls in flight.
THEOREM TypeCorrect == Spec => []TypeOK
<1>1. Shape => TypeOK
  BY DEF Shape
<1> QED BY <1>1, ShapeCorrect, PTL
----------------------------------------------------------------------------
(***************************************************************************)
(* What each kind of step does to the documents, the history and the       *)
(* transactions in flight.                                                 *)
(***************************************************************************)

\* A step of call c that writes nothing and gives no transaction new data.
Quiet(c) ==
    /\ UNCHANGED <<users, follows, unfollows, wiped, raced>>
    /\ \A b \in Calls \ {c} : call'[b] = call[b]
    /\ call'[c].pc = "tx" =>
         /\ call[c].pc = "tx"
         /\ call'[c].op = call[c].op /\ call'[c].other = call[c].other
         /\ call'[c].base = call[c].base /\ call'[c].at = call[c].at
         /\ call'[c].applied = call[c].applied

QuietAction(c) ==
    \/ \E u \in Users : attemptCreateUser(c, u)
    \/ \E me, other \in Users : followUser(c, me, other) \/ unfollowUser(c, me, other)
    \/ AbortTransaction(c) \/ EmptyTransaction(c) \/ CallLost(c)

\* A quiet action changes one call and nothing on the server.
LEMMA QuietStep ==
    ASSUME Shape, NEW c \in Calls, QuietAction(c)
    PROVE  Quiet(c)
<1>1. ASSUME NEW u \in Users, attemptCreateUser(c, u)
      PROVE  Quiet(c)
  BY <1>1 DEF attemptCreateUser, Quiet, histVars, Shape, TypeOK, NotMade
<1>2. ASSUME NEW op, NEW me \in Users, NEW other \in Users, GetMine(c, op, me, other)
      PROVE  Quiet(c)
  BY <1>2 DEF GetMine, Quiet, histVars, Shape, TypeOK, NotMade
<1>3. ASSUME AbortTransaction(c)
      PROVE  Quiet(c)
  <2> DEFINE k == call[c]
  <2>1. k \in CallState /\ k.applied \in BOOLEAN
    BY DEF Shape, TypeOK, CallState
  <2>2. PICK n \in AfterAttempt(k, k.applied) : call' = [call EXCEPT ![c] = n]
    BY <1>3 DEF AbortTransaction
  <2>3. /\ n.op = k.op /\ n.other = k.other /\ n.base = k.base
        /\ n.at = k.at /\ n.applied = k.applied
    BY <2>1, <2>2, AfterAttemptType
  <2> QED BY <1>3, <2>2, <2>3
          DEF AbortTransaction, Quiet, histVars, Shape, TypeOK
<1>4. ASSUME EmptyTransaction(c) \/ CallLost(c)
      PROVE  Quiet(c)
  <2>1. call'[c].pc = "done"
    BY <1>4 DEF EmptyTransaction, CallLost, Shape, TypeOK, CallState
  <2> QED BY <1>4, <2>1 DEF EmptyTransaction, CallLost, Quiet, histVars, Shape, TypeOK
<1> QED BY <1>1, <1>2, <1>3, <1>4 DEF QuietAction, followUser, unfollowUser

\* What a set that reaches the server does: one document is a new one.
LEMMA SetStep ==
    ASSUME Shape, NEW c \in Calls, SetLands(c), NEW u, u = call[c].me
    PROVE  /\ u \in Users
           /\ users'[u] = getMapForCreateUser
           /\ \A v \in Users \ {u} : users'[v] = users[v]
           /\ UNCHANGED <<follows, unfollows, raced>>
           /\ wiped' = IF users[u].exists THEN wiped \cup {u} ELSE wiped
           /\ call'[c].pc \in {"set", "done"}
           /\ call'[c].op = call[c].op /\ call'[c].me = u /\ call'[c].mine = call[c].mine
           /\ call'[c].other = call[c].other
           /\ call'[c].applied /\ call'[c].again = call[c].applied
           /\ \A b \in Calls \ {c} : call'[b] = call[b]
<1>1. u \in Users
  BY DEF SetLands, Shape, CallShape
<1>2. PICK pc \in {"set", "done"} :
        call' = [call EXCEPT ![c] = [@ EXCEPT !.pc = pc, !.applied = TRUE,
                                              !.again = call[c].applied]]
  BY DEF SetLands
<1>3. call[c] \in CallState /\ call \in [Calls -> CallState]
  BY DEF Shape, TypeOK
<1>4. /\ call'[c].pc \in {"set", "done"}
      /\ call'[c].op = call[c].op /\ call'[c].me = u /\ call'[c].mine = call[c].mine
      /\ call'[c].other = call[c].other
      /\ call'[c].applied /\ call'[c].again = call[c].applied
      /\ \A b \in Calls \ {c} : call'[b] = call[b]
  BY <1>2, <1>3 DEF CallState
<1> QED BY <1>1, <1>4 DEF SetLands, Shape, TypeOK

\* What the second read captures: a count the server has, or that of a
\* document in the queue of local writes, noted as raced when they differ.
LEMMA GetOtherStep ==
    ASSUME Shape, NEW c \in Calls, GetOther(c), NEW v, v = call[c].other
    PROVE  /\ v \in Users
           /\ UNCHANGED <<users, follows, unfollows, wiped>>
           /\ raced \subseteq raced'
           /\ call'[c].base \in {0, users[v].followers}
           /\ v \notin raced' => call'[c].base = users[v].followers
           /\ call'[c].pc = "tx" /\ call'[c].other = v /\ call'[c].op = call[c].op
           /\ call'[c].at = Writes(v) /\ ~call'[c].applied
           /\ \A b \in Calls \ {c} : call'[b] = call[b]
<1>1. v \in Users /\ ~call[c].applied
  BY DEF GetOther, Shape, CallShape
<1>2. PICK s \in Get(v) :
        /\ call' = [call EXCEPT ![c] =
                      [@ EXCEPT !.pc = "tx", !.theirs = s.exists,
                                !.base = s.followers, !.at = Writes(v)]]
        /\ raced' = IF s = users[v] THEN raced ELSE raced \cup {v}
  BY DEF GetOther
<1>3. call[c] \in CallState
  BY DEF Shape, TypeOK
<1>4. /\ call'[c].base = s.followers
      /\ call'[c].pc = "tx" /\ call'[c].other = v /\ call'[c].op = call[c].op
      /\ call'[c].at = Writes(v) /\ ~call'[c].applied
      /\ \A b \in Calls \ {c} : call'[b] = call[b]
  BY <1>1, <1>2, <1>3 DEF Shape, TypeOK, CallState
<1>5. s.followers \in {0, users[v].followers}
  BY <1>2 DEF Get, getMapForCreateUser
<1> QED BY <1>1, <1>2, <1>4, <1>5 DEF GetOther

\* What an applied attempt does, by call and by user.
LEMMA CommitStep ==
    ASSUME Shape, NEW c \in Calls, CommitTransaction(c), NEW k, k = call[c]
    PROVE  /\ k \in CallState /\ k.pc = "tx" /\ k.me \in Users /\ k.other \in Users
           /\ k.op \in {"follow", "unfollow"}
           /\ users[k.me].exists /\ users[k.other].exists
           /\ users' = TxWrites(k)
           /\ follows' = CountCall(c, "follow", follows)
           /\ unfollows' = CountCall(c, "unfollow", unfollows)
           /\ UNCHANGED wiped
           /\ raced' = IF Writes(k.other) = k.at + (IF k.applied THEN 1 ELSE 0)
                       THEN raced ELSE raced \cup {k.other}
           /\ call'[c].pc \in {"done", "tx"} /\ call'[c].applied
           /\ call'[c].op = k.op /\ call'[c].me = k.me /\ call'[c].other = k.other
           /\ call'[c].base = k.base /\ call'[c].at = k.at /\ call'[c].mine = k.mine
           /\ \A b \in Calls \ {c} : call'[b] = call[b]
<1>1. /\ k \in CallState /\ k.pc = "tx" /\ k.me \in Users /\ k.other \in Users
      /\ k.op \in {"follow", "unfollow"}
  BY DEF CommitTransaction, Shape, TypeOK, CallShape
<1>2. PICK n \in AfterAttempt(k, TRUE) : call' = [call EXCEPT ![c] = n]
  BY DEF CommitTransaction
<1>3. /\ n.pc \in {"done", "tx"} /\ n.applied
      /\ n.op = k.op /\ n.me = k.me /\ n.other = k.other
      /\ n.base = k.base /\ n.at = k.at /\ n.mine = k.mine
  BY <1>1, <1>2, AfterAttemptType
<1>4. call'[c] = n /\ \A b \in Calls \ {c} : call'[b] = call[b]
  BY <1>2 DEF Shape, TypeOK
<1> QED BY <1>1, <1>3, <1>4 DEF CommitTransaction

\* The effect of a commit on the counter and the history of its target.
LEMMA CommitCounts ==
    ASSUME Shape, NEW c \in Calls, CommitTransaction(c), NEW k, k = call[c]
    PROVE  /\ users'[k.other].followers = CountEdit(k.op, k.base)
           /\ follows'[k.other] = follows[k.other] +
                 (IF k.op = "follow" /\ ~k.applied THEN 1 ELSE 0)
           /\ unfollows'[k.other] = unfollows[k.other] +
                 (IF k.op = "unfollow" /\ ~k.applied THEN 1 ELSE 0)
           /\ \A v \in Users \ {k.other} :
                 /\ users'[v].followers = users[v].followers
                 /\ follows'[v] = follows[v] /\ unfollows'[v] = unfollows[v]
BY CommitStep DEF TxWrites, CountCall, Shape, TypeOK

\* TypeOK, per user and per call, as the arithmetic below needs it.
LEMMA NumberTypes ==
    ASSUME Shape
    PROVE  /\ \A v \in Users : /\ follows[v] \in Nat /\ unfollows[v] \in Nat
                               /\ users[v].followers \in Int
           /\ \A c \in Calls : call[c].base \in Int /\ call[c].at \in Nat
BY DEF Shape, TypeOK, UserDoc, CallState

----------------------------------------------------------------------------
\* The counts that transactions in flight have captured obey the bounds of
\* CountWithinWrites too, with room for the write they are about to make; one
\* whose write was applied before has used up its room.
Room(k) ==
    /\ -unfollows[k.other] <= k.base /\ k.base <= follows[k.other]
    /\ k.applied /\ k.op = "follow" => k.base + 1 <= follows[k.other]
    /\ k.applied /\ k.op = "unfollow" => /\ -unfollows[k.other] <= k.base - 1
                                        /\ unfollows[k.other] >= 1

CapturedWithinWrites == \A c \in Calls : call[c].pc = "tx" => Room(call[c])

CountInv == CountWithinWrites /\ CapturedWithinWrites

\* Counter and captured counts together are inductive: a commit writes one
\* more or one less than a captured count, never than the counter.
THEOREM CountInvariant == Spec => []CountInv
<1>1. Init => CountInv
  BY DEF Init, CountInv, CountWithinWrites, CapturedWithinWrites, Room, NotMade,
         NoDocument, getMapForCreateUser
<1>2. CountInv /\ Shape /\ Shape' /\ [Next]_vars => CountInv'
  <2> SUFFICES ASSUME CountInv, Shape, Shape', [Next]_vars
               PROVE  CountInv'
    OBVIOUS
  <2> USE NumberTypes
  <2>1. ASSUME NEW c \in Calls, QuietAction(c)
        PROVE  CountInv'
    <3>1. Quiet(c)
      BY <2>1, QuietStep
    <3> QED BY <3>1 DEF Quiet, CountInv, CountWithinWrites, CapturedWithinWrites, Room
  <2>2. ASSUME NEW c \in Calls, SetLands(c)
        PROVE  CountInv'
    <3> DEFINE u == call[c].me
    <3>1. /\ u \in Users /\ users'[u].followers = 0
          /\ \A v \in Users \ {u} : users'[v] = users[v]
          /\ UNCHANGED <<follows, unfollows>>
          /\ call'[c].pc # "tx" /\ \A b \in Calls \ {c} : call'[b] = call[b]
      BY <2>2, SetStep DEF getMapForCreateUser
    <3>2. CountWithinWrites'
      BY <3>1 DEF CountInv, CountWithinWrites
    <3>3. CapturedWithinWrites'
      BY <3>1 DEF CountInv, CapturedWithinWrites, Room
    <3> QED BY <3>2, <3>3 DEF CountInv
  <2>3. ASSUME NEW c \in Calls, GetOther(c)
        PROVE  CountInv'
    <3> DEFINE v == call[c].other
    <3>1. /\ v \in Users /\ UNCHANGED <<users, follows, unfollows>>
          /\ call'[c].base \in {0, users[v].followers}
          /\ call'[c].other = v /\ ~call'[c].applied
          /\ \A b \in Calls \ {c} : call'[b] = call[b]
      BY <2>3, GetOtherStep
    <3>2. CountWithinWrites'
      BY <3>1 DEF CountInv, CountWithinWrites
    <3>3. CapturedWithinWrites'
      BY <3>1 DEF CountInv, CountWithinWrites, CapturedWithinWrites, Room
    <3> QED BY <3>2, <3>3 DEF CountInv
  <2>4. ASSUME NEW c \in Calls, CommitTransaction(c)
        PROVE  CountInv'
    <3> DEFINE k == call[c]
    <3>1. /\ k.pc = "tx" /\ k.other \in Users /\ k.op \in {"follow", "unfollow"}
          /\ call'[c].applied /\ call'[c].op = k.op /\ call'[c].other = k.other
          /\ call'[c].base = k.base
          /\ \A b \in Calls \ {c} : call'[b] = call[b]
      BY <2>4, CommitStep
    <3>2. /\ users'[k.other].followers = CountEdit(k.op, k.base)
          /\ follows'[k.other] = follows[k.other] +
                (IF k.op = "follow" /\ ~k.applied THEN 1 ELSE 0)
          /\ unfollows'[k.other] = unfollows[k.other] +
                (IF k.op = "unfollow" /\ ~k.applied THEN 1 ELSE 0)
          /\ \A v \in Users \ {k.other} :
                /\ users'[v].followers = users[v].followers
                /\ follows'[v] = follows[v] /\ unfollows'[v] = unfollows[v]
      BY <2>4, CommitCounts
    <3>3. /\ -unfollows[k.other] <= k.base /\ k.base <= follows[k.other]
          /\ k.applied /\ k.op = "follow" => k.base + 1 <= follows[k.other]
          /\ k.applied /\ k.op = "unfollow" =>
                -unfollows[k.other] <= k.base - 1 /\ unfollows[k.other] >= 1
      BY <3>1 DEF CountInv, CapturedWithinWrites, Room
    <3>4. /\ follows[k.other] <= follows'[k.other]
          /\ unfollows[k.other] <= unfollows'[k.other]
          /\ k.op = "follow" => k.base + 1 <= follows'[k.other]
          /\ k.op = "unfollow" => /\ -unfollows'[k.other] <= k.base - 1
                                  /\ unfollows'[k.other] >= 1
      BY <3>1, <3>2, <3>3
    <3>5. CountWithinWrites'
      BY <3>1, <3>2, <3>3, <3>4 DEF CountInv, CountWithinWrites, CountEdit
    <3>6. /\ k.base \in Int
          /\ follows[k.other] \in Nat /\ follows'[k.other] \in Nat
          /\ unfollows[k.other] \in Nat /\ unfollows'[k.other] \in Nat
      BY <3>1, <3>2
    <3>7. CapturedWithinWrites'
      <4> SUFFICES ASSUME NEW b \in Calls, call'[b].pc = "tx"
                   PROVE  Room(call[b])'
        BY DEF CapturedWithinWrites
      <4>1. CASE b = c
        BY <3>1, <3>3, <3>4, <3>6, <4>1 DEF Room
      <4>2. CASE b # c
        <5>1. call'[b] = call[b] /\ call[b].other \in Users
          BY <3>1, <4>2 DEF Shape, CallShape
        <5>2. Room(call[b])
          BY <5>1 DEF CountInv, CapturedWithinWrites
        <5>3. CASE call[b].other = k.other
          BY <3>1, <3>4, <3>6, <5>1, <5>2, <5>3 DEF Room
        <5>4. CASE call[b].other # k.other
          BY <3>1, <3>2, <5>1, <5>2, <5>4 DEF Room
        <5> QED BY <5>3, <5>4
      <4> QED BY <4>1, <4>2
    <3> QED BY <3>5, <3>7 DEF CountInv
  <2>5. CASE UNCHANGED vars
    BY <2>5 DEF vars, CountInv, CountWithinWrites, CapturedWithinWrites, Room
  <2> QED BY <2>1, <2>2, <2>3, <2>4, <2>5 DEF Next, CallSteps, QuietAction
<1> QED BY <1>1, <1>2, ShapeCorrect, PTL DEF Spec

\* For any number of overlapping followUser and unfollowUser calls, each
\* retried any number of times, no count leaves the bounds of its writes.
THEOREM CountWithinWritesHolds == Spec => []CountWithinWrites
<1>1. CountInv => CountWithinWrites
  BY DEF CountInv
<1> QED BY <1>1, CountInvariant, PTL

----------------------------------------------------------------------------
\* How far the counter of k's target can be from the count k captured: when
\* nobody has written since, it is that count, or what k itself made of it.
OwnWrites(k) == IF k.applied THEN 1 ELSE 0

Current(k) ==
    /\ k.at + OwnWrites(k) <= Writes(k.other)
    /\ k.other \notin raced \cup wiped /\ Writes(k.other) = k.at + OwnWrites(k) =>
         users[k.other].followers = IF k.applied THEN CountEdit(k.op, k.base) ELSE k.base

CapturedCurrent == \A c \in Calls : call[c].pc = "tx" => Current(call[c])

ExactInv == ExactUnlessRaced /\ CapturedCurrent

\* Counts are lost to overlapping calls and to double creation only: without
\* them a count is exactly the follows minus the unfollows that took effect.
THEOREM ExactUnlessRacedHolds == Spec => []ExactUnlessRaced
<1>1. Init => ExactInv
  BY DEF Init, ExactInv, ExactUnlessRaced, CapturedCurrent, NotMade,
         NoDocument, getMapForCreateUser
<1>2. ExactInv /\ Shape /\ Shape' /\ [Next]_vars => ExactInv'
  <2> SUFFICES ASSUME ExactInv, Shape, Shape', [Next]_vars
               PROVE  ExactInv'
    OBVIOUS
  <2> USE NumberTypes
  <2>1. ASSUME NEW c \in Calls, QuietAction(c)
        PROVE  ExactInv'
    <3>1. Quiet(c)
      BY <2>1, QuietStep
    <3>2. ExactUnlessRaced'
      BY <3>1 DEF Quiet, ExactInv, ExactUnlessRaced
    <3>3. ASSUME NEW b \in Calls, call'[b].pc = "tx"
          PROVE  Current(call[b])'
      <4>1. call[b].pc = "tx" /\ Current(call[b])
        BY <3>1, <3>3 DEF Quiet, ExactInv, CapturedCurrent
      <4>2. /\ call'[b].op = call[b].op /\ call'[b].other = call[b].other
            /\ call'[b].base = call[b].base /\ call'[b].at = call[b].at
            /\ call'[b].applied = call[b].applied
        BY <3>1, <3>3 DEF Quiet
      <4> QED BY <3>1, <4>1, <4>2 DEF Quiet, Current, OwnWrites, Writes, CountEdit
    <3> QED BY <3>2, <3>3 DEF ExactInv, CapturedCurrent
  <2>2. ASSUME NEW c \in Calls, SetLands(c)
        PROVE  ExactInv'
    <3> DEFINE u == call[c].me
    <3>1. /\ u \in Users /\ users'[u].followers = 0
          /\ \A v \in Users \ {u} : users'[v] = users[v]
          /\ UNCHANGED <<follows, unfollows, raced>>
          /\ wiped' = IF users[u].exists THEN wiped \cup {u} ELSE wiped
          /\ call'[c].pc # "tx" /\ \A b \in Calls \ {c} : call'[b] = call[b]
      BY <2>2, SetStep DEF getMapForCreateUser
    <3>2. u \notin wiped' => users'[u].followers = users[u].followers
      BY <3>1 DEF Shape, MissingIsEmpty, NoDocument
    <3>3. \A v \in Users : v \notin wiped' =>
             v \notin wiped /\ users'[v].followers = users[v].followers
      BY <3>1, <3>2
    <3>4. ExactUnlessRaced'
      BY <3>1, <3>3 DEF ExactInv, ExactUnlessRaced
    <3>5. ASSUME NEW b \in Calls, call'[b].pc = "tx"
          PROVE  Current(call[b])'
      <4>1. call'[b] = call[b] /\ call[b].other \in Users /\ Current(call[b])
        BY <3>1, <3>5 DEF ExactInv, CapturedCurrent, Shape, CallShape
      <4> QED BY <3>1, <3>3, <4>1 DEF Current, OwnWrites, Writes, CountEdit
    <3> QED BY <3>4, <3>5 DEF ExactInv, CapturedCurrent
  <2>3. ASSUME NEW c \in Calls, GetOther(c)
        PROVE  ExactInv'
    <3> DEFINE v == call[c].other
    <3>1. /\ v \in Users /\ UNCHANGED <<users, follows, unfollows, wiped>>
          /\ raced \subseteq raced'
          /\ v \notin raced' => call'[c].base = users[v].followers
          /\ call'[c].other = v /\ call'[c].at = Writes(v) /\ ~call'[c].applied
          /\ \A b \in Calls \ {c} : call'[b] = call[b]
      BY <2>3, GetOtherStep
    <3>2. ExactUnlessRaced'
      BY <3>1 DEF ExactInv, ExactUnlessRaced
    <3>3. ASSUME NEW b \in Calls, call'[b].pc = "tx"
          PROVE  Current(call[b])'
      <4>1. CASE b = c
        BY <3>1, <4>1 DEF Current, OwnWrites, Writes
      <4>2. CASE b # c
        <5>1. call'[b] = call[b] /\ Current(call[b])
          BY <3>1, <3>3, <4>2 DEF ExactInv, CapturedCurrent
        <5> QED BY <3>1, <5>1 DEF Current, OwnWrites, Writes, CountEdit
      <4> QED BY <4>1, <4>2
    <3> QED BY <3>2, <3>3 DEF ExactInv, CapturedCurrent
  <2>4. ASSUME NEW c \in Calls, CommitTransaction(c)
        PROVE  ExactInv'
    <3> DEFINE k == call[c]
               v == k.other
    <3>1. /\ k.pc = "tx" /\ v \in Users /\ k.op \in {"follow", "unfollow"}
          /\ call'[c].applied /\ call'[c].op = k.op /\ call'[c].other = v
          /\ call'[c].base = k.base /\ call'[c].at = k.at
          /\ \A b \in Calls \ {c} : call'[b] = call[b]
          /\ UNCHANGED wiped
          /\ raced' = IF Writes(v) = k.at + OwnWrites(k) THEN raced ELSE raced \cup {v}
      BY <2>4, CommitStep DEF OwnWrites
    <3>2. /\ users'[v].followers = CountEdit(k.op, k.base)
          /\ follows'[v] = follows[v] +
                (IF k.op = "follow" /\ ~k.applied THEN 1 ELSE 0)
          /\ unfollows'[v] = unfollows[v] +
                (IF k.op = "unfollow" /\ ~k.applied THEN 1 ELSE 0)
          /\ \A w \in Users \ {v} :
                /\ users'[w].followers = users[w].followers
                /\ follows'[w] = follows[w] /\ unfollows'[w] = unfollows[w]
      BY <2>4, CommitCounts
    <3>3. Current(k)
      BY <3>1 DEF ExactInv, CapturedCurrent
    <3>4. /\ k.base \in Int /\ k.at \in Nat /\ users[v].followers \in Int
          /\ follows[v] \in Nat /\ unfollows[v] \in Nat
      BY <3>1
    <3>5. /\ Writes(v) \in Nat
          /\ Writes(v)' = Writes(v) + (IF k.applied THEN 0 ELSE 1)
      BY <3>1, <3>2, <3>4 DEF Writes
    <3>6. v \notin raced' \cup wiped' =>
            /\ Writes(v) = k.at + OwnWrites(k)
            /\ users[v].followers = IF k.applied THEN CountEdit(k.op, k.base) ELSE k.base
            /\ users[v].followers = follows[v] - unfollows[v]
      BY <3>1, <3>3 DEF Current, ExactInv, ExactUnlessRaced
    <3>7. ExactUnlessRaced'
      <4> SUFFICES ASSUME NEW w \in Users, w \notin raced' \cup wiped'
                   PROVE  users'[w].followers = follows'[w] - unfollows'[w]
        BY DEF ExactUnlessRaced
      <4>1. CASE w = v
        BY <3>1, <3>2, <3>4, <3>6, <4>1 DEF CountEdit
      <4>2. CASE w # v
        BY <3>1, <3>2, <4>2 DEF ExactInv, ExactUnlessRaced
      <4> QED BY <4>1, <4>2
    <3>8. ASSUME NEW b \in Calls, call'[b].pc = "tx"
          PROVE  Current(call[b])'
      <4>1. CASE b = c
        BY <3>1, <3>2, <3>3, <3>4, <3>5, <3>6, <4>1 DEF Current, OwnWrites
      <4>2. CASE b # c
        <5>1. /\ call'[b] = call[b] /\ call[b].other \in Users /\ Current(call[b])
              /\ call[b].at \in Nat
          BY <3>1, <3>8, <4>2 DEF ExactInv, CapturedCurrent, Shape, CallShape
        <5>2. CASE call[b].other = v
          BY <3>1, <3>2, <3>4, <3>5, <3>6, <5>1, <5>2 DEF Current, OwnWrites
        <5>3. CASE call[b].other # v
          BY <3>1, <3>2, <5>1, <5>3 DEF Current, OwnWrites, Writes, CountEdit
        <5> QED BY <5>2, <5>3
      <4> QED BY <4>1, <4>2
    <3> QED BY <3>7, <3>8 DEF ExactInv, CapturedCurrent
  <2>5. CASE UNCHANGED vars
    BY <2>5 DEF vars, ExactInv, ExactUnlessRaced, CapturedCurrent, Current,
                OwnWrites, Writes, CountEdit
  <2> QED BY <2>1, <2>2, <2>3, <2>4, <2>5 DEF Next, CallSteps, QuietAction
<1>3. ExactInv => ExactUnlessRaced
  BY DEF ExactInv
<1> QED BY <1>1, <1>2, <1>3, ShapeCorrect, PTL DEF Spec

----------------------------------------------------------------------------
\* The effect of a commit on documents: only one entry of one list and one
\* count change, and both of their documents exist.
LEMMA CommitDocs ==
    ASSUME Shape, NEW c \in Calls, CommitTransaction(c), NEW k, k = call[c]
    PROVE  /\ \A u \in Users : users'[u].exists = users[u].exists
           /\ users'[k.me].followings = ArrayEdit(k.op, users[k.me].followings, k.other)
           /\ \A u \in Users \ {k.me} : users'[u].followings = users[u].followings
BY CommitStep DEF TxWrites

\* Edges of the follow graph join existing documents, and their targets are
\* counted.
EdgeInv == FollowsAreReal /\ FollowedIsCounted

\* FollowsAreReal and FollowedIsCounted are inductive given the bounds of
\* CountInv: a captured count is never negative while nobody unfollows.
THEOREM EdgeInvariant == Spec => []EdgeInv
<1>1. Init => EdgeInv
  BY DEF Init, EdgeInv, FollowsAreReal, FollowedIsCounted, NoDocument,
         getMapForCreateUser
<1>2. EdgeInv /\ CountInv /\ CountInv' /\ Shape /\ Shape' /\ [Next]_vars => EdgeInv'
  <2> SUFFICES ASSUME EdgeInv, CountInv, CountInv', Shape, Shape', [Next]_vars
               PROVE  EdgeInv'
    OBVIOUS
  <2>1. ASSUME UNCHANGED <<users, unfollows, wiped>>
        PROVE  EdgeInv'
    BY <2>1 DEF EdgeInv, FollowsAreReal, FollowedIsCounted
  <2>2. ASSUME NEW c \in Calls, QuietAction(c) \/ GetOther(c)
        PROVE  EdgeInv'
    BY <2>1, <2>2, QuietStep, GetOtherStep DEF Quiet
  <2>3. ASSUME NEW c \in Calls, SetLands(c)
        PROVE  EdgeInv'
    <3> DEFINE u == call[c].me
    <3>1. /\ u \in Users /\ users'[u].exists /\ users'[u].followings = {}
          /\ \A v \in Users \ {u} : users'[v] = users[v]
          /\ UNCHANGED unfollows
          /\ wiped' = IF users[u].exists THEN wiped \cup {u} ELSE wiped
      BY <2>3, SetStep DEF getMapForCreateUser
    <3>2. FollowsAreReal'
      BY <3>1 DEF EdgeInv, FollowsAreReal
    <3>3. FollowedIsCounted'
      <4> SUFFICES ASSUME NEW w \in Users, NEW v \in Users,
                          v \in users'[w].followings, unfollows'[v] = 0, v \notin wiped'
                   PROVE  users'[v].followers >= 1
        BY DEF FollowedIsCounted
      <4>1. w # u /\ v \in users[w].followings
        BY <3>1
      <4>2. v # u
        BY <3>1, <4>1 DEF EdgeInv, FollowsAreReal
      <4> QED BY <3>1, <4>1, <4>2 DEF EdgeInv, FollowedIsCounted
    <3> QED BY <3>2, <3>3 DEF EdgeInv
  <2>4. ASSUME NEW c \in Calls, CommitTransaction(c)
        PROVE  EdgeInv'
    <3> DEFINE k == call[c]
    <3>1. /\ k.pc = "tx" /\ k.me \in Users /\ k.other \in Users
          /\ k.op \in {"follow", "unfollow"}
          /\ users[k.me].exists /\ users[k.other].exists
          /\ UNCHANGED wiped
      BY <2>4, CommitStep
    <3>2. /\ \A u \in Users : users'[u].exists = users[u].exists
          /\ users'[k.me].followings = ArrayEdit(k.op, users[k.me].followings, k.other)
          /\ \A u \in Users \ {k.me} : users'[u].followings = users[u].followings
      BY <2>4, CommitDocs
    <3>3. \A u, v \in Users : v \in users'[u].followings =>
             v \in users[u].followings \/ (u = k.me /\ v = k.other /\ k.op = "follow")
      BY <3>1, <3>2 DEF ArrayEdit
    <3>4. FollowsAreReal'
      BY <3>1, <3>2, <3>3 DEF EdgeInv, FollowsAreReal
    <3>5. FollowedIsCounted'
      <4> SUFFICES ASSUME NEW u \in Users, NEW v \in Users,
                          v \in users'[u].followings, unfollows'[v] = 0, v \notin wiped'
                   PROVE  users'[v].followers >= 1
        BY DEF FollowedIsCounted
      <4>1. unfollows[v] \in Nat /\ k.base \in Int
        BY NumberTypes
      <4>2. CASE v = k.other
        <5>1. /\ users'[v].followers = CountEdit(k.op, k.base)
              /\ unfollows'[v] = unfollows[v] +
                    (IF k.op = "unfollow" /\ ~k.applied THEN 1 ELSE 0)
          BY <2>4, <4>2, CommitCounts
        <5>2. Room(k)
          BY <3>1 DEF CountInv, CapturedWithinWrites
        <5>3. k.op = "follow"
          BY <3>1, <4>1, <4>2, <5>1, <5>2 DEF Room
        <5>4. k.base >= 0
          BY <4>1, <4>2, <5>1, <5>2, <5>3 DEF Room
        <5> QED BY <4>1, <5>1, <5>3, <5>4 DEF CountEdit
      <4>3. CASE v # k.other
        <5>1. users'[v].followers = users[v].followers /\ unfollows'[v] = unfollows[v]
          BY <2>4, <4>3, CommitCounts
        <5> QED BY <3>1, <3>3, <4>3, <5>1 DEF EdgeInv, FollowedIsCounted
      <4> QED BY <4>2, <4>3
    <3> QED BY <3>4, <3>5 DEF EdgeInv
  <2>5. CASE UNCHANGED vars
    BY <2>1, <2>5 DEF vars
  <2> QED BY <2>2, <2>3, <2>4, <2>5 DEF Next, CallSteps, QuietAction
<1> QED BY <1>1, <1>2, ShapeCorrect, CountInvariant, PTL DEF Spec

\* Nobody follows or is followed by an account that has no document.
THEOREM FollowsAreRealHolds == Spec => []FollowsAreReal
<1>1. EdgeInv => FollowsAreReal
  BY DEF EdgeInv
<1> QED BY <1>1, EdgeInvariant, PTL

\* A followed user shows a follower, whatever updates of the count are lost,
\* until someone unfollows it or its document is set a second time.
THEOREM FollowedIsCountedHolds == Spec => []FollowedIsCounted
<1>1. EdgeInv => FollowedIsCounted
  BY DEF EdgeInv
<1> QED BY <1>1, EdgeInvariant, PTL

----------------------------------------------------------------------------
\* Call c is an attemptCreateUser of u that found no document.
SawMissing(c, u) ==
    /\ call[c].op = "create" /\ call[c].me = u
    /\ call[c].pc # "idle" /\ ~call[c].mine

\* A document that exists was there before or has been set by a call that saw
\* it missing; nobody ever sees a registered user's document missing.
CreatorInv ==
    /\ WipeNeedsTwoSets
    /\ \A u \in Registered : users[u].exists
    /\ \A c \in Calls : \A u \in Registered : ~SawMissing(c, u)
    /\ \A u \in Users \ Registered :
          users[u].exists => \E c \in Calls : Landed(c, u)

\* What a call is and has read does not change once it is made, and a set that
\* has landed, once or more often, has landed for good.
LEMMA CreatorStable ==
    ASSUME Shape, [Next]_vars, NEW c \in Calls, NEW u \in Users, call[c].pc # "idle"
    PROVE  /\ SawMissing(c, u)' <=> SawMissing(c, u)
           /\ Landed(c, u) => Landed(c, u)' /\ (call[c].again => call'[c].again)
<1> DEFINE Same == /\ call'[c].pc # "idle" /\ call'[c].op = call[c].op
                   /\ call'[c].me = call[c].me /\ call'[c].mine = call[c].mine
                   /\ call[c].op = "create" /\ call[c].applied =>
                        call'[c].applied /\ (call[c].again => call'[c].again)
<1>1. ASSUME NEW d \in Calls, NEW v \in Users, attemptCreateUser(d, v)
      PROVE  Same
  BY <1>1 DEF attemptCreateUser, Shape, TypeOK
<1>2. ASSUME NEW d \in Calls, NEW op, NEW me \in Users, NEW other \in Users,
             GetMine(d, op, me, other)
      PROVE  Same
  BY <1>2 DEF GetMine, Shape, TypeOK
<1>3. ASSUME NEW d \in Calls, EmptyTransaction(d) \/ CallLost(d)
      PROVE  Same
  BY <1>3 DEF EmptyTransaction, CallLost, Shape, TypeOK, CallState
<1>4. ASSUME NEW d \in Calls, SetLands(d)
      PROVE  Same
  BY <1>4, SetStep
<1>5. ASSUME NEW d \in Calls, GetOther(d)
      PROVE  Same
  BY <1>5 DEF GetOther, Shape, TypeOK, CallState
<1>6. ASSUME NEW d \in Calls, CommitTransaction(d) \/ AbortTransaction(d)
      PROVE  Same
  <2> DEFINE k == call[d]
  <2>1. /\ k \in CallState /\ k.applied \in BOOLEAN /\ k.pc = "tx"
        /\ k.op \in {"follow", "unfollow"}
    BY <1>6 DEF CommitTransaction, AbortTransaction, Shape, TypeOK, CallShape, CallState
  <2>2. PICK b \in BOOLEAN :
          \E n \in AfterAttempt(k, b) : call' = [call EXCEPT ![d] = n]
    BY <1>6, <2>1 DEF CommitTransaction, AbortTransaction
  <2>3. PICK n \in AfterAttempt(k, b) : call' = [call EXCEPT ![d] = n]
    BY <2>2
  <2>4. n.pc \in {"done", k.pc} /\ n.op = k.op /\ n.me = k.me /\ n.mine = k.mine
    BY <2>1, <2>3, AfterAttemptType
  <2> QED BY <2>1, <2>3, <2>4 DEF Shape, TypeOK
<1>7. ASSUME UNCHANGED vars
      PROVE  Same
  BY <1>7 DEF vars
<1>8. Same
  BY <1>1, <1>2, <1>3, <1>4, <1>5, <1>6, <1>7 DEF Next, CallSteps, followUser, unfollowUser
<1> QED BY <1>8 DEF SawMissing, Landed

\* No document is overwritten unless it was set before, by another call that
\* saw it missing or by the same set sent again.
THEOREM WipeNeedsTwoSetsHolds == Spec => []WipeNeedsTwoSets
<1>1. Init => CreatorInv
  <2> SUFFICES ASSUME Init
               PROVE  CreatorInv
    OBVIOUS
  <2>1. \A c \in Calls : call[c].pc = "idle"
    BY DEF Init, NotMade
  <2>2. \A u \in Users : users[u].exists <=> u \in Registered
    BY DEF Init, NoDocument, getMapForCreateUser
  <2>3. WipeNeedsTwoSets
    BY DEF Init, WipeNeedsTwoSets
  <2> QED BY <2>1, <2>2, <2>3, RegisteredAssumption DEF CreatorInv, SawMissing
<1>2. CreatorInv /\ Shape /\ Shape' /\ [Next]_vars => CreatorInv'
  <2> SUFFICES ASSUME CreatorInv, Shape, Shape', [Next]_vars
               PROVE  CreatorInv'
    OBVIOUS
  <2> USE RegisteredAssumption
  <2>1. \A c \in Calls : \A u \in Users :
           Landed(c, u) => Landed(c, u)' /\ (call[c].again => call'[c].again)
    <3> SUFFICES ASSUME NEW c \in Calls, NEW u \in Users, Landed(c, u)
                 PROVE  Landed(c, u)' /\ (call[c].again => call'[c].again)
      OBVIOUS
    <3>1. call[c].pc # "idle"
      BY DEF Landed, Shape, CallShape
    <3> QED BY <3>1, CreatorStable
  <2>2. \A u \in Users : users[u].exists => users'[u].exists
    <3>1. ASSUME NEW c \in Calls, SetLands(c)
          PROVE  \A u \in Users : users[u].exists => users'[u].exists
      BY <3>1, SetStep DEF getMapForCreateUser
    <3>2. ASSUME NEW c \in Calls, CommitTransaction(c)
          PROVE  \A u \in Users : users[u].exists => users'[u].exists
      BY <3>2, CommitDocs
    <3>3. ASSUME NEW c \in Calls, QuietAction(c) \/ GetOther(c)
          PROVE  UNCHANGED users
      BY <3>3, QuietStep, GetOtherStep DEF Quiet
    <3>4. CASE UNCHANGED vars
      BY <3>4 DEF vars
    <3> QED BY <3>1, <3>2, <3>3, <3>4 DEF Next, CallSteps, QuietAction
  <2>3. \A u \in Registered : users'[u].exists
    BY <2>2 DEF CreatorInv
  <2>4. ASSUME NEW c \in Calls, NEW u \in Registered, SawMissing(c, u)'
        PROVE  FALSE
    <3>1. call[c].pc = "idle"
      BY <2>4, CreatorStable DEF CreatorInv
    <3>2. call'[c].pc # "idle" /\ call'[c].op = "create" /\ call'[c].me = u
      BY <2>4 DEF SawMissing
    <3>3. ASSUME NEW d \in Calls, CallSteps(d)
          PROVE  FALSE
      <4>1. d # c
        BY <3>1, <3>3 DEF CallSteps, SetLands, GetOther, CommitTransaction,
                          AbortTransaction, EmptyTransaction, CallLost
      <4>2. call'[c] = call[c]
        BY <3>3, <4>1 DEF CallSteps, SetLands, GetOther, CommitTransaction,
                          AbortTransaction, EmptyTransaction, CallLost, Shape, TypeOK
      <4> QED BY <3>1, <3>2, <4>2
    <3>4. ASSUME NEW d \in Calls, NEW op \in {"follow", "unfollow"},
                 NEW me \in Users, NEW other \in Users, GetMine(d, op, me, other)
          PROVE  FALSE
      BY <3>1, <3>2, <3>4 DEF GetMine, Shape, TypeOK, NotMade
    <3>5. ASSUME NEW d \in Calls, NEW v \in Users, attemptCreateUser(d, v)
          PROVE  FALSE
      <4>1. d = c
        BY <3>1, <3>2, <3>5 DEF attemptCreateUser, Shape, TypeOK
      <4>2. PICK s \in Get(v) :
              call' = [call EXCEPT ![c] =
                         [NotMade EXCEPT !.pc = IF s.exists THEN "done" ELSE "set",
                                         !.me = v, !.mine = s.exists]]
        BY <3>5, <4>1 DEF attemptCreateUser
      <4>3. v = u /\ ~s.exists
        BY <2>4, <3>2, <4>2 DEF Shape, TypeOK, NotMade, SawMissing
      <4>4. s = users[u] \/ s = getMapForCreateUser
        BY <4>2, <4>3 DEF Get
      <4> QED BY <4>3, <4>4 DEF CreatorInv, getMapForCreateUser
    <3>6. CASE UNCHANGED vars
      BY <3>1, <3>2, <3>6 DEF vars
    <3> QED BY <3>3, <3>4, <3>5, <3>6 DEF Next, followUser, unfollowUser
  <2>5. ASSUME NEW u \in Users \ Registered, users'[u].exists
        PROVE  \E c \in Calls : Landed(c, u)'
    <3>1. CASE users[u].exists
      BY <2>1, <3>1 DEF CreatorInv
    <3>2. CASE ~users[u].exists
      <4>1. PICK c \in Calls : SetLands(c) /\ call[c].me = u
        <5>1. ASSUME NEW c \in Calls, CommitTransaction(c)
              PROVE  FALSE
          BY <2>5, <3>2, <5>1, CommitDocs
        <5>2. ASSUME NEW c \in Calls, QuietAction(c) \/ GetOther(c)
              PROVE  FALSE
          BY <2>5, <3>2, <5>2, QuietStep, GetOtherStep DEF Quiet
        <5>3. ASSUME NEW c \in Calls, SetLands(c)
              PROVE  call[c].me = u
          BY <2>5, <3>2, <5>3, SetStep
        <5>4. CASE UNCHANGED vars
          BY <2>5, <3>2, <5>4 DEF vars
        <5> QED BY <5>1, <5>2, <5>3, <5>4 DEF Next, CallSteps, QuietAction
      <4>2. call[c].op = "create" /\ ~call[c].mine
        BY <4>1 DEF SetLands, Shape, CallShape
      <4> QED BY <4>1, <4>2, SetStep DEF Landed
    <3> QED BY <3>1, <3>2
  <2>6. WipeNeedsTwoSets'
    <3> SUFFICES ASSUME NEW u \in wiped'
                 PROVE  \E a, b \in Calls : /\ Landed(a, u)' /\ Landed(b, u)'
                                            /\ a # b \/ call'[a].again
      BY DEF WipeNeedsTwoSets
    <3>0. u \in Users
      BY DEF Shape, TypeOK
    <3>1. CASE u \in wiped
      BY <2>1, <3>0, <3>1 DEF CreatorInv, WipeNeedsTwoSets
    <3>2. CASE u \notin wiped
      <4>1. PICK c \in Calls : SetLands(c) /\ call[c].me = u /\ users[u].exists
        <5>1. ASSUME NEW c \in Calls, CommitTransaction(c) \/ QuietAction(c) \/ GetOther(c)
              PROVE  UNCHANGED wiped
          BY <5>1, QuietStep, GetOtherStep, CommitStep DEF Quiet
        <5>2. ASSUME NEW c \in Calls, SetLands(c)
              PROVE  call[c].me = u /\ users[u].exists
          BY <3>2, <5>2, SetStep
        <5>3. CASE UNCHANGED vars
          BY <3>2, <5>3 DEF vars
        <5> QED BY <3>2, <5>1, <5>2, <5>3 DEF Next, CallSteps, QuietAction
      <4>2. SawMissing(c, u)
        BY <4>1 DEF SetLands, SawMissing, Shape, CallShape
      <4>3. u \notin Registered
        BY <4>2 DEF CreatorInv
      <4>4. PICK b \in Calls : Landed(b, u)
        BY <3>0, <4>1, <4>3 DEF CreatorInv
      <4>5. Landed(c, u)' /\ call'[c].again = call[c].applied
        BY <4>1, <4>2, SetStep DEF SawMissing, Landed
      <4>6. CASE b = c
        BY <4>4, <4>5, <4>6 DEF Landed
      <4>7. CASE b # c
        BY <2>1, <3>0, <4>4, <4>5, <4>7
      <4> QED BY <4>6, <4>7
    <3> QED BY <3>1, <3>2
  <2> QED BY <2>3, <2>4, <2>5, <2>6 DEF CreatorInv
<1>3. CreatorInv => WipeNeedsTwoSets
  BY DEF CreatorInv
<1> QED BY <1>1, <1>2, <1>3, ShapeCorrect, PTL DEF Spec

----------------------------------------------------------------------------
\* The collection implements the abstract social graph: a set is an account
\* opened, a commit (also a repeated one) an edge added or removed, and no
\* other step of any call is visible.
THEOREM ImplementsSocialGraphHolds == Spec => ImplementsSocialGraph
<1>1. Init => Graph!Init
  <2> SUFFICES ASSUME Init
               PROVE  Graph!Init
    OBVIOUS
  <2>1. Accounts = Registered
    BY RegisteredAssumption DEF Init, Accounts, NoDocument, getMapForCreateUser
  <2>2. Edges = {}
    BY DEF Init, Edges, NoDocument, getMapForCreateUser
  <2> QED BY <2>1, <2>2 DEF Graph!Init
<1>2. Shape /\ [Next]_vars => [Graph!Next]_<<Accounts, Edges>>
  <2> SUFFICES ASSUME Shape, [Next]_vars
               PROVE  [Graph!Next]_<<Accounts, Edges>>
    OBVIOUS
  <2>1. ASSUME UNCHANGED users
        PROVE  UNCHANGED <<Accounts, Edges>>
    BY <2>1 DEF Accounts, Edges
  <2>2. ASSUME NEW c \in Calls, SetLands(c)
        PROVE  Graph!Next
    <3> DEFINE u == call[c].me
    <3>1. /\ u \in Users /\ users'[u].exists /\ users'[u].followings = {}
          /\ \A v \in Users \ {u} : users'[v] = users[v]
      BY <2>2, SetStep DEF getMapForCreateUser
    <3>2. Accounts' = Accounts \cup {u}
      BY <3>1 DEF Accounts
    <3>3. Edges' = {e \in Edges : e[1] # u}
      BY <3>1 DEF Edges
    <3> QED BY <3>1, <3>2, <3>3 DEF Graph!Next, Graph!Open
  <2>3. ASSUME NEW c \in Calls, CommitTransaction(c)
        PROVE  Graph!Next
    <3> DEFINE k == call[c]
    <3>1. /\ k.me \in Users /\ k.other \in Users /\ k.op \in {"follow", "unfollow"}
          /\ users[k.me].exists /\ users[k.other].exists
      BY <2>3, CommitStep
    <3>2. /\ \A u \in Users : users'[u].exists = users[u].exists
          /\ users'[k.me].followings = ArrayEdit(k.op, users[k.me].followings, k.other)
          /\ \A u \in Users \ {k.me} : users'[u].followings = users[u].followings
      BY <2>3, CommitDocs
    <3>3. {k.me, k.other} \subseteq Accounts /\ UNCHANGED Accounts
      BY <3>1, <3>2 DEF Accounts
    <3>4. CASE k.op = "follow"
      <4>1. Edges' = Edges \cup {<<k.me, k.other>>}
        BY <3>1, <3>2, <3>4 DEF Edges, ArrayEdit
      <4> QED BY <3>1, <3>3, <4>1 DEF Graph!Next, Graph!Follow
    <3>5. CASE k.op = "unfollow"
      <4>1. Edges' = Edges \ {<<k.me, k.other>>}
        BY <3>1, <3>2, <3>5 DEF Edges, ArrayEdit
      <4> QED BY <3>1, <3>3, <4>1 DEF Graph!Next, Graph!Unfollow
    <3> QED BY <3>1, <3>4, <3>5
  <2>4. ASSUME NEW c \in Calls, QuietAction(c) \/ GetOther(c)
        PROVE  UNCHANGED users
    BY <2>4, QuietStep, GetOtherStep DEF Quiet
  <2>5. CASE UNCHANGED vars
    BY <2>1, <2>5 DEF vars
  <2> QED BY <2>1, <2>2, <2>3, <2>4, <2>5 DEF Next, CallSteps, QuietAction
<1> QED BY <1>1, <1>2, ShapeCorrect, PTL
        DEF Spec, ImplementsSocialGraph, Graph!Spec
=============================================================================
