--------------------- MODULE PostNetworkRepositoryProofs ---------------------
(***************************************************************************)
(* Theorems about PostNetworkRepository, for any phones, users, calls and  *)
(* retries.  The argument for the likes follows one user whose taps do not *)
(* overlap: only one phone has updates of this user in its queue, the last *)
(* of them asks for what was last tapped, and the server shows what the    *)
(* last update it has committed on this connection asks for.               *)
(***************************************************************************)
EXTENDS PostNetworkRepository, FiniteSetTheorems, SequenceTheorems, TLAPS

USE UserOfAssumption, CommentRetryAssumption

\* A call that goes on to another step is still a call.
LEMMA StepType ==
    ASSUME call \in [Calls -> CallState], NEW c \in Calls,
           NEW step \in {"liking", "tx", "done"}
    PROVE  [call EXCEPT ![c].pc = step] \in [Calls -> CallState]
<1>1. [call[c] EXCEPT !.pc = step] \in CallState
  BY DEF CallState
<1> QED BY <1>1

\* An attempt that ends changes nothing of a call but its step and its tries.
LEMMA AttemptEndsType ==
    ASSUME TypeOK, NEW c \in Calls, call[c].pc = "tx", AttemptEnds(c)
    PROVE  /\ call' \in [Calls -> CallState]
           /\ \A d \in Calls : /\ call'[d].phone = call[d].phone
                               /\ call'[d].found = call[d].found
                               /\ call'[d].base = call[d].base
           /\ \A d \in Calls \ {c} : call'[d] = call[d]
           /\ call'[c].pc \in {"tx", "done"}
<1>1. call \in [Calls -> CallState] /\ call[c] \in CallState
  BY DEF TypeOK
<1>2. CASE call' = [call EXCEPT ![c].pc = "done"]
  BY <1>1, <1>2 DEF CallState
<1>3. CASE call[c].tries < MaxRetries /\ call' = [call EXCEPT ![c].tries = @ + 1]
  <2>1. call[c].tries + 1 \in 0..MaxRetries
    BY <1>1, <1>3 DEF CallState
  <2> QED BY <1>1, <1>3, <2>1 DEF CallState
<1> QED BY <1>2, <1>3 DEF AttemptEnds

\* What a phone shows is a like or none.
LEMMA LikedType ==
    ASSUME TypeOK, NEW p \in Phones
    PROVE  Liked(p) \in BOOLEAN
<1>1. CASE pending[p] = <<>>
  BY <1>1 DEF Liked
<1>2. CASE pending[p] # <<>>
  BY <1>2 DEF Liked
<1> QED BY <1>1, <1>2

\* Every step preserves the types.
LEMMA TypePreserved ==
    ASSUME TypeOK, [Next]_vars
    PROVE  TypeOK'
<1> USE DEF postVars, queueVars
<1>1. ASSUME NEW c \in Calls, toggleLike(c)
      PROVE  TypeOK'
  <2>1. Me(c) \in Users
    BY DEF TypeOK, Me, CallState
  <2>2. Liked(call[c].phone) \in BOOLEAN
    <3>1. call[c].phone \in Phones
      BY DEF TypeOK, CallState
    <3> QED BY <3>1, LikedType
  <2>3. call' \in [Calls -> CallState]
    <3>1. call \in [Calls -> CallState]
      BY DEF TypeOK
    <3>2. \/ call' = [call EXCEPT ![c].pc = "liking", ![c].found = Liked(call[c].phone)]
          \/ call' = [call EXCEPT ![c].pc = "done"]
      BY <1>1 DEF toggleLike
    <3> QED BY <2>2, <3>1, <3>2 DEF CallState
  <2>4. wanted' \subseteq Users /\ racedLikes' \subseteq Users
    BY <1>1, <2>1 DEF TypeOK, toggleLike
  <2> QED BY <1>1, <2>3, <2>4 DEF toggleLike, TypeOK
<1>2. ASSUME NEW c \in Calls, IssueUpdate(c)
      PROVE  TypeOK'
  <2>1. call' \in [Calls -> CallState]
    <3>1. call' = [call EXCEPT ![c].pc = "done"] /\ call \in [Calls -> CallState]
      BY <1>2 DEF IssueUpdate, TypeOK
    <3> QED BY <3>1, StepType
  <2>2. call[c].phone \in Phones
    BY DEF TypeOK, CallState
  <2>3. pending' \in [Phones -> Seq(Calls)]
    BY <1>2, <2>2 DEF IssueUpdate, Updates!Issue, TypeOK
  <2> QED BY <1>2, <2>1, <2>3 DEF IssueUpdate, Updates!Issue, TypeOK
<1>3. ASSUME NEW c \in Calls, createNewComment(c)
      PROVE  TypeOK'
  BY <1>3 DEF createNewComment, TypeOK, CallState
<1>4. ASSUME NEW c \in Calls, CommitComment(c)
      PROVE  TypeOK'
  <2>1. call[c].base \in Nat
    BY DEF TypeOK, CallState
  <2> QED BY <1>4, <2>1, AttemptEndsType DEF CommitComment, CommentRef, TypeOK
<1>5. ASSUME NEW c \in Calls, CommentFails(c)
      PROVE  TypeOK'
  <2>1. call' \in [Calls -> CallState]
    <3>1. CASE likeable
      BY <1>5, <3>1, AttemptEndsType DEF CommentFails
    <3>2. CASE ~likeable
      <4>1. call' = [call EXCEPT ![c].pc = "done"]
        BY <1>5, <3>2 DEF CommentFails
      <4>2. call \in [Calls -> CallState]
        BY DEF TypeOK
      <4> QED BY <4>1, <4>2, StepType
    <3> QED BY <3>1, <3>2
  <2> QED BY <1>5, <2>1 DEF CommentFails, TypeOK
<1>6. ASSUME NEW p \in Phones, CommitUpdate(p)
      PROVE  TypeOK'
  <2>1. /\ unread[p] + 1 \in 1..Len(pending[p])
        /\ log' = Append(log, pending[p][unread[p] + 1])
        /\ unread' = [unread EXCEPT ![p] = @ + 1]
        /\ pending' = pending
    BY <1>6 DEF CommitUpdate, Updates!Commit, TypeOK
  <2>2. log' \in Seq(Calls) /\ Len(log') \in 1..Len(log')
    BY <2>1 DEF TypeOK
  <2>3. likes' \subseteq Users
    BY <1>6, <2>2 DEF CommitUpdate, Update, Me, TypeOK, CallState
  <2> QED BY <1>6, <2>1, <2>2, <2>3 DEF CommitUpdate, TypeOK
<1>7. ASSUME NEW p \in Phones, UpdateAnswered(p)
      PROVE  TypeOK'
  BY <1>7 DEF UpdateAnswered, Updates!Settle, TypeOK
<1>8. ASSUME NEW p \in Phones, ConnectionLost(p)
      PROVE  TypeOK'
  BY <1>8 DEF ConnectionLost, Updates!BeginAgain, TypeOK
<1>9. ASSUME NEW p \in Phones, UpdateRefused(p)
      PROVE  TypeOK'
  BY <1>9 DEF UpdateRefused, Updates!Refuse, TypeOK
<1>10. CASE UNCHANGED vars
  BY <1>10 DEF vars, TypeOK
<1> QED BY <1>1, <1>2, <1>3, <1>4, <1>5, <1>6, <1>7, <1>8, <1>9, <1>10 DEF Next

\* The types of PostNetworkRepository hold in every reachable state.
THEOREM TypeCorrect == Spec => []TypeOK
<1>1. Init => TypeOK
  <2> SUFFICES ASSUME Init
               PROVE  TypeOK
    OBVIOUS
  <2>1. call \in [Calls -> CallState]
    <3> SUFFICES \A p \in Phones : [pc |-> "idle", phone |-> p, found |-> FALSE,
                                    base |-> 0, tries |-> 0] \in CallState
      BY DEF Init
    <3> QED BY DEF CallState
  <2>2. /\ pending \in [Phones -> Seq(Calls)]
        /\ log \in Seq(Calls)
        /\ unread \in [Phones -> Nat]
    BY DEF Init, Updates!Init
  <2> QED BY <2>1, <2>2, Zenon DEF Init, TypeOK
<1> QED BY <1>1, TypePreserved, PTL DEF Spec

\* The phones only do with their queues what WriteQueue allows: whatever
\* implements it, as RemoteStore does, can take the place of the queues.
THEOREM QueuesAreWriteQueueHolds == Spec => Updates!Spec
<1>1. Init => Updates!Init
  BY DEF Init, Updates!Init
<1>2. TypeOK /\ [Next]_vars => [Updates!Next]_<<pending, log, unread>>
  <2> SUFFICES ASSUME TypeOK, [Next]_vars
               PROVE  [Updates!Next]_<<pending, log, unread>>
    OBVIOUS
  <2>1. ASSUME NEW c \in Calls, IssueUpdate(c)
        PROVE  Updates!Next
    <3>1. call[c].phone \in Phones
      BY DEF TypeOK, CallState
    <3> QED BY <2>1, <3>1 DEF IssueUpdate, Updates!Next
  <2>2. ASSUME NEW p \in Phones,
               CommitUpdate(p) \/ UpdateAnswered(p) \/ ConnectionLost(p) \/ UpdateRefused(p)
        PROVE  Updates!Next
    BY <2>2 DEF CommitUpdate, UpdateAnswered, ConnectionLost, UpdateRefused, Updates!Next
  <2>3. ASSUME NEW c \in Calls,
               \/ toggleLike(c) \/ createNewComment(c) \/ CommitComment(c) \/ CommentFails(c)
        PROVE  UNCHANGED queueVars
    BY <2>3 DEF toggleLike, createNewComment, CommitComment, CommentFails
  <2>4. CASE UNCHANGED vars
    BY <2>4 DEF vars, queueVars
  <2> QED BY <2>1, <2>2, <2>3, <2>4 DEF Next, vars, queueVars
<1> QED BY <1>1, <1>2, TypeCorrect, PTL DEF Spec, Updates!Spec

----------------------------------------------------------------------------
(* Comments. *)

\* A step starts a comment, applies one, or leaves the comments alone.
LEMMA CommentCases ==
    ASSUME TypeOK, [Next]_vars
    PROVE  \/ \E c \in Calls : createNewComment(c) \/ CommitComment(c)
           \/ /\ UNCHANGED <<comments, numOfComments, lastComment, overlapped>>
              /\ \A d \in Calls :
                   /\ call'[d].pc = "idle" => call[d].pc = "idle"
                   /\ call'[d].pc = "tx" => call[d].pc = "tx" /\ call'[d].base = call[d].base
<1> USE DEF postVars, queueVars
<1>1. call \in [Calls -> CallState]
  BY DEF TypeOK
<1>2. ASSUME NEW c \in Calls, toggleLike(c) \/ IssueUpdate(c) \/ CommentFails(c)
      PROVE  /\ UNCHANGED <<comments, numOfComments, lastComment, overlapped>>
             /\ \A d \in Calls :
                  /\ call'[d].pc = "idle" => call[d].pc = "idle"
                  /\ call'[d].pc = "tx" => call[d].pc = "tx" /\ call'[d].base = call[d].base
  <2>1. CASE toggleLike(c)
    BY <1>1, <2>1 DEF toggleLike, CallState
  <2>2. CASE IssueUpdate(c)
    BY <1>1, <2>2 DEF IssueUpdate, CallState
  <2>3. CASE CommentFails(c) /\ likeable
    BY <1>1, <2>3, AttemptEndsType DEF CommentFails
  <2>4. CASE CommentFails(c) /\ ~likeable
    BY <1>1, <2>4 DEF CommentFails, CallState
  <2> QED BY <1>2, <2>1, <2>2, <2>3, <2>4
<1>3. ASSUME NEW p \in Phones,
             CommitUpdate(p) \/ UpdateAnswered(p) \/ ConnectionLost(p) \/ UpdateRefused(p)
      PROVE  UNCHANGED <<comments, numOfComments, lastComment, overlapped, call>>
  BY <1>3 DEF CommitUpdate, UpdateAnswered, ConnectionLost, UpdateRefused
<1>4. CASE UNCHANGED vars
  BY <1>4 DEF vars
<1> QED BY <1>2, <1>3, <1>4 DEF Next

KeysOfCalls ==
    /\ \A x \in comments : \E c \in Calls : x = CommentRef(c)
    /\ \A c \in Calls : call[c].pc = "idle" => CommentRef(c) \notin comments

\* Every comment is some call's own, and never there before that call began.
LEMMA KeysOfCallsHolds == Spec => []KeysOfCalls
<1>1. Init => KeysOfCalls
  BY DEF Init, KeysOfCalls
<1>2. TypeOK /\ KeysOfCalls /\ [Next]_vars => KeysOfCalls'
  <2> SUFFICES ASSUME TypeOK, KeysOfCalls, [Next]_vars
               PROVE  KeysOfCalls'
    OBVIOUS
  <2>0. call \in [Calls -> CallState]
    BY DEF TypeOK
  <2>1. ASSUME NEW c \in Calls, createNewComment(c)
        PROVE  KeysOfCalls'
    BY <2>0, <2>1 DEF createNewComment, KeysOfCalls, CommentRef, CallState, postVars
  <2>2. ASSUME NEW c \in Calls, CommitComment(c)
        PROVE  KeysOfCalls'
    BY <2>2, AttemptEndsType DEF CommitComment, KeysOfCalls, CommentRef
  <2>3. ASSUME UNCHANGED comments,
               \A d \in Calls : call'[d].pc = "idle" => call[d].pc = "idle"
        PROVE  KeysOfCalls'
    BY <2>3 DEF KeysOfCalls, CommentRef
  <2> QED BY <2>1, <2>2, <2>3, CommentCases
<1> QED BY <1>1, <1>2, TypeCorrect, PTL DEF Spec

\* Retries of the transaction add no second comment.
THEOREM OneCommentPerCallHolds == Spec => []OneCommentPerCall
<1>1. KeysOfCalls => OneCommentPerCall
  BY DEF KeysOfCalls, OneCommentPerCall, CommentRef
<1> QED BY <1>1, KeysOfCallsHolds, PTL

\* last_comment is a comment that is there, and there is one if there are any.
THEOREM LastCommentIsThereHolds == Spec => []LastCommentIsThere
<1>1. Init => LastCommentIsThere
  BY DEF Init, LastCommentIsThere
<1>2. TypeOK /\ LastCommentIsThere /\ [Next]_vars => LastCommentIsThere'
  <2> SUFFICES ASSUME TypeOK, LastCommentIsThere, [Next]_vars
               PROVE  LastCommentIsThere'
    OBVIOUS
  <2>1. ASSUME NEW c \in Calls, createNewComment(c)
        PROVE  LastCommentIsThere'
    BY <2>1 DEF createNewComment, LastCommentIsThere, postVars
  <2>2. ASSUME NEW c \in Calls, CommitComment(c)
        PROVE  LastCommentIsThere'
    BY <2>2 DEF CommitComment, LastCommentIsThere
  <2>3. ASSUME UNCHANGED <<comments, lastComment>>
        PROVE  LastCommentIsThere'
    BY <2>3 DEF LastCommentIsThere
  <2> QED BY <2>1, <2>2, <2>3, CommentCases
<1> QED BY <1>1, <1>2, TypeCorrect, PTL DEF Spec

\* The comments other calls have made.
Others(c) == Cardinality(comments \ {CommentRef(c)})

\* A call in its transaction has not read more than the others have made, and
\* just that if it has never overlapped another one.
CountInv ==
    /\ IsFiniteSet(comments)
    /\ CountIsNeverAhead
    /\ \A c \in Calls : call[c].pc = "tx" =>
         /\ call[c].base <= Others(c)
         /\ ~overlapped => /\ call[c].base = Others(c)
                           /\ \A d \in Calls \ {c} : call[d].pc # "tx"

\* Adding a comment to a set, counted from the set without it.
LEMMA AddComment ==
    ASSUME NEW S, IsFiniteSet(S), NEW x
    PROVE  /\ IsFiniteSet(S \cup {x})
           /\ Cardinality(S) \in Nat
           /\ Cardinality(S \ {x}) \in Nat
           /\ Cardinality(S \cup {x}) \in Nat
           /\ Cardinality(S \cup {x}) = Cardinality(S \ {x}) + 1
           /\ Cardinality(S) <= Cardinality(S \cup {x})
<1>1. IsFiniteSet(S \cup {x}) /\ IsFiniteSet(S \ {x})
  BY FS_AddElement, FS_RemoveElement
<1>2. /\ Cardinality(S) \in Nat
      /\ Cardinality(S \ {x}) \in Nat
      /\ Cardinality(S \cup {x}) \in Nat
  BY <1>1, FS_CardinalityType
<1>3. CASE x \in S
  <2>1. S \cup {x} = S
    BY <1>3
  <2>2. Cardinality(S \ {x}) = Cardinality(S) - 1
    BY <1>3, FS_RemoveElement
  <2> QED BY <1>1, <1>2, <2>1, <2>2
<1>4. CASE x \notin S
  <2>1. S \ {x} = S
    BY <1>4
  <2>2. Cardinality(S \cup {x}) = Cardinality(S) + 1
    BY <1>4, FS_AddElement
  <2> QED BY <1>1, <1>2, <2>1, <2>2
<1> QED BY <1>3, <1>4

\* num_of_comments is never ahead, and exact until two comments overlap.
THEOREM CountIsNeverAheadHolds == Spec => []CountIsNeverAhead
<1>1. Init => CountInv
  BY FS_EmptySet DEF Init, CountInv, CountIsNeverAhead
<1>2. TypeOK /\ KeysOfCalls /\ CountInv /\ [Next]_vars => CountInv'
  <2> SUFFICES ASSUME TypeOK, KeysOfCalls, CountInv, [Next]_vars
               PROVE  CountInv'
    OBVIOUS
  <2>0. call \in [Calls -> CallState] /\ IsFiniteSet(comments) /\ numOfComments \in Nat
    BY DEF TypeOK, CountInv
  <2>1. ASSUME NEW c \in Calls, createNewComment(c)
        PROVE  CountInv'
    <3>1. /\ comments' = comments /\ numOfComments' = numOfComments
          /\ call'[c].pc = "tx" /\ call'[c].base = numOfComments
          /\ \A d \in Calls \ {c} : call'[d] = call[d]
      BY <2>0, <2>1 DEF createNewComment, postVars, CallState
    <3>2. Others(c) = Cardinality(comments) /\ Others(c)' = Others(c)
      <4>1. CommentRef(c) \notin comments
        BY <2>1 DEF createNewComment, KeysOfCalls
      <4>2. comments \ {CommentRef(c)} = comments
        BY <4>1
      <4> QED BY <3>1, <4>2 DEF Others, CommentRef
    <3>3. overlapped' <=> overlapped \/ \E d \in Calls : call[d].pc = "tx"
      BY <2>1 DEF createNewComment
    <3>4. CountIsNeverAhead'
      BY <3>1, <3>3 DEF CountInv, CountIsNeverAhead
    <3>5. ASSUME NEW d \in Calls, call'[d].pc = "tx"
          PROVE  /\ call'[d].base <= Others(d)'
                 /\ ~overlapped' => /\ call'[d].base = Others(d)'
                                    /\ \A e \in Calls \ {d} : call'[e].pc # "tx"
      <4>1. CASE d = c
        BY <3>1, <3>2, <3>3, <4>1 DEF CountInv, CountIsNeverAhead
      <4>2. CASE d # c
        BY <3>1, <3>3, <3>5, <4>2 DEF CountInv, Others, CommentRef
      <4> QED BY <4>1, <4>2
    <3> QED BY <2>0, <3>1, <3>4, <3>5 DEF CountInv
  <2>2. ASSUME NEW c \in Calls, CommitComment(c)
        PROVE  CountInv'
    <3> DEFINE x == CommentRef(c)
    <3>1. /\ comments' = comments \cup {x} /\ numOfComments' = call[c].base + 1
          /\ call[c].pc = "tx" /\ overlapped' = overlapped
          /\ \A d \in Calls : call'[d].base = call[d].base
          /\ \A d \in Calls \ {c} : call'[d] = call[d]
      BY <2>2, AttemptEndsType DEF CommitComment
    <3>2. call[c].base \in Nat /\ call[c].base <= Others(c)
      BY <2>0, <3>1 DEF CountInv, CallState
    <3>3. /\ Cardinality(comments') = Others(c) + 1 /\ Others(c) \in Nat
          /\ IsFiniteSet(comments')
      BY <2>0, <3>1, AddComment DEF Others
    <3>4. CountIsNeverAhead'
      BY <3>1, <3>2, <3>3 DEF CountInv, CountIsNeverAhead
    <3>5. Others(c)' = Others(c)
      <4>1. comments' \ {x} = comments \ {x}
        BY <3>1
      <4> QED BY <4>1 DEF Others, CommentRef
    <3>6. ASSUME NEW d \in Calls \ {c}, call'[d].pc = "tx"
          PROVE  overlapped /\ call'[d].base <= Others(d)'
      <4> DEFINE y == CommentRef(d)
                 T == comments \ {y}
      <4>1. IsFiniteSet(T)
        BY <2>0, FS_RemoveElement
      <4>2. comments' \ {y} = T \cup {x}
        BY <3>1 DEF CommentRef
      <4>3. Cardinality(T) <= Cardinality(T \cup {x}) /\ Cardinality(T) \in Nat
            /\ Cardinality(T \cup {x}) \in Nat
        BY <4>1, AddComment
      <4>4. overlapped /\ call[d].base <= Cardinality(T) /\ call[d].base \in Nat
        BY <2>0, <3>1, <3>6 DEF CountInv, Others, CallState
      <4>5. Others(d)' = Cardinality(T \cup {x})
        BY <4>2 DEF Others, CommentRef
      <4> QED BY <3>1, <4>3, <4>4, <4>5
    <3>7. ASSUME NEW d \in Calls, call'[d].pc = "tx"
          PROVE  /\ call'[d].base <= Others(d)'
                 /\ ~overlapped' => /\ call'[d].base = Others(d)'
                                    /\ \A e \in Calls \ {d} : call'[e].pc # "tx"
      <4>1. CASE d = c
        BY <3>1, <3>2, <3>5, <4>1 DEF CountInv
      <4>2. CASE d # c
        BY <3>1, <3>6, <3>7, <4>2
      <4> QED BY <4>1, <4>2
    <3> QED BY <3>3, <3>4, <3>7 DEF CountInv
  <2>3. ASSUME UNCHANGED <<comments, numOfComments, overlapped>>,
               \A d \in Calls :
                   call'[d].pc = "tx" => call[d].pc = "tx" /\ call'[d].base = call[d].base
        PROVE  CountInv'
    BY <2>3 DEF CountInv, CountIsNeverAhead, Others, CommentRef
  <2> QED BY <2>1, <2>2, <2>3, CommentCases
<1>3. CountInv => CountIsNeverAhead
  BY DEF CountInv
<1> QED BY <1>1, <1>2, <1>3, TypeCorrect, KeysOfCallsHolds, PTL DEF Spec

----------------------------------------------------------------------------
(* Likes. *)

\* Nothing of a call changes any more once it has returned, its phone never
\* does, and an update is issued as it was decided.
LEMMA CallSteps ==
    ASSUME TypeOK, [Next]_vars
    PROVE  /\ call \in [Calls -> CallState] /\ call' \in [Calls -> CallState]
           /\ \A d \in Calls :
                /\ call'[d].phone = call[d].phone
                /\ call[d].pc = "done" => call'[d] = call[d]
<1> USE DEF postVars, queueVars
<1>1. call \in [Calls -> CallState] /\ call' \in [Calls -> CallState]
  <2>1. TypeOK'
    BY TypePreserved
  <2> QED BY <2>1 DEF TypeOK
<1>2. ASSUME NEW c \in Calls, toggleLike(c) \/ IssueUpdate(c) \/ createNewComment(c)
      PROVE  \A d \in Calls : /\ call'[d].phone = call[d].phone
                              /\ call[d].pc = "done" => call'[d] = call[d]
  BY <1>1, <1>2 DEF toggleLike, IssueUpdate, createNewComment, CallState
<1>3. ASSUME NEW c \in Calls, CommitComment(c) \/ CommentFails(c)
      PROVE  \A d \in Calls : /\ call'[d].phone = call[d].phone
                              /\ call[d].pc = "done" => call'[d] = call[d]
  <2>1. CASE AttemptEnds(c)
    <3>1. call[c].pc = "tx"
      BY <1>3 DEF CommitComment, CommentFails
    <3> QED BY <2>1, <3>1, AttemptEndsType
  <2>2. CASE call[c].pc = "tx" /\ call' = [call EXCEPT ![c].pc = "done"]
    BY <1>1, <2>2 DEF CallState
  <2> QED BY <1>3, <2>1, <2>2 DEF CommitComment, CommentFails
<1>4. CASE UNCHANGED call
  BY <1>1, <1>4
<1> QED BY <1>1, <1>2, <1>3, <1>4
        DEF Next, CommitUpdate, UpdateAnswered, ConnectionLost, UpdateRefused, vars

\* What is in a queue or in the log is an update that was issued, in a queue
\* by a call of that phone.
Issued ==
    /\ \A p \in Phones : \A i \in DOMAIN pending[p] :
         call[pending[p][i]].pc = "done" /\ call[pending[p][i]].phone = p
    /\ \A i \in DOMAIN log : call[log[i]].pc = "done"
    /\ \A p \in Phones : unread[p] <= Len(pending[p])

\* How a step changes the queues and the log.
LEMMA QueueCases ==
    ASSUME TypeOK, [Next]_vars
    PROVE  \/ \E c \in Calls : IssueUpdate(c)
           \/ \E p \in Phones : CommitUpdate(p) \/ UpdateAnswered(p)
                                  \/ ConnectionLost(p) \/ UpdateRefused(p)
           \/ UNCHANGED <<pending, log, unread, likes>>
BY DEF Next, toggleLike, createNewComment, CommitComment, CommentFails, vars,
       postVars, queueVars

\* Only what a finished call asked for is queued, committed or answered.
LEMMA IssuedHolds == Spec => []Issued
<1>1. Init => Issued
  BY DEF Init, Updates!Init, Issued
<1>2. TypeOK /\ Issued /\ [Next]_vars => Issued'
  <2> SUFFICES ASSUME TypeOK, Issued, [Next]_vars
               PROVE  Issued'
    OBVIOUS
  <2>0. /\ pending \in [Phones -> Seq(Calls)] /\ log \in Seq(Calls)
        /\ unread \in [Phones -> Nat] /\ call \in [Calls -> CallState]
        /\ \A d \in Calls : /\ call'[d].phone = call[d].phone
                            /\ call[d].pc = "done" => call'[d] = call[d]
    BY CallSteps DEF TypeOK
  <2>1. ASSUME NEW c \in Calls, IssueUpdate(c)
        PROVE  Issued'
    <3> DEFINE p == call[c].phone
    <3>1. /\ p \in Phones /\ log' = log /\ unread' = unread
          /\ pending' = [pending EXCEPT ![p] = Append(@, c)]
          /\ call'[c].pc = "done" /\ call'[c].phone = p
      BY <2>0, <2>1 DEF IssueUpdate, Updates!Issue, CallState
    <3>2. ASSUME NEW q \in Phones, NEW i \in DOMAIN pending'[q]
          PROVE  call'[pending'[q][i]].pc = "done" /\ call'[pending'[q][i]].phone = q
      <4>1. CASE q = p /\ i = Len(pending[p]) + 1
        BY <2>0, <3>1, <4>1
      <4>2. CASE i \in DOMAIN pending[q]
        BY <2>0, <3>1, <4>2 DEF Issued
      <4> QED BY <2>0, <3>1, <4>1, <4>2
    <3>3. \A q \in Phones : unread'[q] <= Len(pending'[q])
      BY <2>0, <3>1 DEF Issued
    <3>4. \A i \in DOMAIN log' : call'[log'[i]].pc = "done"
      BY <2>0, <3>1 DEF Issued
    <3> QED BY <3>2, <3>3, <3>4 DEF Issued
  <2>2. ASSUME NEW p \in Phones, CommitUpdate(p)
        PROVE  Issued'
    <3>1. /\ unread[p] + 1 \in DOMAIN pending[p] /\ pending' = pending /\ call' = call
          /\ log' = Append(log, pending[p][unread[p] + 1])
          /\ unread' = [unread EXCEPT ![p] = @ + 1]
      BY <2>0, <2>2 DEF CommitUpdate, Updates!Commit
    <3> QED BY <2>0, <3>1 DEF Issued
  <2>3. ASSUME NEW p \in Phones,
               UpdateAnswered(p) \/ ConnectionLost(p) \/ UpdateRefused(p)
        PROVE  Issued'
    <3>1. /\ log' = log /\ call' = call
          /\ \/ pending' = pending
             \/ pending[p] # <<>> /\ pending' = [pending EXCEPT ![p] = Tail(@)]
      BY <2>3 DEF UpdateAnswered, ConnectionLost, UpdateRefused,
                  Updates!Settle, Updates!BeginAgain, Updates!Refuse
    <3>2. \A q \in Phones : unread'[q] <= Len(pending'[q])
      BY <2>0, <2>3 DEF UpdateAnswered, ConnectionLost, UpdateRefused, Issued,
                  Updates!Settle, Updates!BeginAgain, Updates!Refuse
    <3>3. ASSUME NEW q \in Phones, NEW i \in DOMAIN pending'[q]
          PROVE  \E j \in DOMAIN pending[q] : pending'[q][i] = pending[q][j]
      <4>1. CASE pending'[q] = pending[q]
        BY <3>3, <4>1
      <4>2. CASE pending[q] # <<>> /\ pending'[q] = Tail(pending[q])
        <5>1. i + 1 \in DOMAIN pending[q] /\ pending'[q][i] = pending[q][i + 1]
          BY <2>0, <3>3, <4>2
        <5> QED BY <5>1
      <4> QED BY <2>0, <3>1, <4>1, <4>2
    <3> QED BY <3>1, <3>2, <3>3 DEF Issued
  <2>4. ASSUME UNCHANGED <<pending, log, unread>>
        PROVE  Issued'
    BY <2>0, <2>4 DEF Issued
  <2> QED BY <2>1, <2>2, <2>3, <2>4, QueueCases
<1> QED BY <1>1, <1>2, TypeCorrect, PTL DEF Spec

\* A commit adds one call to those that were committed.
LEMMA CommitAppends ==
    ASSUME log \in Seq(Calls), NEW c \in Calls, log' = Append(log, c)
    PROVE  /\ log'[Len(log')] = c
           /\ \A d \in Calls : (Committed(d))' <=> Committed(d) \/ d = c
<1>1. /\ log'[Len(log')] = c /\ Len(log') \in DOMAIN log'
      /\ \A i \in DOMAIN log : i \in DOMAIN log' /\ log'[i] = log[i]
      /\ \A i \in DOMAIN log' : i \in DOMAIN log \/ i = Len(log')
  OBVIOUS
<1> QED BY <1>1, Zenon DEF Committed

\* Nobody's like is given or taken by the taps of others.
THEOREM LikesAreOnesOwnHolds == Spec => []LikesAreOnesOwn
<1>1. Init => LikesAreOnesOwn
  BY DEF Init, Updates!Init, LikesAreOnesOwn, Committed
<1>2. TypeOK /\ Issued /\ LikesAreOnesOwn /\ [Next]_vars => LikesAreOnesOwn'
  <2> SUFFICES ASSUME TypeOK, Issued, LikesAreOnesOwn, [Next]_vars
               PROVE  LikesAreOnesOwn'
    OBVIOUS
  <2>0. /\ log \in Seq(Calls) /\ pending \in [Phones -> Seq(Calls)]
        /\ unread \in [Phones -> Nat]
        /\ \A d \in Calls : /\ call'[d].phone = call[d].phone
                            /\ call[d].pc = "done" => call'[d] = call[d]
    BY CallSteps DEF TypeOK
  <2>1. \A i \in DOMAIN log : call[log[i]].pc = "done" /\ call'[log[i]] = call[log[i]]
    BY <2>0 DEF Issued
  <2>2. ASSUME NEW p \in Phones, CommitUpdate(p)
        PROVE  LikesAreOnesOwn'
    <3> DEFINE c == pending[p][unread[p] + 1]
               v == Me(c)
    <3>1. /\ c \in Calls /\ log' = Append(log, c) /\ call' = call
      BY <2>0, <2>2 DEF CommitUpdate, Updates!Commit
    <3>2. likes' = IF call[c].found THEN likes \ {v} ELSE likes \cup {v}
      <4>1. log'[Len(log')] = c
        BY <2>0, <3>1, CommitAppends
      <4>2. likes' = Update(c)
        BY <2>2, <4>1 DEF CommitUpdate
      <4> QED BY <4>2 DEF Update
    <3>3. \A d \in Calls : (Committed(d))' <=> Committed(d) \/ d = c
      BY <2>0, <3>1, CommitAppends
    <3>4. \A d \in Calls : Me(d)' = Me(d)
      BY <3>1 DEF Me
    <3> HIDE DEF c
    <3>5. ASSUME NEW u \in Users
          PROVE  /\ u \in likes' =>
                      \E d \in Calls : (Committed(d))' /\ Me(d)' = u /\ ~call'[d].found
                 /\ (\E d \in Calls : (Committed(d))' /\ Me(d)' = u) /\ u \notin likes' =>
                      \E d \in Calls : (Committed(d))' /\ Me(d)' = u /\ call'[d].found
      <4>1. CASE u = v
        BY <3>1, <3>2, <3>3, <3>4, <4>1
      <4>2. CASE u # v
        BY <3>1, <3>2, <3>3, <3>4, <4>2 DEF LikesAreOnesOwn
      <4> QED BY <4>1, <4>2
    <3> QED BY <3>5 DEF LikesAreOnesOwn
  <2>3. ASSUME UNCHANGED <<log, likes>>
        PROVE  LikesAreOnesOwn'
    <3>1. \A d \in Calls : (Committed(d))' <=> Committed(d)
      BY <2>3 DEF Committed
    <3>2. \A d \in Calls : Committed(d) => Me(d)' = Me(d) /\ call'[d] = call[d]
      BY <2>1, <2>0 DEF Committed, Me
    <3> QED BY <2>3, <3>1, <3>2 DEF LikesAreOnesOwn
  <2>4. ASSUME NEW c \in Calls, IssueUpdate(c)
        PROVE  UNCHANGED <<log, likes>>
    BY <2>4 DEF IssueUpdate, Updates!Issue, postVars
  <2>5. ASSUME NEW p \in Phones,
               UpdateAnswered(p) \/ ConnectionLost(p) \/ UpdateRefused(p)
        PROVE  UNCHANGED <<log, likes>>
    BY <2>5 DEF UpdateAnswered, ConnectionLost, UpdateRefused, postVars,
                Updates!Settle, Updates!BeginAgain, Updates!Refuse
  <2> QED BY <2>2, <2>3, <2>4, <2>5, QueueCases
<1> QED BY <1>1, <1>2, TypeCorrect, IssuedHolds, PTL DEF Spec

\* The taps of a user that have not issued their update.
Liking(c, u) == call[c].pc = "liking" /\ Me(c) = u

Latest(p) == pending[p][Len(pending[p])]

\* The taps of a user come one after the other: at most one is under way, and
\* only one phone has updates in its queue, the one of the tap under way.
OneByOne(u) ==
    /\ \A c, d \in Calls : Liking(c, u) /\ Liking(d, u) => c = d
    /\ \A p, q \in Phones : UserOf[p] = u /\ UserOf[q] = u
         /\ pending[p] # <<>> /\ pending[q] # <<>> => p = q
    /\ \A c \in Calls, q \in Phones : Liking(c, u) /\ UserOf[q] = u
         /\ pending[q] # <<>> => q = call[c].phone

\* The server shows the last update it has committed on this connection.
Shown(u) ==
    \A p \in Phones : UserOf[p] = u /\ unread[p] > 0
        => (u \in likes <=> ~call[pending[p][unread[p]]].found)

\* What was last tapped is what the tap under way will ask for, else the last
\* update in a queue, else what the server shows.
Intended(u) ==
    IF \E c \in Calls : Liking(c, u)
    THEN \A c \in Calls : Liking(c, u) => (u \in wanted <=> ~call[c].found)
    ELSE /\ \A p \in Phones : UserOf[p] = u /\ pending[p] # <<>>
              => (u \in wanted <=> ~call[Latest(p)].found)
         /\ (\A p \in Phones : UserOf[p] = u => pending[p] = <<>>)
              => (u \in wanted <=> u \in likes)

TapsOf(u) == OneByOne(u) /\ Shown(u) /\ Intended(u)

TapInv == \A u \in Users \ racedLikes : TapsOf(u)

\* A step that leaves a user's taps, queues and like alone.
LEMMA TapsUnchanged ==
    ASSUME TypeOK, Issued, NEW u, TapsOf(u),
           u \in wanted' <=> u \in wanted, u \in likes' <=> u \in likes,
           \A p \in Phones : UserOf[p] = u =>
               pending'[p] = pending[p] /\ unread'[p] = unread[p],
           \A d \in Calls : (Liking(d, u))' <=> Liking(d, u),
           \A d \in Calls : Liking(d, u) \/ call[d].pc = "done" => call'[d] = call[d]
    PROVE  (TapsOf(u))'
<1>0. /\ pending \in [Phones -> Seq(Calls)] /\ unread \in [Phones -> Nat]
      /\ \A p \in Phones : unread[p] <= Len(pending[p])
      /\ \A p \in Phones : \A i \in DOMAIN pending[p] :
           pending[p][i] \in Calls /\ call[pending[p][i]].pc = "done"
  BY DEF TypeOK, Issued
<1>1. (OneByOne(u))'
  BY DEF TapsOf, OneByOne
<1>2. (Shown(u))'
  <2> SUFFICES ASSUME NEW p \in Phones, UserOf[p] = u, unread'[p] > 0
               PROVE  u \in likes' <=> ~call'[pending'[p][unread'[p]]].found
    BY DEF Shown
  <2>1. unread[p] \in DOMAIN pending[p]
    BY <1>0
  <2>2. call'[pending[p][unread[p]]] = call[pending[p][unread[p]]]
    BY <1>0, <2>1
  <2> QED BY <2>2 DEF TapsOf, Shown
<1>3. (Intended(u))'
  <2>1. ASSUME NEW p \in Phones, UserOf[p] = u, pending[p] # <<>>
        PROVE  (Latest(p))' = Latest(p) /\ call'[Latest(p)] = call[Latest(p)]
    <3>1. Len(pending[p]) \in DOMAIN pending[p]
      BY <1>0, <2>1
    <3> QED BY <1>0, <2>1, <3>1 DEF Latest
  <2>2. CASE \E c \in Calls : Liking(c, u)
    BY <2>2 DEF TapsOf, Intended
  <2>3. CASE ~\E c \in Calls : Liking(c, u)
    BY <2>1, <2>3 DEF TapsOf, Intended
  <2> QED BY <2>2, <2>3
<1> QED BY <1>1, <1>2, <1>3 DEF TapsOf

\* A tap of the user himself, when none is under way elsewhere, flips what the
\* phone shows.
LEMMA TapKeepsTaps ==
    ASSUME TypeOK, Issued, NEW c \in Calls, toggleLike(c), likeable,
           TapsOf(Me(c)), Me(c) \notin racedLikes'
    PROVE  (TapsOf(Me(c)))'
<1> DEFINE p == call[c].phone
           u == Me(c)
<1>0. /\ pending \in [Phones -> Seq(Calls)] /\ unread \in [Phones -> Nat]
      /\ call \in [Calls -> CallState] /\ p \in Phones /\ UserOf[p] = u /\ u \in Users
      /\ Liked(p) \in BOOLEAN
  <2>1. p \in Phones /\ call \in [Calls -> CallState]
    BY DEF TypeOK, CallState
  <2> QED BY <2>1, LikedType DEF TypeOK, Me
<1>1. /\ call' = [call EXCEPT ![c].pc = "liking", ![c].found = Liked(p)]
      /\ wanted' = IF u \in wanted THEN wanted \ {u} ELSE wanted \cup {u}
      /\ pending' = pending /\ unread' = unread /\ likes' = likes
      /\ ~\E d \in Calls : Liking(d, u)
      /\ \A q \in Phones : UserOf[q] = u /\ pending[q] # <<>> => q = p
      /\ call[c].pc = "idle"
  BY <1>0 DEF toggleLike, postVars, queueVars, Liking
<1>2. /\ call'[c].pc = "liking" /\ call'[c].found = Liked(p) /\ call'[c].phone = p
      /\ \A d \in Calls \ {c} : call'[d] = call[d]
      /\ \A d \in Calls : Me(d)' = Me(d)
  BY <1>0, <1>1 DEF CallState, Me
<1>3. \A d \in Calls : (Liking(d, u))' <=> d = c
  BY <1>1, <1>2 DEF Liking
<1>4. u \in wanted' <=> u \notin wanted
  BY <1>1
<1>5. u \in wanted <=> Liked(p)
  <2>1. CASE pending[p] = <<>>
    <3>1. \A q \in Phones : UserOf[q] = u => pending[q] = <<>>
      BY <1>1, <2>1
    <3> QED BY <1>0, <1>1, <2>1, <3>1 DEF TapsOf, Intended, Liked
  <2>2. CASE pending[p] # <<>>
    BY <1>0, <1>1, <2>2 DEF TapsOf, Intended, Liked, Latest
  <2> QED BY <2>1, <2>2
<1>6. u' = u
  BY <1>2
<1>7. (Intended(u))'
  BY <1>2, <1>3, <1>4, <1>5, <1>6 DEF Intended
<1>8. (OneByOne(u))'
  BY <1>1, <1>2, <1>3, <1>6 DEF TapsOf, OneByOne
<1>9. (Shown(u))'
  <2> SUFFICES ASSUME NEW q \in Phones, UserOf[q] = u, unread[q] > 0
               PROVE  u \in likes <=> ~call'[pending[q][unread[q]]].found
    BY <1>1, <1>6 DEF Shown
  <2>1. unread[q] \in DOMAIN pending[q]
    BY <1>0 DEF Issued
  <2>2. pending[q][unread[q]] \in Calls \ {c}
    BY <1>0, <1>1, <2>1 DEF Issued
  <2> QED BY <1>2, <2>2 DEF TapsOf, Shown
<1> QED BY <1>7, <1>8, <1>9 DEF TapsOf

\* The update of the tap under way goes to the end of its phone's queue.
LEMMA IssueKeepsTaps ==
    ASSUME TypeOK, Issued, NEW c \in Calls, IssueUpdate(c), TapsOf(Me(c))
    PROVE  (TapsOf(Me(c)))'
<1> DEFINE p == call[c].phone
           u == Me(c)
<1>0. /\ pending \in [Phones -> Seq(Calls)] /\ unread \in [Phones -> Nat]
      /\ call \in [Calls -> CallState] /\ p \in Phones /\ UserOf[p] = u
      /\ Liking(c, u)
      /\ \A q \in Phones : unread[q] <= Len(pending[q])
  <2>1. call \in [Calls -> CallState] /\ p \in Phones /\ call[c].pc = "liking"
    BY DEF TypeOK, CallState, IssueUpdate
  <2> QED BY <2>1 DEF TypeOK, Me, Issued, Liking
<1>1. /\ call' = [call EXCEPT ![c].pc = "done"]
      /\ pending' = [pending EXCEPT ![p] = Append(@, c)]
      /\ wanted' = wanted /\ unread' = unread /\ likes' = likes
  BY DEF IssueUpdate, Updates!Issue, postVars
<1>2. /\ \A d \in Calls : call'[d].found = call[d].found /\ call'[d].phone = call[d].phone
      /\ call'[c].pc = "done"
      /\ \A d \in Calls \ {c} : call'[d] = call[d]
      /\ \A d \in Calls : Me(d)' = Me(d)
  BY <1>0, <1>1 DEF CallState, Me
<1>3. /\ u' = u
      /\ \A d \in Calls : ~(Liking(d, u))'
  BY <1>0, <1>2 DEF Liking, TapsOf, OneByOne
<1>4. /\ \A q \in Phones : UserOf[q] = u /\ pending[q] # <<>> => q = p
      /\ u \in wanted <=> ~call[c].found
  BY <1>0 DEF TapsOf, OneByOne, Intended
<1>5. /\ pending'[p] = Append(pending[p], c) /\ pending'[p] # <<>>
      /\ \A q \in Phones \ {p} : pending'[q] = pending[q]
      /\ (Latest(p))' = c
  <2>1. pending[p] \in Seq(Calls) /\ pending'[p] = Append(pending[p], c)
    BY <1>0, <1>1
  <2>2. pending'[p] # <<>> /\ pending'[p][Len(pending'[p])] = c
    BY <2>1
  <2>3. \A q \in Phones \ {p} : pending'[q] = pending[q]
    BY <1>0, <1>1
  <2> QED BY <1>2, <2>1, <2>2, <2>3 DEF Latest
<1>6. (OneByOne(u))'
  BY <1>3, <1>4, <1>5 DEF OneByOne
<1>7. (Intended(u))'
  BY <1>0, <1>1, <1>2, <1>3, <1>4, <1>5 DEF Intended
<1>8. (Shown(u))'
  <2> SUFFICES ASSUME NEW q \in Phones, UserOf[q] = u, unread[q] > 0
               PROVE  u \in likes <=> ~call'[pending'[q][unread[q]]].found
    BY <1>1, <1>3 DEF Shown
  <2>1. unread[q] \in DOMAIN pending[q]
    BY <1>0
  <2>2. pending'[q][unread[q]] = pending[q][unread[q]] /\ pending[q][unread[q]] \in Calls
    <3>1. pending[q] \in Seq(Calls)
      BY <1>0
    <3>2. pending'[q] = pending[q] \/ pending'[q] = Append(pending[q], c)
      BY <1>5
    <3> QED BY <2>1, <3>1, <3>2
  <2> QED BY <1>2, <2>2 DEF TapsOf, Shown
<1> QED BY <1>3, <1>6, <1>7, <1>8 DEF TapsOf

\* A commit makes the server show what the committed update asked for; it is
\* the user's own, or leaves the user's like alone.
LEMMA CommitKeepsTaps ==
    ASSUME TypeOK, Issued, NEW p \in Phones, CommitUpdate(p),
           NEW u \in Users, TapsOf(u)
    PROVE  (TapsOf(u))'
<1> DEFINE c == pending[p][unread[p] + 1]
<1>0. /\ pending \in [Phones -> Seq(Calls)] /\ unread \in [Phones -> Nat]
      /\ log \in Seq(Calls) /\ unread[p] + 1 \in DOMAIN pending[p]
      /\ c \in Calls
  BY DEF TypeOK, CommitUpdate, Updates!Commit
<1>1. /\ call' = call /\ pending' = pending /\ wanted' = wanted
      /\ unread' = [unread EXCEPT ![p] = @ + 1]
      /\ log' = Append(log, c)
      /\ likes' = Update(log'[Len(log')])
  BY DEF CommitUpdate, Updates!Commit
<1>2. likes' = Update(c)
  BY <1>0, <1>1, CommitAppends
<1>3. Me(c) = UserOf[p]
  BY <1>0 DEF Issued, Me
<1>4. \A d \in Calls : (Liking(d, u))' <=> Liking(d, u)
  BY <1>1 DEF Liking, Me
<1>5. (OneByOne(u))'
  BY <1>1, <1>4 DEF TapsOf, OneByOne
<1>6. \A q \in Phones : (Latest(q))' = Latest(q)
  BY <1>1 DEF Latest
<1>7. CASE UserOf[p] = u
  <2>1. u \in likes' <=> ~call[c].found
    BY <1>2, <1>3, <1>7 DEF Update
  <2>2. \A q \in Phones \ {p} : UserOf[q] = u => pending[q] = <<>>
    BY <1>0, <1>7 DEF TapsOf, OneByOne
  <2>3. \A q \in Phones \ {p} : UserOf[q] = u => unread[q] = 0
    BY <1>0, <2>2 DEF Issued
  <2>4. (Shown(u))'
    BY <1>0, <1>1, <2>1, <2>3 DEF Shown
  <2>5. (Intended(u))'
    BY <1>0, <1>1, <1>4, <1>6, <1>7 DEF TapsOf, Intended
  <2> QED BY <1>5, <2>4, <2>5 DEF TapsOf
<1>8. CASE UserOf[p] # u
  <2>1. u \in likes' <=> u \in likes
    BY <1>2, <1>3, <1>8 DEF Update
  <2>2. \A q \in Phones : UserOf[q] = u => unread'[q] = unread[q]
    BY <1>0, <1>1, <1>8
  <2>3. (Shown(u))'
    BY <1>1, <2>1, <2>2 DEF TapsOf, Shown
  <2>4. (Intended(u))'
    BY <1>1, <1>4, <1>6, <2>1 DEF TapsOf, Intended
  <2> QED BY <1>5, <2>3, <2>4 DEF TapsOf
<1> QED BY <1>7, <1>8

\* A sequence with an empty tail has one element.
LEMMA LastOne ==
    ASSUME NEW S, NEW s \in Seq(S), s # <<>>, Tail(s) = <<>>
    PROVE  Len(s) = 1
<1>1. Len(s) \in Nat \ {0} /\ Len(<<>>) = 0
  BY EmptySeq
<1>2. Len(Tail(s)) = Len(s) - 1
  BY HeadTailProperties
<1>3. Len(Tail(s)) = Len(<<>>)
  OBVIOUS
<1> QED BY <1>1, <1>2, <1>3

\* An answered update leaves the queue; if it was the last one, the server
\* shows what it asked for.  A lost connection leaves the queues as they are.
LEMMA AnswerKeepsTaps ==
    ASSUME TypeOK, Issued, NEW p \in Phones, UpdateAnswered(p) \/ ConnectionLost(p),
           NEW u \in Users, TapsOf(u)
    PROVE  (TapsOf(u))'
<1>0. /\ pending \in [Phones -> Seq(Calls)] /\ unread \in [Phones -> Nat]
      /\ \A q \in Phones : unread[q] <= Len(pending[q])
      /\ call' = call /\ wanted' = wanted /\ likes' = likes
  BY DEF TypeOK, Issued, UpdateAnswered, ConnectionLost, postVars
<1>1. \A d \in Calls : (Liking(d, u))' <=> Liking(d, u)
  BY <1>0 DEF Liking, Me
<1>2. CASE UpdateAnswered(p)
  <2>1. /\ pending[p] # <<>> /\ unread[p] > 0
        /\ pending' = [pending EXCEPT ![p] = Tail(@)]
        /\ unread' = [unread EXCEPT ![p] = @ - 1]
    BY <1>2 DEF UpdateAnswered, Updates!Settle
  <2>2. /\ \A q \in Phones : pending'[q] # <<>> => pending[q] # <<>>
        /\ \A q \in Phones : pending'[q] # <<>> => (Latest(q))' = Latest(q)
    BY <1>0, <2>1 DEF Latest
  <2>3. (OneByOne(u))'
    BY <1>0, <1>1, <2>2 DEF TapsOf, OneByOne
  <2>4. (Shown(u))'
    <3> SUFFICES ASSUME NEW q \in Phones, UserOf[q] = u, unread'[q] > 0
                 PROVE  u \in likes <=> ~call[pending'[q][unread'[q]]].found
      BY <1>0 DEF Shown
    <3>1. pending'[q][unread'[q]] = pending[q][unread[q]] /\ unread[q] > 0
      BY <1>0, <2>1
    <3> QED BY <3>1 DEF TapsOf, Shown
  <2>5. (Intended(u))'
    <3>1. CASE UserOf[p] = u /\ pending'[p] = <<>>
      <4>1. Latest(p) = pending[p][unread[p]] /\ unread[p] > 0
        <5>1. pending[p] \in Seq(Calls) /\ Tail(pending[p]) = <<>>
          BY <1>0, <2>1, <3>1
        <5>2. Len(pending[p]) = 1
          BY <2>1, <5>1, LastOne
        <5> QED BY <1>0, <2>1, <5>2 DEF Latest
      <4>2. u \in likes <=> ~call[Latest(p)].found
        BY <3>1, <4>1 DEF TapsOf, Shown
      <4> QED BY <1>0, <1>1, <2>1, <2>2, <3>1, <4>2 DEF TapsOf, Intended
    <3>2. CASE UserOf[p] = u /\ pending'[p] # <<>>
      BY <1>0, <1>1, <2>1, <2>2, <3>2 DEF TapsOf, Intended
    <3>3. CASE UserOf[p] # u
      <4>1. \A q \in Phones : UserOf[q] = u => pending'[q] = pending[q]
        BY <1>0, <2>1, <3>3
      <4> QED BY <1>0, <1>1, <2>2, <4>1 DEF TapsOf, Intended
    <3> QED BY <3>1, <3>2, <3>3
  <2> QED BY <2>3, <2>4, <2>5 DEF TapsOf
<1>3. CASE ConnectionLost(p)
  <2>1. pending' = pending /\ unread' = [unread EXCEPT ![p] = 0]
    BY <1>3 DEF ConnectionLost, Updates!BeginAgain
  <2>2. (OneByOne(u))'
    BY <1>0, <1>1, <2>1 DEF TapsOf, OneByOne
  <2>3. (Shown(u))'
    BY <1>0, <2>1 DEF TapsOf, Shown
  <2>4. (Intended(u))'
    BY <1>0, <1>1, <2>1 DEF TapsOf, Intended, Latest
  <2> QED BY <2>2, <2>3, <2>4 DEF TapsOf
<1> QED BY <1>2, <1>3

\* Every tap on the heart flips it: when nothing of a user is under way, the
\* like is what the last tap asked for, unless taps of that user overlapped.
THEOREM TapsFlipTheLikeHolds == Spec => []TapsFlipTheLike
<1>1. Init => TapInv
  BY DEF Init, Updates!Init, TapInv, TapsOf, OneByOne, Shown, Intended, Liking
<1>2. TypeOK /\ Issued /\ TapInv /\ [Next]_vars => TapInv'
  <2> SUFFICES ASSUME TypeOK, Issued, TapInv, [Next]_vars,
                      NEW u \in Users \ racedLikes'
               PROVE  (TapsOf(u))'
    BY DEF TapInv
  <2> USE DEF postVars, queueVars
  <2>0. /\ call \in [Calls -> CallState]
        /\ \A d \in Calls : Me(d)' = Me(d)
    BY CallSteps DEF Me
  <2>1. ASSUME NEW c \in Calls, toggleLike(c)
        PROVE  (TapsOf(u))'
    <3>1. racedLikes \subseteq racedLikes'
      BY <2>1 DEF toggleLike
    <3>2. TapsOf(u)
      BY <3>1 DEF TapInv
    <3>3. CASE likeable /\ Me(c) = u
      BY <2>0, <2>1, <3>2, <3>3, TapKeepsTaps
    <3>4. CASE ~(likeable /\ Me(c) = u)
      <4>1. /\ likes' = likes /\ pending' = pending /\ unread' = unread
            /\ u \in wanted' <=> u \in wanted
        BY <2>1, <3>4 DEF toggleLike
      <4>2. /\ call[c].pc = "idle"
            /\ \A d \in Calls \ {c} : call'[d] = call[d]
            /\ call'[c].pc = "liking" => Me(c) # u
        BY <2>0, <2>1, <3>4 DEF toggleLike, CallState
      <4>3. /\ \A d \in Calls : (Liking(d, u))' <=> Liking(d, u)
            /\ \A d \in Calls : Liking(d, u) \/ call[d].pc = "done" => call'[d] = call[d]
        BY <2>0, <4>2 DEF Liking
      <4> QED BY <3>2, <4>1, <4>3, TapsUnchanged
    <3> QED BY <3>3, <3>4
  <2>2. ASSUME NEW c \in Calls, IssueUpdate(c)
        PROVE  (TapsOf(u))'
    <3>1. TapsOf(u)
      BY <2>2 DEF IssueUpdate, TapInv
    <3>2. CASE Me(c) = u
      BY <2>0, <2>2, <3>1, <3>2, IssueKeepsTaps
    <3>3. CASE Me(c) # u
      <4>1. /\ likes' = likes /\ unread' = unread /\ wanted' = wanted
            /\ \A p \in Phones : UserOf[p] = u => pending'[p] = pending[p]
        BY <2>2, <3>3 DEF IssueUpdate, Updates!Issue, TypeOK, Me
      <4>2. /\ \A d \in Calls \ {c} : call'[d] = call[d]
            /\ call[c].pc = "liking"
        BY <2>2 DEF IssueUpdate, TypeOK
      <4>3. /\ \A d \in Calls : (Liking(d, u))' <=> Liking(d, u)
            /\ \A d \in Calls : Liking(d, u) \/ call[d].pc = "done" => call'[d] = call[d]
        BY <2>0, <3>3, <4>2 DEF Liking
      <4> QED BY <3>1, <4>1, <4>3, TapsUnchanged
    <3> QED BY <3>2, <3>3
  <2>3. ASSUME NEW c \in Calls,
               createNewComment(c) \/ CommitComment(c) \/ CommentFails(c)
        PROVE  (TapsOf(u))'
    <3>1. /\ TapsOf(u)
          /\ UNCHANGED <<likes, wanted, pending, unread>>
      BY <2>3 DEF createNewComment, CommitComment, CommentFails, TapInv
    <3>2. /\ \A d \in Calls \ {c} : call'[d] = call[d]
          /\ call[c].pc \in {"idle", "tx"} /\ call'[c].pc \in {"tx", "done"}
      <4>1. CASE createNewComment(c)
        BY <2>0, <4>1 DEF createNewComment, CallState
      <4>2. CASE AttemptEnds(c) /\ call[c].pc = "tx"
        BY <4>2, AttemptEndsType
      <4>3. CASE call[c].pc = "tx" /\ call' = [call EXCEPT ![c].pc = "done"]
        BY <2>0, <4>3 DEF CallState
      <4> QED BY <2>3, <4>1, <4>2, <4>3 DEF CommitComment, CommentFails
    <3>3. /\ \A d \in Calls : (Liking(d, u))' <=> Liking(d, u)
          /\ \A d \in Calls : Liking(d, u) \/ call[d].pc = "done" => call'[d] = call[d]
      BY <2>0, <3>2 DEF Liking
    <3> QED BY <3>1, <3>3, TapsUnchanged
  <2>4. ASSUME NEW p \in Phones, CommitUpdate(p)
        PROVE  (TapsOf(u))'
    <3>1. TapsOf(u)
      BY <2>4 DEF CommitUpdate, TapInv
    <3> QED BY <2>4, <3>1, CommitKeepsTaps
  <2>5. ASSUME NEW p \in Phones, UpdateAnswered(p) \/ ConnectionLost(p)
        PROVE  (TapsOf(u))'
    <3>1. TapsOf(u)
      BY <2>5 DEF UpdateAnswered, ConnectionLost, TapInv
    <3> QED BY <2>5, <3>1, AnswerKeepsTaps
  <2>6. ASSUME NEW p \in Phones, UpdateRefused(p)
        PROVE  (TapsOf(u))'
    <3>1. /\ TapsOf(u) /\ UserOf[p] # u
          /\ UNCHANGED <<likes, wanted, call>>
      BY <2>6 DEF UpdateRefused, TapInv
    <3>2. \A q \in Phones : UserOf[q] = u => /\ pending'[q] = pending[q]
                                             /\ unread'[q] = unread[q]
      BY <2>6, <3>1 DEF UpdateRefused, Updates!Refuse, TypeOK
    <3>3. \A d \in Calls : (Liking(d, u))' <=> Liking(d, u)
      BY <3>1 DEF Liking, Me
    <3> QED BY <3>1, <3>2, <3>3, TapsUnchanged
  <2>7. CASE UNCHANGED vars
    <3>1. TapsOf(u) /\ UNCHANGED <<likes, wanted, call, pending, unread>>
      BY <2>7 DEF vars, TapInv
    <3>2. \A d \in Calls : (Liking(d, u))' <=> Liking(d, u)
      BY <3>1 DEF Liking, Me
    <3> QED BY <3>1, <3>2, TapsUnchanged
  <2> QED BY <2>1, <2>2, <2>3, <2>4, <2>5, <2>6, <2>7 DEF Next
<1>3. TapInv => TapsFlipTheLike
  BY DEF TapInv, TapsOf, Intended, Liking, TapsFlipTheLike
<1> QED BY <1>1, <1>2, <1>3, TypeCorrect, IssuedHolds, PTL DEF Spec
=============================================================================
