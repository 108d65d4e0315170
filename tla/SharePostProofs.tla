-------------------------- MODULE SharePostProofs --------------------------
(***************************************************************************)
(* Theorems about SharePost, for any number of runs and of retries: what   *)
(* is on the server agrees after every failure, and no run that ends well  *)
(* leaves a sheet behind.                                                  *)
(***************************************************************************)
EXTENDS SharePost, SequenceTheorems, FiniteSetTheorems, TLAPS

----------------------------------------------------------------------------
\* The last and the first elements of a stack, as the back button takes them.
LEMMA FrontOfRoutes ==
    ASSUME NEW r \in Seq(Routes), Len(r) >= 1
    PROVE  /\ Front(r) \in Seq(Routes)
           /\ Len(Front(r)) = Len(r) - 1
           /\ \A i \in 1..Len(Front(r)) : Front(r)[i] = r[i]
<1> DEFINE n == Len(r)
<1>1. n \in Nat
  BY LenProperties
<1>2. \A i \in 1..(n - 1) : r[i] \in Routes
  BY <1>1, ElementOfSeq
<1>3. Front(r) = SubSeq(r, 1, n - 1)
  BY DEF Front
<1> HIDE DEF n
<1>4. n - 1 \in Int /\ n >= 1
  BY <1>1 DEF n
<1>5. /\ SubSeq(r, 1, n - 1) \in Seq(Routes)
      /\ Len(SubSeq(r, 1, n - 1)) = IF 1 <= n - 1 THEN (n - 1) - 1 + 1 ELSE 0
      /\ \A i \in 1..((n - 1) - 1 + 1) : SubSeq(r, 1, n - 1)[i] = r[1 + i - 1]
  BY <1>2, <1>4, SubSeqProperties
<1> DEFINE q == SubSeq(r, 1, n - 1)
<1> HIDE DEF q
<1>6. q \in Seq(Routes)
  BY <1>5 DEF q
<1>7. Len(q) = n - 1
  BY <1>1, <1>4, <1>5 DEF q
<1>8. \A i \in 1..(n - 1) : q[i] = r[i]
  BY <1>1, <1>4, <1>5 DEF q
<1> QED BY <1>3, <1>6, <1>7, <1>8 DEF n, q

\* What the two pops at the end of a run leave.
LEMMA PopTwoRoutes ==
    ASSUME NEW r \in Seq(Routes)
    PROVE  LET q == SubSeq(r, 1, Len(r) - 2)
           IN  /\ q \in Seq(Routes)
               /\ Len(q) = IF Len(r) >= 2 THEN Len(r) - 2 ELSE 0
               /\ \A i \in 1..Len(q) : q[i] = r[i]
<1> DEFINE n == Len(r)
<1>1. n \in Nat
  BY LenProperties
<1>2. \A i \in 1..(n - 2) : r[i] \in Routes
  BY <1>1, ElementOfSeq
<1> HIDE DEF n
<1>4. n - 2 \in Int
  BY <1>1
<1> QED BY <1>1, <1>2, <1>4, SubSeqProperties DEF n

----------------------------------------------------------------------------
\* Each run only moves along its own steps, with its types.
LEMMA AdvanceType ==
    ASSUME TypeOK, NEW s \in Shares,
           NEW pc \in {"idle", "resize", "get", "tx", "url", "check", "update",
                       "shared", "failed"},
           Advance(s, pc) \/ Settle(s, pc)
    PROVE  share' \in [Shares -> ShareState]
<1>1. CASE Advance(s, pc)
  BY <1>1 DEF TypeOK, Advance, ShareState
<1>2. CASE Settle(s, pc)
  <2> DEFINE run == [share[s] EXCEPT !.pc = pc, !.queued = FALSE]
  <2>1. run \in ShareState
    BY DEF TypeOK, ShareState
  <2>2. share' = [share EXCEPT ![s] = run]
    BY <1>2 DEF Settle, TypeOK
  <2> HIDE DEF run
  <2> QED BY <2>1, <2>2 DEF TypeOK
<1> QED BY <1>1, <1>2

\* The state keeps its types, and the stack holds known routes only.
THEOREM TypeCorrect == Spec => []TypeOK
<1>1. Init => TypeOK
  <2> SUFFICES ASSUME Init
               PROVE  TypeOK
    OBVIOUS
  <2>1. routes \in Seq(Routes)
    BY DEF Init, Routes
  <2>2. NotStarted \in ShareState
    BY ShareRetryAssumption DEF NotStarted, ShareState
  <2>3. share \in [Shares -> ShareState]
    BY <2>2 DEF Init
  <2>4. post \in Post
    BY DEF Init, NoPost, Post
  <2> QED BY <2>1, <2>3, <2>4 DEF Init, TypeOK
<1>2. TypeOK /\ [Next]_vars => TypeOK'
  <2> SUFFICES ASSUME TypeOK, [Next]_vars
               PROVE  TypeOK'
    OBVIOUS
  <2> USE DEF serverVars, authorVars
  <2>1. ASSUME NEW s \in Shares, sharePostProcedure(s)
        PROVE  TypeOK'
    <3>1. share' \in [Shares -> ShareState]
      BY <2>1, AdvanceType DEF sharePostProcedure
    <3>2. routes' \in Seq(Routes)
      BY <2>1, AppendProperties DEF sharePostProcedure, TypeOK, Routes
    <3> QED BY <2>1, <3>1, <3>2 DEF sharePostProcedure, TypeOK
  <2>2. ASSUME NEW s \in Shares, uploadImage(s)
        PROVE  TypeOK'
    <3>1. PICK started \in BOOLEAN :
              share' = [share EXCEPT ![s].pc = IF mounted THEN "get" ELSE "failed",
                                     ![s].uploading = started]
      BY <2>2 DEF uploadImage
    <3>2. share[s] \in ShareState
      BY DEF TypeOK
    <3> DEFINE run == [share[s] EXCEPT !.pc = IF mounted THEN "get" ELSE "failed",
                                       !.uploading = started]
    <3>3. run \in ShareState
      BY <3>2 DEF ShareState
    <3>4. share' = [share EXCEPT ![s] = run]
      BY <3>1, <3>2 DEF TypeOK
    <3> HIDE DEF run
    <3>5. share' \in [Shares -> ShareState]
      BY <3>3, <3>4 DEF TypeOK
    <3> QED BY <2>2, <3>5 DEF uploadImage, TypeOK
  <2>3. ASSUME NEW s \in Shares, UploadEnds(s)
        PROVE  TypeOK'
    <3> DEFINE run == [share[s] EXCEPT !.uploading = FALSE]
    <3>1. run \in ShareState
      BY DEF TypeOK, ShareState
    <3>2. share' = [share EXCEPT ![s] = run]
      BY <2>3 DEF UploadEnds, TypeOK
    <3> HIDE DEF run
    <3>3. share' \in [Shares -> ShareState]
      BY <3>1, <3>2 DEF TypeOK
    <3> QED BY <2>3, <3>3 DEF UploadEnds, TypeOK
  <2>4. ASSUME NEW s \in Shares, GetPost(s)
        PROVE  TypeOK'
    <3> DEFINE run == [share[s] EXCEPT !.pc = "tx", !.missing = ~post.exists]
    <3>1. run \in ShareState
      <4>1. share[s] \in ShareState /\ post \in Post
        BY DEF TypeOK
      <4> QED BY <4>1 DEF ShareState, Post
    <3>2. share' = [share EXCEPT ![s] = run]
      BY <2>4 DEF GetPost, TypeOK
    <3> HIDE DEF run
    <3>3. share' \in [Shares -> ShareState]
      BY <3>1, <3>2 DEF TypeOK
    <3> QED BY <2>4, <3>3 DEF GetPost, TypeOK
  <2>5. ASSUME NEW s \in Shares, CommitPost(s)
        PROVE  TypeOK'
    <3>1. share' \in [Shares -> ShareState]
      <4>1. CASE Advance(s, "url")
        BY <4>1, AdvanceType
      <4>2. CASE share[s].tries < MaxRetries /\ share' = [share EXCEPT ![s].tries = @ + 1]
        <5> DEFINE run == [share[s] EXCEPT !.tries = @ + 1]
        <5>1. share[s] \in ShareState
          BY DEF TypeOK
        <5>2. share[s].tries + 1 \in 0..MaxRetries
          BY <4>2, <5>1, ShareRetryAssumption DEF ShareState
        <5>3. run \in ShareState
          BY <5>1, <5>2, Zenon DEF ShareState
        <5>4. share' = [share EXCEPT ![s] = run]
          BY <4>2
        <5> HIDE DEF run
        <5> QED BY <5>3, <5>4 DEF TypeOK
      <4> QED BY <2>5, <4>1, <4>2 DEF CommitPost
    <3> QED BY <2>5, <3>1 DEF CommitPost, TypeOK, Post, getMapForCreatePost
  <2>6. ASSUME NEW s \in Shares, EmptyTransaction(s) \/ getPostImageUrl(s) \/ Throws(s)
        PROVE  TypeOK'
    <3>1. share' \in [Shares -> ShareState]
      BY <2>6, AdvanceType DEF EmptyTransaction, getPostImageUrl, Throws
    <3> QED BY <2>6, <3>1 DEF EmptyTransaction, getPostImageUrl, Throws, TypeOK
  <2>7. ASSUME NEW s \in Shares, Pops(s)
        PROVE  share' \in [Shares -> ShareState] /\ routes' \in Seq(Routes)
    <3>1. share' \in [Shares -> ShareState]
      BY <2>7, AdvanceType DEF Pops
    <3>2. routes \in Seq(Routes)
      BY DEF TypeOK
    <3>3. routes' \in Seq(Routes)
      BY <2>7, <3>2, PopTwoRoutes DEF Pops
    <3> QED BY <3>1, <3>3
  <2>8. ASSUME NEW s \in Shares, CheckPost(s)
        PROVE  TypeOK'
    <3>1. CASE post.exists
      <4> DEFINE run == [share[s] EXCEPT !.pc = "update", !.queued = TRUE]
      <4>1. run \in ShareState
        BY DEF TypeOK, ShareState
      <4>2. share' = [share EXCEPT ![s] = run]
        BY <2>8, <3>1 DEF CheckPost, TypeOK
      <4> HIDE DEF run
      <4>3. share' \in [Shares -> ShareState]
        BY <4>1, <4>2 DEF TypeOK
      <4> QED BY <2>8, <3>1, <4>3 DEF CheckPost, TypeOK
    <3>2. CASE ~post.exists
      BY <2>8, <3>2, <2>7 DEF CheckPost, TypeOK
    <3> QED BY <3>1, <3>2
  <2>9. ASSUME NEW s \in Shares, UpdatePost(s)
        PROVE  TypeOK'
    BY <2>9, <2>7 DEF UpdatePost, TypeOK, Post
  <2>10. CASE Back
    BY <2>10, FrontOfRoutes, LenProperties DEF Back, TypeOK
  <2>11. CASE dispose \/ UNCHANGED vars
    BY <2>11 DEF dispose, vars, TypeOK
  <2>12. ASSUME NEW s \in Shares, UpdateLands(s)
         PROVE  TypeOK'
    BY <2>12 DEF UpdateLands, TypeOK, Post
  <2>13. CASE SetLands
    BY <2>13 DEF SetLands, TypeOK
  <2> QED BY <2>1, <2>2, <2>3, <2>4, <2>5, <2>6, <2>8, <2>9, <2>10, <2>11, <2>12, <2>13
             DEF Next, ShareSteps
<1> QED BY <1>1, <1>2, PTL DEF Spec

----------------------------------------------------------------------------
\* The pc, the snapshot and the queue of every run after a step of one.
LEMMA AdvanceFields ==
    ASSUME TypeOK, NEW s \in Shares, NEW pc, Advance(s, pc) \/ Settle(s, pc)
    PROVE  \A t \in Shares :
              /\ share'[t].pc = IF t = s THEN pc ELSE share[t].pc
              /\ share'[t].missing = share[t].missing
              /\ share'[t].queued => share[t].queued
<1>1. CASE Advance(s, pc)
  BY <1>1 DEF TypeOK, Advance, ShareState
<1>2. CASE Settle(s, pc)
  <2>1. \A t \in Shares : share[t] \in ShareState
    BY DEF TypeOK
  <2>2. share'[s].pc = pc /\ share'[s].missing = share[s].missing /\ ~share'[s].queued
    BY <1>2, <2>1 DEF Settle, TypeOK, ShareState
  <2>3. \A t \in Shares \ {s} : share'[t] = share[t]
    BY <1>2 DEF Settle, TypeOK
  <2> QED BY <2>2, <2>3
<1> QED BY <1>1, <1>2

\* Every run but s stands still.
OthersStand(s) ==
    \A t \in Shares \ {s} : /\ share'[t].pc = share[t].pc
                            /\ share'[t].missing = share[t].missing
                            /\ share'[t].queued => share[t].queued

\* What a step of a run, which only moves forward, sees of the document and
\* does to it.
RunStep(s) ==
    /\ stored' = stored
    /\ OthersStand(s)
    /\ share'[s].queued => share[s].queued \/ share[s].pc = "check"
    /\ \/ /\ share[s].pc = "get" /\ share'[s].pc = "tx"
          /\ share'[s].missing = ~post.exists
          /\ post' = post
       \/ /\ share'[s].missing = share[s].missing
          /\ \/ /\ share'[s].pc \in {"resize", "get", "failed"}
                /\ share'[s].pc \in {"resize", "get"}
                     => share[s].pc \in {"idle", "resize"}
                /\ post' = post
             \/ /\ share[s].pc = "tx" /\ share[s].missing
                /\ post' = getMapForCreatePost
                /\ share'[s].pc \in {"tx", "url"}
             \/ /\ share[s].pc = "tx" /\ ~share[s].missing
                /\ post' = post
                /\ share'[s].pc = "url"
             \/ /\ share[s].pc = "url" /\ stored
                /\ post' = post
                /\ share'[s].pc = "check"
             \/ /\ share[s].pc = "check"
                /\ post' = post
                /\ share'[s].pc = IF post.exists THEN "update" ELSE "shared"
             \/ /\ share[s].pc = "update"
                /\ post' = [post EXCEPT !.postImg = TRUE]
                /\ share'[s].pc \in {"shared", "failed"}

\* No run takes a step and nothing is written to the post.
RunsStand ==
    /\ post' = post /\ stored' \in {stored, TRUE}
    /\ \A t \in Shares : /\ share'[t].pc = share[t].pc
                         /\ share'[t].missing = share[t].missing
                         /\ share'[t].queued => share[t].queued

\* Every step is one of a run, or an update that lands, or it leaves the post
\* and where the runs are alone.
LEMMA StepFields ==
    ASSUME TypeOK, [Next]_vars
    PROVE  \/ RunsStand
           \/ \E s \in Shares : RunStep(s) \/ UpdateLands(s)
<1> USE DEF serverVars, OthersStand
<1> DEFINE QueueKept(s) == share'[s].queued => share[s].queued
<1>0. \A s \in Shares : share[s] \in ShareState
  BY DEF TypeOK
<1>1. ASSUME NEW s \in Shares, sharePostProcedure(s)
      PROVE  /\ share[s].pc = "idle"
             /\ share'[s].pc = "resize" /\ share'[s].missing = share[s].missing
             /\ OthersStand(s) /\ QueueKept(s)
             /\ UNCHANGED serverVars
  BY <1>1, AdvanceFields DEF sharePostProcedure
<1>2. ASSUME NEW s \in Shares, uploadImage(s)
      PROVE  /\ share[s].pc = "resize" /\ share'[s].pc \in {"get", "failed"}
             /\ share'[s].missing = share[s].missing
             /\ OthersStand(s) /\ QueueKept(s)
             /\ UNCHANGED serverVars
  BY <1>2, <1>0 DEF uploadImage, TypeOK, ShareState
<1>3. ASSUME NEW s \in Shares, UploadEnds(s)
      PROVE  RunsStand
  BY <1>3 DEF UploadEnds, RunsStand, TypeOK, ShareState
<1>4. ASSUME NEW s \in Shares, GetPost(s)
      PROVE  /\ share[s].pc = "get" /\ share'[s].pc = "tx"
             /\ share'[s].missing = ~post.exists
             /\ OthersStand(s) /\ QueueKept(s)
             /\ UNCHANGED serverVars
  BY <1>4, <1>0 DEF GetPost, TypeOK, ShareState
<1>5. ASSUME NEW s \in Shares, CommitPost(s)
      PROVE  /\ share[s].pc = "tx" /\ share[s].missing
             /\ share'[s].pc \in {"tx", "url"} /\ share'[s].missing = share[s].missing
             /\ OthersStand(s) /\ QueueKept(s)
             /\ post' = getMapForCreatePost /\ stored' = stored
  <2>1. CASE Advance(s, "url")
    BY <1>5, <2>1, AdvanceFields DEF CommitPost
  <2>2. CASE share' = [share EXCEPT ![s].tries = @ + 1]
    <3>1. \A t \in Shares : /\ share'[t].pc = share[t].pc
                           /\ share'[t].missing = share[t].missing
                           /\ share'[t].queued = share[t].queued
      BY <2>2, <1>0 DEF TypeOK, ShareState
    <3> QED BY <1>5, <3>1 DEF CommitPost
  <2> QED BY <1>5, <2>1, <2>2 DEF CommitPost
<1>6. ASSUME NEW s \in Shares, EmptyTransaction(s)
      PROVE  /\ share[s].pc = "tx" /\ ~share[s].missing
             /\ share'[s].pc = "url" /\ share'[s].missing = share[s].missing
             /\ OthersStand(s) /\ QueueKept(s)
             /\ UNCHANGED serverVars
  BY <1>6, AdvanceFields DEF EmptyTransaction
<1>7. ASSUME NEW s \in Shares, getPostImageUrl(s)
      PROVE  /\ \/ share[s].pc = "url" /\ stored /\ share'[s].pc = "check"
                \/ share'[s].pc = "failed"
             /\ share'[s].missing = share[s].missing
             /\ OthersStand(s) /\ QueueKept(s)
             /\ UNCHANGED serverVars
  BY <1>7, AdvanceFields DEF getPostImageUrl
<1>8. ASSUME NEW s \in Shares, Pops(s)
      PROVE  /\ share'[s].pc \in {"shared", "failed"}
             /\ share'[s].missing = share[s].missing
             /\ OthersStand(s) /\ QueueKept(s)
  BY <1>8, AdvanceFields DEF Pops
<1>9. ASSUME NEW s \in Shares, CheckPost(s)
      PROVE  /\ share[s].pc = "check"
             /\ \/ share'[s].pc = "failed"
                \/ share'[s].pc = IF post.exists THEN "update" ELSE "shared"
             /\ share'[s].missing = share[s].missing
             /\ OthersStand(s)
             /\ UNCHANGED serverVars
  <2>1. CASE post.exists
    <3>1. share' = [share EXCEPT ![s].pc = "update", ![s].queued = TRUE]
      BY <1>9, <2>1 DEF CheckPost
    <3>2. share'[s].pc = "update" /\ share'[s].missing = share[s].missing
      BY <3>1, <1>0 DEF TypeOK, ShareState
    <3>3. \A t \in Shares \ {s} : share'[t] = share[t]
      BY <3>1 DEF TypeOK
    <3> QED BY <1>9, <2>1, <3>2, <3>3 DEF CheckPost
  <2>2. CASE ~post.exists
    BY <1>9, <2>2, <1>8 DEF CheckPost
  <2> QED BY <2>1, <2>2
<1>10. ASSUME NEW s \in Shares, UpdatePost(s)
       PROVE  /\ share[s].pc = "update" /\ post' = [post EXCEPT !.postImg = TRUE]
              /\ share'[s].pc \in {"shared", "failed"}
              /\ share'[s].missing = share[s].missing
              /\ OthersStand(s) /\ QueueKept(s)
              /\ stored' = stored
  BY <1>10, <1>8 DEF UpdatePost
<1>11. ASSUME NEW s \in Shares, Throws(s)
       PROVE  /\ share'[s].pc = "failed" /\ share'[s].missing = share[s].missing
              /\ OthersStand(s) /\ QueueKept(s)
              /\ UNCHANGED serverVars
  BY <1>11, AdvanceFields DEF Throws
<1>12. CASE Back \/ dispose \/ SetLands \/ UNCHANGED vars
  <2>1. UNCHANGED <<post, stored, share>>
    BY <1>12 DEF Back, dispose, SetLands, vars
  <2> QED BY <2>1 DEF RunsStand
<1>13. ASSUME NEW s \in Shares, ShareSteps(s) \/ sharePostProcedure(s)
       PROVE  RunStep(s)
  <2>1. CASE sharePostProcedure(s) \/ uploadImage(s) \/ GetPost(s)
    BY <2>1, <1>1, <1>2, <1>4 DEF RunStep
  <2>2. CASE CommitPost(s) \/ EmptyTransaction(s)
    BY <2>2, <1>5, <1>6 DEF RunStep
  <2>3. CASE getPostImageUrl(s) \/ CheckPost(s) \/ UpdatePost(s) \/ Throws(s)
    BY <2>3, <1>7, <1>9, <1>10, <1>11 DEF RunStep
  <2> QED BY <1>13, <2>1, <2>2, <2>3 DEF ShareSteps
<1> QED BY <1>3, <1>12, <1>13 DEF Next

----------------------------------------------------------------------------
\* The invariant of the server.  A run that has asked Storage knows that the
\* image is there; a run that went by a snapshot with a post, or has committed
\* one, knows that there is one.  What a run saw missing stays on its record:
\* it is the witness of a post whose image was set back.
ServerInv ==
    /\ ImageIsStored
    /\ \A s \in Shares :
         /\ share[s].pc \in {"check", "update"} \/ share[s].queued => stored
         /\ share[s].pc \in {"idle", "resize", "get"} => ~share[s].missing
         /\ share[s].pc = "tx" /\ ~share[s].missing => post.exists
         /\ share[s].pc \in {"url", "check", "update", "shared"} => post.exists
    /\ SharedHasImage

\* Inductive: a commit needs a snapshot without a post, and its run then is the
\* exception that SharedHasImage makes for the others.
LEMMA ServerInvHolds == Spec => []ServerInv
<1>1. Init => ServerInv
  BY DEF Init, ServerInv, ImageIsStored, SharedHasImage, NoPost, NotStarted
<1>2. TypeOK /\ ServerInv /\ [Next]_vars => ServerInv'
  <2> SUFFICES ASSUME TypeOK, ServerInv, [Next]_vars
               PROVE  ServerInv'
    OBVIOUS
  <2>1. CASE RunsStand
    <3>1. SharedHasImage'
      BY <2>1 DEF RunsStand, ServerInv, SharedHasImage
    <3>2. stored => stored'
      BY <2>1 DEF RunsStand, TypeOK
    <3>3. ImageIsStored'
      BY <2>1, <3>2 DEF RunsStand, ServerInv, ImageIsStored
    <3>4. ASSUME NEW t \in Shares
          PROVE  /\ share'[t].pc \in {"check", "update"} \/ share'[t].queued => stored'
                 /\ share'[t].pc \in {"idle", "resize", "get"} => ~share'[t].missing
                 /\ share'[t].pc = "tx" /\ ~share'[t].missing => post'.exists
                 /\ share'[t].pc \in {"url", "check", "update", "shared"} => post'.exists
      BY <2>1, <3>2 DEF RunsStand, ServerInv
    <3> QED BY <3>1, <3>3, <3>4 DEF ServerInv
  <2>2. ASSUME NEW s \in Shares, RunStep(s)
        PROVE  ServerInv'
    <3> USE DEF OthersStand
    <3>1. post.exists \in BOOLEAN /\ post.postImg \in BOOLEAN /\ stored \in BOOLEAN
      BY DEF TypeOK, Post
    <3>2. CASE /\ post' = post
               /\ share[s].pc = "update" => share'[s].pc = "failed"
      <4>1. \A t \in Shares : share[t].missing => share'[t].missing
        BY <2>2, <3>2 DEF RunStep, ServerInv
      <4>2. \A t \in Shares :
               share'[t].pc = "shared" => share[t].pc = "shared"
        <5>1. share[s].pc = "check" => post.exists
          BY DEF ServerInv
        <5>2. share'[s].pc # "shared"
          BY <2>2, <3>2, <5>1 DEF RunStep
        <5> QED BY <2>2, <5>2 DEF RunStep
      <4>3. SharedHasImage'
        BY <4>1, <4>2, <3>2 DEF ServerInv, SharedHasImage
      <4>4. \A t \in Shares :
               /\ share'[t].pc \in {"check", "update"} \/ share'[t].queued => stored'
               /\ share'[t].pc \in {"idle", "resize", "get"} => ~share'[t].missing
               /\ share'[t].pc = "tx" /\ ~share'[t].missing => post'.exists
               /\ share'[t].pc \in {"url", "check", "update", "shared"} => post'.exists
        <5>1. ASSUME NEW t \in Shares \ {s}
              PROVE  /\ share'[t].pc \in {"check", "update"} \/ share'[t].queued => stored'
                     /\ share'[t].pc \in {"idle", "resize", "get"} => ~share'[t].missing
                     /\ share'[t].pc = "tx" /\ ~share'[t].missing => post'.exists
                     /\ share'[t].pc \in {"url", "check", "update", "shared"} => post'.exists
          BY <2>2, <3>2 DEF RunStep, ServerInv
        <5>2. /\ share[s].pc \in {"check", "update"} \/ share[s].queued => stored
              /\ share[s].pc \in {"idle", "resize", "get"} => ~share[s].missing
              /\ share[s].pc = "tx" /\ ~share[s].missing => post.exists
              /\ share[s].pc \in {"url", "check", "update", "shared"} => post.exists
          BY DEF ServerInv
        <5>3. stored' = stored /\ (share'[s].queued => stored)
          BY <2>2, <5>2 DEF RunStep
        <5>4. /\ share'[s].pc \in {"check", "update"} \/ share'[s].queued => stored'
              /\ share'[s].pc \in {"idle", "resize", "get"} => ~share'[s].missing
              /\ share'[s].pc = "tx" /\ ~share'[s].missing => post'.exists
              /\ share'[s].pc \in {"url", "check", "update", "shared"} => post'.exists
          <6>1. CASE share[s].pc = "get" /\ share'[s].pc = "tx"
            BY <2>2, <3>1, <3>2, <5>2, <6>1 DEF RunStep
          <6>2. CASE share'[s].pc \in {"resize", "get", "failed"}
            BY <2>2, <3>1, <3>2, <5>2, <6>2 DEF RunStep
          <6>3. CASE share[s].pc \in {"tx", "url", "check"} /\ share'[s].pc # "failed"
            <7>1. CASE share[s].pc = "tx"
              <8>1. \/ share[s].missing /\ share'[s].pc \in {"tx", "url"} /\ post'.exists
                    \/ ~share[s].missing /\ share'[s].pc = "url" /\ post' = post
                BY <2>2, <6>3, <7>1 DEF RunStep, getMapForCreatePost
              <8>2. share'[s].missing = share[s].missing
                BY <2>2, <7>1 DEF RunStep
              <8> QED BY <5>2, <5>3, <7>1, <8>1, <8>2
            <7>2. CASE share[s].pc = "url"
              <8>1. stored /\ stored' = stored /\ share'[s].pc = "check"
                BY <2>2, <6>3, <7>2 DEF RunStep
              <8> QED BY <3>2, <5>2, <7>2, <8>1
            <7>3. CASE share[s].pc = "check"
              <8>1. share'[s].pc = "update" /\ stored' = stored
                BY <2>2, <5>2, <6>3, <7>3 DEF RunStep
              <8> QED BY <3>2, <5>2, <7>3, <8>1
            <7> QED BY <6>3, <7>1, <7>2, <7>3
          <6> QED BY <2>2, <3>2, <6>1, <6>2, <6>3 DEF RunStep
        <5> QED BY <5>1, <5>4
      <4> QED BY <2>2, <3>2, <4>3, <4>4 DEF RunStep, ServerInv, ImageIsStored
    <3>3. CASE /\ share[s].pc = "tx" /\ share[s].missing
               /\ post' = getMapForCreatePost
               /\ share'[s].pc \in {"tx", "url"} /\ share'[s].missing = share[s].missing
      <4>1. post'.exists /\ ~post'.postImg
        BY <3>3 DEF getMapForCreatePost
      <4>2. SharedHasImage'
        BY <2>2, <3>3 DEF RunStep, SharedHasImage
      <4> QED BY <2>2, <3>3, <4>1, <4>2 DEF RunStep, ServerInv, ImageIsStored
    <3>4. CASE /\ share[s].pc = "update"
               /\ post' = [post EXCEPT !.postImg = TRUE]
               /\ share'[s].pc \in {"shared", "failed"} /\ share'[s].missing = share[s].missing
      <4>1. post'.exists = post.exists /\ post'.postImg
        BY <3>4 DEF TypeOK, Post
      <4>2. SharedHasImage'
        BY <4>1 DEF SharedHasImage
      <4> QED BY <2>2, <3>4, <4>1, <4>2 DEF RunStep, ServerInv, ImageIsStored
    <3> QED BY <2>2, <3>2, <3>3, <3>4 DEF RunStep
  <2>3. ASSUME NEW s \in Shares, UpdateLands(s)
        PROVE  ServerInv'
    <3>1. post'.exists = post.exists /\ post'.postImg
      BY <2>3 DEF UpdateLands, TypeOK, Post
    <3>2. UNCHANGED <<stored, share>> /\ stored
      BY <2>3 DEF UpdateLands, ServerInv
    <3> QED BY <3>1, <3>2 DEF ServerInv, ImageIsStored, SharedHasImage
  <2> QED BY <2>1, <2>2, <2>3, StepFields
<1> QED BY <1>1, <1>2, TypeCorrect, PTL DEF Spec

\* A post never shows an image that is not in Storage, whatever of the upload,
\* the document and the URL fails, and however many runs there are.
THEOREM ImageIsStoredHolds == Spec => []ImageIsStored
<1>1. ServerInv => ImageIsStored
  BY DEF ServerInv
<1> QED BY <1>1, ServerInvHolds, PTL

\* A post is only ever committed over an author's document that is there, so
\* that a set that finds none has no post to take off the list.
ListInv == PostIsListed /\ (post.exists => author)

\* The post and the author's list of posts appear together, and part only when
\* the author's document is set once more.
THEOREM PostIsListedHolds == Spec => []PostIsListed
<1> USE DEF serverVars, authorVars
<1>1. Init => ListInv
  BY DEF Init, ListInv, PostIsListed, NoPost
<1>2. TypeOK /\ ListInv /\ [Next]_vars => ListInv'
  <2> SUFFICES ASSUME TypeOK, ListInv, [Next]_vars
               PROVE  ListInv'
    OBVIOUS
  <2>0. post \in Post /\ \A b \in BOOLEAN : [post EXCEPT !.postImg = b].exists = post.exists
    BY DEF TypeOK, Post
  <2>1. ASSUME UNCHANGED <<myPosts, authorVars>>, post'.exists = post.exists
        PROVE  ListInv'
    BY <2>1 DEF ListInv, PostIsListed
  <2>2. ASSUME NEW s \in Shares, CommitPost(s)
        PROVE  ListInv'
    BY <2>2 DEF CommitPost, ListInv, PostIsListed, getMapForCreatePost
  <2>3. CASE SetLands
    BY <2>3 DEF SetLands, ListInv, PostIsListed
  <2>4. ASSUME NEW s \in Shares,
               sharePostProcedure(s) \/ uploadImage(s) \/ UploadEnds(s) \/ GetPost(s)
                 \/ EmptyTransaction(s) \/ getPostImageUrl(s) \/ CheckPost(s) \/ Throws(s)
        PROVE  ListInv'
    BY <2>1, <2>4 DEF sharePostProcedure, uploadImage, UploadEnds, GetPost, EmptyTransaction,
       getPostImageUrl, CheckPost, Throws
  <2>5. ASSUME NEW s \in Shares, UpdateLands(s) \/ UpdatePost(s)
        PROVE  ListInv'
    BY <2>0, <2>1, <2>5 DEF UpdateLands, UpdatePost
  <2>6. CASE Back \/ dispose \/ UNCHANGED vars
    BY <2>1, <2>6 DEF Back, dispose, vars
  <2> QED BY <2>2, <2>3, <2>4, <2>5, <2>6 DEF Next, ShareSteps
<1>3. ListInv => PostIsListed
  BY DEF ListInv
<1> QED BY <1>1, <1>2, <1>3, TypeCorrect, PTL DEF Spec

\* The image of a post that was shared is only ever lost to another run that
\* had found no post.
THEOREM SharedHasImageHolds == Spec => []SharedHasImage
<1>1. ServerInv => SharedHasImage
  BY DEF ServerInv
<1> QED BY <1>1, ServerInvHolds, PTL

----------------------------------------------------------------------------
\* The invariant of the Navigator: the share screen is third, a sheet only
\* lies on it, and a sheet is there only with a run in progress, or one that
\* has thrown and left it.
Stack ==
    /\ Len(routes) <= 4
    /\ \A i \in 1..Len(routes) :
         /\ routes[i] = "share" => i = 3
         /\ routes[i] = "sheet" => i = 4
    /\ Len(routes) = 4 => \E s \in Shares : Running(s) \/ share[s].pc = "failed"

\* Two pops leave the share screen at most beneath, and thus no sheet.
LEMMA StackHolds == Spec => []Stack
<1>1. Init => Stack
  <2> SUFFICES ASSUME Init
               PROVE  Stack
    OBVIOUS
  <2>1. /\ Len(routes) = 3 /\ routes[1] = "home"
        /\ routes[2] = "camera" /\ routes[3] = "share"
    BY DEF Init
  <2> QED BY <2>1 DEF Stack
<1>2. TypeOK /\ Stack /\ [Next]_vars => Stack'
  <2> SUFFICES ASSUME TypeOK, Stack, [Next]_vars
               PROVE  Stack'
    OBVIOUS
  <2> DEFINE n == Len(routes)
             Present(s) == share[s].pc \notin {"idle", "shared"}
  <2>0. routes \in Seq(Routes) /\ n \in Nat
    BY LenProperties DEF TypeOK
  <2>1. Stack <=> /\ n <= 4
                  /\ \A i \in 1..n : /\ routes[i] = "share" => i = 3
                                     /\ routes[i] = "sheet" => i = 4
                  /\ n = 4 => \E s \in Shares : Present(s)
    BY DEF Stack, Running
  <2>2. Stack' <=> /\ Len(routes') <= 4
                   /\ \A i \in 1..Len(routes') : /\ routes'[i] = "share" => i = 3
                                                 /\ routes'[i] = "sheet" => i = 4
                   /\ Len(routes') = 4 => \E s \in Shares : share'[s].pc \notin {"idle", "shared"}
    BY DEF Stack, Running
  <2>3. ASSUME NEW s \in Shares, sharePostProcedure(s)
        PROVE  Stack'
    <3>1. n >= 1 /\ routes[n] = "share"
      BY <2>3, <2>0, EmptySeq DEF sharePostProcedure, Last
    <3>2. n = 3
      <4> HIDE DEF n
      <4>1. n \in 1..n
        BY <2>0, <3>1
      <4> QED BY <2>1, <3>1, <4>1
    <3>3. /\ Len(routes') = n + 1
          /\ \A i \in 1..n : routes'[i] = routes[i]
          /\ routes'[n + 1] = "sheet"
      BY <2>3, <2>0, AppendProperties DEF sharePostProcedure, Routes
    <3>4. share'[s].pc = "resize"
      BY <2>3, AdvanceFields DEF sharePostProcedure
    <3> HIDE DEF n
    <3>5. \A i \in 1..4 : i \in 1..3 \/ i = 4
      OBVIOUS
    <3> QED BY <2>1, <2>2, <3>2, <3>3, <3>4, <3>5
  <2>4. CASE Back
    <3>1. /\ n >= 1 /\ Len(routes') = n - 1 /\ share' = share
          /\ \A i \in 1..(n - 1) : routes'[i] = routes[i]
      BY <2>4, <2>0, FrontOfRoutes DEF Back
    <3> HIDE DEF n
    <3> QED BY <2>0, <2>1, <2>2, <3>1
  <2>5. ASSUME NEW s \in Shares, Pops(s)
        PROVE  Stack'
    <3>1. CASE mounted
      <4> DEFINE q == SubSeq(routes, 1, n - 2)
      <4>1. /\ Len(q) = IF n >= 2 THEN n - 2 ELSE 0
            /\ \A i \in 1..Len(q) : q[i] = routes[i]
        BY <2>0, PopTwoRoutes
      <4>2. routes' = q
        BY <2>5, <3>1 DEF Pops
      <4> HIDE DEF n, q
      <4>3. Len(q) <= 2 /\ \A i \in 1..Len(q) : i \in 1..n
        BY <2>0, <2>1, <4>1
      <4> QED BY <2>1, <2>2, <4>1, <4>2, <4>3
    <3>2. CASE ~mounted
      <4>1. share'[s].pc = "failed" /\ routes' = routes
        BY <2>5, <3>2, AdvanceFields DEF Pops
      <4> QED BY <2>1, <2>2, <4>1
    <3> QED BY <3>1, <3>2
  <2>6. ASSUME routes' = routes,
               \A s \in Shares : Present(s) => share'[s].pc \notin {"idle", "shared"}
        PROVE  Stack'
    BY <2>1, <2>2, <2>6
  <2>7. ASSUME NEW s \in Shares,
               uploadImage(s) \/ UploadEnds(s) \/ UpdateLands(s) \/ GetPost(s) \/ CommitPost(s)
                 \/ EmptyTransaction(s) \/ getPostImageUrl(s) \/ Throws(s)
        PROVE  Stack'
    <3>1. routes' = routes
      BY <2>7 DEF uploadImage, UploadEnds, UpdateLands, GetPost, CommitPost, EmptyTransaction,
                  getPostImageUrl, Throws
    <3>2. \A t \in Shares : Present(t) => share'[t].pc \notin {"idle", "shared"}
      <4>1. CASE EmptyTransaction(s) \/ getPostImageUrl(s) \/ Throws(s)
        BY <4>1, AdvanceFields DEF EmptyTransaction, getPostImageUrl, Throws
      <4>2. CASE uploadImage(s)
        <5>1. share'[s].pc \in {"get", "failed"}
              /\ \A t \in Shares \ {s} : share'[t].pc = share[t].pc
          BY <4>2 DEF uploadImage, TypeOK, ShareState
        <5> QED BY <5>1
      <4>3. CASE UploadEnds(s)
        BY <4>3 DEF UploadEnds, TypeOK, ShareState
      <4>4. CASE GetPost(s)
        BY <4>4 DEF GetPost, TypeOK, ShareState
      <4>5. CASE CommitPost(s)
        <5>1. CASE Advance(s, "url")
          BY <5>1, AdvanceFields
        <5>2. CASE share' = [share EXCEPT ![s].tries = @ + 1]
          BY <5>2 DEF TypeOK, ShareState
        <5> QED BY <4>5, <5>1, <5>2 DEF CommitPost
      <4>6. CASE UpdateLands(s)
        BY <4>6 DEF UpdateLands
      <4> QED BY <2>7, <4>1, <4>2, <4>3, <4>4, <4>5, <4>6
    <3> QED BY <2>6, <3>1, <3>2
  <2>8. ASSUME NEW s \in Shares, CheckPost(s) \/ UpdatePost(s)
        PROVE  Stack'
    <3>1. CASE Pops(s)
      BY <2>5, <3>1
    <3>2. CASE /\ share' = [share EXCEPT ![s].pc = "update", ![s].queued = TRUE]
               /\ UNCHANGED routes
      <4>1. share'[s].pc = "update" /\ \A t \in Shares \ {s} : share'[t] = share[t]
        BY <3>2 DEF TypeOK, ShareState
      <4> QED BY <2>6, <3>2, <4>1
    <3> QED BY <2>8, <3>1, <3>2 DEF CheckPost, UpdatePost
  <2>9. CASE dispose \/ SetLands \/ UNCHANGED vars
    BY <2>6, <2>9 DEF dispose, SetLands, vars
  <2> QED BY <2>3, <2>4, <2>7, <2>8, <2>9 DEF Next, ShareSteps
<1> QED BY <1>1, <1>2, TypeCorrect, PTL DEF Spec

\* There is at most one sheet, and then a run in progress or one that has
\* thrown: runs that end well take their sheet with them.
THEOREM SheetHasRunHolds == Spec => []SheetHasRun
<1>1. TypeOK /\ Stack => SheetHasRun
  <2> SUFFICES ASSUME TypeOK, Stack
               PROVE  SheetHasRun
    OBVIOUS
  <2> DEFINE sheets == {i \in 1..Len(routes) : routes[i] = "sheet"}
             runs == {s \in Shares : Running(s) \/ share[s].pc = "failed"}
  <2>1. IsFiniteSet(runs) /\ Cardinality(runs) \in Nat
    BY SharesAssumption, FS_Subset, FS_CardinalityType
  <2>2. CASE sheets = {}
    <3>1. Cardinality(sheets) = 0
      BY <2>2, FS_EmptySet
    <3> HIDE DEF sheets, runs
    <3>2. Cardinality(sheets) <= Cardinality(runs)
      BY <2>1, <3>1
    <3> QED BY <3>2 DEF SheetHasRun, sheets, runs
  <2>3. CASE sheets # {}
    <3>0. Len(routes) \in Nat
      BY LenProperties DEF TypeOK
    <3>1. sheets = {4} /\ Len(routes) = 4
      BY <2>3, <3>0 DEF Stack
    <3>2. PICK s \in Shares : s \in runs
      BY <3>1 DEF Stack
    <3>3. Cardinality(sheets) = 1
      BY <3>1, FS_Singleton
    <3>4. Cardinality(runs) # 0
      BY <2>1, <3>2, FS_EmptySet
    <3> HIDE DEF sheets, runs
    <3>5. Cardinality(sheets) <= Cardinality(runs)
      BY <2>1, <3>3, <3>4
    <3> QED BY <3>5 DEF SheetHasRun, sheets, runs
  <2> QED BY <2>2, <2>3
<1> QED BY <1>1, TypeCorrect, StackHolds, PTL
=============================================================================
