------------------------ MODULE SearchScreenProofs -------------------------
(***************************************************************************)
(* Theorems about SearchScreen, for any phones, accounts and taps: the app *)
(* is a client of the repository, and inherits what is proved of it; and   *)
(* what follows from the calls that it really makes.                       *)
(***************************************************************************)
EXTENDS SearchScreen, UserNetworkRepositoryProofs

----------------------------------------------------------------------------
\* amIFollowingThisUser answers no for everybody, so that a tap is a follow.
LEMMA TapsFollow ==
    ASSUME NEW c \in Calls, NEW p \in Phones, NEW v \in Users, OnTap(c, p, v)
    PROVE  /\ home[p] /\ v \in otherUsers[p]
           /\ userModel[p].userKey # NoUser
           /\ followUser(c, userModel[p].userKey, v)
           /\ UNCHANGED phoneVars
BY DEF OnTap, amIFollowingThisUser

\* What phone p does on its own: nothing that a call or the server would see.
PhoneSteps(p) ==
    \/ \E u \in Users : SignsIn(p, u) \/ HomeIsBuilt(p, u) \/ UserModelArrives(p, u)
    \/ SignsOut(p) \/ AuthIsBuilt(p) \/ HomeIsGone(p) \/ UsersArrive(p) \/ Relaunch(p)

\* Next, sorted by whether a call or a phone makes the step.
LEMMA SearchCases ==
    ASSUME [SearchNext]_searchVars
    PROVE  \/ \E c \in Calls, p \in Phones, v \in Users : OnTap(c, p, v)
           \/ \E c \in Calls, p \in Phones, u \in Users : SignIn(c, p, u)
           \/ \E c \in Calls : Answered(c)
           \/ \E p \in Phones : PhoneSteps(p)
           \/ UNCHANGED searchVars
BY DEF SearchNext, PhoneSteps

\* A step of a phone's own leaves the repository alone.
LEMMA PhoneStepsAreSilent ==
    ASSUME NEW p \in Phones, PhoneSteps(p)
    PROVE  UNCHANGED vars
BY DEF PhoneSteps, SignsIn, HomeIsBuilt, UserModelArrives, SignsOut, AuthIsBuilt, HomeIsGone,
   UsersArrive, Relaunch

\* The keys that phones hold are of accounts.  This much does not depend on the
\* documents: it is what makes the phones clients of the repository.
Keys ==
    /\ currentUser \in [Phones -> Users \cup {NoUser}]
    /\ home \in [Phones -> BOOLEAN]
    /\ subscriptions \in [Phones -> SUBSET Users]
    /\ userModel = [p \in Phones |-> userModel[p]]
    /\ \A p \in Phones : userModel[p].userKey \in Users \cup {NoUser}
    /\ otherUsers \in [Phones -> SUBSET Users]
    /\ sessions \in [Phones -> SUBSET Users]
    /\ switched \subseteq Users

LEMMA KeysHold == SearchSpec => []Keys
<1> USE DEF modelVars
<1>1. SearchInit => Keys
  BY DEF SearchInit, Keys, NoModel
<1>2. Keys /\ [SearchNext]_searchVars => Keys'
  <2> SUFFICES ASSUME Keys, [SearchNext]_searchVars
               PROVE  Keys'
    OBVIOUS
  <2>1. ASSUME NEW p \in Phones, NEW u \in Users, SignsIn(p, u)
        PROVE  Keys'
    BY <2>1 DEF SignsIn, Keys
  <2>2. ASSUME NEW p \in Phones, NEW u \in Users, HomeIsBuilt(p, u)
        PROVE  Keys'
    BY <2>2 DEF HomeIsBuilt, Keys
  <2>3. ASSUME NEW p \in Phones, NEW u \in Users, UserModelArrives(p, u)
        PROVE  Keys'
    <3>1. PICK d \in Get(u) :
            userModel' = [userModel EXCEPT ![p] = [userKey |-> u,
                                                   followings |-> d.followings]]
      BY <2>3 DEF UserModelArrives
    <3>2. UNCHANGED <<currentUser, home, subscriptions, otherUsers, sessions, switched>>
      BY <2>3 DEF UserModelArrives
    <3> QED BY <3>1, <3>2 DEF Keys
  <2>4. ASSUME NEW p \in Phones, SignsOut(p) \/ AuthIsBuilt(p) \/ HomeIsGone(p)
        PROVE  Keys'
    <3>1. CASE SignsOut(p)
      BY <3>1 DEF SignsOut, Keys
    <3>2. CASE AuthIsBuilt(p)
      BY <3>2 DEF AuthIsBuilt, Keys, NoModel
    <3>3. CASE HomeIsGone(p)
      BY <3>3 DEF HomeIsGone, Keys
    <3> QED BY <2>4, <3>1, <3>2, <3>3
  <2>5. ASSUME NEW p \in Phones, UsersArrive(p)
        PROVE  Keys'
    BY <2>5 DEF UsersArrive, UsersExceptMe, AllUsers, Keys
  <2>6. ASSUME NEW p \in Phones, Relaunch(p)
        PROVE  Keys'
    <3>1. {currentUser[p]} \ {NoUser} \in SUBSET Users
      BY DEF Keys
    <3> QED BY <2>6, <3>1 DEF Relaunch, Keys, NoModel
  <2>7. ASSUME UNCHANGED phoneVars
        PROVE  Keys'
    BY <2>7 DEF phoneVars, Keys
  <2> QED BY <2>1, <2>2, <2>3, <2>4, <2>5, <2>6, <2>7, SearchCases
          DEF PhoneSteps, OnTap, SignIn, Answered, searchVars
<1> QED BY <1>1, <1>2, PTL DEF SearchSpec

\* The phones only make calls of the repository: what is proved of the
\* collection holds whatever the app does.
THEOREM ImplementsUserNetworkRepositoryHolds == SearchSpec => Spec
<1>1. SearchInit => Init
  BY DEF SearchInit
<1>2. Keys /\ [SearchNext]_searchVars => [Next]_vars
  <2> SUFFICES ASSUME Keys, [SearchNext]_searchVars
               PROVE  [Next]_vars
    OBVIOUS
  <2>1. ASSUME NEW c \in Calls, NEW p \in Phones, NEW v \in Users, OnTap(c, p, v)
        PROVE  Next
    <3>1. userModel[p].userKey \in Users
      BY <2>1, TapsFollow DEF Keys
    <3> QED BY <2>1, <3>1, TapsFollow DEF Next
  <2>2. ASSUME NEW c \in Calls, NEW p \in Phones, NEW u \in Users, SignIn(c, p, u)
        PROVE  Next
    BY <2>2 DEF SignIn, Next
  <2>3. ASSUME NEW c \in Calls, Answered(c)
        PROVE  Next
    BY <2>3 DEF Answered, Next
  <2>4. CASE UNCHANGED searchVars
    BY <2>4 DEF searchVars
  <2> QED BY <2>1, <2>2, <2>3, <2>4, SearchCases, PhoneStepsAreSilent
<1> QED BY <1>1, <1>2, KeysHold, PTL DEF SearchSpec, Spec

\* The phones and the collection keep their types.
THEOREM SearchTypeCorrect == SearchSpec => []SearchTypeOK
<1> DEFINE Models == \A p \in Phones : userModel[p].followings \subseteq Users
                                       /\ userModel[p] \in UserModel
<1>1. SearchInit => Models
  BY DEF SearchInit, NoModel, UserModel
<1>2. Keys /\ Shape /\ Models /\ [SearchNext]_searchVars => Models'
  <2> SUFFICES ASSUME Keys, Shape, Models, [SearchNext]_searchVars
               PROVE  Models'
    OBVIOUS
  <2>1. ASSUME NEW p \in Phones, NEW m \in UserModel, userModel' = [userModel EXCEPT ![p] = m]
        PROVE  Models'
    <3>1. \A q \in Phones : userModel'[q] = IF q = p THEN m ELSE userModel[q]
      BY <2>1 DEF Keys
    <3> QED BY <3>1, <2>1 DEF UserModel
  <2>2. ASSUME NEW p \in Phones, NEW u \in Users, UserModelArrives(p, u)
        PROVE  Models'
    <3>1. PICK d \in Get(u) :
            userModel' = [userModel EXCEPT ![p] = [userKey |-> u,
                                                   followings |-> d.followings]]
      BY <2>2 DEF UserModelArrives
    <3>2. d \in UserDoc
      BY GetType DEF Shape
    <3>3. [userKey |-> u, followings |-> d.followings] \in UserModel
      BY <3>2 DEF UserDoc, UserModel
    <3> QED BY <2>1, <3>1, <3>3
  <2>3. ASSUME NEW p \in Phones, AuthIsBuilt(p) \/ Relaunch(p)
        PROVE  Models'
    <3>1. NoModel \in UserModel
      BY DEF NoModel, UserModel
    <3> QED BY <2>1, <2>3, <3>1 DEF AuthIsBuilt, Relaunch
  <2>4. ASSUME UNCHANGED userModel
        PROVE  Models'
    BY <2>4
  <2> QED BY <2>2, <2>3, <2>4, SearchCases
          DEF PhoneSteps, SignsIn, SignsOut, HomeIsBuilt, HomeIsGone, UsersArrive, OnTap, SignIn,
              Answered, searchVars, phoneVars, modelVars
<1>3. Keys /\ Shape /\ Models => SearchTypeOK
  BY DEF Keys, Shape, SearchTypeOK
<1>4. SearchSpec => []Shape
  BY ImplementsUserNetworkRepositoryHolds, ShapeCorrect, PTL
<1> HIDE DEF Models
<1> QED BY <1>1, <1>2, <1>3, <1>4, KeysHold, PTL DEF SearchSpec

----------------------------------------------------------------------------
\* A call keeps what it was made with, and that one of its attempts was applied.
LEMMA CallKept ==
    ASSUME Shape, NEW d \in Calls, CallSteps(d), NEW c \in Calls
    PROVE  /\ call'[c].op = call[c].op
           /\ call'[c].me = call[c].me /\ call'[c].other = call[c].other
           /\ call[c].applied => call'[c].applied
           /\ call'[c].pc = "idle" => call'[c] = call[c]
<1>0. CASE SetLands(d)
  BY <1>0, SetStep
<1>1. CASE EmptyTransaction(d) \/ CallLost(d)
  BY <1>1 DEF EmptyTransaction, CallLost, Shape, TypeOK, CallState
<1>2. CASE GetOther(d)
  BY <1>2 DEF GetOther, Shape, TypeOK, CallState
<1>3. CASE CommitTransaction(d) \/ AbortTransaction(d)
  <2> DEFINE k == call[d]
  <2>1. k \in CallState /\ k.applied \in BOOLEAN /\ k.pc = "tx"
    BY <1>3 DEF CommitTransaction, AbortTransaction, Shape, TypeOK, CallState
  <2>2. PICK b \in {TRUE, k.applied} :
          \E n \in AfterAttempt(k, b) : call' = [call EXCEPT ![d] = n]
    BY <1>3, <2>1 DEF CommitTransaction, AbortTransaction
  <2>3. PICK n \in AfterAttempt(k, b) : call' = [call EXCEPT ![d] = n]
    BY <2>2
  <2>4. b \in BOOLEAN
    BY <2>1
  <2>5. /\ n.pc \in {"done", k.pc} /\ n.op = k.op /\ n.me = k.me /\ n.other = k.other
        /\ n.applied = b
    BY <2>1, <2>3, <2>4, AfterAttemptType
  <2>6. k.applied => b
    BY <2>1
  <2> QED BY <2>1, <2>3, <2>5, <2>6 DEF Shape, TypeOK
<1> QED BY <1>0, <1>1, <1>2, <1>3 DEF CallSteps

\* A call that is made is the only one that changes.
LEMMA CallMade ==
    ASSUME Shape, NEW c \in Calls, NEW op, NEW me, NEW other,
           \/ op = "create" /\ attemptCreateUser(c, me)
           \/ GetMine(c, op, me, other)
    PROVE  /\ call'[c].op = op /\ call'[c].me = me /\ ~call'[c].applied
           /\ op # "create" => call'[c].other = other
           /\ call[c].pc = "idle" /\ call'[c].pc # "idle"
           /\ \A b \in Calls \ {c} : call'[b] = call[b]
           /\ UNCHANGED <<users, histVars>>
<1>0. DOMAIN call = Calls /\ call = [b \in Calls |-> call[b]]
  BY DEF Shape, TypeOK
<1>1. CASE op = "create" /\ attemptCreateUser(c, me)
  <2>1. PICK s \in Get(me) :
          call' = [call EXCEPT ![c] =
                     [NotMade EXCEPT !.pc = IF s.exists THEN "done" ELSE "set",
                                     !.me = me, !.mine = s.exists]]
    BY <1>1 DEF attemptCreateUser
  <2>2. /\ call'[c] = [NotMade EXCEPT !.pc = IF s.exists THEN "done" ELSE "set",
                                      !.me = me, !.mine = s.exists]
        /\ \A b \in Calls \ {c} : call'[b] = call[b]
    BY <1>0, <2>1
  <2>3. /\ call'[c].op = "create" /\ call'[c].me = me /\ ~call'[c].applied
        /\ call'[c].pc # "idle"
    BY <2>2 DEF NotMade
  <2> QED BY <1>1, <2>2, <2>3 DEF attemptCreateUser
<1>2. CASE GetMine(c, op, me, other)
  <2>1. PICK s \in Get(me) :
          call' = [call EXCEPT ![c] =
                     [NotMade EXCEPT !.pc = "getOther", !.op = op, !.me = me,
                                     !.other = other, !.mine = s.exists]]
    BY <1>2 DEF GetMine
  <2>2. /\ call'[c] = [NotMade EXCEPT !.pc = "getOther", !.op = op, !.me = me,
                                      !.other = other, !.mine = s.exists]
        /\ \A b \in Calls \ {c} : call'[b] = call[b]
    BY <1>0, <2>1
  <2>3. /\ call'[c].op = op /\ call'[c].me = me /\ call'[c].other = other
        /\ ~call'[c].applied /\ call'[c].pc # "idle"
    BY <2>2 DEF NotMade
  <2> QED BY <1>2, <2>2, <2>3 DEF GetMine
<1> QED BY <1>1, <1>2

----------------------------------------------------------------------------
\* No call of the app unfollows: nothing is ever subtracted.
OnlyFollows ==
    /\ \A c \in Calls : call[c].op # "unfollow"
    /\ \A v \in Users : unfollows[v] = 0

LEMMA OnlyFollowsHolds == SearchSpec => []OnlyFollows
<1>1. SearchInit => OnlyFollows
  BY DEF SearchInit, Init, OnlyFollows, NotMade
<1>2. Shape /\ OnlyFollows /\ [SearchNext]_searchVars => OnlyFollows'
  <2> SUFFICES ASSUME Shape, OnlyFollows, [SearchNext]_searchVars
               PROVE  OnlyFollows'
    OBVIOUS
  <2>1. ASSUME NEW c \in Calls, NEW p \in Phones, NEW v \in Users, OnTap(c, p, v)
        PROVE  OnlyFollows'
    <3>1. GetMine(c, "follow", userModel[p].userKey, v)
      BY <2>1, TapsFollow DEF followUser
    <3>2. /\ call'[c].op = "follow" /\ UNCHANGED <<users, histVars>>
          /\ \A b \in Calls \ {c} : call'[b] = call[b]
      BY <3>1, CallMade
    <3> QED BY <3>2 DEF OnlyFollows, histVars
  <2>2. ASSUME NEW c \in Calls, NEW p \in Phones, NEW u \in Users, SignIn(c, p, u)
        PROVE  OnlyFollows'
    <3>1. attemptCreateUser(c, u)
      BY <2>2 DEF SignIn
    <3>2. /\ call'[c].op = "create" /\ UNCHANGED <<users, histVars>>
          /\ \A b \in Calls \ {c} : call'[b] = call[b]
      BY <3>1, CallMade
    <3> QED BY <3>2 DEF OnlyFollows, histVars
  <2>3. ASSUME NEW c \in Calls, Answered(c)
        PROVE  OnlyFollows'
    <3>1. \A b \in Calls : call'[b].op # "unfollow"
      BY <2>3, CallKept DEF Answered, OnlyFollows
    <3>2. unfollows' = unfollows
      BY <2>3 DEF Answered, CallSteps, SetLands, GetOther, CommitTransaction, CountCall,
                  AbortTransaction, EmptyTransaction, CallLost, histVars, OnlyFollows
    <3> QED BY <3>1, <3>2 DEF OnlyFollows
  <2>4. ASSUME UNCHANGED vars
        PROVE  OnlyFollows'
    BY <2>4 DEF vars, OnlyFollows
  <2> QED BY <2>1, <2>2, <2>3, <2>4, SearchCases, PhoneStepsAreSilent DEF searchVars
<1>3. SearchSpec => []Shape
  BY ImplementsUserNetworkRepositoryHolds, ShapeCorrect, PTL
<1> QED BY <1>1, <1>2, <1>3, PTL DEF SearchSpec

\* The followers count of nobody is negative, however stale the counts that
\* taps go by: the bound of the repository, with no unfollow to lower it.
THEOREM CountNotNegativeHolds == SearchSpec => []CountNotNegative
<1>1. Shape /\ OnlyFollows /\ CountWithinWrites => CountNotNegative
  <2> SUFFICES ASSUME Shape, OnlyFollows, CountWithinWrites, NEW v \in Users
               PROVE  users[v].followers >= 0
    BY DEF CountNotNegative
  <2>1. users[v].followers \in Int /\ unfollows[v] = 0
    BY NumberTypes DEF OnlyFollows
  <2>2. -unfollows[v] <= users[v].followers
    BY DEF CountWithinWrites
  <2> DEFINE n == users[v].followers
             m == unfollows[v]
  <2> HIDE DEF n, m
  <2>3. n \in Int /\ m = 0 /\ -m <= n
    BY <2>1, <2>2 DEF n, m
  <2>4. n >= 0
    BY <2>3
  <2> QED BY <2>4 DEF n
<1>2. SearchSpec => []Shape /\ []CountWithinWrites
  BY ImplementsUserNetworkRepositoryHolds, ShapeCorrect, CountWithinWritesHolds, PTL
<1> QED BY <1>1, <1>2, OnlyFollowsHolds, PTL

\* A following stays, unless the document it is in is set anew: unfollowUser is
\* never called, for any phones, accounts, models and taps.
THEOREM NobodyIsUnfollowedHolds == SearchSpec => NobodyIsUnfollowed
<1> DEFINE Kept(u) == \/ users[u].followings \subseteq users'[u].followings
                      \/ \E c \in Calls : SetLands(c) /\ call[c].me = u
<1>1. Shape /\ OnlyFollows /\ [SearchNext]_searchVars => [\A u \in Users : Kept(u)]_searchVars
  <2> SUFFICES ASSUME Shape, OnlyFollows, [SearchNext]_searchVars, NEW u \in Users
               PROVE  Kept(u)
    OBVIOUS
  <2>1. ASSUME users' = users
        PROVE  Kept(u)
    BY <2>1
  <2>2. ASSUME NEW c \in Calls, NEW p \in Phones, NEW v \in Users, OnTap(c, p, v)
        PROVE  users' = users
    <3>1. GetMine(c, "follow", userModel[p].userKey, v)
      BY <2>2, TapsFollow DEF followUser
    <3> QED BY <3>1, CallMade
  <2>3. ASSUME NEW c \in Calls, NEW p \in Phones, NEW v \in Users, SignIn(c, p, v)
        PROVE  users' = users
    <3>1. attemptCreateUser(c, v)
      BY <2>3 DEF SignIn
    <3> QED BY <3>1, CallMade
  <2>4. ASSUME NEW c \in Calls, Answered(c)
        PROVE  Kept(u)
    <3>1. CASE CommitTransaction(c)
      <4> DEFINE k == call[c]
      <4>1. k.op = "follow"
        BY <3>1, CommitStep DEF OnlyFollows
      <4>2. /\ users'[k.me].followings = ArrayEdit(k.op, users[k.me].followings, k.other)
            /\ \A w \in Users \ {k.me} : users'[w].followings = users[w].followings
        BY <3>1, CommitDocs
      <4> QED BY <4>1, <4>2 DEF ArrayEdit
    <3>2. CASE SetLands(c)
      <4>1. \A w \in Users \ {call[c].me} : users'[w] = users[w]
        BY <3>2, SetStep
      <4> QED BY <3>2, <4>1
    <3>3. CASE ~CommitTransaction(c) /\ ~SetLands(c)
      <4>1. users' = users
        BY <2>4, <3>3 DEF Answered, CallSteps, GetOther, AbortTransaction, EmptyTransaction,
           CallLost, histVars
      <4> QED BY <2>1, <4>1
    <3> QED BY <3>1, <3>2, <3>3
  <2>5. ASSUME UNCHANGED vars
        PROVE  users' = users
    BY <2>5 DEF vars
  <2> HIDE DEF Kept
  <2> QED BY <2>1, <2>2, <2>3, <2>4, <2>5, SearchCases, PhoneStepsAreSilent DEF searchVars
<1>2. SearchSpec => []Shape
  BY ImplementsUserNetworkRepositoryHolds, ShapeCorrect, PTL
<1> QED BY <1>1, <1>2, OnlyFollowsHolds, PTL DEF SearchSpec, NobodyIsUnfollowed

----------------------------------------------------------------------------
\* A followUser call of u on v whose write was applied.
Made(u, v) ==
    \E c \in Calls : /\ call[c].op = "follow" /\ call[c].applied
                     /\ call[c].me = u /\ call[c].other = v

\* Every following, on the server or in a model, was once made by a tap.
EdgesAreMade ==
    /\ \A c \in Calls : call[c].pc = "idle" => ~call[c].applied
    /\ \A u \in Users : \A v \in users[u].followings : Made(u, v)
    /\ ModelFollowsTaps

\* What was made stays made.
LEMMA MadeIsStable ==
    ASSUME NEW u, NEW v, Made(u, v),
           \A c \in Calls : call[c].applied =>
              /\ call'[c].op = call[c].op /\ call'[c].applied
              /\ call'[c].me = call[c].me /\ call'[c].other = call[c].other
    PROVE  Made(u, v)'
BY DEF Made

LEMMA EdgesAreMadeHolds == SearchSpec => []EdgesAreMade
<1>1. SearchInit => EdgesAreMade
  BY DEF SearchInit, Init, EdgesAreMade, ModelFollowsTaps, NotMade, NoModel, NoDocument,
         getMapForCreateUser
<1>2. /\ Keys /\ Shape /\ OnlyFollows /\ EdgesAreMade /\ [SearchNext]_searchVars
      => EdgesAreMade'
  <2> SUFFICES ASSUME Keys, Shape, OnlyFollows, EdgesAreMade, [SearchNext]_searchVars
               PROVE  EdgesAreMade'
    OBVIOUS
  <2> DEFINE Kept == \A c \in Calls : call[c].applied =>
                        /\ call'[c].op = call[c].op /\ call'[c].applied
                        /\ call'[c].me = call[c].me /\ call'[c].other = call[c].other
             IdleOK == \A c \in Calls : call'[c].pc = "idle" => ~call'[c].applied
  <2>0. ModelFollowsTaps <=> \A p \in Phones : \A v \in userModel[p].followings :
                                Made(userModel[p].userKey, v)
    BY DEF ModelFollowsTaps, Made
  <2>00. ModelFollowsTaps' <=> \A p \in Phones : \A v \in userModel'[p].followings :
                                  Made(userModel[p].userKey, v)'
    BY DEF ModelFollowsTaps, Made
  <2>1. ASSUME Kept, IdleOK, UNCHANGED userModel,
               \A u \in Users : \A v \in users'[u].followings :
                  v \in users[u].followings \/ Made(u, v)'
        PROVE  EdgesAreMade'
    <3>1. \A u, v : Made(u, v) => Made(u, v)'
      BY <2>1, MadeIsStable
    <3>2. \A u \in Users : \A v \in users'[u].followings : Made(u, v)'
      BY <3>1, <2>1 DEF EdgesAreMade
    <3>3. ModelFollowsTaps'
      BY <3>1, <2>1, <2>0, <2>00 DEF EdgesAreMade
    <3> QED BY <3>2, <3>3, <2>1 DEF EdgesAreMade
  <2>2. ASSUME NEW c \in Calls, NEW op, NEW me, NEW other,
               \/ op = "create" /\ attemptCreateUser(c, me)
               \/ GetMine(c, op, me, other),
               UNCHANGED phoneVars
        PROVE  EdgesAreMade'
    <3>1. /\ ~call'[c].applied /\ call[c].pc = "idle" /\ users' = users
          /\ \A b \in Calls \ {c} : call'[b] = call[b]
      BY <2>2, CallMade
    <3>2. Kept /\ IdleOK
      BY <3>1 DEF EdgesAreMade
    <3> QED BY <2>1, <2>2, <3>1, <3>2 DEF phoneVars, modelVars
  <2>3. ASSUME NEW c \in Calls, NEW p \in Phones, NEW v \in Users, OnTap(c, p, v)
        PROVE  EdgesAreMade'
    BY <2>2, <2>3, TapsFollow DEF followUser
  <2>4. ASSUME NEW c \in Calls, NEW p \in Phones, NEW u \in Users, SignIn(c, p, u)
        PROVE  EdgesAreMade'
    BY <2>2, <2>4 DEF SignIn
  <2>5. ASSUME NEW c \in Calls, Answered(c)
        PROVE  EdgesAreMade'
    <3>1. CallSteps(c) /\ UNCHANGED userModel
      BY <2>5 DEF Answered, phoneVars, modelVars
    <3>2. Kept /\ IdleOK
      BY <3>1, CallKept DEF EdgesAreMade
    <3>3. \A u \in Users : \A v \in users'[u].followings :
             v \in users[u].followings \/ Made(u, v)'
      <4>1. CASE CommitTransaction(c)
        <5> DEFINE k == call[c]
        <5>1. /\ k.me \in Users /\ k.op = "follow"
              /\ call'[c].applied /\ call'[c].op = k.op
              /\ call'[c].me = k.me /\ call'[c].other = k.other
          BY <4>1, CommitStep DEF OnlyFollows
        <5>2. /\ users'[k.me].followings = ArrayEdit(k.op, users[k.me].followings, k.other)
              /\ \A u \in Users \ {k.me} : users'[u].followings = users[u].followings
          BY <4>1, CommitDocs
        <5>3. Made(k.me, k.other)'
          BY <5>1 DEF Made
        <5> QED BY <5>1, <5>2, <5>3 DEF ArrayEdit
      <4>2. CASE SetLands(c)
        <5>1. PICK u \in Users : /\ users'[u] = getMapForCreateUser
                                 /\ \A v \in Users \ {u} : users'[v] = users[v]
          BY <4>2, SetStep
        <5> QED BY <5>1 DEF getMapForCreateUser
      <4>3. CASE ~CommitTransaction(c) /\ ~SetLands(c)
        BY <3>1, <4>3 DEF CallSteps, GetOther, AbortTransaction, EmptyTransaction, CallLost,
                          histVars
      <4> QED BY <4>1, <4>2, <4>3
    <3> QED BY <2>1, <3>1, <3>2, <3>3
  <2>6. ASSUME NEW p \in Phones, NEW u \in Users, UserModelArrives(p, u)
        PROVE  EdgesAreMade'
    <3>1. PICK d \in Get(u) :
            userModel' = [userModel EXCEPT ![p] = [userKey |-> u,
                                                   followings |-> d.followings]]
      BY <2>6 DEF UserModelArrives
    <3>2. call' = call /\ users' = users
      BY <2>6 DEF UserModelArrives, vars
    <3>3. \A v \in d.followings : Made(u, v)
      BY DEF Get, EdgesAreMade, getMapForCreateUser
    <3>4. \A q \in Phones : userModel'[q] = IF q = p THEN [userKey |-> u, followings |-> d.followings]
                                                     ELSE userModel[q]
      BY <3>1 DEF Keys
    <3>5. \A w, v : Made(w, v) => Made(w, v)'
      BY <3>2 DEF Made
    <3>6. \A q \in Phones : \A v \in userModel'[q].followings : Made(userModel[q].userKey, v)'
      <4> SUFFICES ASSUME NEW q \in Phones, NEW v \in userModel'[q].followings
                   PROVE  Made(userModel[q].userKey, v)'
        OBVIOUS
      <4>1. CASE q = p
        <5>1. userModel'[q].userKey = u /\ v \in d.followings
          BY <3>4, <4>1
        <5> QED BY <5>1, <3>3, <3>2 DEF Made
      <4>2. CASE q # p
        <5>1. userModel'[q] = userModel[q]
          BY <3>4, <4>2
        <5> QED BY <5>1, <3>2, <2>0 DEF Made, EdgesAreMade
      <4> QED BY <4>1, <4>2
    <3> QED BY <3>2, <3>5, <3>6, <2>00 DEF EdgesAreMade
  <2>7. ASSUME NEW p \in Phones, AuthIsBuilt(p) \/ Relaunch(p)
        PROVE  EdgesAreMade'
    <3>1. userModel' = [userModel EXCEPT ![p] = NoModel] /\ call' = call /\ users' = users
      BY <2>7 DEF AuthIsBuilt, Relaunch, vars
    <3>2. \A q \in Phones : userModel'[q] = IF q = p THEN NoModel ELSE userModel[q]
      BY <3>1 DEF Keys
    <3> QED BY <3>1, <3>2 DEF EdgesAreMade, ModelFollowsTaps, Made, NoModel
  <2>8. ASSUME UNCHANGED <<vars, userModel>>
        PROVE  EdgesAreMade'
    BY <2>8 DEF vars, EdgesAreMade, ModelFollowsTaps, Made
  <2> QED BY <2>3, <2>4, <2>5, <2>6, <2>7, <2>8, SearchCases
          DEF PhoneSteps, SignsIn, SignsOut, HomeIsBuilt, HomeIsGone, UsersArrive, searchVars,
              phoneVars, modelVars
<1>3. SearchSpec => []Shape
  BY ImplementsUserNetworkRepositoryHolds, ShapeCorrect, PTL
<1> QED BY <1>1, <1>2, <1>3, KeysHold, OnlyFollowsHolds, PTL DEF SearchSpec

\* A phone's model, however old and of whichever account, only has followings
\* that its user once made.
THEOREM ModelFollowsTapsHolds == SearchSpec => []ModelFollowsTaps
<1>1. EdgesAreMade => ModelFollowsTaps
  BY DEF EdgesAreMade
<1> QED BY <1>1, EdgesAreMadeHolds, PTL

----------------------------------------------------------------------------
\* Whose documents a phone listens to, whose one is its model, and whom its list
\* leaves out, were all signed in in its process; when two users were, both have
\* shared it.
Shared ==
    /\ \A p \in Phones :
         /\ currentUser[p] # NoUser => currentUser[p] \in sessions[p]
         /\ subscriptions[p] \subseteq sessions[p]
         /\ userModel[p].userKey # NoUser => userModel[p].userKey \in subscriptions[p]
         /\ otherUsers[p] # {} => \E u \in sessions[p] : u \notin otherUsers[p]
         /\ \A u, v \in sessions[p] : u # v => u \in switched
    /\ \A c \in Calls :
         /\ call[c].op = "follow" /\ call[c].me = call[c].other => call[c].me \in switched

LEMMA SharedHolds == SearchSpec => []Shared
<1> USE DEF modelVars
<1>1. SearchInit => Shared
  BY DEF SearchInit, Init, Shared, NotMade, NoModel
<1>2. Keys /\ Shape /\ Shared /\ [SearchNext]_searchVars => Shared'
  <2> SUFFICES ASSUME Keys, Shape, Shared, [SearchNext]_searchVars
               PROVE  Shared'
    OBVIOUS
  <2>1. ASSUME NEW c \in Calls, NEW p \in Phones, NEW v \in Users, OnTap(c, p, v)
        PROVE  Shared'
    <3> DEFINE me == userModel[p].userKey
    <3>1. GetMine(c, "follow", me, v) /\ UNCHANGED phoneVars
      BY <2>1, TapsFollow DEF followUser
    <3>2. /\ call'[c].op = "follow" /\ call'[c].me = me /\ call'[c].other = v
          /\ \A b \in Calls \ {c} : call'[b] = call[b]
      BY <3>1, CallMade
    <3>3. ASSUME me = v
          PROVE  me \in switched
      <4>1. v \in otherUsers[p] /\ me \in sessions[p]
        BY <2>1, TapsFollow DEF Shared
      <4>2. PICK u \in sessions[p] : u \notin otherUsers[p]
        BY <4>1 DEF Shared
      <4> QED BY <3>3, <4>1, <4>2 DEF Shared
    <3> QED BY <3>1, <3>2, <3>3 DEF Shared, phoneVars
  <2>2. ASSUME NEW c \in Calls, NEW p \in Phones, NEW u \in Users, SignIn(c, p, u)
        PROVE  Shared'
    <3>1. attemptCreateUser(c, u) /\ UNCHANGED phoneVars
      BY <2>2 DEF SignIn
    <3>2. /\ call'[c].op = "create" /\ \A b \in Calls \ {c} : call'[b] = call[b]
      BY <3>1, CallMade
    <3> QED BY <3>1, <3>2 DEF Shared, phoneVars
  <2>3. ASSUME NEW c \in Calls, Answered(c)
        PROVE  Shared'
    <3>1. CallSteps(c) /\ UNCHANGED phoneVars
      BY <2>3 DEF Answered
    <3>2. \A b \in Calls : /\ call'[b].op = call[b].op
                           /\ call'[b].me = call[b].me /\ call'[b].other = call[b].other
      BY <3>1, CallKept
    <3> QED BY <3>1, <3>2 DEF Shared, phoneVars
  <2>4. ASSUME NEW p \in Phones, NEW u \in Users, SignsIn(p, u)
        PROVE  Shared'
    <3>1. /\ \A q \in Phones :
                /\ currentUser'[q] = IF q = p THEN u ELSE currentUser[q]
                /\ sessions'[q] = IF q = p THEN sessions[p] \cup {u} ELSE sessions[q]
          /\ switched \subseteq switched'
          /\ UNCHANGED <<subscriptions, userModel, otherUsers, call>>
      BY <2>4 DEF SignsIn, Keys, vars
    <3>2. sessions[p] \subseteq {u} \/ sessions[p] \cup {u} \subseteq switched'
      BY <2>4 DEF SignsIn
    <3>3. u \in otherUsers[p] /\ sessions[p] \subseteq {u} => otherUsers[p] = {}
      BY DEF Shared
    <3> QED BY <3>1, <3>2, <3>3 DEF Shared
  <2>5. ASSUME NEW p \in Phones, NEW u \in Users, HomeIsBuilt(p, u)
        PROVE  Shared'
    <3>1. u \in sessions[p]
          /\ \A q \in Phones :
                /\ subscriptions'[q] = IF q = p THEN subscriptions[p] \cup {u} ELSE subscriptions[q]
                /\ otherUsers'[q] \in {otherUsers[q], {}}
          /\ UNCHANGED <<currentUser, userModel, sessions, switched, call>>
      BY <2>5 DEF HomeIsBuilt, Keys, vars
    <3> QED BY <3>1 DEF Shared
  <2>6. ASSUME NEW p \in Phones, NEW u \in Users, UserModelArrives(p, u)
        PROVE  Shared'
    <3>1. PICK d \in Get(u) :
            userModel' = [userModel EXCEPT ![p] = [userKey |-> u,
                                                   followings |-> d.followings]]
      BY <2>6 DEF UserModelArrives
    <3>2. /\ u \in subscriptions[p]
          /\ UNCHANGED <<call, currentUser, subscriptions, otherUsers, sessions, switched>>
      BY <2>6 DEF UserModelArrives, vars
    <3>3. \A q \in Phones : userModel'[q].userKey = IF q = p THEN u ELSE userModel[q].userKey
      BY <3>1 DEF Keys
    <3> QED BY <3>2, <3>3 DEF Shared
  <2>7. ASSUME NEW p \in Phones, UsersArrive(p)
        PROVE  Shared'
    <3>1. /\ currentUser[p] # NoUser
          /\ \A q \in Phones \ {p} : otherUsers'[q] = otherUsers[q]
          /\ currentUser[p] \notin otherUsers'[p]
          /\ UNCHANGED <<call, currentUser, subscriptions, userModel, sessions, switched>>
      BY <2>7 DEF UsersArrive, UsersExceptMe, Keys, vars
    <3> QED BY <3>1 DEF Shared
  <2>8. ASSUME NEW p \in Phones, SignsOut(p) \/ AuthIsBuilt(p) \/ HomeIsGone(p)
        PROVE  Shared'
    <3>1. \A q \in Phones :
             /\ currentUser'[q] \in {currentUser[q], NoUser}
             /\ userModel'[q].userKey \in {userModel[q].userKey, NoUser}
             /\ otherUsers'[q] \in {otherUsers[q], {}}
      BY <2>8 DEF SignsOut, AuthIsBuilt, HomeIsGone, Keys, NoModel
    <3>2. UNCHANGED <<call, subscriptions, sessions, switched>>
      BY <2>8 DEF SignsOut, AuthIsBuilt, HomeIsGone, vars
    <3> QED BY <3>1, <3>2 DEF Shared
  <2>9. ASSUME NEW p \in Phones, Relaunch(p)
        PROVE  Shared'
    <3>1. \A q \in Phones :
             /\ subscriptions'[q] = IF q = p THEN {} ELSE subscriptions[q]
             /\ userModel'[q].userKey = IF q = p THEN NoUser ELSE userModel[q].userKey
             /\ otherUsers'[q] = IF q = p THEN {} ELSE otherUsers[q]
             /\ sessions'[q] = IF q = p THEN {currentUser[p]} \ {NoUser} ELSE sessions[q]
      BY <2>9 DEF Relaunch, Keys, NoModel
    <3>2. UNCHANGED <<call, currentUser, switched>>
      BY <2>9 DEF Relaunch, vars
    <3> QED BY <3>1, <3>2 DEF Shared
  <2>10. CASE UNCHANGED searchVars
    BY <2>10 DEF searchVars, vars, phoneVars, Shared
  <2> QED BY <2>1, <2>2, <2>3, <2>4, <2>5, <2>6, <2>7, <2>8, <2>9, <2>10, SearchCases
          DEF PhoneSteps
<1>3. SearchSpec => []Shape
  BY ImplementsUserNetworkRepositoryHolds, ShapeCorrect, PTL
<1> QED BY <1>1, <1>2, <1>3, KeysHold, PTL DEF SearchSpec

\* Only accounts that shared a process of a phone can come to follow themselves.
THEOREM SelfFollowNeedsSwitchHolds == SearchSpec => []SelfFollowNeedsSwitch
<1>1. EdgesAreMade /\ Shared => SelfFollowNeedsSwitch
  BY DEF EdgesAreMade, Shared, Made, SelfFollowNeedsSwitch
<1> QED BY <1>1, EdgesAreMadeHolds, SharedHolds, PTL

----------------------------------------------------------------------------
\* What a phone of the search screens does with its session is what PhoneSession
\* allows: together with ImplementsPhoneSessionHolds of MyAppProofs, the screens
\* assume nothing of the session that the app does not give them.
THEOREM ImplementsPhoneSessionsHolds ==
    ASSUME NEW p \in Phones
    PROVE  SearchSpec => Phone(p)!Spec
<1> USE DEF modelVars
<1>1. SearchInit => Phone(p)!Init
  BY DEF SearchInit, NoModel, Phone!Init
<1>2. Keys /\ [SearchNext]_searchVars => [Phone(p)!Next]_(Phone(p)!vars)
  <2> SUFFICES ASSUME Keys, [SearchNext]_searchVars
               PROVE  [Phone(p)!Next]_(Phone(p)!vars)
    OBVIOUS
  <2> DEFINE Same(q) == /\ currentUser'[q] = currentUser[q] /\ home'[q] = home[q]
                        /\ subscriptions'[q] = subscriptions[q]
                        /\ userModel'[q].userKey = userModel[q].userKey
                        /\ sessions'[q] = sessions[q]
  <2>1. Same(p) => UNCHANGED Phone(p)!vars
    BY DEF Phone!vars
  <2>2. ASSUME UNCHANGED phoneVars
        PROVE  Same(p)
    BY <2>2 DEF phoneVars
  <2>3. ASSUME NEW q \in Phones, q # p, PhoneSteps(q)
        PROVE  Same(p)
    <3>1. ASSUME NEW u \in Users, SignsIn(q, u) \/ HomeIsBuilt(q, u)
          PROVE  Same(p)
      BY <2>3, <3>1 DEF SignsIn, HomeIsBuilt, Keys
    <3>2. ASSUME NEW u \in Users, UserModelArrives(q, u)
          PROVE  Same(p)
      BY <2>3, <3>2 DEF UserModelArrives, Keys
    <3>3. CASE SignsOut(q) \/ AuthIsBuilt(q) \/ HomeIsGone(q) \/ UsersArrive(q)
      BY <2>3, <3>3 DEF SignsOut, AuthIsBuilt, HomeIsGone, UsersArrive, Keys
    <3>4. CASE Relaunch(q)
      BY <2>3, <3>4 DEF Relaunch, Keys
    <3> QED BY <2>3, <3>1, <3>2, <3>3, <3>4 DEF PhoneSteps
  <2>4. ASSUME PhoneSteps(p)
        PROVE  Phone(p)!Next \/ Same(p)
    <3>1. ASSUME NEW u \in Users, SignsIn(p, u)
          PROVE  Phone(p)!SignsIn(u)
      BY <3>1 DEF SignsIn, Keys, Phone!SignsIn
    <3>2. ASSUME NEW u \in Users, HomeIsBuilt(p, u)
          PROVE  Phone(p)!HomeIsBuilt(u)
      BY <3>2 DEF HomeIsBuilt, Keys, Phone!HomeIsBuilt
    <3>3. ASSUME NEW u \in Users, UserModelArrives(p, u)
          PROVE  Phone(p)!Snapshot(u)
      <4>1. PICK d \in Get(u) :
              userModel' = [userModel EXCEPT ![p] = [userKey |-> u,
                                                     followings |-> d.followings]]
        BY <3>3 DEF UserModelArrives
      <4>2. userModel'[p].userKey = u
        BY <4>1 DEF Keys
      <4> QED BY <3>3, <4>2 DEF UserModelArrives, Phone!Snapshot
    <3>4. CASE SignsOut(p)
      <4>1. Phone(p)!SignsOut
        BY <3>4 DEF SignsOut, Keys, Phone!SignsOut
      <4> QED BY <4>1 DEF Phone!Next
    <3>5. CASE AuthIsBuilt(p)
      <4>1. Phone(p)!AuthIsBuilt
        BY <3>5 DEF AuthIsBuilt, Keys, NoModel, Phone!AuthIsBuilt
      <4> QED BY <4>1 DEF Phone!Next
    <3>6. CASE HomeIsGone(p)
      <4>1. Phone(p)!HomeIsGone
        BY <3>6 DEF HomeIsGone, Keys, Phone!HomeIsGone
      <4> QED BY <4>1 DEF Phone!Next
    <3>7. CASE UsersArrive(p)
      BY <3>7 DEF UsersArrive
    <3>8. CASE Relaunch(p)
      <4>1. Phone(p)!Relaunch
        BY <3>8 DEF Relaunch, Keys, NoModel, Phone!Relaunch
      <4> QED BY <4>1 DEF Phone!Next
    <3> QED BY <2>4, <3>1, <3>2, <3>3, <3>4, <3>5, <3>6, <3>7, <3>8 DEF PhoneSteps, Phone!Next
  <2> HIDE DEF Same
  <2>5. Phone(p)!Next \/ Same(p)
    BY <2>2, <2>3, <2>4, SearchCases DEF OnTap, SignIn, Answered, searchVars
  <2> QED BY <2>1, <2>5
<1> QED BY <1>1, <1>2, KeysHold, PTL DEF SearchSpec, Phone!Spec
=============================================================================
