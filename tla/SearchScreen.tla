--------------------------- MODULE SearchScreen ---------------------------
(***************************************************************************)
(* lib/screens/search_screen.dart on several phones, over the repository   *)
(* of UserNetworkRepository: which calls the app really makes.             *)
(*                                                                         *)
(* Three notions of "me" meet in a tap.  The list was captured when its    *)
(* snapshot came, without the user the SDK had at that moment; the call is *)
(* made for the user of UserModelState, which holds the last snapshot of   *)
(* any document the phone listens to; and the home screen may be of a      *)
(* third.  Of the session each phone has what PhoneSession promises, and   *)
(* MyApp implements.                                                       *)
(***************************************************************************)
EXTENDS UserNetworkRepository

CONSTANT Phones

VARIABLES
    currentUser,    \* FirebaseAuth.instance.currentUser, on each phone
    home,           \* the home screen is shown, perhaps fading
    subscriptions,  \* users whose document the phone listens to
    userModel,      \* _userModel of each phone
    otherUsers,     \* the list of the search screen: snapshot.data
    sessions,       \* history: users the SDK has had in the phone's process
    switched        \* history: users who shared a process with another one

modelVars == <<subscriptions, userModel>>
phoneVars == <<currentUser, home, modelVars, otherUsers, sessions, switched>>
searchVars == <<vars, phoneVars>>

----------------------------------------------------------------------------
\* The part of UserModel that the screen reads; no key stands for null.
UserModel == [userKey : Users \cup {NoUser}, followings : SUBSET Users]

NoModel == [userKey |-> NoUser, followings |-> {}]

SearchInit ==
    /\ Init
    /\ currentUser = [p \in Phones |-> NoUser]
    /\ home = [p \in Phones |-> FALSE]
    /\ subscriptions = [p \in Phones |-> {}]
    /\ userModel = [p \in Phones |-> NoModel]
    /\ otherUsers = [p \in Phones |-> {}]
    /\ sessions = [p \in Phones |-> {}]
    /\ switched = {}

\* The SDK signs u in, perhaps over another user.
SignsIn(p, u) ==
    /\ currentUser[p] # u
    /\ currentUser' = [currentUser EXCEPT ![p] = u]
    /\ sessions' = [sessions EXCEPT ![p] = @ \cup {u}]
    /\ switched' = switched \cup
         IF sessions[p] \subseteq {u} THEN {} ELSE sessions[p] \cup {u}
    /\ UNCHANGED <<vars, home, modelVars, otherUsers>>

SignsOut(p) ==
    /\ currentUser[p] # NoUser
    /\ currentUser' = [currentUser EXCEPT ![p] = NoUser]
    /\ UNCHANGED <<vars, home, modelVars, otherUsers, sessions, switched>>

\* HomePage is built for u: _initUserModel adds a subscription.  A home screen
\* that is there is updated in place and keeps its list, in the static _screens;
\* over one that fades out there is a new one without.
HomeIsBuilt(p, u) ==
    /\ u \in sessions[p]
    /\ home' = [home EXCEPT ![p] = TRUE]
    /\ subscriptions' = [subscriptions EXCEPT ![p] = @ \cup {u}]
    /\ \E list \in {otherUsers[p], {}} : otherUsers' = [otherUsers EXCEPT ![p] = list]
    /\ UNCHANGED <<vars, currentUser, userModel, sessions, switched>>

\* The sign-in screen is built: clear() knows no subscription to cancel.
AuthIsBuilt(p) ==
    /\ userModel' = [userModel EXCEPT ![p] = NoModel]
    /\ UNCHANGED <<vars, currentUser, home, subscriptions, otherUsers, sessions, switched>>

\* The home screen has faded out.
HomeIsGone(p) ==
    /\ home[p]
    /\ home' = [home EXCEPT ![p] = FALSE]
    /\ otherUsers' = [otherUsers EXCEPT ![p] = {}]
    /\ UNCHANGED <<vars, currentUser, modelVars, sessions, switched>>

\* The process is started again, which is what ends subscriptions.
Relaunch(p) ==
    /\ home' = [home EXCEPT ![p] = FALSE]
    /\ subscriptions' = [subscriptions EXCEPT ![p] = {}]
    /\ userModel' = [userModel EXCEPT ![p] = NoModel]
    /\ otherUsers' = [otherUsers EXCEPT ![p] = {}]
    /\ sessions' = [sessions EXCEPT ![p] = {currentUser[p]} \ {NoUser}]
    /\ UNCHANGED <<vars, currentUser, switched>>

\* Mutant: the model gets the key of the SDK's user.
UserModelOfSession(p, u) ==
    /\ u \in subscriptions[p]
    /\ \E d \in Get(u) :
         /\ d.exists
         /\ userModel' = [userModel EXCEPT ![p] = [userKey |-> currentUser[p],
                                                   followings |-> d.followings]]
    /\ UNCHANGED <<vars, currentUser, home, subscriptions, otherUsers, sessions, switched>>

\* A snapshot of a document the phone listens to.
UserModelArrives(p, u) ==
    /\ u \in subscriptions[p]
    /\ \E d \in Get(u) :
         /\ d.exists
         /\ userModel' = [userModel EXCEPT ![p] = [userKey |-> u,
                                                   followings |-> d.followings]]
    /\ UNCHANGED <<vars, currentUser, home, subscriptions, otherUsers, sessions, switched>>

----------------------------------------------------------------------------
\* The documents a snapshot of the collection can have.  None is ever deleted,
\* so that a snapshot that is behind only lacks some of them.
AllUsers(p) == {v \in Users : \E d \in Get(v) : d.exists}

\* toUsersExceptMe: the user of the SDK at this moment is left out, whoever the
\* screen and the model are of.
UsersExceptMe(p) == AllUsers(p) \ {currentUser[p]}

\* getAllUsersWithoutMe: without a user, uid is read on null and nothing comes.
UsersArrive(p) ==
    /\ home[p]
    /\ currentUser[p] # NoUser
    /\ otherUsers' = [otherUsers EXCEPT ![p] = UsersExceptMe(p)]
    /\ UNCHANGED <<vars, currentUser, home, modelVars, sessions, switched>>

\* Mutant: the condition on the list is the right way round.
amIFollowingThisUserReally(p, v) == v \in userModel[p].followings

\* Whenever there is a following the answer is no; there is none to find in an
\* empty list either.
amIFollowingThisUser(p, v) ==
    /\ userModel[p].followings = {}
    /\ v \in userModel[p].followings

\* onTap of the tile of v; without a user model it throws.
OnTap(c, p, v) ==
    LET me == userModel[p].userKey IN
    /\ home[p]
    /\ v \in otherUsers[p]
    /\ me # NoUser
    /\ IF amIFollowingThisUser(p, v)
       THEN unfollowUser(c, me, v)
       ELSE followUser(c, me, v)
    /\ UNCHANGED phoneVars

\* attemptCreateUser, for a user that a phone has signed in.
SignIn(c, p, u) ==
    /\ u \in sessions[p]
    /\ attemptCreateUser(c, u)
    /\ UNCHANGED phoneVars

Answered(c) == CallSteps(c) /\ UNCHANGED phoneVars

SearchNext ==
    \/ \E c \in Calls :
         \/ \E p \in Phones, v \in Users : OnTap(c, p, v) \/ SignIn(c, p, v)
         \/ Answered(c)
    \/ \E p \in Phones :
         \/ \E u \in Users : SignsIn(p, u) \/ HomeIsBuilt(p, u) \/ UserModelArrives(p, u)
         \/ SignsOut(p)
         \/ AuthIsBuilt(p)
         \/ HomeIsGone(p)
         \/ UsersArrive(p)
         \/ Relaunch(p)

SearchSpec == SearchInit /\ [][SearchNext]_searchVars

----------------------------------------------------------------------------
SearchTypeOK ==
    /\ TypeOK
    /\ currentUser \in [Phones -> Users \cup {NoUser}]
    /\ home \in [Phones -> BOOLEAN]
    /\ subscriptions \in [Phones -> SUBSET Users]
    /\ userModel \in [Phones -> UserModel]
    /\ otherUsers \in [Phones -> SUBSET Users]
    /\ sessions \in [Phones -> SUBSET Users]
    /\ switched \subseteq Users

\* Nobody follows themselves, unless another user was signed in in the same
\* process of a phone: the list leaves out the user of the SDK at one moment, the
\* call is made for the user of the model at a later one, and only then can the
\* two differ, whatever home screen is up and however sign-ins overlap.
SelfFollowNeedsSwitch ==
    \A u \in Users : u \in users[u].followings => u \in switched

\* The followers count, which the repository computes from a stale read, is
\* never negative in the app: what would bring it there is never called.
CountNotNegative == \A v \in Users : users[v].followers >= 0

\* A phone never believes that the user of its model follows somebody they
\* were never made to follow, however far behind the model is and whichever
\* account it is of.
ModelFollowsTaps ==
    \A p \in Phones : \A v \in userModel[p].followings :
        \E c \in Calls : /\ call[c].op = "follow" /\ call[c].applied
                         /\ call[c].me = userModel[p].userKey
                         /\ call[c].other = v

\* Nobody is ever unfollowed in the app: a following goes away only with the
\* whole document, when the set of a first sign-in, late or sent again, replaces it.
NobodyIsUnfollowed ==
    [][\A u \in Users :
         \/ users[u].followings \subseteq users'[u].followings
         \/ \E c \in Calls : SetLands(c) /\ call[c].me = u]_searchVars

\* The comment at onTap: the value is flipped, true or false, and stored: who
\* is followed, as the phone knows, is unfollowed by a tap.
TapFlips ==
    [][\A c \in Calls, p \in Phones, v \in Users :
         OnTap(c, p, v) /\ v \in userModel[p].followings
             => call'[c].op = "unfollow"]_searchVars

\* What each phone has of its session is what PhoneSession allows, so that MyApp
\* can take its place.
Phone(p) == INSTANCE PhoneSession WITH
               currentUser <- currentUser[p], home <- home[p],
               subscriptions <- subscriptions[p], modelUser <- userModel[p].userKey,
               sessions <- sessions[p]
=============================================================================
