---------------------------- MODULE PhoneSession ----------------------------
(***************************************************************************)
(* What the screens may rely on about the session of a phone: the user of  *)
(* the SDK, whether the home screen is up, whose documents the phone       *)
(* listens to, and whose document is the user model.  MyApp implements it; *)
(* SearchScreen is several of them over one collection.                    *)
(***************************************************************************)
CONSTANTS Users, NoUser

VARIABLES
    currentUser,    \* of the Firebase SDK, which keeps it across restarts
    home,           \* the home screen is shown, perhaps fading
    subscriptions,  \* users whose document the phone listens to
    modelUser,      \* the user of the user model
    sessions        \* history: the users the SDK has had in this process

vars == <<currentUser, home, subscriptions, modelUser, sessions>>

----------------------------------------------------------------------------
Init ==
    /\ currentUser \in Users \cup {NoUser}
    /\ home = FALSE
    /\ subscriptions = {}
    /\ modelUser = NoUser
    /\ sessions = {currentUser} \ {NoUser}

SignsIn(u) ==
    /\ currentUser' = u
    /\ sessions' = sessions \cup {u}
    /\ UNCHANGED <<home, subscriptions, modelUser>>

SignsOut ==
    /\ currentUser' = NoUser
    /\ UNCHANGED <<home, subscriptions, modelUser, sessions>>

\* The user whose home is built has signed in in this process, but may have
\* been followed by another one; other subscriptions go on.
HomeIsBuilt(u) ==
    /\ u \in sessions
    /\ home' = TRUE
    /\ subscriptions' = subscriptions \cup {u}
    /\ UNCHANGED <<currentUser, modelUser, sessions>>

AuthIsBuilt ==
    /\ modelUser' = NoUser
    /\ UNCHANGED <<currentUser, home, subscriptions, sessions>>

HomeIsGone ==
    /\ home
    /\ home' = FALSE
    /\ UNCHANGED <<currentUser, subscriptions, modelUser, sessions>>

Snapshot(u) ==
    /\ u \in subscriptions
    /\ modelUser' = u
    /\ UNCHANGED <<currentUser, home, subscriptions, sessions>>

Relaunch ==
    /\ home' = FALSE
    /\ subscriptions' = {}
    /\ modelUser' = NoUser
    /\ sessions' = {currentUser} \ {NoUser}
    /\ UNCHANGED currentUser

Next ==
    \/ \E u \in Users : SignsIn(u) \/ HomeIsBuilt(u) \/ Snapshot(u)
    \/ SignsOut
    \/ AuthIsBuilt
    \/ HomeIsGone
    \/ Relaunch

Spec == Init /\ [][Next]_vars
=============================================================================
