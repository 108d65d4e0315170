------------------------------- MODULE MyApp -------------------------------
(***************************************************************************)
(* lib/main.dart: the screens of one phone and the user model behind them, *)
(* driven by FirebaseAuthState.  Adds to that module the builder of MyApp, *)
(* UserModelState (lib/models/user_model_state.dart), the subscriptions to *)
(* documents of COLLECTION_USERS, and where the user can tap.              *)
(***************************************************************************)
EXTENDS FirebaseAuthState

VARIABLES
    screen,            \* _currentWidget
    mounted,           \* the screens AnimatedSwitcher shows, old ones fading
    subscriptions,     \* users whose document somebody listens to
    currentStreamSub,  \* _currentStreamSub of UserModelState, by user
    userModel,         \* userKey of _userModel
    docs,              \* the users that have a document
    sessions           \* history: users the SDK has had in this process

modelVars == <<subscriptions, currentStreamSub, userModel>>
screenVars == <<screen, mounted>>
appVars == <<authVars, screenVars, modelVars, docs, sessions>>

----------------------------------------------------------------------------
Screens == {"auth", "home", "progress"}

ScreenOf(status) ==
    CASE status = "signout"  -> "auth"
      [] status = "signin"   -> "home"
      [] status = "progress" -> "progress"

Init ==
    /\ AuthInit
    /\ docs \in SUBSET accounts
    /\ screen = "progress"
    /\ mounted = {"progress"}
    /\ subscriptions = {}
    /\ currentStreamSub = Null
    /\ userModel = Null
    /\ sessions = {platformUser} \ {Null}

\* The setter of currentStreamSub evaluates the field and stores nothing.
SetCurrentStreamSub(u) == UNCHANGED currentStreamSub

\* Mutant: it listens to the user of the model it has.
InitUserModelOfModel(u) ==
    /\ subscriptions' = subscriptions \cup {userModel}
    /\ SetCurrentStreamSub(u)
    /\ UNCHANGED userModel

\* Mutant: it listens only when there is no model yet.
InitUserModelOnce(u) ==
    /\ subscriptions' = IF userModel = Null THEN subscriptions \cup {u} ELSE subscriptions
    /\ SetCurrentStreamSub(u)
    /\ UNCHANGED userModel

\* _initUserModel: one more subscription, the earlier ones go on.
InitUserModel(u) ==
    /\ subscriptions' = subscriptions \cup {u}
    /\ SetCurrentStreamSub(u)
    /\ UNCHANGED userModel

\* clear: cancels the subscription it knows of.
Clear ==
    /\ subscriptions' = subscriptions \ {currentStreamSub}
    /\ currentStreamSub' = Null
    /\ userModel' = Null

\* The builder of Consumer<FirebaseAuthState>.
Build ==
    /\ Rebuild
    /\ screen' = ScreenOf(firebaseAuthStatus)
    /\ mounted' = mounted \cup {screen'}
    /\ CASE firebaseAuthStatus = "signout"  -> Clear
         [] firebaseAuthStatus = "signin"   -> InitUserModel(user)
         [] firebaseAuthStatus = "progress" -> UNCHANGED modelVars
    /\ UNCHANGED <<docs, sessions>>

\* After 400 ms AnimatedSwitcher drops the screens it has faded out.
FadeEnds ==
    /\ mounted # {screen}
    /\ mounted' = {screen}
    /\ UNCHANGED <<authVars, screen, modelVars, docs, sessions>>

\* A snapshot of u's document, first or changed, reaches a subscription.  One
\* of a missing document fails in UserModel.fromMap and changes nothing.
Snapshot(u) ==
    /\ u \in subscriptions \cap docs
    /\ userModel' = u
    /\ UNCHANGED <<authVars, screenVars, subscriptions, currentStreamSub, docs, sessions>>

\* attemptCreateUser has returned: the document is there.
DocumentCreated(h) ==
    /\ CreateReturns(h)
    /\ docs' = docs \cup {handler[h].uid}
    /\ UNCHANGED <<screenVars, modelVars, sessions>>

OtherAnswer(h) ==
    /\ Answer(h)
    /\ ~CreateReturns(h)
    /\ sessions' = sessions \cup ({platformUser'} \ {Null})
    /\ UNCHANGED <<screenVars, modelVars, docs>>

AnswerTo(h) == DocumentCreated(h) \/ OtherAnswer(h)

\* The form of AuthScreen and the side menu of the profile: they take taps as
\* long as they are on the screen.
Tap(h) ==
    /\ \/ "auth" \in mounted /\ SignInTap(h)
       \/ "home" \in mounted /\ signOut(h)
    /\ UNCHANGED <<screenVars, modelVars, docs, sessions>>

Handle == HandleMessage /\ UNCHANGED <<screenVars, modelVars, docs, sessions>>

Restart ==
    /\ Relaunch
    /\ screen' = "progress"
    /\ mounted' = {"progress"}
    /\ subscriptions' = {}
    /\ currentStreamSub' = Null
    /\ userModel' = Null
    /\ sessions' = {platformUser} \ {Null}
    /\ UNCHANGED docs

Next ==
    \/ Handle
    \/ \E h \in Handlers : Tap(h) \/ AnswerTo(h)
    \/ Build
    \/ FadeEnds
    \/ \E u \in Users : Snapshot(u)
    \/ Restart

\* Dart handles its messages, Flutter draws its frames and ends its fades, the
\* SDKs answer every call, and Firestore brings every subscription its data.
\* Nobody has to tap, and the process need never be restarted.
Fairness ==
    /\ WF_appVars(Handle)
    /\ WF_appVars(Build)
    /\ WF_appVars(FadeEnds)
    /\ \A h \in Handlers : WF_appVars(AnswerTo(h))
    /\ \A u \in Users : WF_appVars(Snapshot(u))

Spec == Init /\ [][Next]_appVars

FairSpec == Spec /\ Fairness

----------------------------------------------------------------------------
TypeOK ==
    /\ AuthTypeOK
    /\ screen \in Screens
    /\ mounted \subseteq Screens
    /\ subscriptions \subseteq Users
    /\ currentStreamSub \in Users \cup {Null}
    /\ userModel \in Users \cup {Null}
    /\ docs \subseteq Users
    /\ sessions \subseteq Users

\* The comment of FirebaseAuthState: every change of state is shown.  Between
\* frames the screen is the one of the status, although signOut writes the
\* status after its notification and other methods write _user without one.
ScreenShowsStatus == ~dirty => screen = ScreenOf(firebaseAuthStatus)

\* Once every message is handled and drawn, the home screen is the one of the
\* user the SDK has signed in, and somebody listens to that user's document.
HomeIsOfTheSession ==
    channel = <<>> /\ ~dirty /\ screen = "home" =>
        user = platformUser /\ user \in subscriptions

\* A spinner is not for ever: unless a sign-in failed, or was of the user the
\* SDK already had, the screen of progress is left, whatever was tapped twice
\* and in whatever order answers come.
ProgressIsLeft ==
    firebaseAuthStatus = "progress" /\ ~failed /\ ~again
        ~> firebaseAuthStatus # "progress" \/ failed \/ again

\* The home screen gets its data: a signed-in user with a document becomes the
\* user model, unless the session ends first; the document may be created
\* after the home screen was built.
HomeGetsItsModel ==
    \A u \in Users :
        screen = "home" /\ user = u /\ u \in docs
            ~> userModel = u \/ user # u \/ firebaseAuthStatus # "signin"

\* A sign-out that gets past its Facebook check reaches the SDK: the kept
\* session is dropped, unless a sign-in or a restart comes in between.
SignOutReachesTheSdk ==
    \A h \in Handlers :
        handler[h].pc = "isLoggedIn"
            ~> platformUser = Null \/ firebaseAuthStatus = "progress"

\* The comment of loginWithFacebook: the context is there to show a snack bar,
\* which takes a context whose screen is still there.
RefusalCanBeShown ==
    [][\A h \in Handlers : FacebookRefused(h) => "auth" \in mounted]_appVars

\* Every step of the app is a step of the session or leaves it alone.
ImplementsFirebaseAuthState == AuthSpec

\* What the other screens rely on: the home screen, and the user model, are
\* only ever of users that the SDK has had since the process was started, in
\* whatever order events, replies, frames, fades and snapshots come.
Phone == INSTANCE PhoneSession WITH
            NoUser <- Null, currentUser <- platformUser,
            home <- ("home" \in mounted), modelUser <- userModel

ImplementsPhoneSession == Phone!Spec
=============================================================================
