------------------------- MODULE FirebaseAuthState -------------------------
(***************************************************************************)
(* lib/models/firebase_auth_state.dart: the session of one phone.          *)
(*                                                                         *)
(* The session lives twice: in the Firebase SDK, which keeps the signed-in *)
(* user across restarts (platformUser), and in this object (_user and      *)
(* _firebaseAuthStatus).  The SDK reports to Dart through one channel that *)
(* keeps order: the events of authStateChanges() and the replies to the    *)
(* calls that are awaited.  A sign-in posts one of each, in either order,  *)
(* but signing in the user the SDK already has posts the reply alone.      *)
(*                                                                         *)
(* The methods are async and nothing keeps two of them apart: a second tap *)
(* before the screen is rebuilt starts a second one.  Handlers are the     *)
(* invocations that can be in progress at the same time.                   *)
(***************************************************************************)
EXTENDS Naturals, Sequences

CONSTANTS
    Users,     \* the uids of the accounts
    Handlers,  \* concurrent invocations of the object's methods
    Null       \* the null of Dart

ASSUME NullAssumption == Null \notin Users /\ Null \notin Handlers

VARIABLES
    accounts,            \* accounts that exist in Firebase Auth
    platformUser,        \* FirebaseAuth.currentUser, kept across restarts
    facebookSession,     \* the Facebook SDK's own session, kept as well
    channel,             \* messages from the SDK not yet handled by Dart
    firebaseAuthStatus,  \* _firebaseAuthStatus
    user,                \* _user
    facebookLogin,       \* _facebookLogin has been created
    dirty,               \* listeners were notified and have not been rebuilt
    handler,             \* the invocations in progress
    \* History, since the last tap on a sign-in or event:
    failed,              \* a sign-in failed
    again                \* a sign-in completed of the user the SDK already had

platformVars == <<accounts, platformUser, facebookSession>>
stateVars == <<firebaseAuthStatus, user, facebookLogin>>
authVars == <<platformVars, channel, stateVars, dirty, handler, failed, again>>

----------------------------------------------------------------------------
FirebaseAuthStatus == {"signout", "progress", "signin"}

Message == [type : {"event", "signedIn", "signedOut"},
            user : Users \cup {Null},
            to   : Handlers \cup {Null}]

SignInOps == {"registerUser", "logIn", "loginWithFacebook"}

HandlerState ==
    [pc   : {"idle",        \* not running
             "dialog",      \* _facebookLogin.logIn
             "auth",        \* createUser..., signInWith...
             "create",      \* attemptCreateUser
             "isLoggedIn",  \* _facebookLogin.isLoggedIn
             "logOut",      \* _facebookLogin.logOut
             "signOut",     \* _firebaseAuth.signOut
             "reply"},      \* the SDK has answered
     op   : SignInOps \cup {"signOut"},
     uid  : Users \cup {Null}]

Idle == [pc |-> "idle", op |-> "signOut", uid |-> Null]

Event(u) == [type |-> "event", user |-> u, to |-> Null]

SignedIn(h, u) == [type |-> "signedIn", user |-> u, to |-> h]

SignedOut(h) == [type |-> "signedOut", user |-> Null, to |-> h]

Finish(h) == handler' = [handler EXCEPT ![h] = Idle]

Advance(h, pc) == handler' = [handler EXCEPT ![h].pc = pc]

\* Mutant: notifyListeners is forgotten.
ChangeWithoutNotice(s) == firebaseAuthStatus' = s /\ UNCHANGED dirty

\* changeFirebaseAuthStatus called with a value, and without one.
changeFirebaseAuthStatusTo(s) ==
    /\ firebaseAuthStatus' = s
    /\ dirty' = TRUE

changeFirebaseAuthStatus ==
    changeFirebaseAuthStatusTo(IF user' # Null THEN "signin" ELSE "signout")

----------------------------------------------------------------------------
\* The process starts: watchAuthChange subscribes and is sent the user that
\* the SDK has kept.
AuthInit ==
    /\ accounts \in SUBSET Users
    /\ platformUser \in accounts \cup {Null}
    /\ facebookSession = FALSE
    /\ channel = <<Event(platformUser)>>
    /\ firebaseAuthStatus = "progress"
    /\ user = Null
    /\ facebookLogin = FALSE
    /\ dirty = TRUE
    /\ handler = [h \in Handlers |-> Idle]
    /\ failed = FALSE
    /\ again = FALSE

\* The process is killed and starts again.
Relaunch ==
    /\ channel' = <<Event(platformUser)>>
    /\ firebaseAuthStatus' = "progress"
    /\ user' = Null
    /\ facebookLogin' = FALSE
    /\ dirty' = TRUE
    /\ handler' = [h \in Handlers |-> Idle]
    /\ failed' = FALSE
    /\ again' = FALSE
    /\ UNCHANGED platformVars

\* Mutant: an event without a user is ignored.
WatchAuthChangeIgnoresNull ==
    /\ channel # <<>>
    /\ Head(channel).type = "event"
    /\ channel' = Tail(channel)
    /\ failed' = FALSE
    /\ again' = FALSE
    /\ IF Head(channel).user = Null
       THEN UNCHANGED <<firebaseAuthStatus, user, dirty>>
       ELSE user' = Head(channel).user /\ changeFirebaseAuthStatus
    /\ UNCHANGED <<platformVars, facebookLogin, handler>>

\* Mutant: an event is ignored while a session is shown.
WatchAuthChangeOnce ==
    /\ channel # <<>>
    /\ Head(channel).type = "event"
    /\ channel' = Tail(channel)
    /\ failed' = FALSE
    /\ again' = FALSE
    /\ IF firebaseAuthStatus = "signin"
       THEN UNCHANGED <<firebaseAuthStatus, user, dirty>>
       ELSE user' = Head(channel).user /\ changeFirebaseAuthStatus
    /\ UNCHANGED <<platformVars, facebookLogin, handler>>

\* The listener of watchAuthChange.  Every User object the SDK sends is a new
\* one and User has no ==, so that user # _user whenever either is not null.
WatchAuthChange ==
    /\ channel # <<>>
    /\ Head(channel).type = "event"
    /\ user' = Head(channel).user
    /\ changeFirebaseAuthStatus
    /\ channel' = Tail(channel)
    /\ failed' = FALSE
    /\ again' = FALSE
    /\ UNCHANGED <<platformVars, facebookLogin, handler>>

----------------------------------------------------------------------------
Start(h, op, pc, uid) ==
    /\ handler[h].pc = "idle"
    /\ handler' = [handler EXCEPT ![h] = [pc |-> pc, op |-> op, uid |-> uid]]

TapSignIn(h, op, pc, u) ==
    /\ Start(h, op, pc, u)
    /\ changeFirebaseAuthStatusTo("progress")
    /\ failed' = FALSE
    /\ again' = FALSE
    /\ UNCHANGED <<platformVars, channel, user>>

registerUser(h, u) ==
    /\ TapSignIn(h, "registerUser", "auth", u)
    /\ UNCHANGED facebookLogin

logIn(h, u) ==
    /\ TapSignIn(h, "logIn", "auth", u)
    /\ UNCHANGED facebookLogin

loginWithFacebook(h, u) ==
    /\ TapSignIn(h, "loginWithFacebook", "dialog", u)
    /\ facebookLogin' = TRUE

\* FacebookLoginStatus.loggedIn: _handleFacebookTokenWithFirebase.
FacebookLoggedIn(h) ==
    /\ handler[h].pc = "dialog"
    /\ facebookSession' = TRUE
    /\ Advance(h, "auth")
    /\ UNCHANGED <<accounts, platformUser, channel, stateVars, dirty, failed, again>>

\* cancelledByUser, or error (which also logs out of Facebook): a snack bar
\* and nothing else; the status stays progress.
FacebookRefused(h) ==
    /\ handler[h].pc = "dialog"
    /\ facebookSession' \in {facebookSession, FALSE}
    /\ failed' = TRUE
    /\ Finish(h)
    /\ UNCHANGED <<accounts, platformUser, channel, stateVars, dirty, again>>

\* The SDK signs in: createUserWithEmailAndPassword wants a new account,
\* signInWithEmailAndPassword one that exists, signInWithCredential either.
\* Its listeners are told only of another uid than the one they know.
SignInCompletes(h) ==
    LET u == handler[h].uid IN
    /\ handler[h].pc = "auth"
    /\ handler[h].op = "registerUser" => u \notin accounts
    /\ handler[h].op = "logIn" => u \in accounts
    /\ accounts' = accounts \cup {u}
    /\ platformUser' = u
    /\ channel' \in
         IF platformUser = u
         THEN {Append(channel, SignedIn(h, u))}
         ELSE {channel \o <<Event(u), SignedIn(h, u)>>,
               channel \o <<SignedIn(h, u), Event(u)>>}
    /\ again' = (again \/ platformUser = u)
    /\ Advance(h, "reply")
    /\ UNCHANGED <<facebookSession, stateVars, dirty, failed>>

\* The SDK refuses.  The catchError handler of the e-mail methods ends in
\* _scaffoldKey.currentState.showSnackBar, on a key no widget has: it throws,
\* and so does the await; the Facebook method has no handler at all.
SignInFails(h) ==
    /\ handler[h].pc = "auth"
    /\ failed' = TRUE
    /\ Finish(h)
    /\ UNCHANGED <<platformVars, channel, stateVars, dirty, again>>

\* _user = userCredential.user, without a notification.
SignInReply ==
    LET m == Head(channel) IN
    /\ channel # <<>>
    /\ m.type = "signedIn"
    /\ user' = m.user
    /\ channel' = Tail(channel)
    /\ IF handler[m.to].op = "logIn" THEN Finish(m.to) ELSE Advance(m.to, "create")
    /\ UNCHANGED <<platformVars, firebaseAuthStatus, facebookLogin, dirty, failed, again>>

\* attemptCreateUser returns; the Facebook method then notifies.
CreateReturns(h) ==
    /\ handler[h].pc = "create"
    /\ dirty' = (dirty \/ handler[h].op = "loginWithFacebook")
    /\ Finish(h)
    /\ UNCHANGED <<platformVars, channel, stateVars, failed, again>>

CreateThrows(h) ==
    /\ handler[h].pc = "create"
    /\ Finish(h)
    /\ UNCHANGED <<platformVars, channel, stateVars, dirty, failed, again>>

----------------------------------------------------------------------------
\* Mutant: the status is left as it is.
signOutKeepsStatus(h) ==
    /\ handler[h].pc = "idle"
    /\ dirty' = TRUE
    /\ user' = Null
    /\ IF user # Null /\ facebookLogin
       THEN Start(h, "signOut", "isLoggedIn", Null)
       ELSE UNCHANGED handler
    /\ UNCHANGED <<platformVars, channel, firebaseAuthStatus, facebookLogin, failed, again>>

\* signOut up to its first await.  _facebookLogin.isLoggedIn is read on null
\* unless this process has started a Facebook login: it throws, and
\* _firebaseAuth.signOut() and notifyListeners() are never reached.
signOut(h) ==
    /\ handler[h].pc = "idle"
    /\ changeFirebaseAuthStatusTo("signout")
    /\ user' = Null
    /\ IF user # Null /\ facebookLogin
       THEN Start(h, "signOut", "isLoggedIn", Null)
       ELSE UNCHANGED handler
    /\ UNCHANGED <<platformVars, channel, facebookLogin, failed, again>>

\* Mutant: without a Facebook session there is nothing to sign out of.
IsLoggedInAnswersReturns(h) ==
    /\ handler[h].pc = "isLoggedIn"
    /\ IF facebookSession THEN Advance(h, "logOut") ELSE Finish(h)
    /\ UNCHANGED <<platformVars, channel, stateVars, dirty, failed, again>>

IsLoggedInAnswers(h) ==
    /\ handler[h].pc = "isLoggedIn"
    /\ Advance(h, IF facebookSession THEN "logOut" ELSE "signOut")
    /\ UNCHANGED <<platformVars, channel, stateVars, dirty, failed, again>>

FacebookLoggedOut(h) ==
    /\ handler[h].pc = "logOut"
    /\ facebookSession' = FALSE
    /\ Advance(h, "signOut")
    /\ UNCHANGED <<accounts, platformUser, channel, stateVars, dirty, failed, again>>

\* The SDK signs out; without a current user there is no event to post.
SignOutCompletes(h) ==
    /\ handler[h].pc = "signOut"
    /\ platformUser' = Null
    /\ channel' \in
         IF platformUser = Null
         THEN {Append(channel, SignedOut(h))}
         ELSE {channel \o <<Event(Null), SignedOut(h)>>,
               channel \o <<SignedOut(h), Event(Null)>>}
    /\ Advance(h, "reply")
    /\ UNCHANGED <<accounts, facebookSession, stateVars, dirty, failed, again>>

\* The rest of signOut: notifyListeners.
SignOutReply ==
    LET m == Head(channel) IN
    /\ channel # <<>>
    /\ m.type = "signedOut"
    /\ channel' = Tail(channel)
    /\ dirty' = TRUE
    /\ Finish(m.to)
    /\ UNCHANGED <<platformVars, stateVars, failed, again>>

----------------------------------------------------------------------------
\* The listeners are rebuilt, on the frame after a notification.
Rebuild ==
    /\ dirty
    /\ dirty' = FALSE
    /\ UNCHANGED <<platformVars, channel, stateVars, handler, failed, again>>

\* What Dart does with a message of the channel.
HandleMessage == WatchAuthChange \/ SignInReply \/ SignOutReply

\* What the SDKs and Firestore answer to invocation h.
Answer(h) ==
    \/ FacebookLoggedIn(h)
    \/ FacebookRefused(h)
    \/ SignInCompletes(h)
    \/ SignInFails(h)
    \/ CreateReturns(h)
    \/ CreateThrows(h)
    \/ IsLoggedInAnswers(h)
    \/ FacebookLoggedOut(h)
    \/ SignOutCompletes(h)

SignInTap(h) ==
    \E u \in Users : registerUser(h, u) \/ logIn(h, u) \/ loginWithFacebook(h, u)

AuthNext ==
    \/ HandleMessage
    \/ \E h \in Handlers : SignInTap(h) \/ signOut(h) \/ Answer(h)
    \/ Rebuild
    \/ Relaunch

AuthSpec == AuthInit /\ [][AuthNext]_authVars

----------------------------------------------------------------------------
AuthTypeOK ==
    /\ accounts \subseteq Users
    /\ platformUser \in Users \cup {Null}
    /\ facebookSession \in BOOLEAN
    /\ channel \in Seq(Message)
    /\ firebaseAuthStatus \in FirebaseAuthStatus
    /\ user \in Users \cup {Null}
    /\ facebookLogin \in BOOLEAN
    /\ dirty \in BOOLEAN
    /\ handler \in [Handlers -> HandlerState]
    /\ failed \in BOOLEAN
    /\ again \in BOOLEAN

\* The builder of MyApp reads user.uid whenever the status is signin, also in
\* the middle of a sign-out or of two overlapping sign-ins: it is never null.
SigninHasUser == firebaseAuthStatus = "signin" => user # Null

\* The progress screen has a way out: a sign-in still awaits the SDK, or an
\* event is on its way.  The exceptions are a sign-in that failed, and one of
\* the user the SDK already had, as after a sign-out that threw on its way to
\* the SDK: its reply writes _user without a notification, and no event comes.
ProgressEnds ==
    firebaseAuthStatus = "progress" =>
        \/ failed \/ again
        \/ \E h \in Handlers : handler[h].pc \in {"dialog", "auth"}
        \/ \E i \in 1..Len(channel) : channel[i].type = "event"

\* Once everything the SDK has said is handled, a phone that shows a session
\* shows the session of the SDK: overlapping sign-ins and sign-outs, whose
\* replies write _user in their own order, cannot leave another one.
AgreesWhenQuiet ==
    channel = <<>> /\ firebaseAuthStatus = "signin" => user = platformUser
=============================================================================
