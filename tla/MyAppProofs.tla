---------------------------- MODULE MyAppProofs ----------------------------
(***************************************************************************)
(* Theorems about MyApp: it implements FirebaseAuthState, and therefore    *)
(* inherits what is proved of the session; and what its screens show.      *)
(***************************************************************************)
EXTENDS MyApp, FirebaseAuthStateProofs

\* Every step of the app is a step of the session, or leaves it alone.
THEOREM ImplementsFirebaseAuthStateHolds == Spec => ImplementsFirebaseAuthState
<1>1. Init => AuthInit
  BY DEF Init
<1>2. [Next]_appVars => [AuthNext]_authVars
  <2> SUFFICES ASSUME [Next]_appVars
               PROVE  [AuthNext]_authVars
    OBVIOUS
  <2>1. CASE Handle
    BY <2>1 DEF Handle, AuthNext
  <2>2. ASSUME NEW h \in Handlers, Tap(h)
        PROVE  AuthNext
    BY <2>2 DEF Tap, AuthNext
  <2>3. ASSUME NEW h \in Handlers, AnswerTo(h)
        PROVE  AuthNext
    BY <2>3 DEF AnswerTo, DocumentCreated, OtherAnswer, Answer, AuthNext
  <2>4. CASE Build \/ Restart
    BY <2>4 DEF Build, Restart, AuthNext
  <2>5. CASE FadeEnds \/ UNCHANGED appVars \/ \E u \in Users : Snapshot(u)
    BY <2>5 DEF FadeEnds, Snapshot, appVars
  <2> QED BY <2>1, <2>2, <2>3, <2>4, <2>5 DEF Next
<1> QED BY <1>1, <1>2, PTL DEF Spec, ImplementsFirebaseAuthState, AuthSpec

\* What is proved of the session holds in the app.
LEMMA SessionFacts ==
    Spec => [](AuthShape /\ SigninHasUser /\ LastWord /\ Agrees)
BY ImplementsFirebaseAuthStateHolds, AuthShapeCorrect, SigninHasUserHolds, LastWordHolds,
   AgreesHolds, PTL DEF ImplementsFirebaseAuthState

----------------------------------------------------------------------------
\* Next, sorted by what it does to the screen and the subscriptions.
LEMMA AppCases ==
    ASSUME [Next]_appVars
    PROVE  \/ HandleMessage /\ UNCHANGED <<screen, mounted, subscriptions>>
           \/ \E h \in Handlers :
                 /\ Silent(h) \/ SignInCompletes(h) \/ SignOutCompletes(h)
                 /\ UNCHANGED <<screen, subscriptions>>
           \/ Build
           \/ UNCHANGED <<authVars, screen, subscriptions>>
           \/ Restart
<1> USE DEF screenVars, modelVars
<1>1. CASE Handle
  BY <1>1 DEF Handle
<1>2. ASSUME NEW h \in Handlers, Tap(h) \/ AnswerTo(h)
      PROVE  /\ Silent(h) \/ SignInCompletes(h) \/ SignOutCompletes(h)
             /\ UNCHANGED <<screen, subscriptions>>
  BY <1>2 DEF Tap, AnswerTo, DocumentCreated, OtherAnswer, Answer, Silent
<1>3. CASE FadeEnds \/ UNCHANGED appVars \/ \E u \in Users : Snapshot(u)
  BY <1>3 DEF FadeEnds, Snapshot, appVars
<1> QED BY <1>1, <1>2, <1>3 DEF Next

\* Silent steps that change the status notify; none but a reply changes the
\* user of a session that is shown.
LEMMA SilentShows ==
    ASSUME NEW h \in Handlers, Silent(h) \/ SignInCompletes(h) \/ SignOutCompletes(h),
           dirty \in BOOLEAN
    PROVE  /\ ~dirty' => ~dirty /\ UNCHANGED <<firebaseAuthStatus, user>>
BY DEF Silent, SignInTap, registerUser, logIn, loginWithFacebook, TapSignIn,
   changeFirebaseAuthStatusTo, signOut, FacebookLoggedIn, FacebookRefused, SignInFails,
   CreateReturns, CreateThrows, IsLoggedInAnswers, FacebookLoggedOut,
   SignInCompletes, SignOutCompletes, platformVars, stateVars

\* Between frames the screen is the one of the status.
THEOREM ScreenShowsStatusHolds == Spec => []ScreenShowsStatus
<1>1. Init => ScreenShowsStatus
  BY DEF Init, AuthInit, ScreenShowsStatus
<1>2. AuthShape /\ ScreenShowsStatus /\ [Next]_appVars => ScreenShowsStatus'
  <2> SUFFICES ASSUME AuthShape, ScreenShowsStatus, [Next]_appVars, ~dirty'
               PROVE  screen' = ScreenOf(firebaseAuthStatus')
    BY DEF ScreenShowsStatus
  <2>0. dirty \in BOOLEAN
    BY DEF AuthShape, AuthTypeOK
  <2>1. CASE HandleMessage /\ UNCHANGED <<screen, mounted, subscriptions>>
    BY <2>1 DEF HandleMessage, WatchAuthChange, SignInReply, SignOutReply,
       changeFirebaseAuthStatus, changeFirebaseAuthStatusTo, ScreenShowsStatus
  <2>2. ASSUME NEW h \in Handlers,
               Silent(h) \/ SignInCompletes(h) \/ SignOutCompletes(h),
               UNCHANGED <<screen, subscriptions>>
        PROVE  screen' = ScreenOf(firebaseAuthStatus')
    BY <2>0, <2>2, SilentShows DEF ScreenShowsStatus
  <2>3. CASE Build
    BY <2>3 DEF Build, Rebuild, stateVars
  <2>4. CASE UNCHANGED <<authVars, screen, subscriptions>>
    BY <2>4 DEF authVars, stateVars, ScreenShowsStatus
  <2>5. CASE Restart
    BY <2>5 DEF Restart, Relaunch
  <2> QED BY <2>1, <2>2, <2>3, <2>4, <2>5, AppCases
<1> QED BY <1>1, <1>2, SessionFacts, PTL DEF Spec

\* Unless an event is on its way, somebody listens to the document of the user
\* whose session is shown.
ShownIsSubscribed ==
    /\ firebaseAuthStatus = "signin" /\ ~dirty
    /\ \A i \in 1..Len(channel) : channel[i].type # "event"
    => user \in subscriptions

\* The user of a session that is shown has a subscription.
LEMMA ShownIsSubscribedHolds == Spec => []ShownIsSubscribed
<1> USE DEF platformVars, stateVars
<1>1. Init => ShownIsSubscribed
  BY DEF Init, AuthInit, ShownIsSubscribed
<1>2. /\ AuthShape /\ LastWord /\ Agrees /\ Agrees'
      /\ ShownIsSubscribed /\ [Next]_appVars
      => ShownIsSubscribed'
  <2> SUFFICES ASSUME AuthShape, Agrees, Agrees', ShownIsSubscribed, [Next]_appVars,
                      firebaseAuthStatus' = "signin", ~dirty',
                      \A i \in 1..Len(channel') : channel'[i].type # "event"
               PROVE  user' \in subscriptions'
    BY DEF ShownIsSubscribed
  <2>0. channel \in Seq(Message) /\ Len(channel) \in Nat /\ dirty \in BOOLEAN
    BY DEF AuthShape, AuthTypeOK
  <2>1. user' = platformUser'
    BY DEF Agrees
  <2>2. CASE HandleMessage /\ UNCHANGED <<screen, mounted, subscriptions>>
    <3>1. CASE WatchAuthChange \/ SignOutReply
      BY <3>1 DEF WatchAuthChange, SignOutReply, changeFirebaseAuthStatus,
         changeFirebaseAuthStatusTo
    <3>2. CASE SignInReply
      <4>1. /\ channel # <<>> /\ channel' = Tail(channel) /\ Head(channel) = channel[1]
            /\ Head(channel).type # "event"
            /\ UNCHANGED <<firebaseAuthStatus, dirty, platformUser>>
        BY <2>2, <3>2, MessageStep DEF SignInReply
      <4>2. Len(channel') = Len(channel) - 1
        BY <2>0, <4>1, TailFacts
      <4>3. ASSUME NEW j \in 1..Len(channel)
            PROVE  channel[j].type # "event"
        <5>1. CASE j = 1
          BY <4>1, <5>1
        <5>2. CASE j # 1
          <6>1. j - 1 \in 1..Len(channel') /\ (j - 1) + 1 = j
            BY <2>0, <4>2, <5>2
          <6>2. channel'[j - 1] = channel[j]
            BY <2>0, <4>1, <6>1, TailFacts
          <6> QED BY <6>1, <6>2
        <5> QED BY <5>1, <5>2
      <4>4. user = platformUser /\ user \in subscriptions
        BY <4>1, <4>3 DEF Agrees, ShownIsSubscribed
      <4> QED BY <2>1, <2>2, <4>1, <4>4
    <3> QED BY <2>2, <3>1, <3>2 DEF HandleMessage
  <2>3. ASSUME NEW h \in Handlers,
               Silent(h) \/ SignInCompletes(h) \/ SignOutCompletes(h),
               UNCHANGED <<screen, subscriptions>>
        PROVE  user' \in subscriptions'
    <3>1. ~dirty /\ UNCHANGED <<firebaseAuthStatus, user>>
      BY <2>0, <2>3, SilentShows
    <3>2. \A i \in 1..Len(channel) : channel[i].type # "event"
      <4>1. CASE Silent(h)
        BY <4>1, SilentStep
      <4>2. CASE SignInCompletes(h) \/ SignOutCompletes(h)
        BY <4>2, PostedMessages
      <4> QED BY <2>3, <4>1, <4>2
    <3> QED BY <2>3, <3>1, <3>2 DEF ShownIsSubscribed
  <2>4. CASE Build
    BY <2>4 DEF Build, Rebuild, InitUserModel
  <2>5. CASE UNCHANGED <<authVars, screen, subscriptions>>
    BY <2>5 DEF authVars, ShownIsSubscribed
  <2>6. CASE Restart
    BY <2>6 DEF Restart, Relaunch
  <2> QED BY <2>2, <2>3, <2>4, <2>5, <2>6, AppCases
<1> QED BY <1>1, <1>2, SessionFacts, PTL DEF Spec

\* When everything is handled and drawn, the home screen is the one of the
\* user the SDK has signed in, and that user's document is listened to.
THEOREM HomeIsOfTheSessionHolds == Spec => []HomeIsOfTheSession
<1>1. AuthShape /\ Agrees /\ ScreenShowsStatus /\ ShownIsSubscribed => HomeIsOfTheSession
  <2> SUFFICES ASSUME AuthShape, Agrees, ScreenShowsStatus, ShownIsSubscribed,
                      channel = <<>>, ~dirty, screen = "home"
               PROVE  user = platformUser /\ user \in subscriptions
    BY DEF HomeIsOfTheSession
  <2>1. \A i \in 1..Len(channel) : channel[i].type # "event"
    OBVIOUS
  <2>2. firebaseAuthStatus = "signin"
    BY DEF ScreenShowsStatus, ScreenOf, AuthShape, AuthTypeOK, FirebaseAuthStatus
  <2> QED BY <2>1, <2>2 DEF Agrees, ShownIsSubscribed
<1> QED BY <1>1, SessionFacts, ScreenShowsStatusHolds, ShownIsSubscribedHolds, PTL

----------------------------------------------------------------------------
\* The screens, the user model and its subscriptions keep their types: every
\* subscription is to an account's document, because the builder never sees a
\* session without a user.
THEOREM TypeCorrect == Spec => []TypeOK
<1> DEFINE AppTypes == /\ screen \in Screens
                       /\ mounted \subseteq Screens
                       /\ subscriptions \subseteq Users
                       /\ currentStreamSub \in Users \cup {Null}
                       /\ userModel \in Users \cup {Null}
                       /\ docs \subseteq Users
                       /\ sessions \subseteq Users
<1> USE DEF screenVars, modelVars
<1>1. Init => AppTypes
  BY DEF Init, AuthInit, Screens
<1>2. /\ AuthShape /\ AuthShape' /\ SigninHasUser /\ UidKnown /\ AppTypes
      /\ [Next]_appVars
      => AppTypes'
  <2> SUFFICES ASSUME AuthShape, AuthShape', SigninHasUser, UidKnown, AppTypes,
                      [Next]_appVars
               PROVE  AppTypes'
    OBVIOUS
  <2>1. CASE Handle \/ FadeEnds \/ UNCHANGED appVars
    BY <2>1 DEF Handle, FadeEnds, appVars
  <2>2. ASSUME NEW h \in Handlers, Tap(h) \/ OtherAnswer(h)
        PROVE  AppTypes'
    BY <2>2 DEF Tap, OtherAnswer, AuthShape, AuthTypeOK
  <2>3. ASSUME NEW h \in Handlers, DocumentCreated(h)
        PROVE  AppTypes'
    BY <2>3 DEF DocumentCreated, CreateReturns, UidKnown
  <2>4. CASE Build
    <3>1. firebaseAuthStatus \in {"signout", "signin", "progress"}
      BY DEF AuthShape, AuthTypeOK, FirebaseAuthStatus
    <3>2. /\ screen' \in Screens /\ mounted' \subseteq Screens
          /\ docs' = docs /\ sessions' = sessions
      BY <2>4, <3>1 DEF Build, ScreenOf, Screens
    <3>3. CASE firebaseAuthStatus = "signout"
      BY <2>4, <3>2, <3>3 DEF Build, Clear
    <3>4. CASE firebaseAuthStatus = "signin"
      <4>1. user \in Users
        BY <3>4 DEF SigninHasUser, AuthShape, AuthTypeOK
      <4> QED BY <2>4, <3>2, <3>4, <4>1 DEF Build, InitUserModel, SetCurrentStreamSub
    <3>5. CASE firebaseAuthStatus = "progress"
      BY <2>4, <3>2, <3>5 DEF Build
    <3> QED BY <3>1, <3>3, <3>4, <3>5
  <2>5. ASSUME NEW u \in Users, Snapshot(u)
        PROVE  AppTypes'
    BY <2>5 DEF Snapshot
  <2>6. CASE Restart
    <3>1. platformUser \in Users \cup {Null}
      BY DEF AuthShape, AuthTypeOK
    <3> QED BY <2>6, <3>1 DEF Restart, Screens
  <2> QED BY <2>1, <2>2, <2>3, <2>4, <2>5, <2>6 DEF Next, AnswerTo
<1>3. AuthShape /\ AppTypes => TypeOK
  BY DEF AuthShape, TypeOK
<1>4. Spec => []UidKnown
  BY ImplementsFirebaseAuthStateHolds, UidKnownHolds, PTL DEF ImplementsFirebaseAuthState
<1> HIDE DEF AppTypes
<1> QED BY <1>1, <1>2, <1>3, <1>4, SessionFacts, PTL DEF Spec

----------------------------------------------------------------------------
\* Whoever the SDK has, has reported or is shown, it has had since the process
\* was started.
SessionsKnown ==
    /\ platformUser \in sessions \cup {Null}
    /\ user \in sessions \cup {Null}
    /\ \A i \in 1..Len(channel) :
          channel[i].type \in {"event", "signedIn"} => channel[i].user \in sessions \cup {Null}

LEMMA SessionsKnownHolds == Spec => []SessionsKnown
<1> USE DEF platformVars, stateVars
<1>1. Init => SessionsKnown
  BY DEF Init, AuthInit, SessionsKnown, Event
<1>2. AuthShape /\ SessionsKnown /\ [Next]_appVars => SessionsKnown'
  <2> SUFFICES ASSUME AuthShape, SessionsKnown, [Next]_appVars
               PROVE  SessionsKnown'
    OBVIOUS
  <2>1. CASE Handle
    <3>1. HandleMessage /\ sessions' = sessions /\ platformUser' = platformUser
      BY <2>1 DEF Handle, HandleMessage, WatchAuthChange, SignInReply, SignOutReply
    <3>2. channel # <<>> /\ channel \in Seq(Message) /\ channel' = Tail(channel)
      BY <3>1, MessageStep DEF AuthShape, AuthTypeOK
    <3>3. \A i \in 1..Len(channel') : i + 1 \in 1..Len(channel) /\ channel'[i] = channel[i + 1]
      BY <3>2, TailFacts
    <3>4. 1 \in 1..Len(channel) /\ Head(channel) = channel[1]
      BY <3>2, TailFacts
    <3>5. \/ user' = user
          \/ user' = channel[1].user /\ channel[1].type \in {"event", "signedIn"}
      BY <3>1, <3>4 DEF HandleMessage, WatchAuthChange, SignInReply, SignOutReply
    <3> QED BY <3>1, <3>3, <3>4, <3>5 DEF SessionsKnown
  <2>2. ASSUME NEW h \in Handlers, Tap(h) \/ AnswerTo(h)
        PROVE  SessionsKnown'
    <3>1. CASE Silent(h)
      <4>1. UNCHANGED <<channel, platformUser>>
        BY <3>1, SilentStep
      <4>2. user' \in {user, Null}
        BY <3>1 DEF Silent, SignInTap, registerUser, logIn, loginWithFacebook, TapSignIn,
           signOut, FacebookLoggedIn, FacebookRefused, SignInFails, CreateReturns,
           CreateThrows, IsLoggedInAnswers, FacebookLoggedOut
      <4>3. sessions \subseteq sessions'
        BY <2>2 DEF Tap, AnswerTo, DocumentCreated, OtherAnswer
      <4> QED BY <4>1, <4>2, <4>3 DEF SessionsKnown
    <3>2. CASE SignInCompletes(h) \/ SignOutCompletes(h)
      <4>1. sessions' = sessions \cup ({platformUser'} \ {Null}) /\ user' = user
        <5>1. ~CreateReturns(h) /\ ~Tap(h)
          BY <3>2 DEF SignInCompletes, SignOutCompletes, CreateReturns, Tap, SignInTap,
             registerUser, logIn, loginWithFacebook, TapSignIn, Start, signOut
        <5> QED BY <2>2, <3>2, <5>1 DEF AnswerTo, DocumentCreated, OtherAnswer,
                SignInCompletes, SignOutCompletes
      <4>2. \A i \in 1..Len(channel') :
               channel'[i].type \in {"event", "signedIn"} =>
                  \/ channel'[i].user = platformUser'
                  \/ i \in 1..Len(channel) /\ channel'[i] = channel[i]
        BY <3>2, PostedMessages
      <4> QED BY <4>1, <4>2 DEF SessionsKnown
    <3> QED BY <2>2, <3>1, <3>2 DEF Tap, AnswerTo, DocumentCreated, OtherAnswer, Answer, Silent
  <2>3. CASE Build \/ FadeEnds \/ (\E u \in Users : Snapshot(u)) \/ UNCHANGED appVars
    BY <2>3 DEF Build, Rebuild, FadeEnds, Snapshot, authVars, appVars, SessionsKnown
  <2>4. CASE Restart
    BY <2>4 DEF Restart, Relaunch, Event, SessionsKnown
  <2> QED BY <2>1, <2>2, <2>3, <2>4 DEF Next
<1> QED BY <1>1, <1>2, SessionFacts, PTL DEF Spec

\* The screen that is drawn is one of those shown, and no subscription is ever
\* stored, so that none is ever cancelled.
NoneStored == screen \in mounted /\ currentStreamSub = Null

LEMMA NoneStoredHolds == Spec => []NoneStored
<1> USE DEF screenVars, modelVars
<1>1. Init => NoneStored
  BY DEF Init, NoneStored
<1>2. AuthShape /\ NoneStored /\ [Next]_appVars => NoneStored'
  <2> SUFFICES ASSUME AuthShape, NoneStored, [Next]_appVars
               PROVE  NoneStored'
    OBVIOUS
  <2>1. CASE Build
    <3>1. firebaseAuthStatus \in {"signout", "signin", "progress"}
      BY DEF AuthShape, AuthTypeOK, FirebaseAuthStatus
    <3>2. screen' \in mounted'
      BY <2>1 DEF Build
    <3>3. currentStreamSub' = Null
      BY <2>1, <3>1 DEF Build, Clear, InitUserModel, SetCurrentStreamSub, NoneStored
    <3> QED BY <3>2, <3>3 DEF NoneStored
  <2>2. CASE Restart \/ FadeEnds
    BY <2>2 DEF Restart, FadeEnds, NoneStored
  <2>3. CASE UNCHANGED <<screenVars, currentStreamSub>>
    BY <2>3 DEF NoneStored
  <2> QED BY <2>1, <2>2, <2>3 DEF Next, Handle, Tap, AnswerTo, DocumentCreated, OtherAnswer,
          Snapshot, appVars
<1> QED BY <1>1, <1>2, SessionFacts, PTL DEF Spec

\* The app gives the other screens a phone session: every home and every user
\* model is of a user that the SDK has had in this process.
THEOREM ImplementsPhoneSessionHolds == Spec => ImplementsPhoneSession
<1> USE DEF screenVars, modelVars
<1>1. Init => Phone!Init
  BY NullAssumption DEF Init, AuthInit, Phone!Init
<1>2. /\ AuthShape /\ AuthShape' /\ SigninHasUser /\ TypeOK /\ SessionsKnown /\ NoneStored
      /\ [Next]_appVars
      => [Phone!Next]_(Phone!vars)
  <2> SUFFICES ASSUME AuthShape, AuthShape', SigninHasUser, TypeOK, SessionsKnown, NoneStored,
                      [Next]_appVars
               PROVE  [Phone!Next]_(Phone!vars)
    OBVIOUS
  <2>0. /\ platformUser \in Users \cup {Null} /\ platformUser' \in Users \cup {Null}
        /\ firebaseAuthStatus \in {"signout", "signin", "progress"}
    BY DEF AuthShape, AuthTypeOK, FirebaseAuthStatus
  <2>1. CASE Handle
    BY <2>1 DEF Handle, HandleMessage, WatchAuthChange, SignInReply, SignOutReply,
       platformVars, Phone!vars
  <2>2. ASSUME NEW h \in Handlers, Tap(h) \/ DocumentCreated(h)
        PROVE  UNCHANGED Phone!vars
    BY <2>2 DEF Tap, SignInTap, registerUser, logIn, loginWithFacebook, TapSignIn, signOut,
       DocumentCreated, CreateReturns, platformVars, Phone!vars
  <2>3. ASSUME NEW h \in Handlers, OtherAnswer(h)
        PROVE  Phone!Next
    <3>1. CASE platformUser' = Null
      BY <2>3, <3>1 DEF OtherAnswer, Phone!Next, Phone!SignsOut
    <3>2. CASE platformUser' \in Users
      BY <2>3, <3>2, NullAssumption DEF OtherAnswer, Phone!Next, Phone!SignsIn
    <3> QED BY <2>0, <3>1, <3>2
  <2>4. CASE Build
    <3>1. UNCHANGED <<platformUser, sessions>>
      BY <2>4 DEF Build, Rebuild, platformVars
    <3>2. CASE firebaseAuthStatus = "signout"
      <4>1. ("home" \in mounted') = ("home" \in mounted)
        BY <2>4, <3>2 DEF Build, ScreenOf
      <4>2. subscriptions' = subscriptions /\ userModel' = Null
        BY <2>4, <3>2, NullAssumption DEF Build, Clear, TypeOK, NoneStored
      <4> QED BY <3>1, <4>1, <4>2 DEF Phone!Next, Phone!AuthIsBuilt
    <3>3. CASE firebaseAuthStatus = "signin"
      <4>1. ("home" \in mounted') = TRUE
        BY <2>4, <3>3 DEF Build, ScreenOf
      <4>2. user \in Users /\ user \in sessions
        BY <3>3 DEF SigninHasUser, AuthShape, AuthTypeOK, SessionsKnown
      <4>3. subscriptions' = subscriptions \cup {user} /\ userModel' = userModel
        BY <2>4, <3>3 DEF Build, InitUserModel
      <4> QED BY <3>1, <4>1, <4>2, <4>3 DEF Phone!Next, Phone!HomeIsBuilt
    <3>4. CASE firebaseAuthStatus = "progress"
      <4>1. ("home" \in mounted') = ("home" \in mounted)
        BY <2>4, <3>4 DEF Build, ScreenOf
      <4> QED BY <2>4, <3>1, <3>4, <4>1 DEF Build, Phone!vars
    <3> QED BY <2>0, <3>2, <3>3, <3>4
  <2>5. CASE FadeEnds
    <3>1. UNCHANGED <<platformUser, subscriptions, userModel, sessions>> /\ mounted' = {screen}
      BY <2>5 DEF FadeEnds, authVars, platformVars
    <3>2. CASE screen = "home" \/ "home" \notin mounted
      <4>1. ("home" \in mounted') = ("home" \in mounted)
        BY <3>1, <3>2 DEF NoneStored
      <4> QED BY <3>1, <4>1 DEF Phone!vars
    <3>3. CASE screen # "home" /\ "home" \in mounted
      <4>1. ("home" \in mounted') = FALSE /\ "home" \in mounted
        BY <3>1, <3>3
      <4> QED BY <3>1, <4>1 DEF Phone!Next, Phone!HomeIsGone
    <3> QED BY <3>2, <3>3
  <2>6. ASSUME NEW u \in Users, Snapshot(u)
        PROVE  Phone!Next
    BY <2>6 DEF Snapshot, authVars, platformVars, Phone!Next, Phone!Snapshot
  <2>7. CASE Restart
    <3>1. ("home" \in mounted') = FALSE /\ platformUser' = platformUser
      BY <2>7 DEF Restart, Relaunch, platformVars
    <3> QED BY <2>7, <3>1 DEF Restart, Phone!Next, Phone!Relaunch
  <2>8. CASE UNCHANGED appVars
    BY <2>8 DEF appVars, authVars, platformVars, Phone!vars
  <2> QED BY <2>1, <2>2, <2>3, <2>4, <2>5, <2>6, <2>7, <2>8 DEF Next, AnswerTo
<1> QED BY <1>1, <1>2, SessionFacts, TypeCorrect, SessionsKnownHolds, NoneStoredHolds, PTL
        DEF Spec, ImplementsPhoneSession, Phone!Spec
=============================================================================
