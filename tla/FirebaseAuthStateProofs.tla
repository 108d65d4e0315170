---------------------- MODULE FirebaseAuthStateProofs ----------------------
(***************************************************************************)
(* Theorems about FirebaseAuthState, for any accounts and any number of    *)
(* overlapping invocations.                                                *)
(***************************************************************************)
EXTENDS FirebaseAuthState, TLAPS

\* A reply is addressed to an invocation, a running sign-in knows its uid.
HandlerShape ==
    /\ \A h \in Handlers : handler[h].pc \in {"dialog", "auth"} => handler[h].uid \in Users
    /\ \A i \in 1..Len(channel) :
          /\ channel[i].type \in {"signedIn", "signedOut"} => channel[i].to \in Handlers
          /\ channel[i].type = "signedIn" => channel[i].user \in Users

AuthShape == AuthTypeOK /\ HandlerShape

----------------------------------------------------------------------------
\* Removing the first message, and adding one or two at the end.
LEMMA TailFacts ==
    ASSUME NEW s \in Seq(Message), s # <<>>
    PROVE  /\ Head(s) \in Message /\ Head(s) = s[1] /\ 1 \in 1..Len(s)
           /\ Tail(s) \in Seq(Message) /\ Len(Tail(s)) = Len(s) - 1
           /\ \A i \in 1..Len(Tail(s)) : /\ i + 1 \in 1..Len(s)
                                         /\ Tail(s)[i] = s[i + 1]
OBVIOUS

\* One message added at the end of the channel, and where it is.
LEMMA AppendFacts ==
    ASSUME NEW s \in Seq(Message), NEW a \in Message
    PROVE  /\ Append(s, a) \in Seq(Message) /\ Len(Append(s, a)) = Len(s) + 1
           /\ \A i \in 1..Len(s) : Append(s, a)[i] = s[i]
           /\ Append(s, a)[Len(s) + 1] = a
OBVIOUS

\* Two messages added at the end of the channel, and where they are.
LEMMA ConcatFacts ==
    ASSUME NEW s \in Seq(Message), NEW a \in Message, NEW b \in Message
    PROVE  /\ s \o <<a, b>> \in Seq(Message) /\ Len(s \o <<a, b>>) = Len(s) + 2
           /\ \A i \in 1..Len(s) : (s \o <<a, b>>)[i] = s[i]
           /\ (s \o <<a, b>>)[Len(s) + 1] = a
           /\ (s \o <<a, b>>)[Len(s) + 2] = b
OBVIOUS

\* The three constructors build messages.
LEMMA MessageTypes ==
    /\ \A u \in Users \cup {Null} : Event(u) \in Message
    /\ \A h \in Handlers, u \in Users : SignedIn(h, u) \in Message
    /\ \A h \in Handlers : SignedOut(h) \in Message
BY DEF Event, SignedIn, SignedOut, Message

\* An invocation that is not running is an invocation.
LEMMA IdleType == Idle \in HandlerState
BY DEF Idle, HandlerState, SignInOps

\* What the steps that end or advance an invocation do to the others.
LEMMA HandlerSteps ==
    ASSUME AuthShape, NEW h \in Handlers
    PROVE  /\ Finish(h) =>
                /\ handler' \in [Handlers -> HandlerState]
                /\ handler'[h] = Idle
                /\ \A g \in Handlers \ {h} : handler'[g] = handler[g]
           /\ \A pc : Advance(h, pc) /\ pc \in {"auth", "create", "logOut", "signOut", "reply"} =>
                /\ handler' \in [Handlers -> HandlerState]
                /\ handler'[h].pc = pc /\ handler'[h].uid = handler[h].uid
                /\ handler'[h].op = handler[h].op
                /\ \A g \in Handlers \ {h} : handler'[g] = handler[g]
<1>1. handler \in [Handlers -> HandlerState]
  BY DEF AuthShape, AuthTypeOK
<1>2. ASSUME Finish(h)
      PROVE  /\ handler' \in [Handlers -> HandlerState]
             /\ handler'[h] = Idle
             /\ \A g \in Handlers \ {h} : handler'[g] = handler[g]
  BY <1>1, <1>2, IdleType DEF Finish
<1>3. ASSUME NEW pc \in {"auth", "create", "logOut", "signOut", "reply"}, Advance(h, pc)
      PROVE  /\ handler' \in [Handlers -> HandlerState]
             /\ handler'[h].pc = pc /\ handler'[h].uid = handler[h].uid
             /\ handler'[h].op = handler[h].op
             /\ \A g \in Handlers \ {h} : handler'[g] = handler[g]
  <2>1. handler[h] \in HandlerState
    BY <1>1
  <2>2. [handler[h] EXCEPT !.pc = pc] \in HandlerState
    BY <2>1 DEF HandlerState
  <2>3. handler' = [handler EXCEPT ![h] = [handler[h] EXCEPT !.pc = pc]]
    BY <1>1, <1>3 DEF Advance
  <2> QED BY <1>1, <2>1, <2>2, <2>3 DEF HandlerState
<1> QED BY <1>2, <1>3

\* What the three kinds of message do.
LEMMA MessageStep ==
    ASSUME AuthShape, HandleMessage
    PROVE  /\ channel # <<>> /\ channel' = Tail(channel)
           /\ channel' \in Seq(Message)
           /\ Head(channel) \in Message /\ Head(channel) = channel[1]
           /\ Head(channel).type \in {"signedIn", "signedOut"} =>
                 Head(channel).to \in Handlers
           /\ Head(channel).type = "signedIn" => Head(channel).user \in Users
           /\ \/ Head(channel).type = "event" /\ WatchAuthChange
              \/ Head(channel).type = "signedIn" /\ SignInReply
              \/ Head(channel).type = "signedOut" /\ SignOutReply
<1>1. channel # <<>> /\ channel' = Tail(channel)
  BY DEF HandleMessage, WatchAuthChange, SignInReply, SignOutReply
<1>2. channel \in Seq(Message)
  BY DEF AuthShape, AuthTypeOK
<1>3. /\ Head(channel) \in Message /\ Head(channel) = channel[1] /\ 1 \in 1..Len(channel)
      /\ Tail(channel) \in Seq(Message)
  BY <1>1, <1>2, TailFacts
<1>4. \/ Head(channel).type = "event" /\ WatchAuthChange
      \/ Head(channel).type = "signedIn" /\ SignInReply
      \/ Head(channel).type = "signedOut" /\ SignOutReply
  BY DEF HandleMessage, WatchAuthChange, SignInReply, SignOutReply
<1> QED BY <1>1, <1>3, <1>4 DEF AuthShape, HandlerShape

\* What the SDK posts when it signs in or out: one message of each kind, or
\* the reply alone when the user of the SDK stays the same.
Posts(e, r) ==
    channel' \in {channel \o <<e, r>>, channel \o <<r, e>>}

\* Where the two messages are afterwards.
LEMMA PostIndex ==
    ASSUME channel \in Seq(Message), NEW e \in Message, NEW r \in Message, Posts(e, r)
    PROVE  /\ Len(channel') = Len(channel) + 2
           /\ \A i \in 1..Len(channel) : channel'[i] = channel[i]
           /\ \/ channel'[Len(channel) + 1] = e /\ channel'[Len(channel) + 2] = r
              \/ channel'[Len(channel) + 1] = r /\ channel'[Len(channel) + 2] = e
           /\ \A i \in 1..Len(channel') :
                 \/ i \in 1..Len(channel) /\ channel'[i] = channel[i]
                 \/ channel'[i] = e \/ channel'[i] = r
<1>1. CASE channel' = channel \o <<e, r>>
  BY <1>1, ConcatFacts
<1>2. CASE channel' = channel \o <<r, e>>
  BY <1>2, ConcatFacts
<1> QED BY <1>1, <1>2 DEF Posts

\* Where a reply alone is afterwards.
LEMMA AppendIndex ==
    ASSUME channel \in Seq(Message), NEW r \in Message, channel' = Append(channel, r)
    PROVE  /\ Len(channel') = Len(channel) + 1
           /\ \A i \in 1..Len(channel) : i \in 1..Len(channel') /\ channel'[i] = channel[i]
           /\ channel'[Len(channel) + 1] = r
           /\ \A i \in 1..Len(channel') :
                 i \notin 1..Len(channel) => i = Len(channel) + 1 /\ channel'[i] = r
<1>1. /\ Len(channel') = Len(channel) + 1 /\ channel'[Len(channel) + 1] = r
      /\ \A i \in 1..Len(channel) : channel'[i] = channel[i]
  BY AppendFacts
<1>2. /\ \A i \in 1..Len(channel) : i \in 1..Len(channel')
      /\ \A i \in 1..Len(channel') : i \notin 1..Len(channel) => i = Len(channel) + 1
  BY <1>1
<1> QED BY <1>1, <1>2

\* What an answer that posts two messages, or one, does to the rest of the
\* state: only the invocation it answers advances.
LEMMA PostStep ==
    ASSUME AuthShape, NEW h \in Handlers
    PROVE  /\ SignInCompletes(h) =>
                /\ handler[h].uid \in Users
                /\ \/ Posts(Event(handler[h].uid), SignedIn(h, handler[h].uid))
                   \/ /\ platformUser = handler[h].uid
                      /\ channel' = Append(channel, SignedIn(h, handler[h].uid))
                /\ channel' \in Seq(Message)
           /\ SignOutCompletes(h) =>
                /\ \/ Posts(Event(Null), SignedOut(h))
                   \/ platformUser = Null /\ channel' = Append(channel, SignedOut(h))
                /\ channel' \in Seq(Message)
<1>1. channel \in Seq(Message)
  BY DEF AuthShape, AuthTypeOK
<1>2. ASSUME SignInCompletes(h)
      PROVE  /\ handler[h].uid \in Users
             /\ \/ Posts(Event(handler[h].uid), SignedIn(h, handler[h].uid))
                \/ /\ platformUser = handler[h].uid
                   /\ channel' = Append(channel, SignedIn(h, handler[h].uid))
             /\ channel' \in Seq(Message)
  <2>1. handler[h].uid \in Users
    BY <1>2 DEF SignInCompletes, AuthShape, HandlerShape
  <2> DEFINE e == Event(handler[h].uid)
             r == SignedIn(h, handler[h].uid)
  <2>2. e \in Message /\ r \in Message
    BY <2>1, MessageTypes
  <2>3. Posts(e, r) \/ (platformUser = handler[h].uid /\ channel' = Append(channel, r))
    BY <1>2 DEF SignInCompletes, Posts
  <2> HIDE DEF e, r
  <2>4. /\ channel \o <<e, r>> \in Seq(Message) /\ channel \o <<r, e>> \in Seq(Message)
        /\ Append(channel, r) \in Seq(Message)
    BY <1>1, <2>2, ConcatFacts, AppendFacts
  <2>5. channel' \in Seq(Message)
    BY <2>3, <2>4 DEF Posts
  <2> QED BY <2>1, <2>3, <2>5 DEF e, r
<1>3. ASSUME SignOutCompletes(h)
      PROVE  /\ \/ Posts(Event(Null), SignedOut(h))
                \/ platformUser = Null /\ channel' = Append(channel, SignedOut(h))
             /\ channel' \in Seq(Message)
  <2> DEFINE e == Event(Null)
             r == SignedOut(h)
  <2>1. e \in Message /\ r \in Message
    BY MessageTypes
  <2>2. Posts(e, r) \/ (platformUser = Null /\ channel' = Append(channel, r))
    BY <1>3 DEF SignOutCompletes, Posts
  <2> HIDE DEF e, r
  <2>3. /\ channel \o <<e, r>> \in Seq(Message) /\ channel \o <<r, e>> \in Seq(Message)
        /\ Append(channel, r) \in Seq(Message)
    BY <1>1, <2>1, ConcatFacts, AppendFacts
  <2>4. channel' \in Seq(Message)
    BY <2>2, <2>3 DEF Posts
  <2> QED BY <2>2, <2>4 DEF e, r
<1> QED BY <1>2, <1>3

\* Steps that leave the channel alone.
Silent(h) ==
    \/ SignInTap(h) \/ signOut(h) \/ FacebookLoggedIn(h) \/ FacebookRefused(h)
    \/ SignInFails(h) \/ CreateReturns(h) \/ CreateThrows(h)
    \/ IsLoggedInAnswers(h) \/ FacebookLoggedOut(h)

\* A silent step leaves the channel alone and changes one invocation only.
LEMMA SilentStep ==
    ASSUME AuthShape, NEW h \in Handlers, Silent(h)
    PROVE  /\ UNCHANGED <<channel, platformUser, accounts>>
           /\ handler' \in [Handlers -> HandlerState]
           /\ \A g \in Handlers \ {h} : handler'[g] = handler[g]
           /\ handler'[h].pc \in {"dialog", "auth"} => handler'[h].uid \in Users
<1>1. handler \in [Handlers -> HandlerState]
  BY DEF AuthShape, AuthTypeOK
<1>2. ASSUME NEW op \in SignInOps, NEW pc \in {"dialog", "auth"}, NEW u \in Users,
             TapSignIn(h, op, pc, u)
      PROVE  /\ UNCHANGED <<channel, platformUser, accounts>>
             /\ handler' \in [Handlers -> HandlerState]
             /\ \A g \in Handlers \ {h} : handler'[g] = handler[g]
             /\ handler'[h].uid \in Users
  <2>1. [pc |-> pc, op |-> op, uid |-> u] \in HandlerState
    BY DEF HandlerState
  <2> QED BY <1>1, <1>2, <2>1 DEF TapSignIn, Start, platformVars
<1>3. CASE SignInTap(h)
  BY <1>2, <1>3 DEF SignInTap, registerUser, logIn, loginWithFacebook, SignInOps
<1>4. CASE signOut(h)
  <2>1. [pc |-> "isLoggedIn", op |-> "signOut", uid |-> Null] \in HandlerState
    BY DEF HandlerState
  <2>2. handler' = handler \/
          handler' = [handler EXCEPT ![h] = [pc |-> "isLoggedIn", op |-> "signOut", uid |-> Null]]
    BY <1>4 DEF signOut, Start
  <2>3. handler[h].pc = "idle"
    BY <1>4 DEF signOut
  <2> QED BY <1>1, <1>4, <2>1, <2>2, <2>3 DEF signOut, platformVars
<1>5. CASE FacebookLoggedIn(h)
  BY <1>5, HandlerSteps DEF FacebookLoggedIn, AuthShape, HandlerShape
<1>6. CASE FacebookRefused(h) \/ SignInFails(h) \/ CreateReturns(h) \/ CreateThrows(h)
  <2>1. Finish(h) /\ UNCHANGED <<channel, platformUser, accounts>>
    BY <1>6 DEF FacebookRefused, SignInFails, CreateReturns, CreateThrows, platformVars
  <2> QED BY <2>1, HandlerSteps DEF Idle
<1>7. CASE IsLoggedInAnswers(h) \/ FacebookLoggedOut(h)
  <2>1. PICK pc \in {"logOut", "signOut"} : Advance(h, pc)
    BY <1>7 DEF IsLoggedInAnswers, FacebookLoggedOut
  <2>2. UNCHANGED <<channel, platformUser, accounts>>
    BY <1>7 DEF IsLoggedInAnswers, FacebookLoggedOut, platformVars
  <2> QED BY <2>1, <2>2, HandlerSteps
<1> QED BY <1>3, <1>4, <1>5, <1>6, <1>7 DEF Silent

\* AuthNext, sorted by what it does to the channel.
LEMMA AuthNextCases ==
    ASSUME AuthNext
    PROVE  \/ HandleMessage
           \/ \E h \in Handlers : Silent(h) \/ SignInCompletes(h) \/ SignOutCompletes(h)
           \/ Rebuild
           \/ Relaunch
BY DEF AuthNext, Answer, Silent

----------------------------------------------------------------------------
\* The scalar part of AuthTypeOK, by action.
LEMMA ScalarTypes ==
    ASSUME AuthShape, [AuthNext]_authVars
    PROVE  /\ accounts' \subseteq Users /\ platformUser' \in Users \cup {Null}
           /\ facebookSession' \in BOOLEAN /\ firebaseAuthStatus' \in FirebaseAuthStatus
           /\ user' \in Users \cup {Null} /\ facebookLogin' \in BOOLEAN
           /\ dirty' \in BOOLEAN /\ failed' \in BOOLEAN /\ again' \in BOOLEAN
<1> DEFINE Goal == /\ accounts' \subseteq Users /\ platformUser' \in Users \cup {Null}
                   /\ facebookSession' \in BOOLEAN
                   /\ firebaseAuthStatus' \in FirebaseAuthStatus
                   /\ user' \in Users \cup {Null} /\ facebookLogin' \in BOOLEAN
                   /\ dirty' \in BOOLEAN /\ failed' \in BOOLEAN /\ again' \in BOOLEAN
<1> USE DEF platformVars, stateVars, FirebaseAuthStatus
<1>0. /\ accounts \subseteq Users /\ platformUser \in Users \cup {Null}
      /\ facebookSession \in BOOLEAN /\ firebaseAuthStatus \in FirebaseAuthStatus
      /\ user \in Users \cup {Null} /\ facebookLogin \in BOOLEAN
      /\ dirty \in BOOLEAN /\ failed \in BOOLEAN /\ again \in BOOLEAN
  BY DEF AuthShape, AuthTypeOK
<1>1. CASE HandleMessage
  <2>1. Head(channel).user \in Users \cup {Null}
    BY <1>1, MessageStep DEF Message
  <2> QED BY <1>0, <1>1, <2>1
          DEF HandleMessage, WatchAuthChange, SignInReply, SignOutReply,
              changeFirebaseAuthStatus, changeFirebaseAuthStatusTo
<1>2. ASSUME NEW h \in Handlers, SignInCompletes(h) \/ SignOutCompletes(h)
      PROVE  Goal
  BY <1>0, <1>2, PostStep DEF SignInCompletes, SignOutCompletes
<1>3. ASSUME NEW h \in Handlers, Silent(h)
      PROVE  Goal
  BY <1>0, <1>3 DEF Silent, SignInTap, registerUser, logIn, loginWithFacebook, TapSignIn,
     changeFirebaseAuthStatusTo, signOut, FacebookLoggedIn, FacebookRefused, SignInFails,
     CreateReturns, CreateThrows, IsLoggedInAnswers, FacebookLoggedOut
<1>4. CASE Rebuild \/ Relaunch \/ UNCHANGED authVars
  BY <1>0, <1>4 DEF Rebuild, Relaunch, authVars
<1> QED BY <1>1, <1>2, <1>3, <1>4, AuthNextCases

\* AuthSpec keeps every variable in its type and every message addressed.
THEOREM AuthShapeCorrect == AuthSpec => []AuthShape
<1>1. AuthInit => AuthShape
  <2> SUFFICES ASSUME AuthInit
               PROVE  AuthShape
    OBVIOUS
  <2>1. platformUser \in Users \cup {Null}
    BY DEF AuthInit
  <2>2. channel \in Seq(Message) /\ Len(channel) = 1 /\ channel[1] = Event(platformUser)
    BY <2>1, MessageTypes DEF AuthInit
  <2>3. handler \in [Handlers -> HandlerState] /\ \A h \in Handlers : handler[h].pc = "idle"
    BY IdleType DEF AuthInit, Idle
  <2>4. AuthTypeOK
    BY <2>1, <2>2, <2>3 DEF AuthInit, AuthTypeOK, FirebaseAuthStatus
  <2>5. HandlerShape
    BY <2>2, <2>3 DEF HandlerShape, Event
  <2> QED BY <2>4, <2>5 DEF AuthShape
<1>2. AuthShape /\ [AuthNext]_authVars => AuthShape'
  <2> SUFFICES ASSUME AuthShape, [AuthNext]_authVars
               PROVE  AuthShape'
    OBVIOUS
  <2>0. channel \in Seq(Message) /\ handler \in [Handlers -> HandlerState]
    BY DEF AuthShape, AuthTypeOK
  <2> DEFINE Goal == /\ channel' \in Seq(Message)
                     /\ handler' \in [Handlers -> HandlerState]
                     /\ HandlerShape'
  <2>1. ASSUME HandleMessage
        PROVE  Goal
    <3>1. /\ channel # <<>> /\ channel' = Tail(channel) /\ channel' \in Seq(Message)
          /\ Head(channel).type \in {"signedIn", "signedOut"} => Head(channel).to \in Handlers
      BY <2>1, MessageStep
    <3>2. \A i \in 1..Len(channel') : i + 1 \in 1..Len(channel) /\ channel'[i] = channel[i + 1]
      BY <2>0, <3>1, TailFacts
    <3>3. \A i \in 1..Len(channel') :
             /\ channel'[i].type \in {"signedIn", "signedOut"} => channel'[i].to \in Handlers
             /\ channel'[i].type = "signedIn" => channel'[i].user \in Users
      BY <3>2 DEF AuthShape, HandlerShape
    <3>4. /\ handler' \in [Handlers -> HandlerState]
          /\ \A h \in Handlers : handler'[h].pc \in {"dialog", "auth"} =>
                                    handler'[h].uid \in Users
      <4>1. CASE WatchAuthChange
        BY <2>0, <4>1 DEF WatchAuthChange, AuthShape, HandlerShape
      <4>2. CASE SignInReply \/ SignOutReply
        <5>1. PICK h \in Handlers : Finish(h) \/ Advance(h, "create")
          BY <3>1, <4>2 DEF SignInReply, SignOutReply
        <5> QED BY <5>1, HandlerSteps DEF Idle, AuthShape, HandlerShape
      <4> QED BY <2>1, <4>1, <4>2 DEF HandleMessage
    <3> QED BY <3>1, <3>3, <3>4 DEF HandlerShape
  <2>2. ASSUME NEW h \in Handlers, Silent(h)
        PROVE  Goal
    BY <2>0, <2>2, SilentStep DEF AuthShape, HandlerShape
  <2>3. ASSUME NEW h \in Handlers, SignInCompletes(h) \/ SignOutCompletes(h)
        PROVE  Goal
    <3>1. Advance(h, "reply")
      BY <2>3 DEF SignInCompletes, SignOutCompletes
    <3>2. /\ handler' \in [Handlers -> HandlerState]
          /\ \A g \in Handlers : handler'[g].pc \in {"dialog", "auth"} =>
                                    handler'[g].uid \in Users
      BY <3>1, HandlerSteps DEF AuthShape, HandlerShape
    <3>3. channel' \in Seq(Message)
      BY <2>3, PostStep
    <3>4. \A i \in 1..Len(channel') :
             \/ i \in 1..Len(channel) /\ channel'[i] = channel[i]
             \/ \E u \in Users \cup {Null} : channel'[i] = Event(u)
             \/ \E u \in Users : channel'[i] = SignedIn(h, u)
             \/ channel'[i] = SignedOut(h)
      <4>1. CASE SignInCompletes(h)
        <5>1. handler[h].uid \in Users
          BY <4>1, PostStep
        <5>2. Event(handler[h].uid) \in Message /\ SignedIn(h, handler[h].uid) \in Message
          BY <5>1, MessageTypes
        <5>3. CASE Posts(Event(handler[h].uid), SignedIn(h, handler[h].uid))
          BY <2>0, <5>1, <5>2, <5>3, PostIndex
        <5>4. CASE channel' = Append(channel, SignedIn(h, handler[h].uid))
          BY <2>0, <5>1, <5>2, <5>4, AppendIndex
        <5> QED BY <4>1, <5>3, <5>4, PostStep
      <4>2. CASE SignOutCompletes(h)
        <5>1. Event(Null) \in Message /\ SignedOut(h) \in Message
          BY MessageTypes
        <5>2. CASE Posts(Event(Null), SignedOut(h))
          BY <2>0, <5>1, <5>2, PostIndex
        <5>3. CASE channel' = Append(channel, SignedOut(h))
          BY <2>0, <5>1, <5>3, AppendIndex
        <5> QED BY <4>2, <5>2, <5>3, PostStep
      <4> QED BY <2>3, <4>1, <4>2
    <3>5. \A i \in 1..Len(channel') :
             /\ channel'[i].type \in {"signedIn", "signedOut"} => channel'[i].to \in Handlers
             /\ channel'[i].type = "signedIn" => channel'[i].user \in Users
      <4> SUFFICES ASSUME NEW i \in 1..Len(channel')
                   PROVE  /\ channel'[i].type \in {"signedIn", "signedOut"} =>
                                channel'[i].to \in Handlers
                          /\ channel'[i].type = "signedIn" => channel'[i].user \in Users
        OBVIOUS
      <4>1. CASE i \in 1..Len(channel) /\ channel'[i] = channel[i]
        BY <4>1 DEF AuthShape, HandlerShape
      <4>2. ASSUME NEW u, channel'[i] = Event(u)
            PROVE  channel'[i].type = "event"
        BY <4>2 DEF Event
      <4>3. ASSUME NEW u \in Users, channel'[i] = SignedIn(h, u)
            PROVE  channel'[i].to \in Handlers /\ channel'[i].user \in Users
        BY <4>3 DEF SignedIn
      <4>4. CASE channel'[i] = SignedOut(h)
        BY <4>4 DEF SignedOut
      <4> QED BY <3>4, <4>1, <4>2, <4>3, <4>4
    <3> QED BY <3>2, <3>3, <3>5 DEF HandlerShape
  <2>4. ASSUME Relaunch
        PROVE  Goal
    <3>1. platformUser \in Users \cup {Null}
      BY DEF AuthShape, AuthTypeOK
    <3>2. channel' \in Seq(Message) /\ Len(channel') = 1 /\ channel'[1] = Event(platformUser)
      BY <2>4, <3>1, MessageTypes DEF Relaunch
    <3>3. handler' \in [Handlers -> HandlerState] /\ \A h \in Handlers : handler'[h].pc = "idle"
      BY <2>4, IdleType DEF Relaunch, Idle
    <3> QED BY <3>2, <3>3 DEF HandlerShape, Event
  <2>5. ASSUME Rebuild \/ UNCHANGED authVars
        PROVE  Goal
    BY <2>0, <2>5 DEF Rebuild, authVars, AuthShape, HandlerShape
  <2>6. Goal
    BY <2>1, <2>2, <2>3, <2>4, <2>5, AuthNextCases
  <2> QED BY <2>6, ScalarTypes DEF AuthShape, AuthTypeOK
<1> QED BY <1>1, <1>2, PTL DEF AuthSpec

\* Type correctness of the session.
THEOREM AuthTypeCorrect == AuthSpec => []AuthTypeOK
<1>1. AuthShape => AuthTypeOK
  BY DEF AuthShape
<1> QED BY <1>1, AuthShapeCorrect, PTL

----------------------------------------------------------------------------
\* MyApp may read user.uid whenever the status is signin.
THEOREM SigninHasUserHolds == AuthSpec => []SigninHasUser
<1> USE DEF SigninHasUser, platformVars, stateVars
<1>1. AuthInit => SigninHasUser
  BY DEF AuthInit
<1>2. AuthShape /\ SigninHasUser /\ [AuthNext]_authVars => SigninHasUser'
  <2> SUFFICES ASSUME AuthShape, SigninHasUser, [AuthNext]_authVars
               PROVE  SigninHasUser'
    OBVIOUS
  <2>1. CASE HandleMessage
    <3>1. CASE WatchAuthChange
      BY <3>1 DEF WatchAuthChange, changeFirebaseAuthStatus, changeFirebaseAuthStatusTo
    <3>2. CASE SignInReply
      <4>1. Head(channel).type = "signedIn" /\ user' = Head(channel).user
        BY <3>2 DEF SignInReply
      <4> QED BY <2>1, <4>1, MessageStep, NullAssumption
    <3>3. CASE SignOutReply
      BY <3>3 DEF SignOutReply
    <3> QED BY <2>1, <3>1, <3>2, <3>3 DEF HandleMessage
  <2>2. ASSUME NEW h \in Handlers, Silent(h)
        PROVE  SigninHasUser'
    BY <2>2 DEF Silent, SignInTap, registerUser, logIn, loginWithFacebook, TapSignIn,
       changeFirebaseAuthStatusTo, signOut, FacebookLoggedIn, FacebookRefused, SignInFails,
       CreateReturns, CreateThrows, IsLoggedInAnswers, FacebookLoggedOut
  <2>3. ASSUME NEW h \in Handlers, SignInCompletes(h) \/ SignOutCompletes(h)
        PROVE  SigninHasUser'
    BY <2>3 DEF SignInCompletes, SignOutCompletes
  <2>4. CASE Rebuild \/ Relaunch \/ UNCHANGED authVars
    BY <2>4 DEF Rebuild, Relaunch, authVars
  <2> QED BY <2>1, <2>2, <2>3, <2>4, AuthNextCases
<1> QED BY <1>1, <1>2, AuthShapeCorrect, PTL DEF AuthSpec

----------------------------------------------------------------------------
\* The replies of the channel are awaited, and each invocation awaits one.
RepliesAwaited ==
    /\ \A i \in 1..Len(channel) :
          channel[i].type # "event" => handler[channel[i].to].pc = "reply"
    /\ \A i, j \in 1..Len(channel) :
          /\ channel[i].type # "event" /\ channel[j].type # "event"
          /\ channel[i].to = channel[j].to
          => i = j

\* The type of a message decides who it is for.
LEMMA ReplyTo ==
    ASSUME AuthShape, NEW i \in 1..Len(channel), channel[i].type # "event"
    PROVE  channel[i].to \in Handlers
<1>1. channel[i] \in Message
  BY DEF AuthShape, AuthTypeOK
<1>2. channel[i].type \in {"signedIn", "signedOut"}
  BY <1>1 DEF Message
<1> QED BY <1>2 DEF AuthShape, HandlerShape

\* An invocation that makes a silent step is not waiting for a reply, before
\* or after it.
LEMMA SilentNotAwaiting ==
    ASSUME AuthShape, NEW h \in Handlers, Silent(h)
    PROVE  handler[h].pc # "reply"
BY DEF Silent, SignInTap, registerUser, logIn, loginWithFacebook, TapSignIn, Start, signOut,
   FacebookLoggedIn, FacebookRefused, SignInFails, CreateReturns, CreateThrows,
   IsLoggedInAnswers, FacebookLoggedOut

\* What a post adds to the channel, by the invocation it answers.
LEMMA PostedMessages ==
    ASSUME AuthShape, NEW h \in Handlers, SignInCompletes(h) \/ SignOutCompletes(h)
    PROVE  /\ handler[h].pc \in {"auth", "signOut"}
           /\ handler' \in [Handlers -> HandlerState]
           /\ handler'[h].pc = "reply"
           /\ \A g \in Handlers \ {h} : handler'[g] = handler[g]
           /\ Len(channel') >= Len(channel) /\ Len(channel) \in Nat /\ Len(channel') \in Nat
           /\ \A i \in 1..Len(channel) : i \in 1..Len(channel') /\ channel'[i] = channel[i]
           /\ \A i \in 1..Len(channel') : i \notin 1..Len(channel) =>
                 /\ channel'[i].type # "event" => channel'[i].to = h
                 /\ channel'[i].type \in {"event", "signedIn"} => channel'[i].user = platformUser'
           /\ \A i, j \in 1..Len(channel') :
                 /\ i \notin 1..Len(channel) /\ j \notin 1..Len(channel)
                 /\ channel'[i].type # "event" /\ channel'[j].type # "event"
                 => i = j
           /\ \/ \E i \in 1..Len(channel') : i \notin 1..Len(channel) /\ channel'[i].type = "event"
              \/ platformUser' = platformUser
<1>0. channel \in Seq(Message) /\ Len(channel) \in Nat
  BY DEF AuthShape, AuthTypeOK
<1>1. Advance(h, "reply") /\ handler[h].pc \in {"auth", "signOut"}
  BY DEF SignInCompletes, SignOutCompletes
<1>2. /\ handler' \in [Handlers -> HandlerState] /\ handler'[h].pc = "reply"
      /\ \A g \in Handlers \ {h} : handler'[g] = handler[g]
  BY <1>1, HandlerSteps
<1>3. ASSUME NEW e \in Message, NEW r \in Message, Posts(e, r),
             e.type = "event", e.user = platformUser',
             r.type # "event", r.to = h, r.type = "signedIn" => r.user = platformUser'
      PROVE  /\ Len(channel') = Len(channel) + 2
             /\ \A i \in 1..Len(channel) : i \in 1..Len(channel') /\ channel'[i] = channel[i]
             /\ \A i \in 1..Len(channel') : i \notin 1..Len(channel) =>
                   /\ channel'[i].type # "event" => channel'[i].to = h
                   /\ channel'[i].type \in {"event", "signedIn"} =>
                         channel'[i].user = platformUser'
             /\ \A i, j \in 1..Len(channel') :
                   /\ i \notin 1..Len(channel) /\ j \notin 1..Len(channel)
                   /\ channel'[i].type # "event" /\ channel'[j].type # "event"
                   => i = j
             /\ \E i \in 1..Len(channel') : i \notin 1..Len(channel) /\ channel'[i].type = "event"
  <2>1. /\ Len(channel') = Len(channel) + 2
        /\ \A i \in 1..Len(channel) : channel'[i] = channel[i]
        /\ \/ channel'[Len(channel) + 1] = e /\ channel'[Len(channel) + 2] = r
           \/ channel'[Len(channel) + 1] = r /\ channel'[Len(channel) + 2] = e
    BY <1>0, <1>3, PostIndex
  <2>2. \A i \in 1..Len(channel') : i \notin 1..Len(channel) =>
           i = Len(channel) + 1 \/ i = Len(channel) + 2
    BY <1>0, <2>1
  <2>3. /\ Len(channel) + 1 \in 1..Len(channel') /\ Len(channel) + 1 \notin 1..Len(channel)
        /\ Len(channel) + 2 \in 1..Len(channel') /\ Len(channel) + 2 \notin 1..Len(channel)
    BY <1>0, <2>1
  <2>4. \A i \in 1..Len(channel) : i \in 1..Len(channel')
    BY <1>0, <2>1
  <2>5. CASE channel'[Len(channel) + 1] = e /\ channel'[Len(channel) + 2] = r
    BY <1>3, <2>1, <2>2, <2>3, <2>4, <2>5
  <2>6. CASE channel'[Len(channel) + 1] = r /\ channel'[Len(channel) + 2] = e
    BY <1>3, <2>1, <2>2, <2>3, <2>4, <2>6
  <2> QED BY <2>1, <2>5, <2>6
<1>4. ASSUME NEW r \in Message, channel' = Append(channel, r), platformUser' = platformUser,
             r.type # "event", r.to = h, r.type = "signedIn" => r.user = platformUser'
      PROVE  /\ Len(channel') = Len(channel) + 1
             /\ \A i \in 1..Len(channel) : i \in 1..Len(channel') /\ channel'[i] = channel[i]
             /\ \A i \in 1..Len(channel') : i \notin 1..Len(channel) =>
                   /\ channel'[i].type # "event" => channel'[i].to = h
                   /\ channel'[i].type \in {"event", "signedIn"} =>
                         channel'[i].user = platformUser'
             /\ \A i, j \in 1..Len(channel') :
                   i \notin 1..Len(channel) /\ j \notin 1..Len(channel) => i = j
  BY <1>0, <1>4, AppendIndex
<1>5. CASE SignInCompletes(h)
  <2> DEFINE u == handler[h].uid
  <2>1. u \in Users /\ platformUser' = u
    BY <1>5, PostStep DEF SignInCompletes
  <2>2. /\ Event(u) \in Message /\ SignedIn(h, u) \in Message
        /\ Event(u).type = "event" /\ Event(u).user = u
        /\ SignedIn(h, u).type = "signedIn" /\ SignedIn(h, u).to = h /\ SignedIn(h, u).user = u
    BY <2>1, MessageTypes DEF Event, SignedIn
  <2>3. CASE Posts(Event(u), SignedIn(h, u))
    BY <1>0, <1>1, <1>2, <1>3, <2>1, <2>2, <2>3
  <2>4. CASE platformUser = u /\ channel' = Append(channel, SignedIn(h, u))
    BY <1>0, <1>1, <1>2, <1>4, <2>1, <2>2, <2>4
  <2> QED BY <1>5, <2>3, <2>4, PostStep
<1>6. CASE SignOutCompletes(h)
  <2>1. platformUser' = Null
    BY <1>6 DEF SignOutCompletes
  <2>2. /\ Event(Null) \in Message /\ SignedOut(h) \in Message
        /\ Event(Null).type = "event" /\ Event(Null).user = Null
        /\ SignedOut(h).type = "signedOut" /\ SignedOut(h).to = h
    BY MessageTypes DEF Event, SignedOut
  <2>3. CASE Posts(Event(Null), SignedOut(h))
    BY <1>0, <1>1, <1>2, <1>3, <2>1, <2>2, <2>3
  <2>4. CASE platformUser = Null /\ channel' = Append(channel, SignedOut(h))
    BY <1>0, <1>1, <1>2, <1>4, <2>1, <2>2, <2>4
  <2> QED BY <1>6, <2>3, <2>4, PostStep
<1> QED BY <1>5, <1>6

\* Every reply finds its own invocation waiting for it, and finds it once.
LEMMA RepliesAwaitedHolds == AuthSpec => []RepliesAwaited
<1>1. AuthInit /\ AuthShape => RepliesAwaited
  BY DEF AuthInit, RepliesAwaited, Event
<1>2. AuthShape /\ AuthShape' /\ RepliesAwaited /\ [AuthNext]_authVars => RepliesAwaited'
  <2> SUFFICES ASSUME AuthShape, AuthShape', RepliesAwaited, [AuthNext]_authVars
               PROVE  RepliesAwaited'
    OBVIOUS
  <2>0. channel \in Seq(Message) /\ handler \in [Handlers -> HandlerState]
    BY DEF AuthShape, AuthTypeOK
  <2>1. CASE HandleMessage
    <3>1. channel # <<>> /\ channel' = Tail(channel) /\ Head(channel) = channel[1]
      BY <2>1, MessageStep
    <3>2. /\ 1 \in 1..Len(channel)
          /\ \A i \in 1..Len(channel') : /\ i + 1 \in 1..Len(channel) /\ i + 1 # 1
                                         /\ channel'[i] = channel[i + 1]
      BY <2>0, <3>1, TailFacts
    <3>3. \A i, j \in 1..Len(channel') :
             /\ channel'[i].type # "event" /\ channel'[j].type # "event"
             /\ channel'[i].to = channel'[j].to
             => i = j
      BY <3>2 DEF RepliesAwaited
    <3>4. CASE WatchAuthChange
      BY <3>2, <3>3, <3>4 DEF WatchAuthChange, RepliesAwaited
    <3>5. CASE SignInReply \/ SignOutReply
      <4> DEFINE h == channel[1].to
      <4>1. channel[1].type # "event" /\ (Finish(h) \/ Advance(h, "create"))
        BY <3>1, <3>5 DEF SignInReply, SignOutReply
      <4>2. h \in Handlers
        BY <3>2, <4>1, ReplyTo
      <4>3. \A g \in Handlers \ {h} : handler'[g] = handler[g]
        BY <4>1, <4>2, HandlerSteps
      <4>4. \A i \in 1..Len(channel') : channel'[i].type # "event" =>
               channel'[i].to \in Handlers \ {h}
        BY <3>2, <4>1, ReplyTo DEF RepliesAwaited
      <4>5. \A i \in 1..Len(channel') : channel'[i].type # "event" =>
               handler'[channel'[i].to].pc = "reply"
        BY <3>2, <4>3, <4>4 DEF RepliesAwaited
      <4> QED BY <3>3, <4>5 DEF RepliesAwaited
    <3> QED BY <2>1, <3>4, <3>5 DEF HandleMessage
  <2>2. ASSUME NEW h \in Handlers, Silent(h)
        PROVE  RepliesAwaited'
    <3>1. channel' = channel /\ \A g \in Handlers \ {h} : handler'[g] = handler[g]
      BY <2>2, SilentStep
    <3>2. \A i \in 1..Len(channel) : channel[i].type # "event" =>
             channel[i].to \in Handlers \ {h}
      BY <2>2, SilentNotAwaiting, ReplyTo DEF RepliesAwaited
    <3> QED BY <3>1, <3>2 DEF RepliesAwaited
  <2>3. ASSUME NEW h \in Handlers, SignInCompletes(h) \/ SignOutCompletes(h)
        PROVE  RepliesAwaited'
    <3>1. /\ handler[h].pc # "reply" /\ handler'[h].pc = "reply"
          /\ \A g \in Handlers \ {h} : handler'[g] = handler[g]
          /\ \A i \in 1..Len(channel) : channel'[i] = channel[i]
          /\ \A i \in 1..Len(channel') : i \notin 1..Len(channel) =>
                (channel'[i].type # "event" => channel'[i].to = h)
          /\ \A i, j \in 1..Len(channel') :
                /\ i \notin 1..Len(channel) /\ j \notin 1..Len(channel)
                /\ channel'[i].type # "event" /\ channel'[j].type # "event"
                => i = j
      BY <2>3, PostedMessages
    <3>2. \A i \in 1..Len(channel) : channel[i].type # "event" =>
             channel[i].to \in Handlers \ {h}
      BY <3>1, ReplyTo DEF RepliesAwaited
    <3>3. \A i \in 1..Len(channel') : channel'[i].type # "event" =>
             handler'[channel'[i].to].pc = "reply"
      BY <3>1, <3>2 DEF RepliesAwaited
    <3>4. \A i, j \in 1..Len(channel') :
             /\ channel'[i].type # "event" /\ channel'[j].type # "event"
             /\ channel'[i].to = channel'[j].to
             => i = j
      <4> SUFFICES ASSUME NEW i \in 1..Len(channel'), NEW j \in 1..Len(channel'),
                          channel'[i].type # "event", channel'[j].type # "event",
                          channel'[i].to = channel'[j].to
                   PROVE  i = j
        OBVIOUS
      <4>1. CASE i \in 1..Len(channel) /\ j \in 1..Len(channel)
        BY <3>1, <4>1 DEF RepliesAwaited
      <4>2. CASE i \notin 1..Len(channel) /\ j \notin 1..Len(channel)
        BY <3>1, <4>2
      <4>3. CASE i \in 1..Len(channel) /\ j \notin 1..Len(channel)
        BY <3>1, <3>2, <4>3
      <4>4. CASE i \notin 1..Len(channel) /\ j \in 1..Len(channel)
        BY <3>1, <3>2, <4>4
      <4> QED BY <4>1, <4>2, <4>3, <4>4
    <3> QED BY <3>3, <3>4 DEF RepliesAwaited
  <2>4. CASE Relaunch
    BY <2>4 DEF Relaunch, RepliesAwaited, Event
  <2>5. CASE Rebuild \/ UNCHANGED authVars
    BY <2>5 DEF Rebuild, authVars, RepliesAwaited
  <2> QED BY <2>1, <2>2, <2>3, <2>4, <2>5, AuthNextCases
<1> QED BY <1>1, <1>2, AuthShapeCorrect, PTL DEF AuthSpec

\* The uid of an invocation whose sign-in the SDK has answered.
UidKnown ==
    /\ \A h \in Handlers : handler[h].pc = "create" => handler[h].uid \in Users
    /\ \A i \in 1..Len(channel) :
          channel[i].type = "signedIn" => handler[channel[i].to].uid \in Users

\* A reply finds the sign-in it answers: it is the only one to its invocation.
LEMMA UidKnownHolds == AuthSpec => []UidKnown
<1>1. AuthInit => UidKnown
  BY DEF AuthInit, UidKnown, Event, Idle
<1>2. AuthShape /\ AuthShape' /\ RepliesAwaited /\ UidKnown /\ [AuthNext]_authVars => UidKnown'
  <2> SUFFICES ASSUME AuthShape, AuthShape', RepliesAwaited, UidKnown, [AuthNext]_authVars
               PROVE  UidKnown'
    OBVIOUS
  <2>0. channel \in Seq(Message) /\ handler \in [Handlers -> HandlerState]
    BY DEF AuthShape, AuthTypeOK
  <2>1. CASE HandleMessage
    <3>1. channel # <<>> /\ channel' = Tail(channel) /\ Head(channel) = channel[1]
      BY <2>1, MessageStep
    <3>2. /\ 1 \in 1..Len(channel)
          /\ \A i \in 1..Len(channel') : /\ i + 1 \in 1..Len(channel) /\ i + 1 # 1
                                         /\ channel'[i] = channel[i + 1]
      BY <2>0, <3>1, TailFacts
    <3>3. CASE WatchAuthChange
      BY <3>2, <3>3 DEF WatchAuthChange, UidKnown
    <3>4. CASE SignInReply \/ SignOutReply
      <4> DEFINE h == channel[1].to
      <4>1. channel[1].type # "event"
        BY <3>1, <3>4 DEF SignInReply, SignOutReply
      <4>2. h \in Handlers
        BY <3>2, <4>1, ReplyTo
      <4>3. \/ Finish(h)
            \/ Advance(h, "create") /\ channel[1].type = "signedIn"
        BY <3>1, <3>4 DEF SignInReply, SignOutReply
      <4>4. \A g \in Handlers \ {h} : handler'[g] = handler[g]
        BY <4>2, <4>3, HandlerSteps
      <4>5. \A i \in 1..Len(channel') : channel'[i].type = "signedIn" =>
               channel'[i].to \in Handlers \ {h}
        BY <3>2, <4>1, ReplyTo DEF RepliesAwaited
      <4>6. handler'[h].pc = "create" => handler'[h].uid \in Users
        BY <3>2, <4>2, <4>3, HandlerSteps DEF UidKnown, Idle
      <4> QED BY <3>2, <4>4, <4>5, <4>6 DEF UidKnown
    <3> QED BY <2>1, <3>3, <3>4 DEF HandleMessage
  <2>2. ASSUME NEW h \in Handlers, Silent(h)
        PROVE  UidKnown'
    <3>1. channel' = channel /\ \A g \in Handlers \ {h} : handler'[g] = handler[g]
      BY <2>2, SilentStep
    <3>2. \A i \in 1..Len(channel) : channel[i].type = "signedIn" =>
             channel[i].to \in Handlers \ {h}
      BY <2>2, SilentNotAwaiting, ReplyTo DEF RepliesAwaited
    <3>3. handler'[h].pc # "create"
      <4>1. CASE SignInTap(h)
        BY <2>0, <4>1 DEF SignInTap, registerUser, logIn, loginWithFacebook, TapSignIn, Start
      <4>2. CASE signOut(h)
        BY <2>0, <4>2 DEF signOut, Start
      <4>3. CASE FacebookLoggedIn(h) \/ FacebookLoggedOut(h)
        BY <4>3, HandlerSteps DEF FacebookLoggedIn, FacebookLoggedOut
      <4>4. CASE FacebookRefused(h) \/ SignInFails(h) \/ CreateReturns(h) \/ CreateThrows(h)
        <5>1. Finish(h)
          BY <4>4 DEF FacebookRefused, SignInFails, CreateReturns, CreateThrows
        <5> QED BY <5>1, HandlerSteps DEF Idle
      <4>5. CASE IsLoggedInAnswers(h)
        <5>1. PICK pc \in {"logOut", "signOut"} : Advance(h, pc)
          BY <4>5 DEF IsLoggedInAnswers
        <5> QED BY <5>1, HandlerSteps
      <4> QED BY <2>2, <4>1, <4>2, <4>3, <4>4, <4>5 DEF Silent
    <3> QED BY <3>1, <3>2, <3>3 DEF UidKnown
  <2>3. ASSUME NEW h \in Handlers, SignInCompletes(h) \/ SignOutCompletes(h)
        PROVE  UidKnown'
    <3>1. /\ handler[h].pc \in {"auth", "signOut"} /\ handler'[h].pc = "reply"
          /\ \A g \in Handlers \ {h} : handler'[g] = handler[g]
          /\ \A i \in 1..Len(channel) : channel'[i] = channel[i]
          /\ \A i \in 1..Len(channel') : i \notin 1..Len(channel) =>
                (channel'[i].type # "event" => channel'[i].to = h)
      BY <2>3, PostedMessages
    <3>2. \A i \in 1..Len(channel) : channel[i].type # "event" =>
             channel[i].to \in Handlers \ {h}
      BY <3>1, ReplyTo DEF RepliesAwaited
    <3>3. \A i \in 1..Len(channel') : i \notin 1..Len(channel) =>
             (channel'[i].type = "signedIn" => handler'[h].uid \in Users)
      <4>1. CASE SignInCompletes(h)
        BY <4>1, HandlerSteps DEF SignInCompletes, AuthShape, HandlerShape
      <4>2. CASE SignOutCompletes(h)
        <5> DEFINE e == Event(Null)
                   r == SignedOut(h)
        <5>1. e \in Message /\ r \in Message
          BY MessageTypes
        <5>2. e.type = "event" /\ r.type = "signedOut"
          BY DEF Event, SignedOut
        <5>3. Posts(e, r) \/ channel' = Append(channel, r)
          BY <4>2, PostStep
        <5> HIDE DEF e, r
        <5>4. CASE Posts(e, r)
          BY <2>0, <5>1, <5>2, <5>4, PostIndex
        <5>5. CASE channel' = Append(channel, r)
          <6>1. /\ Len(channel') = Len(channel) + 1 /\ channel'[Len(channel) + 1] = r
            BY <2>0, <5>1, <5>5, AppendFacts
          <6>2. \A i \in 1..Len(channel') : i \notin 1..Len(channel) => i = Len(channel) + 1
            BY <2>0, <6>1
          <6> QED BY <5>2, <6>1, <6>2
        <5> QED BY <5>3, <5>4, <5>5
      <4> QED BY <2>3, <4>1, <4>2
    <3> QED BY <3>1, <3>2, <3>3 DEF UidKnown
  <2>4. CASE Relaunch
    BY <2>4 DEF Relaunch, UidKnown, Event, Idle
  <2>5. CASE Rebuild \/ UNCHANGED authVars
    BY <2>5 DEF Rebuild, authVars, UidKnown
  <2> QED BY <2>1, <2>2, <2>3, <2>4, <2>5, AuthNextCases
<1> QED BY <1>1, <1>2, AuthShapeCorrect, RepliesAwaitedHolds, PTL DEF AuthSpec

\* The progress screen has a way out unless a sign-in failed or was of the
\* user the SDK already had.
THEOREM ProgressEndsHolds == AuthSpec => []ProgressEnds
<1> USE DEF platformVars, stateVars
<1>1. AuthInit => ProgressEnds
  BY DEF AuthInit, ProgressEnds, Event
<1>2. AuthShape /\ AuthShape' /\ RepliesAwaited /\ ProgressEnds /\ [AuthNext]_authVars
      => ProgressEnds'
  <2> SUFFICES ASSUME AuthShape, AuthShape', RepliesAwaited, ProgressEnds,
                      [AuthNext]_authVars
               PROVE  ProgressEnds'
    OBVIOUS
  <2>0. channel \in Seq(Message) /\ handler \in [Handlers -> HandlerState]
    BY DEF AuthShape, AuthTypeOK
  <2>1. CASE HandleMessage
    <3>1. CASE WatchAuthChange
      BY <3>1 DEF WatchAuthChange, changeFirebaseAuthStatus, changeFirebaseAuthStatusTo,
         ProgressEnds
    <3>2. CASE SignInReply \/ SignOutReply
      <4> DEFINE h == channel[1].to
      <4>1. channel # <<>> /\ channel' = Tail(channel) /\ Head(channel) = channel[1]
        BY <2>1, MessageStep
      <4>2. /\ 1 \in 1..Len(channel)
            /\ channel[1].type # "event" /\ (Finish(h) \/ Advance(h, "create"))
            /\ UNCHANGED <<firebaseAuthStatus, failed, again>>
        BY <2>0, <3>2, <4>1, TailFacts DEF SignInReply, SignOutReply
      <4>3. h \in Handlers /\ handler[h].pc = "reply"
        BY <4>2, ReplyTo DEF RepliesAwaited
      <4>4. \A g \in Handlers \ {h} : handler'[g] = handler[g]
        BY <4>2, <4>3, HandlerSteps
      <4>5. ASSUME NEW i \in 1..Len(channel), channel[i].type = "event"
            PROVE  \E j \in 1..Len(channel') : channel'[j].type = "event"
        <5>1. i # 1
          BY <4>2, <4>5
        <5>2. i - 1 \in 1..Len(channel') /\ channel'[i - 1] = channel[i]
          BY <2>0, <4>1, <5>1, TailFacts
        <5> QED BY <4>5, <5>2
      <4> QED BY <4>2, <4>3, <4>4, <4>5 DEF ProgressEnds
    <3> QED BY <2>1, <3>1, <3>2 DEF HandleMessage
  <2>2. ASSUME NEW h \in Handlers, Silent(h)
        PROVE  ProgressEnds'
    <3>1. /\ channel' = channel /\ handler' \in [Handlers -> HandlerState]
          /\ \A g \in Handlers \ {h} : handler'[g] = handler[g]
      BY <2>2, SilentStep
    <3>2. \/ firebaseAuthStatus' = "signout" \/ failed'
          \/ handler'[h].pc \in {"dialog", "auth"}
          \/ /\ UNCHANGED <<firebaseAuthStatus, failed, again>>
             /\ handler[h].pc \notin {"dialog", "auth"}
      <4>1. CASE SignInTap(h)
        <5>1. PICK op \in SignInOps, pc \in {"dialog", "auth"}, u \in Users :
                 TapSignIn(h, op, pc, u)
          <6> PICK u \in Users : registerUser(h, u) \/ logIn(h, u) \/ loginWithFacebook(h, u)
            BY <4>1 DEF SignInTap
          <6> QED BY DEF registerUser, logIn, loginWithFacebook, SignInOps
        <5>2. handler'[h].pc = pc
          BY <2>0, <5>1 DEF TapSignIn, Start
        <5> QED BY <5>2
      <4>2. CASE signOut(h)
        BY <4>2 DEF signOut, changeFirebaseAuthStatusTo
      <4>3. CASE FacebookLoggedIn(h)
        BY <4>3, HandlerSteps DEF FacebookLoggedIn
      <4>4. CASE FacebookRefused(h) \/ SignInFails(h)
        BY <4>4 DEF FacebookRefused, SignInFails
      <4>5. CASE CreateReturns(h) \/ CreateThrows(h) \/ IsLoggedInAnswers(h)
                 \/ FacebookLoggedOut(h)
        BY <4>5 DEF CreateReturns, CreateThrows, IsLoggedInAnswers, FacebookLoggedOut
      <4> QED BY <2>2, <4>1, <4>2, <4>3, <4>4, <4>5 DEF Silent
    <3> QED BY <3>1, <3>2 DEF ProgressEnds
  <2>3. ASSUME NEW h \in Handlers, SignInCompletes(h) \/ SignOutCompletes(h)
        PROVE  ProgressEnds'
    <3>1. UNCHANGED <<firebaseAuthStatus, failed>>
      BY <2>3 DEF SignInCompletes, SignOutCompletes
    <3>2. /\ \A g \in Handlers \ {h} : handler'[g] = handler[g]
          /\ \A i \in 1..Len(channel) : i \in 1..Len(channel') /\ channel'[i] = channel[i]
      BY <2>3, PostedMessages
    <3>3. CASE SignOutCompletes(h)
      <4>1. handler[h].pc = "signOut" /\ again' = again
        BY <3>3 DEF SignOutCompletes
      <4> QED BY <3>1, <3>2, <4>1 DEF ProgressEnds
    <3>4. CASE SignInCompletes(h)
      <4> DEFINE u == handler[h].uid
      <4>1. CASE platformUser = u
        BY <3>4, <4>1 DEF SignInCompletes, ProgressEnds
      <4>2. CASE platformUser # u
        <5>1. u \in Users /\ Posts(Event(u), SignedIn(h, u))
          BY <3>4, <4>2, PostStep
        <5>2. Event(u) \in Message /\ SignedIn(h, u) \in Message /\ Event(u).type = "event"
          BY <5>1, MessageTypes DEF Event
        <5>3. /\ Len(channel') = Len(channel) + 2
              /\ \/ channel'[Len(channel) + 1] = Event(u)
                 \/ channel'[Len(channel) + 2] = Event(u)
          BY <2>0, <5>1, <5>2, PostIndex
        <5>4. Len(channel) + 1 \in 1..Len(channel') /\ Len(channel) + 2 \in 1..Len(channel')
          BY <2>0, <5>3
        <5> QED BY <5>2, <5>3, <5>4 DEF ProgressEnds
      <4> QED BY <4>1, <4>2
    <3> QED BY <2>3, <3>3, <3>4
  <2>4. CASE Relaunch
    BY <2>4 DEF Relaunch, ProgressEnds, Event
  <2>5. CASE Rebuild \/ UNCHANGED authVars
    BY <2>5 DEF Rebuild, authVars, ProgressEnds
  <2> QED BY <2>1, <2>2, <2>3, <2>4, <2>5, AuthNextCases
<1> QED BY <1>1, <1>2, AuthShapeCorrect, RepliesAwaitedHolds, PTL DEF AuthSpec

----------------------------------------------------------------------------
\* What the SDK said last is true: the last event, and every sign-in reply
\* after it, names the user of the SDK.
LastWord ==
    \A i \in 1..Len(channel) :
        /\ channel[i].type \in {"event", "signedIn"}
        /\ \A j \in 1..Len(channel) : j > i => channel[j].type # "event"
        => channel[i].user = platformUser

\* A session that is shown is the session of the SDK once no event is left.
Agrees ==
    /\ firebaseAuthStatus = "signin"
    /\ \A i \in 1..Len(channel) : channel[i].type # "event"
    => user = platformUser

\* The last event and what follows it name the user of the SDK.
LEMMA LastWordHolds == AuthSpec => []LastWord
<1> USE DEF platformVars, stateVars
<1>1. AuthInit => LastWord
  BY DEF AuthInit, LastWord, Event
<1>2. AuthShape /\ LastWord /\ [AuthNext]_authVars => LastWord'
  <2> SUFFICES ASSUME AuthShape, LastWord, [AuthNext]_authVars
               PROVE  LastWord'
    OBVIOUS
  <2>0. channel \in Seq(Message) /\ Len(channel) \in Nat
    BY DEF AuthShape, AuthTypeOK
  <2>1. CASE HandleMessage
    <3>1. channel # <<>> /\ channel' = Tail(channel) /\ platformUser' = platformUser
      BY <2>1, MessageStep DEF HandleMessage, WatchAuthChange, SignInReply, SignOutReply
    <3>2. /\ Len(channel') = Len(channel) - 1
          /\ \A i \in 1..Len(channel') : /\ i + 1 \in 1..Len(channel)
                                         /\ channel'[i] = channel[i + 1]
      BY <2>0, <3>1, TailFacts
    <3> SUFFICES ASSUME NEW i \in 1..Len(channel'),
                        channel'[i].type \in {"event", "signedIn"},
                        \A j \in 1..Len(channel') : j > i => channel'[j].type # "event"
                 PROVE  channel'[i].user = platformUser
      BY <3>1 DEF LastWord
    <3>3. ASSUME NEW j \in 1..Len(channel), j > i + 1
          PROVE  channel[j].type # "event"
      <4>1. j - 1 \in 1..Len(channel') /\ j - 1 > i /\ (j - 1) + 1 = j
        BY <2>0, <3>2, <3>3
      <4> QED BY <3>2, <4>1
    <3> QED BY <3>2, <3>3 DEF LastWord
  <2>2. ASSUME NEW h \in Handlers, Silent(h)
        PROVE  LastWord'
    BY <2>2, SilentStep DEF LastWord
  <2>3. ASSUME NEW h \in Handlers, SignInCompletes(h) \/ SignOutCompletes(h)
        PROVE  LastWord'
    <3>1. /\ Len(channel') \in Nat
          /\ \A i \in 1..Len(channel) : i \in 1..Len(channel') /\ channel'[i] = channel[i]
          /\ \A i \in 1..Len(channel') : i \notin 1..Len(channel) =>
                (channel'[i].type \in {"event", "signedIn"} => channel'[i].user = platformUser')
          /\ \/ \E i \in 1..Len(channel') : i \notin 1..Len(channel) /\ channel'[i].type = "event"
             \/ platformUser' = platformUser
      BY <2>3, PostedMessages
    <3> SUFFICES ASSUME NEW i \in 1..Len(channel'),
                        channel'[i].type \in {"event", "signedIn"},
                        \A j \in 1..Len(channel') : j > i => channel'[j].type # "event"
                 PROVE  channel'[i].user = platformUser'
      BY DEF LastWord
    <3>2. CASE i \notin 1..Len(channel)
      BY <3>1, <3>2
    <3>3. CASE i \in 1..Len(channel)
      <4>1. ASSUME NEW j \in 1..Len(channel'), j \notin 1..Len(channel)
            PROVE  j > i
        BY <2>0, <3>1, <3>3, <4>1
      <4>2. platformUser' = platformUser
        BY <3>1, <4>1
      <4>3. \A j \in 1..Len(channel) : j > i => channel[j].type # "event"
        BY <3>1
      <4> QED BY <3>1, <3>3, <4>2, <4>3 DEF LastWord
    <3> QED BY <3>2, <3>3
  <2>4. CASE Relaunch
    BY <2>4 DEF Relaunch, LastWord, Event
  <2>5. CASE Rebuild \/ UNCHANGED authVars
    BY <2>5 DEF Rebuild, authVars, LastWord
  <2> QED BY <2>1, <2>2, <2>3, <2>4, <2>5, AuthNextCases
<1> QED BY <1>1, <1>2, AuthShapeCorrect, PTL DEF AuthSpec

\* The session that is shown is the session of the SDK.
LEMMA AgreesHolds == AuthSpec => []Agrees
<1> USE DEF platformVars, stateVars
<1>1. AuthInit => Agrees
  BY DEF AuthInit, Agrees
<1>2. AuthShape /\ LastWord /\ Agrees /\ [AuthNext]_authVars => Agrees'
  <2> SUFFICES ASSUME AuthShape, LastWord, Agrees, [AuthNext]_authVars,
                      firebaseAuthStatus' = "signin",
                      \A i \in 1..Len(channel') : channel'[i].type # "event"
               PROVE  user' = platformUser'
    BY DEF Agrees
  <2>0. channel \in Seq(Message) /\ Len(channel) \in Nat
    BY DEF AuthShape, AuthTypeOK
  <2>1. CASE HandleMessage
    <3>1. /\ channel # <<>> /\ channel' = Tail(channel) /\ Head(channel) = channel[1]
          /\ platformUser' = platformUser
      BY <2>1, MessageStep DEF HandleMessage, WatchAuthChange, SignInReply, SignOutReply
    <3>2. 1 \in 1..Len(channel) /\ Len(channel') = Len(channel) - 1
      BY <2>0, <3>1, TailFacts
    <3>3. ASSUME NEW j \in 1..Len(channel), j # 1
          PROVE  channel[j].type # "event"
      <4>1. j - 1 \in 1..Len(channel') /\ (j - 1) + 1 = j
        BY <2>0, <3>2, <3>3
      <4>2. channel'[j - 1] = channel[j]
        BY <2>0, <3>1, <4>1, TailFacts
      <4> QED BY <4>1, <4>2
    <3>4. channel[1].type \in {"event", "signedIn"} => channel[1].user = platformUser
      BY <3>2, <3>3 DEF LastWord
    <3>5. CASE WatchAuthChange \/ SignInReply
      BY <3>1, <3>4, <3>5 DEF WatchAuthChange, SignInReply
    <3>6. CASE SignOutReply
      <4>1. channel[1].type # "event" /\ UNCHANGED <<firebaseAuthStatus, user>>
        BY <3>1, <3>6 DEF SignOutReply
      <4> QED BY <3>1, <3>3, <4>1 DEF Agrees
    <3> QED BY <2>1, <3>5, <3>6 DEF HandleMessage
  <2>2. ASSUME NEW h \in Handlers, Silent(h)
        PROVE  user' = platformUser'
    <3>1. UNCHANGED <<channel, platformUser>>
      BY <2>2, SilentStep
    <3>2. UNCHANGED <<firebaseAuthStatus, user>>
      BY <2>2 DEF Silent, SignInTap, registerUser, logIn, loginWithFacebook, TapSignIn,
         changeFirebaseAuthStatusTo, signOut, FacebookLoggedIn, FacebookRefused, SignInFails,
         CreateReturns, CreateThrows, IsLoggedInAnswers, FacebookLoggedOut
    <3> QED BY <3>1, <3>2 DEF Agrees
  <2>3. ASSUME NEW h \in Handlers, SignInCompletes(h) \/ SignOutCompletes(h)
        PROVE  user' = platformUser'
    <3>1. platformUser' = platformUser
          /\ \A i \in 1..Len(channel) : i \in 1..Len(channel') /\ channel'[i] = channel[i]
      BY <2>3, PostedMessages
    <3>2. UNCHANGED <<firebaseAuthStatus, user>>
      BY <2>3 DEF SignInCompletes, SignOutCompletes
    <3> QED BY <3>1, <3>2 DEF Agrees
  <2>4. CASE Rebuild \/ Relaunch \/ UNCHANGED authVars
    BY <2>4 DEF Rebuild, Relaunch, authVars, Agrees
  <2> QED BY <2>1, <2>2, <2>3, <2>4, AuthNextCases
<1> QED BY <1>1, <1>2, AuthShapeCorrect, LastWordHolds, PTL DEF AuthSpec

\* Once the SDK's messages are handled, the two sessions are one.
THEOREM AgreesWhenQuietHolds == AuthSpec => []AgreesWhenQuiet
<1>1. Agrees => AgreesWhenQuiet
  BY DEF Agrees, AgreesWhenQuiet
<1> QED BY <1>1, AgreesHolds, PTL
=============================================================================
