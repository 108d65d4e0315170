------------------------- MODULE CameraStateProofs -------------------------
(***************************************************************************)
(* Theorems about CameraState, for any number of camera screens: the ready *)
(* flag of a screen that is shown can be trusted, and with a camera only a *)
(* screen that was left too early freezes the app.                         *)
(***************************************************************************)
EXTENDS CameraState, SequenceTheorems, TLAPS

----------------------------------------------------------------------------
\* The state keeps its types.
THEOREM TypeCorrect == Spec => []TypeOK
<1>1. Init => TypeOK
  <2> SUFFICES ASSUME Init
               PROVE  TypeOK
    OBVIOUS
  <2>1. routes \in Seq(Screens)
    BY EmptySeq DEF Init
  <2>2. NoCamera \in Camera
    BY DEF NoCamera, Camera
  <2>3. camera \in [Screens -> Camera]
    BY <2>2 DEF Init
  <2>4. screen \in [Screens -> ScreenState]
    BY DEF Init, ScreenState
  <2> QED BY <2>1, <2>3, <2>4 DEF Init, TypeOK
<1>2. TypeOK /\ [Next]_vars => TypeOK'
  <2> SUFFICES ASSUME TypeOK, [Next]_vars
               PROVE  TypeOK'
    OBVIOUS
  <2>0. /\ screen \in [Screens -> ScreenState]
        /\ camera \in [Screens -> Camera]
        /\ \A s \in Screens : camera[s] \in Camera
    BY DEF TypeOK
  <2>1. CASE Leave
    <3>1. routes \in Seq(Screens) /\ routes # <<>>
      BY <2>1 DEF Leave, TypeOK
    <3> DEFINE n == Len(routes)
    <3>2. n \in Nat \ {0} /\ \A i \in 1..(n - 1) : routes[i] \in Screens
      BY <3>1, EmptySeq, ElementOfSeq
    <3>3. routes' = SubSeq(routes, 1, n - 1)
      BY <2>1 DEF Leave, Front
    <3> HIDE DEF n
    <3>4. n - 1 \in Int
      BY <3>2
    <3>5. routes' \in Seq(Screens)
      BY <3>2, <3>3, <3>4, SubSeqProperties
    <3> QED BY <2>1, <3>5 DEF Leave, TypeOK
  <2>2. ASSUME NEW s \in Screens, openCamera(s) \/ PermissionRefused(s)
        PROVE  TypeOK'
    BY <2>2, <2>0 DEF openCamera, PermissionRefused, TypeOK, ScreenState
  <2>3. ASSUME NEW s \in Screens, PermissionGranted(s)
        PROVE  TypeOK'
    <3>1. routes' \in Seq(Screens)
      BY <2>3, AppendProperties DEF PermissionGranted, TypeOK
    <3>2. camera' \in [Screens -> Camera]
      BY <2>3, <2>0 DEF PermissionGranted, Camera
    <3> QED BY <2>3, <2>0, <3>1, <3>2 DEF PermissionGranted, TypeOK, ScreenState
  <2>4. ASSUME NEW s \in Screens, CamerasAnswered(s)
        PROVE  TypeOK'
    <3>1. camera' \in [Screens -> Camera]
      <4>1. CASE phoneHasCamera
        <5>1. camera' = [camera EXCEPT ![s] = [camera[s] EXCEPT !.pc = "init",
                                                              !.controller = "created"]]
          BY <2>4, <4>1 DEF CamerasAnswered
        <5>2. [camera[s] EXCEPT !.pc = "init", !.controller = "created"] \in Camera
          BY <2>0 DEF Camera
        <5> QED BY <5>1, <5>2, <2>0
      <4>2. CASE ~phoneHasCamera
        <5>1. camera' = [camera EXCEPT ![s] = [camera[s] EXCEPT !.pc = "loop"]]
          BY <2>4, <4>2 DEF CamerasAnswered
        <5>2. [camera[s] EXCEPT !.pc = "loop"] \in Camera
          BY <2>0 DEF Camera
        <5> QED BY <5>1, <5>2, <2>0
      <4> QED BY <4>1, <4>2
    <3>2. frozen' \in BOOLEAN
      BY <2>4 DEF CamerasAnswered
    <3> QED BY <2>4, <3>1, <3>2 DEF CamerasAnswered, TypeOK
  <2>5. ASSUME NEW s \in Screens, CamerasFailed(s) \/ InitializeFailed(s)
        PROVE  TypeOK'
    <3>1. camera' \in [Screens -> Camera]
      BY <2>5, <2>0 DEF CamerasFailed, InitializeFailed, Camera
    <3> QED BY <2>5, <3>1 DEF CamerasFailed, InitializeFailed, TypeOK
  <2>6. ASSUME NEW s \in Screens, Initialized(s)
        PROVE  TypeOK'
    <3>1. camera' \in [Screens -> Camera]
      BY <2>6, <2>0 DEF Initialized, Camera
    <3> QED BY <2>6, <3>1 DEF Initialized, TypeOK
  <2>7. ASSUME NEW s \in Screens, dispose(s)
        PROVE  TypeOK'
    <3>1. camera' \in [Screens -> Camera]
      <4>1. camera' = [camera EXCEPT ![s] = [camera[s] EXCEPT !.controller = "null",
                                                            !.readyTakePhoto = FALSE]]
        BY <2>7, <2>0 DEF dispose
      <4>2. [camera[s] EXCEPT !.controller = "null", !.readyTakePhoto = FALSE] \in Camera
        BY <2>0 DEF Camera
      <4> QED BY <4>1, <4>2, <2>0
    <3> QED BY <2>7, <2>0, <3>1 DEF dispose, TypeOK, ScreenState
  <2>8. CASE UNCHANGED vars
    BY <2>8 DEF vars, TypeOK
  <2> QED BY <2>1, <2>2, <2>3, <2>4, <2>5, <2>6, <2>7, <2>8 DEF Next
<1> QED BY <1>1, <1>2, PTL DEF Spec

----------------------------------------------------------------------------
\* What the camera of a screen can be: untouched until the screen is shown,
\* not ready before it is initialised, and with its controller while it is
\* being initialised, as long as the screen is there.
CameraOf(s) ==
    /\ screen[s] \in {"no", "asking"}
         => camera[s].pc = "idle" /\ ~camera[s].readyTakePhoto
    /\ camera[s].pc \in {"idle", "cameras"} => ~camera[s].readyTakePhoto
    /\ screen[s] = "shown" /\ camera[s].pc = "init" => camera[s].controller = "created"
    /\ screen[s] = "shown" /\ camera[s].readyTakePhoto => camera[s].controller = "open"
    /\ screen[s] = "shown" /\ ~camera[s].readyTakePhoto /\ ~frozen
         => camera[s].pc \in {"cameras", "init", "threw"}

CameraInv ==
    /\ \A s \in Screens : CameraOf(s)
    /\ FreezeNeedsALeaver

\* Inductive: only dispose takes the controller of a camera away, and from then
\* on its screen is left.
LEMMA CameraInvHolds == Spec => []CameraInv
<1>1. Init => CameraInv
  BY DEF Init, CameraInv, CameraOf, FreezeNeedsALeaver, NoCamera
<1>2. TypeOK /\ CameraInv /\ [Next]_vars => CameraInv'
  <2> SUFFICES ASSUME TypeOK, CameraInv, [Next]_vars
               PROVE  CameraInv'
    OBVIOUS
  <2>0. /\ DOMAIN screen = Screens /\ DOMAIN camera = Screens
        /\ \A s \in Screens : camera[s] \in Camera /\ CameraOf(s)
    BY DEF TypeOK, CameraInv
  <2>1. ASSUME NEW s \in Screens, ~frozen, ~frozen' \/ ~phoneHasCamera',
               CameraOf(s)',
               \A t \in Screens \ {s} : screen'[t] = screen[t] /\ camera'[t] = camera[t]
        PROVE  CameraInv'
    <3>1. \A t \in Screens : CameraOf(t)'
      BY <2>1, <2>0 DEF CameraOf
    <3> QED BY <3>1, <2>1 DEF CameraInv, FreezeNeedsALeaver
  <2>2. CASE Leave \/ UNCHANGED vars
    <3>1. UNCHANGED <<phoneHasCamera, screen, camera, frozen>>
      BY <2>2 DEF Leave, vars
    <3> QED BY <3>1 DEF CameraInv, CameraOf, FreezeNeedsALeaver
  <2>3. ASSUME NEW s \in Screens, openCamera(s) \/ PermissionRefused(s)
        PROVE  CameraInv'
    <3>1. /\ screen[s] \in {"no", "asking"} /\ screen'[s] \in {"no", "asking"}
          /\ camera' = camera /\ ~frozen /\ ~frozen'
          /\ \A t \in Screens \ {s} : screen'[t] = screen[t]
      BY <2>3, <2>0 DEF openCamera, PermissionRefused
    <3>2. CameraOf(s)'
      BY <3>1, <2>0 DEF CameraOf
    <3> QED BY <2>1, <3>1, <3>2
  <2>4. ASSUME NEW s \in Screens, PermissionGranted(s)
        PROVE  CameraInv'
    <3>1. /\ screen[s] = "asking" /\ screen'[s] = "shown" /\ ~frozen /\ ~frozen'
          /\ camera'[s].pc = "cameras"
          /\ camera'[s].readyTakePhoto = camera[s].readyTakePhoto
          /\ \A t \in Screens \ {s} : screen'[t] = screen[t] /\ camera'[t] = camera[t]
      BY <2>4, <2>0 DEF PermissionGranted, Camera
    <3>2. CameraOf(s)'
      BY <3>1, <2>0 DEF CameraOf
    <3> QED BY <2>1, <3>1, <3>2
  <2>5. ASSUME NEW s \in Screens, CamerasAnswered(s)
        PROVE  CameraInv'
    <3>1. /\ ~frozen
          /\ camera[s].pc = "cameras" /\ screen' = screen /\ phoneHasCamera' = phoneHasCamera
          /\ \A t \in Screens \ {s} : camera'[t] = camera[t]
          /\ camera'[s].readyTakePhoto = camera[s].readyTakePhoto
          /\ \/ phoneHasCamera /\ camera'[s].pc = "init" /\ camera'[s].controller = "created"
             \/ ~phoneHasCamera /\ camera'[s].pc = "loop"
      <4>1. CASE phoneHasCamera
        BY <2>5, <4>1, <2>0 DEF CamerasAnswered, Camera
      <4>2. CASE ~phoneHasCamera
        BY <2>5, <4>2, <2>0 DEF CamerasAnswered, Camera
      <4> QED BY <4>1, <4>2
    <3>2. ~frozen' \/ ~phoneHasCamera'
      <4>1. frozen' = (camera'[s].pc = "loop")
        BY <2>5 DEF CamerasAnswered
      <4>2. CASE phoneHasCamera
        BY <3>1, <4>1, <4>2
      <4>3. CASE ~phoneHasCamera
        <5>1. phoneHasCamera' = phoneHasCamera
          BY <3>1
        <5> QED BY <4>3, <5>1
      <4> QED BY <4>2, <4>3
    <3>3. camera'[s].pc = "loop" => frozen'
      BY <2>5 DEF CamerasAnswered
    <3>4. CameraOf(s)'
      BY <3>1, <3>3, <2>0 DEF CameraOf
    <3> QED BY <2>1, <3>1, <3>2, <3>4
  <2>6. ASSUME NEW s \in Screens, CamerasFailed(s)
        PROVE  CameraInv'
    <3>1. /\ camera[s].pc = "cameras" /\ camera'[s].pc = "threw"
          /\ screen' = screen /\ ~frozen /\ ~frozen'
          /\ camera'[s].readyTakePhoto = camera[s].readyTakePhoto
          /\ \A t \in Screens \ {s} : camera'[t] = camera[t]
      BY <2>6, <2>0 DEF CamerasFailed, Camera
    <3>2. CameraOf(s)'
      BY <3>1, <2>0 DEF CameraOf
    <3> QED BY <2>1, <3>1, <3>2
  <2>7. ASSUME NEW s \in Screens, Initialized(s)
        PROVE  CameraInv'
    <3>1. /\ camera[s].pc = "init" /\ camera'[s].pc = "done"
          /\ screen' = screen /\ ~frozen /\ ~frozen'
          /\ camera'[s].readyTakePhoto
          /\ camera'[s].controller = IF camera[s].controller = "null" THEN "null" ELSE "open"
          /\ \A t \in Screens \ {s} : camera'[t] = camera[t]
      BY <2>7, <2>0 DEF Initialized, Camera
    <3>2. CameraOf(s)'
      BY <3>1, <2>0 DEF CameraOf
    <3> QED BY <2>1, <3>1, <3>2
  <2>8. ASSUME NEW s \in Screens, InitializeFailed(s)
        PROVE  CameraInv'
    <3>1. /\ camera[s].pc = "init" /\ camera[s].controller = "null"
          /\ ~frozen /\ frozen'
          /\ camera'[s].pc = "loop" /\ screen' = screen
          /\ camera'[s].controller = camera[s].controller
          /\ camera'[s].readyTakePhoto = camera[s].readyTakePhoto
          /\ \A t \in Screens \ {s} : camera'[t] = camera[t]
      BY <2>8, <2>0 DEF InitializeFailed, Camera
    <3>2. screen[s] = "left"
      BY <3>1, <2>0 DEF CameraOf, TypeOK, ScreenState
    <3>3. CameraOf(s)'
      BY <3>1, <3>2 DEF CameraOf
    <3>4. \A t \in Screens : CameraOf(t)'
      BY <3>1, <3>3, <2>0 DEF CameraOf
    <3>5. FreezeNeedsALeaver'
      BY <3>1, <3>2 DEF FreezeNeedsALeaver
    <3> QED BY <3>4, <3>5 DEF CameraInv
  <2>9. ASSUME NEW s \in Screens, dispose(s)
        PROVE  CameraInv'
    <3>1. /\ screen'[s] = "left" /\ ~frozen /\ ~frozen'
          /\ camera'[s].readyTakePhoto = FALSE
          /\ \A t \in Screens \ {s} : screen'[t] = screen[t] /\ camera'[t] = camera[t]
      BY <2>9, <2>0 DEF dispose, Camera
    <3>2. CameraOf(s)'
      BY <3>1 DEF CameraOf
    <3> QED BY <2>1, <3>1, <3>2
  <2> QED BY <2>2, <2>3, <2>4, <2>5, <2>6, <2>7, <2>8, <2>9 DEF Next
<1> QED BY <1>1, <1>2, TypeCorrect, PTL DEF Spec

\* On a screen that is shown, a ready camera is an open one.
THEOREM ReadyWhileShownHolds == Spec => []ReadyWhileShown
<1>1. CameraInv => ReadyWhileShown
  BY DEF CameraInv, CameraOf, ReadyWhileShown
<1> QED BY <1>1, CameraInvHolds, PTL

\* With a camera, the app is only frozen by the loop of a screen that was left.
THEOREM FreezeNeedsALeaverHolds == Spec => []FreezeNeedsALeaver
<1>1. CameraInv => FreezeNeedsALeaver
  BY DEF CameraInv
<1> QED BY <1>1, CameraInvHolds, PTL

\* The safety half of CameraBecomesReady: a shown screen without its camera has
\* an answer coming.
THEOREM WaitsForAnAnswerHolds == Spec => []WaitsForAnAnswer
<1>1. CameraInv => WaitsForAnAnswer
  BY DEF CameraInv, CameraOf, WaitsForAnAnswer
<1> QED BY <1>1, CameraInvHolds, PTL
=============================================================================
