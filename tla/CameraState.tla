---------------------------- MODULE CameraState ----------------------------
(***************************************************************************)
(* lib/models/camera_state.dart, the CameraScreen that owns one            *)
(* (lib/screens/camera_screen.dart), and how HomePage opens the screen     *)
(* (lib/home_page.dart).                                                   *)
(*                                                                         *)
(* HomePage awaits the permissions before it pushes the screen, so that    *)
(* two taps may open two.  getReadyToTakePhoto is started when the State   *)
(* is created and nobody waits for it: it goes on when the screen has been *)
(* left.  Dart has one thread: a loop that never awaits the platform stops *)
(* every screen for good (frozen).                                         *)
(***************************************************************************)
EXTENDS SequencesExt

CONSTANT Screens    \* the camera screens, one for each tap on the add button

VARIABLES
    phoneHasCamera,  \* what availableCameras answers, a list or an empty one
    routes,          \* camera screens on the Navigator, above the home page
    screen,          \* where each screen is in its life
    camera,          \* the CameraState of each screen
    frozen           \* the event loop is never reached again

vars == <<phoneHasCamera, routes, screen, camera, frozen>>

----------------------------------------------------------------------------
ScreenState == {"no", "asking", "shown", "left"}

Camera ==
    [pc : {"idle",
           "cameras",   \* getReadyToTakePhoto: availableCameras()
           "init",      \* getReadyToTakePhoto: _controller.initialize()
           "loop",      \* getReadyToTakePhoto: initialize() on no controller
           "threw",     \* getReadyToTakePhoto has failed
           "done"},
     controller     : {"null", "created", "open"},  \* _controller
     readyTakePhoto : BOOLEAN]                      \* _readyTakePhoto

NoCamera == [pc |-> "idle", controller |-> "null", readyTakePhoto |-> FALSE]

Init ==
    /\ phoneHasCamera \in BOOLEAN
    /\ routes = <<>>
    /\ screen = [s \in Screens |-> "no"]
    /\ camera = [s \in Screens |-> NoCamera]
    /\ frozen = FALSE

----------------------------------------------------------------------------
\* HomePage: a tap on the add button asks for the permissions.
openCamera(s) ==
    /\ ~frozen
    /\ routes = <<>>
    /\ screen[s] = "no"
    /\ screen' = [screen EXCEPT ![s] = "asking"]
    /\ UNCHANGED <<phoneHasCamera, routes, camera, frozen>>

\* They are granted: the screen is pushed, its createState starts the camera.
PermissionGranted(s) ==
    /\ ~frozen
    /\ screen[s] = "asking"
    /\ screen' = [screen EXCEPT ![s] = "shown"]
    /\ routes' = Append(routes, s)
    /\ camera' = [camera EXCEPT ![s].pc = "cameras"]
    /\ UNCHANGED <<phoneHasCamera, frozen>>

\* They are refused: showSnackBar is called on a key that has no messenger.
PermissionRefused(s) ==
    /\ ~frozen
    /\ screen[s] = "asking"
    /\ screen' = [screen EXCEPT ![s] = "no"]
    /\ UNCHANGED <<phoneHasCamera, routes, camera, frozen>>

\* The user leaves the screen on top; its State is disposed after the
\* transition, and disposes of the camera with it.
Leave ==
    /\ ~frozen
    /\ routes # <<>>
    /\ routes' = Front(routes)
    /\ UNCHANGED <<phoneHasCamera, screen, camera, frozen>>

dispose(s) ==
    /\ ~frozen
    /\ screen[s] = "shown"
    /\ ~Contains(routes, s)
    /\ screen' = [screen EXCEPT ![s] = "left"]
    /\ camera' = [camera EXCEPT ![s].controller = "null", ![s].readyTakePhoto = FALSE]
    /\ UNCHANGED <<phoneHasCamera, routes, frozen>>

----------------------------------------------------------------------------
\* Mutant: ready as soon as there is a controller.
CamerasAnsweredReady(s) ==
    /\ ~frozen
    /\ camera[s].pc = "cameras"
    /\ phoneHasCamera
    /\ camera' = [camera EXCEPT ![s] =
                    [pc |-> "init", controller |-> "created", readyTakePhoto |-> TRUE]]
    /\ UNCHANGED <<phoneHasCamera, routes, screen, frozen>>

\* Mutant: the test for an empty list is the wrong way round.
CamerasAnsweredInverted(s) ==
    /\ ~frozen
    /\ camera[s].pc = "cameras"
    /\ camera' = [camera EXCEPT ![s].pc = IF phoneHasCamera THEN "loop" ELSE "init"]
    /\ frozen' = phoneHasCamera
    /\ UNCHANGED <<phoneHasCamera, routes, screen>>

\* availableCameras answers.  With a camera there is a controller, also on a
\* screen that has been left; without one initialize() fails on null, and the
\* loop around it awaits nothing but that.
CamerasAnswered(s) ==
    /\ ~frozen
    /\ camera[s].pc = "cameras"
    /\ camera' = [camera EXCEPT ![s] =
                    IF phoneHasCamera
                    THEN [@ EXCEPT !.pc = "init", !.controller = "created"]
                    ELSE [@ EXCEPT !.pc = "loop"]]
    /\ frozen' = (camera'[s].pc = "loop")
    /\ UNCHANGED <<phoneHasCamera, routes, screen>>

\* availableCameras throws, and getReadyToTakePhoto with it.
CamerasFailed(s) ==
    /\ ~frozen
    /\ camera[s].pc = "cameras"
    /\ camera' = [camera EXCEPT ![s].pc = "threw"]
    /\ UNCHANGED <<phoneHasCamera, routes, screen, frozen>>

\* Mutant: _readyTakePhoto is never set.
InitializedUnready(s) ==
    /\ ~frozen
    /\ camera[s].pc = "init"
    /\ camera' = [camera EXCEPT ![s].pc = "done", ![s].controller = "open"]
    /\ UNCHANGED <<phoneHasCamera, routes, screen, frozen>>

\* _controller.initialize() returns: the photo can be taken.
Initialized(s) ==
    /\ ~frozen
    /\ camera[s].pc = "init"
    /\ camera' = [camera EXCEPT ![s] =
                    [pc |-> "done", readyTakePhoto |-> TRUE,
                     controller |-> IF @.controller = "null" THEN "null" ELSE "open"]]
    /\ UNCHANGED <<phoneHasCamera, routes, screen, frozen>>

\* It throws, and the loop calls it again: on the same controller, which
\* changes nothing, or on none, when the screen was left meanwhile.
InitializeFailed(s) ==
    /\ ~frozen
    /\ camera[s].pc = "init"
    /\ camera[s].controller = "null"
    /\ camera' = [camera EXCEPT ![s].pc = "loop"]
    /\ frozen' = TRUE
    /\ UNCHANGED <<phoneHasCamera, routes, screen>>

Next ==
    \/ Leave
    \/ \E s \in Screens :
         \/ openCamera(s) \/ PermissionGranted(s) \/ PermissionRefused(s)
         \/ CamerasAnswered(s) \/ CamerasFailed(s)
         \/ Initialized(s) \/ InitializeFailed(s)
         \/ dispose(s)

Spec == Init /\ [][Next]_vars

\* The platform answers, transitions end, and a camera that is tried again and
\* again opens in the end: that is what the loop is for.
FairSpec ==
    /\ Spec
    /\ \A s \in Screens : /\ WF_vars(CamerasAnswered(s) \/ CamerasFailed(s))
                          /\ WF_vars(Initialized(s))
                          /\ WF_vars(dispose(s))

----------------------------------------------------------------------------
TypeOK ==
    /\ phoneHasCamera \in BOOLEAN
    /\ routes \in Seq(Screens)
    /\ screen \in [Screens -> ScreenState]
    /\ camera \in [Screens -> Camera]
    /\ frozen \in BOOLEAN

\* TakePhoto draws the preview and takes the picture of _controller whenever
\* _readyTakePhoto is set: on a screen that is still there it is open.
ReadyWhileShown ==
    \A s \in Screens :
        screen[s] = "shown" /\ camera[s].readyTakePhoto => camera[s].controller = "open"

\* On a phone with a camera the app can only freeze because of a camera screen
\* that was left before its camera was ready.
FreezeNeedsALeaver ==
    frozen /\ phoneHasCamera =>
        \E s \in Screens : screen[s] = "left" /\ camera[s].pc = "loop"

\* A camera screen that is shown is never left waiting for nothing: its camera is
\* ready, or an answer is on its way, unless it has thrown or the app has frozen.
WaitsForAnAnswer ==
    \A s \in Screens :
        screen[s] = "shown" =>
            \/ camera[s].readyTakePhoto
            \/ camera[s].pc \in {"cameras", "init", "threw"}
            \/ frozen

\* A camera screen gets its camera: it becomes ready or is left, unless the
\* list of cameras cannot be had or the app has frozen.
CameraBecomesReady ==
    \A s \in Screens :
        screen[s] = "shown" /\ camera[s].pc = "cameras"
            ~> \/ camera[s].readyTakePhoto \/ screen[s] = "left"
               \/ camera[s].pc = "threw" \/ frozen

\* The comment at _readyTakePhoto: it is set when the controller is ready.
ReadyMeansInitialized ==
    \A s \in Screens : camera[s].readyTakePhoto => camera[s].controller = "open"
=============================================================================
