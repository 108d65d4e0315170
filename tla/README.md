# A verification project for instagram_two_record

The program is a Flutter client of Firebase: `lib/` holds 2 900 lines of Dart,
and there is no server code, so that everything that must stay consistent
between phones is done by clients that read, wait, and write. The repository
has no test of its own (`test/widget_test.dart` is the counter test of the
project template). The models here are of `lib/` and of one part of the vendored
Firebase SDK (`ios/Pods`): how Firestore sends the writes that the app does not
wait for. Of the rest of the SDK they take what the app depends on.

## Inventory

| part | state | operations | what is hard about it |
|---|---|---|---|
| users collection, `repo/user_network_repository.dart` | one document per account: `followings`, `followers`, ... | `attemptCreateUser`, `followUser`, `unfollowUser`, two streams | reads before a transaction that does not read again; SDK retries; two creators |
| session, `models/firebase_auth_state.dart` | `_user`, `_firebaseAuthStatus`, `_facebookLogin`; the SDK's own `currentUser` | `watchAuthChange`, `registerUser`, `logIn`, `loginWithFacebook`, `signOut` | concurrent invocations; events and replies in either order; methods that throw half-way; restarts |
| app shell, `main.dart`, `models/user_model_state.dart` | current widget, fading widgets, subscriptions, `_userModel` | builder, `_initUserModel`, `_clearUserModel`, `clear` | frames come after notifications; subscriptions are never cancelled |
| search screen, `screens/search_screen.dart` | the list of other users | tap on a tile | list, decision and call are of three snapshots, which may be of three users |
| sharing, `screens/share_post_screen.dart`, `repo/post_...`, `repo/image_...` | route stack, upload, post document, `my_posts` | `sharePostProcedure` and what it calls | upload not awaited; failures between steps; back button; two runs |
| camera, `models/camera_state.dart`, `screens/camera_screen.dart`, `home_page.dart` | controller, ready flag, screens | open, initialise in a loop, dispose | disposal while initialising; a loop that never yields |
| likes and comments, `repo/post_...`, `repo/comment_...` | `num_of_likes`, `num_of_comments`, `last_comment`, comments | `toggleLike`, `createNewComment` | an update nobody awaits, sent at least once; a count read before the transaction; a handler that is run again |
| Firestore's writes, `ios/Pods/FirebaseFirestore/.../remote/remote_store.cc`, `stream.cc`, `write_stream.cc`, `core/sync_engine.cc`, `local/leveldb_mutation_queue.cc` | a queue on disk for each user, the write pipeline, the stream's state and timers, the callers that wait | `WriteMutations`, the stream's callbacks, `HandleWriteError`, `RestartNetwork`, `HandleCredentialChange` | answers without a name; everything is sent again after a reconnection; restarts and changes of user at any step |
| feed, gallery | posts of the followings; images | streams; a list | not modelled, see below |
| profile, widgets, constants | layout | - | no state that others depend on |

The session drives the app shell by `notifyListeners`; the shell subscribes to
a document of the users collection and stores it in `UserModelState`; the search
screen and the share screen read that state and call the repositories; camera
and share screen lie on one Navigator above the home page. The update of
`toggleLike` is left to the SDK's queue of writes; the two writes that the app
awaits outside a transaction go through the same queue, and the transactions go past it.

What makes each part correct: counts and edges agree as far as stale reads
allow, and edges join real accounts (users collection); one session, the SDK's,
and no spinner for ever (session); the screen is the one of the status and has
its data (shell); calls are made for the right user (search); a post, its image
and its author's list agree after any failure, and runs clean up their sheet
(sharing); ready means usable and the loop ends (camera); a tap flips one's own
like, and a call leaves one comment, counted (likes and comments); no write is
lost, credited to another, or left behind (Firestore's writes).

## Modules

| module | extends | models |
|---|---|---|
| `SocialGraph` | | abstract: accounts and a follow relation |
| `UserNetworkRepository` | | the calls on the users collection |
| `PhoneSession` | | abstract: what a phone's screens may rely on about its session |
| `SearchScreen` | `UserNetworkRepository` | phones that make those calls by tapping; each implements `PhoneSession` |
| `FirebaseAuthState` | | the session of one phone with the Auth and Facebook SDKs |
| `MyApp` | `FirebaseAuthState` | its screens, user model and subscriptions; implements `PhoneSession` |
| `SharePost` | | one share screen and the runs of its button |
| `CameraState` | | camera screens and their `CameraState`s |
| `WriteQueue` | | abstract: each user's queue of writes that are not awaited |
| `RemoteStore` | | Firestore's queue, pipeline, stream, and the wire; implements `WriteQueue` |
| `PostNetworkRepository` | | likes and comments; its phones send their updates by an instance of `WriteQueue` |
| `...Proofs` (one for each module above that is not abstract) | the module, `TLAPS` | theorems |
| `MC...` | the module | small constants |

Definitions whose comment begins with *Mutant* are wrong variants of the next
definition, kept to show that each property notices a plausible mistake; no
specification uses them.

### UserNetworkRepository

A *call* is a slot that is used once, with what the Dart closure has captured:
`mine`, `theirs` (the two `exists`) and `base` (`currentFollowers`). Each await
is a step, so that calls interleave at every await. `Get` answers what the server
has, or a document still in the queue of local writes of a phone that is creating it. The
transaction handler is run again by the SDK (`transaction_runner.cc`) when an
attempt failed or its answer was lost, with the same captured values:
`CommitTransaction` may therefore apply the same write more than once, and
`AbortTransaction` may give up after one was applied. An update to a document
that the transaction has not read carries the precondition that it exists.
The `set` of `attemptCreateUser` is a queued write, committed at least once
(`RemoteStore`): after `SetLands` the call may still be in `"set"` and land once
more. A `get` while offline, answered from an old cache, is a call that has read and
stalled; a missing document is never answered from the cache, since a `get` then throws.
`follows`, `unfollows`, `wiped` and `raced` are history, read by properties only
(`at`, `applied` and `again` of a call likewise).

Documents are reduced to `exists`, `followers` and `followings`. Nothing in the
app deletes a document.

### SearchScreen

Adds the phones, each with the user of its SDK, its home screen, the documents
it listens to, its `userModel` and the list of its search screen. Three notions
of "me" meet in a tap: the list lacks the user the SDK had when the list's
snapshot came (`UsersArrive`, `UsersExceptMe`), the call is made for the user of
the *model*, which is the last snapshot of any subscription (`UserModelArrives`),
and the home screen may have been built for a third (`HomeIsBuilt`). A home screen
that is still there is updated in place and keeps its list, since its pages are in a
static field; one built over a fading one begins without. `AuthIsBuilt` clears the
model and cancels nothing, because `currentStreamSub` is never stored; the list is
there, and takes taps, until `HomeIsGone`. Documents are never deleted, so that
a snapshot that is behind only lacks some of them.

How a session comes about is `MyApp`'s. `SearchScreen` takes of it what
`PhoneSession` states: a home screen, and a model, are of some user the SDK has
had since the process was started (`sessions`), not necessarily of the present one. `MyApp`
implements that contract, and so does every phone of `SearchScreen`. `sessions`
and `switched` are history.

### FirebaseAuthState

`channel` is the platform channel of the Auth plugin: events of
`authStateChanges()` and replies to awaited calls, in order. The SDK posts an
event when its user changes, at a sign-in of somebody else than it has and at a sign-out of
somebody; the reply may be on either side of it. Signing in the user it already has posts
the reply alone (`FIRAuth.m:1378-1385`). The SDK notifies from its main queue and reads
its user then: two changes so close that one notification sees only the second are
left out. Two `User` objects are never `==` (the class defines no equality), so
that the test `user != _user` of `watchAuthChange` only fails when both are null,
where the branch above it does the same. `handler` holds the invocations in
progress: the methods are async, started by taps, and nothing keeps two apart.
`Start` and everything up to the first await is one step, as in Dart. Errors:
`SignInFails` ends the method without a change of the status, because the error
handler itself throws on `_scaffoldKey.currentState`; `signOut` throws on
`_facebookLogin` unless a Facebook login was started in this process. `Relaunch`
is the end of the process and its next start; the SDK keeps its user. `failed` and
`again` are history.

### MyApp

`Build` is the frame after a notification: the builder of the Consumer, with
`_clearUserModel` or `_initUserModel`. `mounted` are the widgets the
AnimatedSwitcher shows, old ones included until the 400 ms are over: taps reach
them. `Snapshot(u)` is a document event of any subscription ever made in this
process. A missing document makes `UserModel.fromMap` fail: no state changes.
`currentStreamSub` stays null, as the setter leaves it, so `Clear` removes
nothing: the action is written out because the code is. `sessions` is history: the
users the SDK has had in this process.

### SharePost

One `SharePostScreen`, hence one post key, and the runs its button starts.
`routes` is the Navigator stack; `Back` is Android's back button, which pops the
modal sheet too; `mounted` falls when a popped screen's transition is over, after
which every use of its context throws. `UploadEnds` is the UploadTask, success or
failure. `Throws` ends a run at an await; the end of the process leaves the server
in the same states; what is queued by then, the update of the post, may still land
(`UpdateLands`), and lands once or more. `Pops` is the end of a run. The author is one
user, whose document is there (`author`) or is still to be set by `attemptCreateUser`
(`creating`): `SetLands` writes it with an empty `my_posts`, late or again. `reset`
is history. Two
taps on Share within one frame, before the sheet covers it, are left out: they
reach the same server states as a tap after the back button.

### CameraState

A screen is opened by a tap that first awaits the permissions, so several may be
asked for at once. `CamerasAnswered` with no camera, and `InitializeFailed` on a
controller that was disposed of, call `initialize()` on null: it fails
synchronously within the async method, and `while(!init)` goes on with microtasks
only: `frozen`, after which no action is enabled. The camera plugin's
`initialize()` on a controller disposed of meanwhile may return or throw; both
are allowed. A failure on a live controller changes nothing and is not a step.

### RemoteStore

Every handler of the SDK's worker queue is one step. `remote` gathers what
`RemoteStore`, its write stream and the connection hold: the pipeline, the
stream's state, the flag of the handshake, the idle timer, the tokens asked for,
and what is on the wire in both directions. The helpers (`FillWritePipeline`,
`AddToWritePipeline`, `MarkIdle`, `Close`, `Stop`, `RestartNetwork`, ...) are the
methods of that name, from state to state.

- `WriteMutations` puts a batch on disk, keeps its callback, fills the pipeline.
- `TokenArrives`, `StaleTokenArrives`, `TokenFails`: `Stream::Auth` and its
  answer, which the close count tells from an answer to an earlier start.
- `OnWriteStreamHandshakeComplete`, `OnWriteStreamMutationResult`: the two
  meanings of an answer. The second takes it for the first write of the pipeline.
  `DiesAcknowledging` is the end of the process between telling the caller and
  removing the batch from the disk.
- `OnStreamFinish`, `HandleWriteError`: the end of a call, without and with a
  write to reject. Answers not yet read may be lost to it (`StatusIsNext`).
- `BackoffElapses`, `IdleTimeout`: the two timers.
- `ConnectivityChanges`, `HandleCredentialChange(u)`: the network restarts, in the
  second case with another user's queue. `Dies` is a crash; the SDK comes up with
  what is on disk, for any user.
- `ServerTakes`, `ServerRefuses`, `ConnectionFails`: the server and the network.

Assumed of the server: it answers in order and well-formed, is done with a broken
stream before it serves the next one, and ends a stream only with an error.
Tokens and contents of writes are abstracted, and a batch is the one mutation of
one call. `author`, `told`, `log` and `refused` are history. Under the refinement
mapping a user's queue is `pending`, and the answers on the wire after a
handshake are `unread`.

### PostNetworkRepository

One post, and calls used once as above. `toggleLike(c)` is the answered `get()`,
with this phone's own pending writes on top (`Liked`); `IssueUpdate(c)` is the
update, which goes into the phone's queue and returns. From there the steps are
those of `WriteQueue`: `CommitUpdate` also changes the likes, `UpdateAnswered`,
`ConnectionLost` and `UpdateRefused` only the queue. `createNewComment(c)` is its
`get()`; `CommitComment(c)` an attempt of the transaction that is applied,
`CommentFails(c)` one that is not. `likeable` is false for a post as
`getMapForCreatePost` makes it: on it both calls throw, and write nothing.
`wanted`, `racedLikes` and `overlapped` are history. As in the users collection, a
`get()` that an old cache answers is a call that has read and stalled: "overlapping" and "at
the same time" below include it, however long ago the copy was made.

The only caller of `toggleLike` is the heart of `widgets/post.dart`, which cannot
be drawn for a post of this app (see Not modelled), and the comments screen,
the caller of `createNewComment`, is only opened from that widget. What is shown is what the
repository promises for posts with a list of likes and a count of comments,
which is how `PostModel` declares them.

## Runs

| run | constants | checks | about |
|---|---|---|---|
| `UserCalls` | 2 users, 1 registered, 3 calls, 1 retry | 5 invariants, refinement of `SocialGraph` | 439 k states |
| `SearchTaps` | 2 users, 1 phone, 3 calls, 1 retry | 3 invariants | 1.2 M states (symmetry, view) |
| `AppScreens` | 2 users, 2 invocations | 5 invariants of session and shell, refinement of `PhoneSession`, deadlock | 2.6 M states (symmetry) |
| `AppLiveness` | 1 user, 2 invocations | 3 liveness properties, deadlock | 263 k states |
| `ShareRuns` | 2 runs, 1 retry | 4 invariants, 1 liveness property | 98 k states |
| `CameraScreens` | 3 screens | 2 invariants, 1 liveness property | 8 k states |
| `Writes` | 2 users, pipeline of 2, 3 writes, 2 faults | 7 invariants, refinement of `WriteQueue`, 1 liveness property | 82 k states |
| `PostCalls` | 3 phones of 2 users, 3 calls, 1 retry, 5 commits | 5 invariants | 170 k states (symmetry) |
| `SearchFlip`, `SharePops`, `AppSnackBar`, `CameraComment` | smaller or the same | one comment of the code each | violated, see Findings |

**Bounds.** Calls, shares, screens and writes are used once, so the models that
have them stop (deadlock is not checked there); the session and the app run for
ever with a fixed number of concurrent invocations. Three calls are enough for a
lost update and a call that notices it, for two creators and a follower, and for
follow-unfollow-unfollow; two users give both roles and the case of one user in both; one retry lets an
applied attempt be repeated, and a second one repeats the same write. Two
invocations give every pair of overlapping methods; a third was tried by hand on
the session. `SearchTaps`: what one phone can do wrong by itself needs two accounts
that take turns on it; two phones with two calls were tried by hand, with 1.5 M states, and
the proofs are for any number of phones. `Writes`: a pipeline of 2 (10 in the code) with 3 writes is full while
one waits on disk; two faults (`MaxFaults` counts failures, restarts and changes
of user) give a change of user and back, or a fault during the recovery from
another; three were tried by hand, with 562 k states. Refusals of a write are not
counted, since each one ends a write. `PostCalls`: three taps let two of them
overlap on two phones of one user while another user taps; five commits
(`MaxCommits`) let two of the three be repeated. Symmetry is over values the
specification never distinguishes, in runs of invariants and, in `AppScreens`, of a
refinement without fairness, which is a property of single steps. `SearchTaps` has a
view (`WithoutHistory`) that leaves out the histories of the repository, which none of its
actions and none of the run's invariants read.

**Fairness.** `MyApp`: Dart handles its messages, Flutter draws a frame after a
notification and ends a fade, every SDK call is answered, and a subscription gets
its data; no tap and no restart is ever due. `SharePost`: every await is answered,
an upload and a transition end; nobody need tap. `CameraState`: the platform
answers, transitions end, and a camera that is tried again and again opens in the
end (the loop's own premise). `RemoteStore`: the worker queue runs the handlers it
is given, the backoff's timer among them, and the server deals with what reaches
it; no idle timeout, fault or further write is ever due, and faults are finitely many.
An answer may always be a failure.

**What the passing runs show.**
`CountWithinWrites`, `ExactUnlessRaced`, `FollowedIsCounted`: the count is not
exact, but it loses updates only to overlapping calls, never counts a call twice,
and never shows zero for somebody who is followed before anyone unfollows.
`FollowsAreReal`, `WipeNeedsTwoSets`, `ImplementsSocialGraph`: edges join real
accounts; a profile is lost only to the sets of two sign-ins or to one that is sent
again, never to a single set that is late; and with counts set aside the collection is the
abstract graph.
`SelfFollowNeedsSwitch`, `CountNotNegative`, `ModelFollowsTaps`: what the app can
do with the repository. `SelfFollowNeedsSwitch` is as strong as it can be:
without the exception for accounts that took turns in a process, TLC finds a user who
follows themselves, through the list, or the model, of the earlier account.
`ImplementsPhoneSession`: the contract these rest on is one the app keeps, with
overlapping sign-ins and sign-outs too.
`SigninHasUser`, `AgreesWhenQuiet`, `HomeIsOfTheSession`, `ScreenShowsStatus`: no null
dereference in the builder, and one session, although `_user` has three writers.
`ProgressEnds`, `ProgressIsLeft`: the spinner ends unless a sign-in failed or was of the
user the SDK already had. In both cases it does stay, and nothing in the app leads back
to the form. The second comes about when `signOut` throws
(`firebase_auth_state.dart:121`), which leaves the sign-in screen over a session the SDK
still has, and the same user logs in: progress is set (line 76), no event comes, and
the reply writes `_user` without a notification (line 104). No comment of the code promises
otherwise, so that this is stated as an exception (`again`) and is not a finding.
`HomeGetsItsModel`, `SignOutReachesTheSdk`: data arrive, and a sign-out that gets
past its Facebook check is carried through.
`ImageIsStored`, `PostIsListed`, `SharedHasImage`, `SheetHasRun`, `SheetEnds`: the
server stays consistent after any failure of any run, and a sheet stays only when
a run has thrown. A post is taken off its author's list only by a set of a document
that is there already (`reset`); the first one, however late, comes before any post, because
the transaction needs the document.
`PipelineIsOfTheUser`, `AnswersMatch`, `StreamAssertions`: after any change of user,
restart or reconnection the pipeline is the beginning of the present user's queue, and
an answer, which names no write, is taken for the write it answers.
`WritesKeepMoving`: while there is a write on disk for the user, something is on its
way that will move it; no state waits for the app's next call.
`NoWriteIsLost`, `NoneIsSkipped`, `LaterWritesWin`, `WritesSettle`: a write leaves the
disk only when it was committed or itself refused, none is committed before an
earlier one of its user that is not refused, an earlier write that is sent again is put
over a later one only until that one is sent again too, and the writes of a user
who stays signed in are settled in the end. `ImplementsWriteQueue` says it in one: this is a queue with
at-least-once commits from the front.
`TapsFlipTheLike`, `LikesAreOnesOwn`: that much is enough for likes, because
arrayUnion and arrayRemove repeat without harm; only overlapping taps of one user
(or a refused update) leave another like than the last tap asked for.
`OneCommentPerCall`, `CountIsNeverAhead`, `LastCommentIsThere`: a comment that is sent
twice is one comment; the count loses updates to overlapping calls and never
runs ahead.
`ReadyWhileShown`, `FreezeNeedsALeaver`, `CameraBecomesReady`: a shown screen that is
ready has an open controller; with a camera, only leaving a screen too early can
freeze the app.

## Findings

Each is a run that violates what a comment of the code says.

- `SearchFlip`: a tap does not flip (`search_screen.dart:47-48`):
  `amIFollowingThisUser` is false for everybody (`user_model_state.dart:29`, the
  condition is the wrong way round), so that nobody is ever unfollowed and a second tap counts again.
- `SharePops`: the first pop need not dismiss the progress sheet
  (`share_post_screen.dart:109`): after the back button the two pops take the share
  and the camera screen.
- `AppSnackBar`: the context kept for a snack bar (`firebase_auth_state.dart:143`)
  can be of a screen that is gone.
- `CameraComment`: `_readyTakePhoto` is set without a controller
  (`camera_state.dart:7`).

## Proofs

All theorems are for any users, calls, phones, runs, screens, writes and bounds;
the assumptions say that the constants have the obvious types
(`RegisteredAssumption`, `NoUserAssumption`, `NullAssumption`, `UserOfAssumption`,
the three `...RetryAssumption`s, `PendingAssumption`, `BoundAssumption`) and, in
`SharesAssumption`, that runs are finitely many. Every safety property of a passing run is
proved. The type invariants are proved and not run. Three more properties are proved,
and were tried by hand with TLC, without being part of a run:
`NobodyIsUnfollowed`, `WaitsForAnAnswer`, and that a phone of `SearchScreen` is a
`PhoneSession`.

**Users collection.** `Shape` (types, what each stage of a call has captured, and
missing documents are empty) is inductive. `CountInv` adds that a *captured*
count is within the bounds of the writes, too: a commit writes one more or less
than a captured count, not than the counter, so that the bound on the counter
alone is not inductive. `ExactInv` ties a captured count to the history at the
time it was read: if no write has come since, the commit is exact; a repeated
commit writes the same value. `EdgeInv` needs both: a captured count is not
negative while nobody unfollows, so that a follow leaves at least one. `CreatorInv`
remembers which calls saw a document missing, and which set has landed (`Landed`). `ImplementsSocialGraphHolds` maps a
set to `Open`, a commit to `Follow` or `Unfollow`, everything else to a stutter.

**Session.** `AuthShape` adds to the types that replies are addressed to
invocations. `RepliesAwaited`: every reply in the channel finds its invocation
waiting, once; without it a stray reply could write `_user` under any status.
`LastWord`: what the last event says, and every reply after it, is the SDK's
current user, a reply without an event too. A sign-in of another user puts an
event into the channel, whose handling ends the progress status; `ProgressEnds` is
inductive by that, with `again` for a sign-in that puts none. `Agrees`: a session that is shown, with no event on its way, is of the
SDK's user. `AgreesWhenQuiet` follows.

**App.** `ImplementsFirebaseAuthStateHolds` carries these over; `ScreenShowsStatus`
is inductive by itself, `ShownIsSubscribed` makes `HomeIsOfTheSession` so. `TypeCorrect` needs two facts of the session: users in its state are accounts
(`UidKnown`), and a shown session has one (`SigninHasUser`).
`ImplementsPhoneSessionHolds` maps a frame to `HomeIsBuilt` or `AuthIsBuilt`, the end
of a fade to `HomeIsGone`, and the answers to a sign-in or a sign-out to `SignsIn` and `SignsOut`.
What makes it go through is `SessionsKnown`: whoever the SDK has, has reported in a
message, or is the state's `user`, it has had in this process, so that a late frame
cannot build a home for anybody else; and that nothing is ever stored in
`currentStreamSub` (`NoneStored`), so that a frame of the sign-in screen removes no
subscription.

**Search screen.** `ImplementsUserNetworkRepositoryHolds`: the phones are clients of
the repository, so that its theorems carry over; `ImplementsPhoneSessionsHolds`: each
assumes no more of its session than `PhoneSession`. `OnlyFollows` says that every call
is a follow (the inverted condition, again), which with the bound on counts gives
`CountNotNegative`, and step by step `NobodyIsUnfollowed`. `EdgesAreMade` relates
models and edges to taps. `Shared` is behind `SelfFollowNeedsSwitch`: subscriptions
and the model's user are among the `sessions` of the process, all of which are in
`switched` as soon as there are two, and a list that is not empty lacks one of them.

**Sharing.** `ServerInv` says what a run knows by the point it has reached: past
`getPostImageUrl` the image is stored, and a run that saw the post missing stays on
record; an update that is queued was asked for by such a run. `ListInv` adds to
`PostIsListed` that a post has an author's document. `Stack` gives the shape of the routes: the share screen is third and
only sheets are above it, so that two pops leave at most two.

**Camera.** A screen that is shown and ready has an open controller, one that is
shown and initialising has one too, which only its own `dispose` takes away, and one that is
shown and not ready is initialising, unless it threw (`CameraInv`).

**Likes and comments.** The taps of a user who has never overlapped form a
sequence: what the user wanted is the last update in the queue, or the server's
state when there is none, and a repeated update is followed by all the later ones.
`QueuesAreWriteQueueHolds` shows that the queues of the phones do what the abstract queue
allows, which `RemoteStore` implements.
For comments: keys are made before the transaction, a captured count is never
more than the comments there are, and equal to them while no two calls are in progress.

**Firestore's writes.** `Inv` adds to the types that the ids of a queue ascend and lie
below the next id (`Disk`), the state of stream, wire and handshake (`RemoteInv`)
and that the pipeline is the beginning of the queue (`Begins`): ids are computed
from all queues on disk at a restart, so that one is used again only when
nothing with it is left. `Fate` puts `NoWriteIsLost` and `LaterWritesWin` together with what the
commits of a connection are (`Recent`: the beginning of the queue, in order) and
who made a write (`Made`). `Inv` also has `Full`: the pipeline is full or holds the
whole queue. With it a queue that is not empty has a pipeline that is not, hence a
stream that was started, and once it is open a write on the wire or an answer, which is
`WritesKeepMoving`. `NoneIsSkipped` rests on `EarlierAreDone`: when the server takes a
write, the earlier ones of its user are before it in the pipeline, and were taken on
this stream, or have left the queue. `ImplementsWriteQueueHolds` maps `ServerTakes` to
`Commit`, an acknowledgement to `Settle`, an error to `Refuse`, and every loss of
the connection to `BeginAgain`.

Only model-checked: the liveness properties `ProgressIsLeft`, `HomeGetsItsModel`,
`SignOutReachesTheSdk`, `SheetEnds`, `CameraBecomesReady` and `WritesSettle`. They need
fairness, ENABLED and induction over data, which the prover does not have. Of four of
them the safety half is proved, that what is waited for is on its way:
`ProgressEnds`, `SheetHasRun`, `WaitsForAnAnswer` and `WritesKeepMoving`.

## Not modelled

- The feed. `PostModel.fromMap` reads `num_of_likes` both as a List and as an int and so
  fails on every document that has the field, and `getMapForCreatePost` always
  writes it (`post_model.dart:40,45`); `toPosts` then emits nothing, CombineLatest neither,
  and the feed never has a post. A model of merging and sorting would be one of
  states the program cannot be in.
- The gallery: one list that is read once. Profile, widgets, constants: layout.
- Reading comments (`fetchAllComments`), validators, captions, tags.
- Firestore's security rules and indexes, which are not in the repository. A
  refusal may come at any write.
- Of the SDK: the watch stream, targets and views, limbo resolution, garbage
  collection of documents, disabling the network by the app, gRPC; Auth and Storage beyond what
  the app sees of them. Android's variant where it differs from iOS.
- Listeners counted, rather than collected in a set.
- The platform directories and generated files.

## Plan

Done, in this order: users collection with its abstract graph; session; app
shell; search, sharing and camera; Firestore's writes with their abstract queue;
likes and comments over that queue; proofs of all of them.

Left, by importance:

1. The watch side of the SDK: how a snapshot combines the server's documents with
   pending writes, which `Liked` and `Get` state and do not derive.
2. The user of a share run when the user model is of another account.
3. The gallery with the camera screen.
