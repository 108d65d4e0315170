----------------------------- MODULE SharePost -----------------------------
(***************************************************************************)
(* lib/screens/share_post_screen.dart, with what it calls of               *)
(* image_network_repository.dart and post_network_repository.dart: one     *)
(* SharePostScreen, hence one post key, and the runs of sharePostProcedure *)
(* that its Share button starts.                                           *)
(*                                                                         *)
(* The button is covered by a modal sheet while a run is in progress, but  *)
(* Android's back button takes the sheet away: the screen can be left, or  *)
(* Share tapped again, while the first run goes on.  uploadImage returns   *)
(* when the upload has been started, not when it has ended.                *)
(*                                                                         *)
(* A run that is cut short, by an exception or by the end of the process,  *)
(* leaves the server as it is at that await: Throws stands for both.  What *)
(* was queued for the server by then, the update of the post, may still    *)
(* land; a write that is queued is committed at least once (RemoteStore).  *)
(*                                                                         *)
(* The author's document is written by others too: attemptCreateUser of    *)
(* UserNetworkRepository, whose set may land late or again.                *)
(***************************************************************************)
EXTENDS Naturals, FiniteSets, SequencesExt

CONSTANTS
    Shares,      \* runs of sharePostProcedure, each started at most once
    MaxRetries   \* attempts of the transaction after the first one

ASSUME ShareRetryAssumption == MaxRetries \in Nat

ASSUME SharesAssumption == IsFiniteSet(Shares)

VARIABLES
    routes,   \* the stack of the Navigator
    mounted,  \* the State of the SharePostScreen still has its context
    stored,   \* the image is in Firebase Storage
    post,     \* the document of the post
    myPosts,  \* the post is among my_posts of its author
    author,   \* the author's document is on the server
    creating, \* a set of the author's document is under way
    reset,    \* history: the author's document was set while it existed
    share     \* the runs

authorVars == <<author, creating, reset>>
serverVars == <<stored, post, myPosts, authorVars>>
vars == <<routes, mounted, serverVars, share>>

----------------------------------------------------------------------------
Routes == {"home", "camera", "share", "sheet"}

Post == [exists : BOOLEAN, postImg : BOOLEAN]  \* postImg: is not ""

NoPost == [exists |-> FALSE, postImg |-> FALSE]

getMapForCreatePost == [exists |-> TRUE, postImg |-> FALSE]

ShareState ==
    [pc : {"idle",
           "resize",   \* compute(getResizedImage)
           "get",      \* createNewPost: postRef.get()
           "tx",       \* createNewPost: runTransaction
           "url",      \* getDownloadURL
           "check",    \* updatePostImageUrl: postRef.get()
           "update",   \* updatePostImageUrl: postRef.update()
           "shared",   \* the run has popped two routes
           "failed"},  \* an await threw
     uploading : BOOLEAN,           \* its UploadTask is not done
     queued    : BOOLEAN,           \* its update waits for the server's answer
     missing   : BOOLEAN,           \* ~postSnapshot.exists of createNewPost
     tries     : 0..MaxRetries]

NotStarted ==
    [pc |-> "idle", uploading |-> FALSE, queued |-> FALSE, missing |-> FALSE, tries |-> 0]

Running(s) == share[s].pc \notin {"idle", "shared", "failed"}

Advance(s, pc) == share' = [share EXCEPT ![s].pc = pc]

\* The same with nothing left in the queue.
Settle(s, pc) == share' = [share EXCEPT ![s].pc = pc, ![s].queued = FALSE]

\* The author is signed in and has a user model, of the document on the server
\* or of the one attemptCreateUser has just queued.
Init ==
    /\ routes = <<"home", "camera", "share">>
    /\ mounted = TRUE
    /\ stored = FALSE
    /\ post = NoPost
    /\ myPosts = FALSE
    /\ author \in BOOLEAN
    /\ creating \in BOOLEAN
    /\ author \/ creating
    /\ reset = FALSE
    /\ share = [s \in Shares |-> NotStarted]

----------------------------------------------------------------------------
\* The Share button, up to the first await: the sheet is on the stack.
sharePostProcedure(s) ==
    /\ share[s].pc = "idle"
    /\ routes # <<>> /\ Last(routes) = "share"
    /\ routes' = Append(routes, "sheet")
    /\ Advance(s, "resize")
    /\ UNCHANGED <<mounted, serverVars>>

\* uploadImage returns: the upload has been started, or something threw and
\* was caught.  The run then reads the user model through its context.
uploadImage(s) ==
    /\ share[s].pc = "resize"
    /\ \E started \in BOOLEAN :
         share' = [share EXCEPT ![s].pc = IF mounted THEN "get" ELSE "failed",
                                ![s].uploading = started]
    /\ UNCHANGED <<routes, mounted, serverVars>>

\* The UploadTask, which nobody awaits, ends.
UploadEnds(s) ==
    /\ share[s].uploading
    /\ stored' \in {stored, TRUE}
    /\ share' = [share EXCEPT ![s].uploading = FALSE]
    /\ UNCHANGED <<routes, mounted, post, myPosts, authorVars>>

\* createNewPost: the snapshot its transaction will go by.
GetPost(s) ==
    /\ share[s].pc = "get"
    /\ share' = [share EXCEPT ![s].pc = "tx", ![s].missing = ~post.exists]
    /\ UNCHANGED <<routes, mounted, serverVars>>

\* Mutant: the author's document is not updated.
CommitPostUnlisted(s) ==
    /\ share[s].pc = "tx"
    /\ share[s].missing
    /\ author
    /\ post' = getMapForCreatePost
    /\ Advance(s, "url")
    /\ UNCHANGED <<routes, mounted, stored, myPosts, authorVars>>

\* Mutant: the snapshot is not looked at.
CommitPostAlways(s) ==
    /\ share[s].pc = "tx"
    /\ author
    /\ post' = getMapForCreatePost
    /\ myPosts' = TRUE
    /\ Advance(s, "url")
    /\ UNCHANGED <<routes, mounted, stored, authorVars>>

\* An attempt of the transaction is applied: the author's document exists, the
\* precondition of its update.  When its answer is lost the handler runs again,
\* with the same snapshot, and sets the post once more.
CommitPost(s) ==
    /\ share[s].pc = "tx"
    /\ share[s].missing
    /\ author
    /\ post' = getMapForCreatePost
    /\ myPosts' = TRUE
    /\ \/ Advance(s, "url")
       \/ share[s].tries < MaxRetries /\ share' = [share EXCEPT ![s].tries = @ + 1]
    /\ UNCHANGED <<routes, mounted, stored, authorVars>>

\* The post was there: the handler writes nothing.
EmptyTransaction(s) ==
    /\ share[s].pc = "tx"
    /\ ~share[s].missing
    /\ Advance(s, "url")
    /\ UNCHANGED <<routes, mounted, serverVars>>

\* Mutant: the exception is caught and the run goes on.
getPostImageUrlCaught(s) ==
    /\ share[s].pc = "url"
    /\ Advance(s, "check")
    /\ UNCHANGED <<routes, mounted, serverVars>>

\* Storage has a URL only for an image that has arrived; otherwise it throws.
getPostImageUrl(s) ==
    /\ share[s].pc = "url"
    /\ Advance(s, IF stored THEN "check" ELSE "failed")
    /\ UNCHANGED <<routes, mounted, serverVars>>

\* Mutant: a run ends without its pops.
PopsNothing(s) == Settle(s, "shared") /\ UNCHANGED routes

\* The two pops that end a run, on whatever is on top by then.  A context that
\* is gone throws instead, and so does a pop when no route is left.
Pops(s) ==
    /\ routes' = IF mounted THEN SubSeq(routes, 1, Len(routes) - 2) ELSE routes
    /\ Settle(s, IF mounted /\ Len(routes) >= 2 THEN "shared" ELSE "failed")

\* updatePostImageUrl, and the rest of the run.
CheckPost(s) ==
    /\ share[s].pc = "check"
    /\ IF post.exists
       THEN /\ share' = [share EXCEPT ![s].pc = "update", ![s].queued = TRUE]
            /\ UNCHANGED routes
       ELSE Pops(s)
    /\ UNCHANGED <<mounted, serverVars>>

\* The update lands and its answer is lost, or the run that waited is no more.
UpdateLands(s) ==
    /\ share[s].queued
    /\ post' = [post EXCEPT !.postImg = TRUE]
    /\ UNCHANGED <<routes, mounted, stored, myPosts, authorVars, share>>

\* The update lands and is answered.
UpdatePost(s) ==
    /\ share[s].pc = "update"
    /\ post' = [post EXCEPT !.postImg = TRUE]
    /\ Pops(s)
    /\ UNCHANGED <<mounted, stored, myPosts, authorVars>>

\* An await throws; nothing in sharePostProcedure catches it.  An update that
\* the server refuses leaves the queue, the end of the process leaves it there.
Throws(s) ==
    /\ share[s].pc \in {"get", "tx", "url", "check", "update"}
    /\ Advance(s, "failed") \/ Settle(s, "failed")
    /\ UNCHANGED <<routes, mounted, serverVars>>

ShareSteps(s) ==
    \/ uploadImage(s) \/ GetPost(s) \/ CommitPost(s) \/ EmptyTransaction(s)
    \/ getPostImageUrl(s) \/ CheckPost(s) \/ UpdatePost(s) \/ Throws(s)

\* attemptCreateUser's set of the author's document lands, on a missing one or
\* on one in use, and may be sent again; a second sign-in that saw no document
\* may have its own under way.  The map it writes has an empty my_posts.
SetLands ==
    /\ creating
    /\ author' = TRUE
    /\ myPosts' = FALSE
    /\ creating' \in BOOLEAN
    /\ reset' = (reset \/ author)
    /\ UNCHANGED <<routes, mounted, stored, post, share>>

----------------------------------------------------------------------------
\* The back button pops the top route, the modal sheet too: isDismissible and
\* enableDrag only concern its barrier and its handle.
Back ==
    /\ Len(routes) > 1
    /\ routes' = Front(routes)
    /\ UNCHANGED <<mounted, serverVars, share>>

\* The transition of a popped SharePostScreen is over: its State is disposed.
dispose ==
    /\ mounted
    /\ ~Contains(routes, "share")
    /\ mounted' = FALSE
    /\ UNCHANGED <<routes, serverVars, share>>

Next ==
    \/ \E s \in Shares :
         sharePostProcedure(s) \/ ShareSteps(s) \/ UploadEnds(s) \/ UpdateLands(s)
    \/ SetLands
    \/ Back
    \/ dispose

Spec == Init /\ [][Next]_vars

\* Every await is answered, an upload ends and a transition too.  Nobody has
\* to tap Share or to go back.
FairSpec ==
    /\ Spec
    /\ \A s \in Shares : WF_vars(ShareSteps(s)) /\ WF_vars(UploadEnds(s))
    /\ WF_vars(dispose)

----------------------------------------------------------------------------
TypeOK ==
    /\ routes \in Seq(Routes)
    /\ mounted \in BOOLEAN
    /\ stored \in BOOLEAN
    /\ post \in Post
    /\ myPosts \in BOOLEAN
    /\ author \in BOOLEAN
    /\ creating \in BOOLEAN
    /\ reset \in BOOLEAN
    /\ share \in [Shares -> ShareState]

\* A post never shows the URL of an image that is not in Storage, although
\* nobody waits for the upload, which may also fail or be started twice.
ImageIsStored == post.postImg => stored

\* Whatever is retried or fails half-way, my_posts names no post that does not
\* exist, and a post that exists is named unless the author's document was set
\* once more.  The first set of it, however late it lands, takes no post off
\* the list: the transaction of the post needs the document to be there.
PostIsListed ==
    /\ myPosts => post.exists
    /\ post.exists /\ ~myPosts => reset

\* A run that went through leaves the post with its image, unless another run
\* found the post missing too, and so may set it again after the update.
SharedHasImage ==
    \A s \in Shares :
        share[s].pc = "shared" /\ ~post.postImg
            => \E other \in Shares \ {s} : share[other].missing

\* There are never more progress sheets than runs that are in progress or have
\* thrown: runs that end well leave no sheet behind, in whatever order they
\* end and whatever the back button has taken away before.
SheetHasRun ==
    Cardinality({i \in 1..Len(routes) : routes[i] = "sheet"})
        <= Cardinality({s \in Shares : Running(s) \/ share[s].pc = "failed"})

\* The progress sheet, which the user cannot dismiss on iOS, does not stay for
\* ever unless a run has thrown.
SheetEnds ==
    Contains(routes, "sheet")
        ~> ~Contains(routes, "sheet") \/ \E s \in Shares : share[s].pc = "failed"

\* The comment at the first pop: it dismisses the progress sheet.
FirstPopDismissesSheet ==
    [][\A s \in Shares :
         share[s].pc # "shared" /\ share'[s].pc = "shared" => Last(routes) = "sheet"]_vars
=============================================================================
