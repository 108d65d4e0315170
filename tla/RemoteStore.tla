---------------------------- MODULE RemoteStore ----------------------------
(***************************************************************************)
(* How the vendored Firestore SDK sends the writes the app does not wait   *)
(* for (ios/Pods/FirebaseFirestore/Firestore/core/src): SyncEngine and the *)
(* LevelDB mutation queue of each user, the write pipeline of RemoteStore, *)
(* the state machine of Stream and WriteStream, and the wire to the        *)
(* server.                                                                 *)
(*                                                                         *)
(* Every handler runs on the worker queue of the SDK and is one step.  The *)
(* network is enabled between steps: it is disabled only inside            *)
(* RestartNetwork.  A batch is the one mutation of an app call, its op the *)
(* number of the call; batch ids are what the code computes.               *)
(***************************************************************************)
EXTENDS Integers, Sequences, FiniteSets

CONSTANTS
    Users,              \* the uids that sign in on this phone
    MaxPendingWrites,   \* kMaxPendingWrites
    MaxWrites,          \* bound: writes the app makes
    MaxFaults           \* bound: failures, restarts and changes of user

ASSUME PendingAssumption == MaxPendingWrites \in Nat \ {0}
ASSUME BoundAssumption == MaxWrites \in Nat /\ MaxFaults \in Nat

VARIABLES
    mutationQueue,      \* on disk: the batches of each user
    currentUser,        \* current_user_ of SyncEngine
    nextBatchId,        \* next_batch_id_ of the mutation queue
    mutationCallbacks,  \* the callers that wait for a batch, by user
    remote,             \* RemoteStore, its write stream and the wire
    author,             \* history: who made each write
    told,               \* history: what the caller of each write was told
    log,                \* history: the commits of the server
    refused,            \* history: writes the server has refused
    faults

storeVars == <<mutationQueue, currentUser, nextBatchId, mutationCallbacks>>
histVars == <<author, told, refused>>
vars == <<storeVars, remote, histVars, log, faults>>

----------------------------------------------------------------------------
Batch == [id : Nat, op : Nat \ {0}]

\* What is sent and answered first on a stream; op 0 is no write.
Handshake == [id |-> 0, op |-> 0]

RemoteState ==
    [pipeline  : Seq(Batch),
     state     : {"initial", "starting", "open", "error", "backoff"},
     handshake : BOOLEAN,                      \* handshake_complete_
     idle      : BOOLEAN,                      \* idleness_timer_ is set
     tokens    : SUBSET {"current", "stale"},  \* GetToken calls under way
     sent      : Seq(Batch \cup {Handshake}),  \* not yet seen by the server
     replies   : Seq(Nat),                     \* answers, by op, not yet read
     status    : {"none", "transient", "permanent"}]  \* how the call ended

Disconnected ==
    [pipeline |-> <<>>, state |-> "initial", handshake |-> FALSE,
     idle |-> FALSE, tokens |-> {}, sent |-> <<>>, replies |-> <<>>,
     status |-> "none"]

IsStarted(r) == r.state \in {"starting", "open", "backoff"}

\* Start: after an error BackoffAndTryRestarting, else the token is asked for.
Start(r) ==
    IF r.state = "error"
    THEN [r EXCEPT !.state = "backoff"]
    ELSE [r EXCEPT !.state = "starting", !.tokens = @ \cup {"current"}]

\* Mutant: a stream that ended with an error is not started again.
StartIfNeededFromInitial(r) ==
    IF r.state = "initial" /\ r.pipeline # <<>> THEN Start(r) ELSE r

\* ShouldStartWriteStream, StartWriteStream.
StartIfNeeded(r) ==
    IF ~IsStarted(r) /\ r.pipeline # <<>> THEN Start(r) ELSE r

\* The rows of a user's queue, which is sorted by id, after the one of id.
NextMutationBatches(q, id) ==
    SubSeq(q, 1 + Cardinality({i \in DOMAIN q : q[i].id <= id}), Len(q))

\* The batches FillWritePipeline takes from the queue.
NewWrites(q, r) ==
    LET last == IF r.pipeline = <<>> THEN -1 ELSE r.pipeline[Len(r.pipeline)].id
        rest == NextMutationBatches(q, last)
        room == MaxPendingWrites - Len(r.pipeline)
    IN  IF Len(rest) <= room THEN rest ELSE SubSeq(rest, 1, room)

\* Mutant: a batch is written to any open stream.
AddToWritePipelineOpen(r, batches) ==
    IF r.state = "open" /\ batches # <<>>
    THEN [r EXCEPT !.pipeline = @ \o batches, !.sent = @ \o batches, !.idle = FALSE]
    ELSE [r EXCEPT !.pipeline = @ \o batches]

\* AddToWritePipeline: written at once if the stream is established, which
\* cancels the idle timer.
AddToWritePipeline(r, batches) ==
    IF r.state = "open" /\ r.handshake /\ batches # <<>>
    THEN [r EXCEPT !.pipeline = @ \o batches, !.sent = @ \o batches, !.idle = FALSE]
    ELSE [r EXCEPT !.pipeline = @ \o batches]

\* Mutant: the timer starts whenever there are no more batches to take.
MarkIdleAlways(r) == [r EXCEPT !.idle = @ \/ r.state = "open"]

\* MarkIdle: nothing to send on an open stream starts the idle timer.
MarkIdle(r) == [r EXCEPT !.idle = @ \/ (r.pipeline = <<>> /\ r.state = "open")]

FillWritePipeline(q, r) ==
    StartIfNeeded(MarkIdle(AddToWritePipeline(r, NewWrites(q, r))))

\* Mutant: reads of the old call are still delivered.
CloseKeepsReplies(r, graceful) ==
    [r EXCEPT !.state = IF graceful THEN "initial" ELSE "error",
              !.idle = FALSE,
              !.tokens = IF @ = {} THEN {} ELSE {"stale"},
              !.sent = <<>>, !.status = "none"]

\* Close: the timers are cancelled, the close count goes up, so that a token
\* asked for before comes too late, and the call is gone with all it carries.
Close(r, graceful) ==
    [r EXCEPT !.state = IF graceful THEN "initial" ELSE "error",
              !.idle = FALSE,
              !.tokens = IF @ = {} THEN {} ELSE {"stale"},
              !.sent = <<>>, !.replies = <<>>, !.status = "none"]

\* Mutant: the flag is never reset.
HandshakeForGood(r) == r

\* NotifyStreamClose: the flag falls only after the callback has used it.
HandshakeOver(r) == [r EXCEPT !.handshake = FALSE]

Stop(r) == IF IsStarted(r) THEN HandshakeOver(Close(r, TRUE)) ELSE r

\* InhibitBackoff: the error is forgotten.
InhibitBackoff(r) == [r EXCEPT !.state = "initial"]

\* Mutant: the pipeline outlives the restart.
RestartNetworkKeepingPipeline(q, r) ==
    FillWritePipeline(q, InhibitBackoff(Stop(r)))

\* RestartNetwork: DisableNetworkInternal, which empties the pipeline, then
\* EnableNetwork, which fills it from the queue of the current user.
RestartNetwork(q, r) ==
    FillWritePipeline(q, InhibitBackoff([Stop(r) EXCEPT !.pipeline = <<>>]))

\* LoadNextBatchIdFromDb: one more than the highest id any user has on disk.
LoadNextBatchId(queue) ==
    LET ids == UNION {{queue[u][i].id : i \in DOMAIN queue[u]} : u \in Users}
    IN  IF ids = {} THEN 1 ELSE 1 + CHOOSE m \in ids : \A n \in ids : n <= m

RemoveMutationBatch(q, batch) ==
    LET i == CHOOSE i \in DOMAIN q : q[i].id = batch.id
    IN  SubSeq(q, 1, i - 1) \o SubSeq(q, i + 1, Len(q))

----------------------------------------------------------------------------
Init ==
    /\ mutationQueue = [u \in Users |-> <<>>]
    /\ currentUser \in Users
    /\ nextBatchId = 1
    /\ mutationCallbacks = [u \in Users |-> {}]
    /\ remote = Disconnected
    /\ author = <<>>
    /\ told = <<>>
    /\ log = <<>>
    /\ refused = {}
    /\ faults = 0

\* WriteMutations of SyncEngine: WriteLocally makes the batch durable, its
\* callback is kept (insert leaves an entry of the same id alone), and the
\* pipeline is filled.
WriteMutations ==
    LET op == Len(author) + 1
        batch == [id |-> nextBatchId, op |-> op]
        q == Append(mutationQueue[currentUser], batch)
    IN  /\ Len(author) < MaxWrites
        /\ mutationQueue' = [mutationQueue EXCEPT ![currentUser] = q]
        /\ nextBatchId' = nextBatchId + 1
        /\ mutationCallbacks' =
             [mutationCallbacks EXCEPT ![currentUser] =
                IF \E c \in @ : c.id = batch.id THEN @ ELSE @ \cup {batch}]
        /\ remote' = FillWritePipeline(q, remote)
        /\ author' = Append(author, currentUser)
        /\ told' = Append(told, "nothing")
        /\ UNCHANGED <<currentUser, log, refused, faults>>

\* NotifyUser: a batch restored from disk after a restart has no callback.
NotifyUser(batch, outcome) ==
    LET waiting == {c \in mutationCallbacks[currentUser] : c.id = batch.id} IN
    /\ told' = [w \in DOMAIN told |->
                  IF \E c \in waiting : c.op = w THEN outcome ELSE told[w]]
    /\ mutationCallbacks' = [mutationCallbacks EXCEPT ![currentUser] = @ \ waiting]

\* The SDK forgets the callers; what is on disk stays.
Reopen(queue, u) ==
    /\ currentUser' = u
    /\ nextBatchId' = LoadNextBatchId(queue)
    /\ mutationCallbacks' = [v \in Users |-> {}]
    /\ remote' = FillWritePipeline(queue[u], Disconnected)
    /\ faults < MaxFaults
    /\ faults' = faults + 1

\* ResumeStartWithCredentials for a token that is not too late: the call is
\* made, opens at once and the handshake is written.
TokenArrives ==
    /\ "current" \in remote.tokens
    /\ remote' = [remote EXCEPT !.tokens = @ \ {"current"},
                                !.state = "open",
                                !.sent = <<Handshake>>]
    /\ UNCHANGED <<storeVars, histVars, log, faults>>

\* The close count differs: the answer is dropped.
StaleTokenArrives ==
    /\ "stale" \in remote.tokens
    /\ remote' = [remote EXCEPT !.tokens = @ \ {"stale"}]
    /\ UNCHANGED <<storeVars, histVars, log, faults>>

\* NotifyStreamResponse takes the first answer for the handshake's, whatever
\* it is, and the whole pipeline is written.
OnWriteStreamHandshakeComplete ==
    /\ remote.replies # <<>> /\ ~remote.handshake
    /\ remote' = [remote EXCEPT !.replies = Tail(@),
                                !.handshake = TRUE,
                                !.sent = @ \o remote.pipeline,
                                !.idle = @ /\ remote.pipeline = <<>>]
    /\ UNCHANGED <<storeVars, histVars, log, faults>>

\* Any later answer is taken for the first write of the pipeline: its caller
\* is told, the batch leaves the disk, and the next one takes its place.
OnWriteStreamMutationResult ==
    LET batch == Head(remote.pipeline)
        q == RemoveMutationBatch(mutationQueue[currentUser], batch)
    IN  /\ remote.replies # <<>> /\ remote.handshake
        /\ NotifyUser(batch, "ok")
        /\ mutationQueue' = [mutationQueue EXCEPT ![currentUser] = q]
        /\ remote' = FillWritePipeline(q, [remote EXCEPT !.replies = Tail(@),
                                                         !.pipeline = Tail(@)])
        /\ UNCHANGED <<currentUser, nextBatchId, author, log, refused, faults>>

\* The process ends between NotifyUser and AcknowledgeBatch: the caller has
\* been told of a write that is still on disk.
DiesAcknowledging ==
    LET waiting == {c \in mutationCallbacks[currentUser] :
                      c.id = Head(remote.pipeline).id}
    IN  /\ remote.replies # <<>> /\ remote.handshake
        /\ told' = [w \in DOMAIN told |->
                      IF \E c \in waiting : c.op = w THEN "ok" ELSE told[w]]
        /\ \E u \in Users : Reopen(mutationQueue, u)
        /\ UNCHANGED <<mutationQueue, author, log, refused>>

\* A write that fails on a finished call turns the reads that wait on the
\* worker queue into no-ops: answers can be lost to the status.
StatusIsNext ==
    \/ remote.status = "transient"
    \/ remote.status = "permanent" /\ (remote.replies = <<>> \/ remote.sent # <<>>)

\* HandleWriteError does something only for a permanent error.
RejectsWrite ==
    remote.status = "permanent" /\ remote.handshake /\ remote.pipeline # <<>>

\* OnStreamFinish, OnWriteStreamClose: the stream restarts after a backoff if
\* there is still something to write.
OnStreamFinish ==
    /\ StatusIsNext /\ ~RejectsWrite
    /\ remote' = HandshakeOver(StartIfNeeded(Close(remote, FALSE)))
    /\ UNCHANGED <<storeVars, histVars, log, faults>>

\* Mutant: the write sent last is taken for the cause.
HandleWriteErrorOfLast ==
    LET last == Len(remote.pipeline)
        batch == remote.pipeline[last]
        q == RemoveMutationBatch(mutationQueue[currentUser], batch)
        closed == [Close(remote, FALSE) EXCEPT !.pipeline = SubSeq(@, 1, last - 1)]
    IN  /\ StatusIsNext /\ RejectsWrite
        /\ mutationQueue' = [mutationQueue EXCEPT ![currentUser] = q]
        /\ NotifyUser(batch, "error")
        /\ remote' = HandshakeOver(FillWritePipeline(q, InhibitBackoff(closed)))
        /\ UNCHANGED <<currentUser, nextBatchId, author, log, refused, faults>>

\* Mutant: the room the rejected write leaves is not filled.
HandleWriteErrorWithoutFill ==
    LET batch == Head(remote.pipeline)
        q == RemoveMutationBatch(mutationQueue[currentUser], batch)
        closed == [Close(remote, FALSE) EXCEPT !.pipeline = Tail(@)]
    IN  /\ StatusIsNext /\ RejectsWrite
        /\ mutationQueue' = [mutationQueue EXCEPT ![currentUser] = q]
        /\ NotifyUser(batch, "error")
        /\ remote' = HandshakeOver(StartIfNeeded(InhibitBackoff(closed)))
        /\ UNCHANGED <<currentUser, nextBatchId, author, log, refused, faults>>

\* The front of the pipeline is taken for the cause of a permanent error and
\* rejected: RejectBatch first, then its caller is told.
HandleWriteError ==
    LET batch == Head(remote.pipeline)
        q == RemoveMutationBatch(mutationQueue[currentUser], batch)
        closed == [Close(remote, FALSE) EXCEPT !.pipeline = Tail(@)]
    IN  /\ StatusIsNext /\ RejectsWrite
        /\ mutationQueue' = [mutationQueue EXCEPT ![currentUser] = q]
        /\ NotifyUser(batch, "error")
        /\ remote' = HandshakeOver(FillWritePipeline(q, InhibitBackoff(closed)))
        /\ UNCHANGED <<currentUser, nextBatchId, author, log, refused, faults>>

\* BackoffAndRun: the delay is over and the stream starts from "initial".
BackoffElapses ==
    /\ remote.state = "backoff"
    /\ remote' = Start([remote EXCEPT !.state = "initial"])
    /\ UNCHANGED <<storeVars, histVars, log, faults>>

\* The idle timer: Stop.
IdleTimeout ==
    /\ remote.idle
    /\ remote' = Stop(remote)
    /\ UNCHANGED <<storeVars, histVars, log, faults>>

\* The token could not be had: a failure before the handshake.
TokenFails ==
    /\ "current" \in remote.tokens
    /\ faults < MaxFaults
    /\ faults' = faults + 1
    /\ remote' = StartIfNeeded(Close([remote EXCEPT !.tokens = @ \ {"current"}], FALSE))
    /\ UNCHANGED <<storeVars, histVars, log>>

\* The network has changed: the streams are restarted.
ConnectivityChanges ==
    /\ faults < MaxFaults
    /\ faults' = faults + 1
    /\ remote' = RestartNetwork(mutationQueue[currentUser], remote)
    /\ UNCHANGED <<storeVars, histVars, log>>

\* HandleCredentialChange: HandleUserChange swaps the mutation queue, whose
\* Start computes the next id again, and the streams are restarted.
HandleCredentialChange(u) ==
    /\ faults < MaxFaults
    /\ faults' = faults + 1
    /\ currentUser' = u
    /\ nextBatchId' = IF u = currentUser THEN nextBatchId
                                         ELSE LoadNextBatchId(mutationQueue)
    /\ remote' = RestartNetwork(mutationQueue[u], remote)
    /\ UNCHANGED <<mutationQueue, mutationCallbacks, histVars, log>>

\* The process ends between two handlers and is started again.
Dies ==
    /\ \E u \in Users : Reopen(mutationQueue, u)
    /\ UNCHANGED <<mutationQueue, histVars, log>>

----------------------------------------------------------------------------
(* The server, as far as the code relies on it: it takes what a stream     *)
(* carries in order, answers in order, and is done with a broken stream    *)
(* before it serves the next one.                                          *)

ServerTakes ==
    /\ remote.status = "none" /\ remote.sent # <<>>
    /\ remote' = [remote EXCEPT !.sent = Tail(@),
                                !.replies = Append(@, Head(remote.sent).op)]
    /\ log' = IF Head(remote.sent).op = 0 THEN log
                                          ELSE Append(log, Head(remote.sent).op)
    /\ UNCHANGED <<storeVars, histVars, faults>>

\* A permanent error: of the write at hand, or of the handshake.
ServerRefuses ==
    /\ remote.status = "none" /\ remote.sent # <<>>
    /\ IF Head(remote.sent).op = 0
       THEN /\ faults < MaxFaults
            /\ faults' = faults + 1
            /\ UNCHANGED refused
       ELSE /\ refused' = refused \cup {Head(remote.sent).op}
            /\ UNCHANGED faults
    /\ remote' = [remote EXCEPT !.sent = Tail(@), !.status = "permanent"]
    /\ UNCHANGED <<storeVars, author, told, log>>

ConnectionFails ==
    /\ remote.state = "open" /\ remote.status = "none"
    /\ faults < MaxFaults
    /\ faults' = faults + 1
    /\ remote' = [remote EXCEPT !.status = "transient"]
    /\ UNCHANGED <<storeVars, histVars, log>>

Handler ==
    \/ TokenArrives \/ StaleTokenArrives
    \/ OnWriteStreamHandshakeComplete \/ OnWriteStreamMutationResult
    \/ OnStreamFinish \/ HandleWriteError \/ BackoffElapses

Next ==
    \/ WriteMutations
    \/ Handler
    \/ IdleTimeout
    \/ TokenFails \/ ConnectivityChanges \/ Dies \/ DiesAcknowledging
    \/ \E u \in Users : HandleCredentialChange(u)
    \/ ServerTakes \/ ServerRefuses \/ ConnectionFails

\* The worker queue runs what it is given, and the server deals with what
\* reaches it; failures need not stop, but they are bounded.
Fairness == WF_vars(Handler) /\ WF_vars(ServerTakes)

Spec == Init /\ [][Next]_vars

FairSpec == Spec /\ Fairness

----------------------------------------------------------------------------
TypeOK ==
    /\ mutationQueue \in [Users -> Seq(Batch)]
    /\ currentUser \in Users
    /\ nextBatchId \in Nat
    /\ mutationCallbacks \in [Users -> SUBSET Batch]
    /\ remote \in RemoteState
    /\ author \in Seq(Users)
    /\ told \in Seq({"nothing", "ok", "error"})
    /\ log \in Seq(Nat)
    /\ refused \subseteq DOMAIN author
    /\ faults \in Nat

\* After any change of user or connection the pipeline is the beginning of the
\* queue of the user who is signed in, never of another user's.
PipelineIsOfTheUser ==
    /\ Len(remote.pipeline) <= MaxPendingWrites
    /\ Len(remote.pipeline) <= Len(mutationQueue[currentUser])
    /\ \A i \in DOMAIN remote.pipeline :
         remote.pipeline[i] = mutationQueue[currentUser][i]

\* An answer carries no name: it is taken for the first write of the pipeline,
\* and that is the write it answers, on whatever connection, and there always
\* is one (the assertion of OnWriteStreamMutationResult).
AnswersMatch ==
    remote.handshake =>
        /\ Len(remote.replies) <= Len(remote.pipeline)
        /\ \A i \in DOMAIN remote.replies :
             remote.replies[i] = remote.pipeline[i].op

\* The assertions of Stream and OnWriteStreamClose: a token is awaited just
\* while the stream starts, and the idle timer, which stops the stream
\* gracefully, runs only while the stream is open with nothing to write.
StreamAssertions ==
    /\ "current" \in remote.tokens <=> remote.state = "starting"
    /\ remote.idle => remote.state = "open" /\ remote.pipeline = <<>>
    /\ remote.pipeline # <<>> => IsStarted(remote)

Pending(w) == \E i \in DOMAIN mutationQueue[author[w]] :
                mutationQueue[author[w]][i].op = w

Committed(w) == \E i \in DOMAIN log : log[i] = w

\* No write is lost, by a restart, a sign-out or an error that is another
\* write's: one that has left the disk was committed, or the server refused
\* that very write; and a caller that was told of success can rely on it.
NoWriteIsLost ==
    \A w \in DOMAIN author :
        /\ Pending(w) \/ Committed(w) \/ w \in refused
        /\ told[w] = "ok" => Committed(w)

\* A retry commits again what was committed: it may put an earlier write of a
\* user over a later one, but only until the later one is committed again.
LaterWritesWin ==
    \A i, j \in DOMAIN log :
        i < j /\ log[j] < log[i] /\ author[log[j]] = author[log[i]]
            => \/ Pending(log[i])
               \/ log[i] \in refused
               \/ \E k \in j + 1..Len(log) : log[k] = log[i]

\* No write overtakes an earlier one of its user: before its first commit the
\* earlier one was committed or the server refused it, on however many streams.
NoneIsSkipped ==
    \A i \in DOMAIN log : \A w \in DOMAIN author :
        w < log[i] /\ author[w] = author[log[i]]
            => w \in refused \/ \E k \in 1..i - 1 : log[k] = w

\* While the user who is signed in has a write on disk, something is under way
\* that will move it: a token, a delay, a message, or the end of the call.  The
\* network never waits for another write of the app to start it.
WritesKeepMoving ==
    mutationQueue[currentUser] # <<>> =>
        \/ "current" \in remote.tokens
        \/ remote.state = "backoff"
        \/ remote.sent # <<>> \/ remote.replies # <<>>
        \/ remote.status # "none"

Ops(q) == [i \in DOMAIN q |-> q[i].op]

Queue == INSTANCE WriteQueue WITH
    Writes  <- 1..MaxWrites,
    pending <- [u \in Users |-> Ops(mutationQueue[u])],
    unread  <- [u \in Users |-> IF u = currentUser /\ remote.handshake
                                THEN Len(remote.replies) ELSE 0]

\* Pipeline, stream, reconnections and restarts amount to one queue per user
\* whose front the server commits, at least once, in order.
ImplementsWriteQueue == Queue!Spec

\* Every write of the user who stays signed in is settled in the end, through
\* backoffs, idle stops and restarts, unless failures go on for ever.
WritesSettle ==
    \A w \in 1..MaxWrites :
        w \in DOMAIN author /\ Pending(w)
            ~> (w \in DOMAIN author /\ (~Pending(w) \/ author[w] # currentUser))

=============================================================================
