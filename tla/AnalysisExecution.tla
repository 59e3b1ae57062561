--------------------------- MODULE AnalysisExecution ---------------------------
(***************************************************************************)
(* The execution platform in its full Azure composition: API requests that *)
(* submit, retry, clone and cancel analyses; the PostgreSQL control plane; *)
(* the Service Bus queue; write-once object storage; and the workers that  *)
(* claim a job and drive one attempt through its stages.                   *)
(*                                                                         *)
(* Every call to the repository, the queue or object storage is one step,  *)
(* so requests and executors interleave between any two calls and act on   *)
(* what they read several steps ago.                                       *)
(***************************************************************************)
EXTENDS ServiceBus

CONSTANTS
    Worker, Client,   \* worker processes, concurrent API requests
    NumArtifacts,     \* objects published by one execution (7 in the code)
    Detection,        \* the stage whose work builds the artifacts in v1_compat
    Endpoints,        \* the API endpoints in use, a subset of Endpoint
    Faults            \* enabled faults, a subset of FaultKind

FaultKind ==
    {"crash",  \* a worker process dies between two calls
     "lock",   \* the lock of a message in execution is lost (renewal fails, 4 h cap)
     "raise",  \* a stage, the pipeline, storage or the integrity gate raises
     "send",   \* a call made for a submission raises in the API
     "store",   \* a write of a request raises: a create whose attempt is stored, or a save
     "request"} \* the API process dies in the middle of a request

Endpoint == {"create", "finalize", "retry", "clone", "cancel"}

ASSUME FaultsAssumption    == Faults \subseteq FaultKind
ASSUME EndpointsAssumption == Endpoints \subseteq Endpoint
ASSUME ArtifactsAssumption == NumArtifacts \in Nat \ {0}
ASSUME DetectionAssumption == Detection \in Stage

VARIABLES
    object,  \* run id -> artifact -> the delivery that published it, 0 when absent
    input,   \* run id -> whether its input object exists
    worker,  \* the local state of each worker process
    client   \* the local state of each API request

vars == <<row, cancelRequested, message, object, input, worker, client>>

Artifact == 1 .. NumArtifacts

Object == [Artifact -> 0 .. MaxDelivery]

----------------------------------------------------------------------------
(* Worker processes.  "run" and "delivery" identify the claimed job, "local" *)
(* is the executor's own copy of the run (or the successor it is about to    *)
(* save), "index" its active stage, "artifact" the next object to publish,   *)
(* "payloads" whether this execution already built the artifact payloads.    *)

WorkerPc == {"idle", "claimed", "load", "checkQueued", "saveStart", "stage",
             "saveRunning", "work", "saveDone", "finish", "saveFinal", "cancel",
             "saveCancelled", "fail", "saveFailed", "complete", "down"}

WorkerState == [pc       : WorkerPc,
                run      : RunId \cup {NoRunId},
                delivery : 0 .. MaxDelivery,
                index    : 1 .. NumStages + 1,
                artifact : 1 .. NumArtifacts + 1,
                payloads : {"none", "built"},
                local    : Run]

Idle == [pc |-> "idle", run |-> NoRunId, delivery |-> 0, index |-> 1,
         artifact |-> 1, payloads |-> "none", local |-> NoRun]

Down == [Idle EXCEPT !.pc = "down"]

Claimed(r, delivery) ==
    [Idle EXCEPT !.pc = "claimed", !.run = r, !.delivery = delivery]

\* execute returned succeeded, partial or failed: the worker settles the job.
Completing(self) ==
    [Idle EXCEPT !.pc = "complete", !.run = self.run, !.delivery = self.delivery]

\* execute returned the status it found: queue.cancel settles nothing.
Returned(self, status) == IF status = "cancelled" THEN Idle ELSE Completing(self)

\* The pcs inside the try block of execute, whose exceptions are handled.
Guarded == {"stage", "saveRunning", "work", "saveDone", "finish", "saveFinal"}

Stopping(self, pc) ==
    [self EXCEPT !.pc = pc, !.local = NoRun, !.artifact = 1, !.payloads = "none"]

Failing(self) == Stopping(self, "fail")

Cancelling(self) == Stopping(self, "cancel")

\* The executor's loop over the stages, at stage "index".
EnterStages(self, run, index) ==
    [self EXCEPT !.pc = "stage", !.local = run, !.index = index]

\* active_index never passes the last stage.
ActiveStage(self) == IF self.index > NumStages THEN NumStages ELSE self.index

\* The stages to record when an execution stops: only a stage found running changes.
Stopped(run, s, status) ==
    [run.stages EXCEPT ![s] = IF @ = "running" THEN status ELSE @]

----------------------------------------------------------------------------
(* API requests.  "run" is the attempt the request creates or changes,       *)
(* "source" the run it loaded or copies its input from, "snap" the AnalysisRun *)
(* object it holds.                                                          *)

ClientPc == {"idle", "create", "input", "enqueue",
             "enqueueDirect", "ingestFail", "cancelQueued", "requestCancel"}

ClientState == [pc     : ClientPc,
                run    : RunId \cup {NoRunId},
                source : RunId \cup {NoRunId},
                snap   : Run]

NoRequest == [pc |-> "idle", run |-> NoRunId, source |-> NoRunId, snap |-> NoRun]

Init ==
    /\ RepositoryInit
    /\ QueueInit
    /\ object = [r \in RunId |-> [a \in Artifact |-> 0]]
    /\ input  = [r \in RunId |-> FALSE]
    /\ worker = [w \in Worker |-> Idle]
    /\ client = [c \in Client |-> NoRequest]

TypeOK ==
    /\ RepositoryTypeOK
    /\ QueueTypeOK
    /\ object \in [RunId -> Object]
    /\ input \in [RunId -> BOOLEAN]
    /\ worker \in [Worker -> WorkerState]
    /\ client \in [Client -> ClientState]

----------------------------------------------------------------------------
(* Claiming a job.                                                           *)

Become(w, state) == worker' = [worker EXCEPT ![w] = state]

Receive(w, r) ==
    /\ worker[w].pc = "idle"
    /\ Deliver(r)
    /\ Become(w, Claimed(r, message[r].deliveries + 1))
    /\ UNCHANGED <<row, cancelRequested, object, input, client>>

DeadLetterOverDelivered(w, r) ==
    /\ worker[w].pc = "idle"
    /\ DeadLetter(r)
    /\ UNCHANGED <<row, cancelRequested, object, input, worker, client>>

\* The adapter drains a job whose run is terminal.  A message is only ever sent
\* for a stored run, so the "unknown" disposition does not arise.
CheckExecutable(w) ==
    /\ worker[w].pc = "claimed"
    /\ Become(w, IF IsTerminal(row[worker[w].run])
                 THEN Completing(worker[w])
                 ELSE [worker[w] EXCEPT !.pc = "load"])
    /\ UNCHANGED <<row, cancelRequested, message, object, input, client>>

\* Settling raises when the lock is gone, and the worker process dies of it.
Complete(w) ==
    /\ worker[w].pc = "complete"
    /\ CompleteMessage(worker[w].run, worker[w].delivery)
    /\ Become(w, IF HoldsLock(worker[w].run, worker[w].delivery) THEN Idle ELSE Down)
    /\ UNCHANGED <<row, cancelRequested, object, input, client>>

----------------------------------------------------------------------------
(* Executing an attempt.                                                     *)

\* A step of the executor that only reads and moves on.
Proceed(w, state) ==
    /\ Become(w, state)
    /\ UNCHANGED <<row, cancelRequested, message, object, input, client>>

\* repository.save of the executor's copy; a rejected save raises.
Persist(w, accepted, rejected) ==
    /\ Save(worker[w].run, worker[w].local)
    /\ Become(w, IF Accepts(worker[w].run, worker[w].local) THEN accepted ELSE rejected)
    /\ UNCHANGED <<message, object, input, client>>

LoadRun(w) ==
    LET self == worker[w]
        run  == row[self.run]
    IN  /\ self.pc = "load"
        /\ Proceed(w, IF IsTerminal(run) THEN Returned(self, run.status)
                      ELSE IF run.status = "queued"
                      THEN [self EXCEPT !.pc = "checkQueued", !.local = run]
                      ELSE EnterStages(self, run, 1))

CheckQueued(w) ==
    LET self == worker[w]
        next == IF CancellationRequested(self.run)
                THEN Finish(self.local, "cancelled", self.local.stages)
                ELSE Start(self.local)
    IN  /\ self.pc = "checkQueued"
        /\ Proceed(w, [self EXCEPT !.pc = "saveStart", !.local = next])

\* Outside the try block: a rejected save ends the worker process.
SaveStart(w) ==
    LET self == worker[w]
    IN  /\ self.pc = "saveStart"
        /\ Persist(w, IF self.local.status = "cancelled" THEN Idle
                      ELSE EnterStages(self, self.local, 1), Down)

AtStage(w) == worker[w].pc = "stage" /\ worker[w].index <= NumStages

Pending(w) ==
    AtStage(w) /\ worker[w].local.stages[worker[w].index] \notin {"succeeded", "skipped"}

\* A resumed attempt passes over what an earlier execution finished.
PassFinishedStage(w) ==
    /\ AtStage(w)
    /\ ~Pending(w)
    /\ Proceed(w, [worker[w] EXCEPT !.index = @ + 1])

SkipOptional(w) ==
    LET self    == worker[w]
        skipped == WithStage(self.local, self.index, "skipped")
    IN  /\ Pending(w)
        /\ self.index \in Optional
        /\ Save(self.run, skipped)
        /\ Become(w, IF Accepts(self.run, skipped)
                     THEN EnterStages(self, skipped, self.index + 1) ELSE Failing(self))
        /\ UNCHANGED <<message, object, input, client>>

\* Seeded fault: a checkpoint that looks for a cancelled status, not for the request.
StatusCheckpoint(r) == row[r].status = "cancelled"

\* _checkpoint: the cancellation of the run is observed.
Checkpoint(r) == CancellationRequested(r)

\* _checkpoint before a stage.
BeginStage(w) ==
    LET self == worker[w]
    IN  /\ Pending(w)
        /\ self.index \notin Optional
        /\ Proceed(w, IF Checkpoint(self.run)
                      THEN Cancelling(self)
                      ELSE [self EXCEPT !.pc = "saveRunning",
                                        !.local = WithStage(@, self.index, "running")])

SaveRunning(w) ==
    /\ worker[w].pc = "saveRunning"
    /\ Persist(w, [worker[w] EXCEPT !.pc = "work"], Failing(worker[w]))

\* The work of the stage and the _checkpoint after it.
EndStage(w) ==
    LET self == worker[w]
    IN  /\ self.pc = "work"
        /\ Proceed(w, IF Checkpoint(self.run)
                      THEN Cancelling(self)
                      ELSE [self EXCEPT !.pc = "saveDone",
                                        !.payloads = IF self.index = Detection THEN "built" ELSE @,
                                        !.local = WithStage(@, self.index, "succeeded")])

SaveDone(w) ==
    LET self == worker[w]
    IN  /\ self.pc = "saveDone"
        /\ Persist(w, EnterStages(self, self.local, self.index + 1), Failing(self))

AllStagesDone(w) == worker[w].pc = "stage" /\ worker[w].index > NumStages

\* A resumed v1_compat attempt whose detection is done rebuilds the payloads after
\* the stages, and the pipeline polls for cancellation while it runs.
CancelRebuild(w) ==
    LET self == worker[w]
    IN  /\ AllStagesDone(w)
        /\ Optional # {} /\ self.payloads = "none"
        /\ self.artifact = 1
        /\ CancellationRequested(self.run)
        /\ Proceed(w, Cancelling(self))

\* Seeded fault: uploads with overwrite = True.
NeverOccupied(r, a) == FALSE

\* write_artifact refuses to overwrite an object that exists.
Occupied(r, a) == object[r][a] # 0

PublishArtifact(w) ==
    LET self == worker[w]
    IN  /\ AllStagesDone(w)
        /\ self.artifact <= NumArtifacts
        /\ IF Occupied(self.run, self.artifact)
           THEN object' = object /\ Become(w, Failing(self))
           ELSE /\ object' = [object EXCEPT ![self.run][self.artifact] = self.delivery]
                /\ Become(w, [self EXCEPT !.artifact = @ + 1])
        /\ UNCHANGED <<row, cancelRequested, message, input, client>>

\* artifact_reference_integrity: the object that names the artifact in its metadata is
\* found, and has the size and hash of the reference.  Objects are written once, whole.
Intact(r, a) == object[r][a] # 0

\* The integrity gate reads every published object back; it failing is a "raise".
VerifyArtifacts(w) ==
    LET self == worker[w]
    IN  /\ AllStagesDone(w)
        /\ self.artifact > NumArtifacts
        /\ \A a \in Artifact : Intact(self.run, a)
        /\ Proceed(w, [self EXCEPT !.pc = "finish", !.local = NoRun, !.payloads = "none"])

\* The run is completed from what the repository holds now, not from the local copy.
\* The parameter force_partial is fixed per attempt: both values are explored.  The
\* contract refuses a partial stage that has not ended.
Completable(current, partial) ==
    partial => current.stages[NumStages] \notin {"queued", "running"}

Completed(current, partial) ==
    IF partial
    THEN Finish(current, "partial", [current.stages EXCEPT ![NumStages] = "partial"])
    ELSE Finish(current, "succeeded", current.stages)

FinishRun(w, partial) ==
    LET self    == worker[w]
        current == row[self.run]
        updated == Completed(current, partial)
    IN  /\ self.pc = "finish"
        /\ Proceed(w, IF /\ Completable(current, partial)
                         /\ MayFinish(current, updated.status) /\ ValidLifecycle(updated)
                      THEN [self EXCEPT !.pc = "saveFinal", !.local = updated]
                      ELSE Failing(self))

SaveFinal(w) ==
    /\ worker[w].pc = "saveFinal"
    /\ Persist(w, Completing(worker[w]), Failing(worker[w]))

----------------------------------------------------------------------------
(* The exception handlers of execute.  What they raise ends the process.     *)

HandleCancellation(w) ==
    LET self    == worker[w]
        current == row[self.run]
        updated == Finish(current, "cancelled",
                          Stopped(current, ActiveStage(self), "cancelled"))
    IN  /\ self.pc = "cancel"
        /\ Proceed(w, IF MayFinish(current, "cancelled") /\ ValidLifecycle(updated)
                      THEN [self EXCEPT !.pc = "saveCancelled", !.local = updated]
                      ELSE Down)

SaveCancelled(w) ==
    /\ worker[w].pc = "saveCancelled"
    /\ Persist(w, Idle, Down)

\* Seeded fault: the handler settles the job without recording the failure.
SwallowFailure(w) ==
    /\ worker[w].pc = "fail"
    /\ Proceed(w, Completing(worker[w]))

HandleFailure(w) ==
    LET self    == worker[w]
        current == row[self.run]
        updated == Finish(current, "failed",
                          Stopped(current, ActiveStage(self), "failed"))
    IN  /\ self.pc = "fail"
        /\ Proceed(w, IF IsTerminal(current) THEN Returned(self, current.status)
                      ELSE IF ValidLifecycle(updated)
                      THEN [self EXCEPT !.pc = "saveFailed", !.local = updated]
                      ELSE Down)

SaveFailed(w) ==
    /\ worker[w].pc = "saveFailed"
    /\ Persist(w, Completing(worker[w]), Down)

----------------------------------------------------------------------------
(* Faults and what repairs them.                                             *)

StepRaises(w) ==
    /\ "raise" \in Faults
    /\ worker[w].pc \in Guarded
    /\ Proceed(w, Failing(worker[w]))

Crash(w) ==
    /\ "crash" \in Faults
    /\ worker[w].pc \notin {"idle", "down"}
    /\ Proceed(w, Down)

\* The platform starts the worker again (restart policy, next job execution).
Restart(w) ==
    /\ worker[w].pc = "down"
    /\ Proceed(w, Idle)

InExecution(r) ==
    \E w \in Worker : worker[w].run = r /\ worker[w].delivery = message[r].deliveries

\* Nobody renews the lock any more: it runs out.
AbandonedLockExpires(r) ==
    /\ ~InExecution(r)
    /\ ExpireLock(r)
    /\ UNCHANGED <<row, cancelRequested, object, input, worker, client>>

LoseLock(r) ==
    /\ "lock" \in Faults
    /\ InExecution(r)
    /\ ExpireLock(r)
    /\ UNCHANGED <<row, cancelRequested, object, input, worker, client>>

----------------------------------------------------------------------------
(* Submitting, retrying and cloning.                                         *)

Request(c, state) == client' = [client EXCEPT ![c] = state]

\* A run id minted by uuid4: neither stored nor held by another request.
FreshId(r) == ~Exists(r) /\ \A c \in Client : client[c].run # r

\* create_analysis, once the upload is validated: the attempt is stored first.
Submit(c, r) ==
    /\ "create" \in Endpoints
    /\ client[c].pc = "idle"
    /\ FreshId(r)
    /\ Create(r, New(r))
    /\ Request(c, [pc |-> "input", run |-> r, source |-> r, snap |-> New(r)])
    /\ UNCHANGED <<message, object, input, worker>>

\* finalize: the input is promoted, which nobody sees before the attempt is stored.
\* Finalizing a stored run again returns it and changes nothing.
FinalizeUpload(c, r) ==
    /\ "finalize" \in Endpoints
    /\ client[c].pc = "idle"
    /\ FreshId(r)
    /\ Create(r, New(r))
    /\ input' = [input EXCEPT ![r] = TRUE]
    /\ Request(c, [NoRequest EXCEPT !.pc = "enqueueDirect", !.run = r])
    /\ UNCHANGED <<message, object, worker>>

\* retry loads the previous attempt and builds its successor; retry_from raises
\* unless the previous attempt failed or was partial.
LoadForRetry(c, r, new) ==
    /\ "retry" \in Endpoints
    /\ client[c].pc = "idle"
    /\ Retryable(row[r])
    /\ FreshId(new)
    /\ Request(c, [pc |-> "create", run |-> new, source |-> r,
                   snap |-> RetryFrom(r, row[r])])
    /\ UNCHANGED <<row, cancelRequested, message, object, input, worker>>

\* clone loads any run and builds a new logical analysis from its input.
LoadForClone(c, r, new) ==
    /\ "clone" \in Endpoints
    /\ client[c].pc = "idle"
    /\ Exists(r)
    /\ FreshId(new)
    /\ Request(c, [pc |-> "create", run |-> new, source |-> r, snap |-> New(new)])
    /\ UNCHANGED <<row, cancelRequested, message, object, input, worker>>

\* The insert fails on the unique constraint when another retry came first.
CreateAttempt(c) ==
    LET self == client[c]
    IN  /\ self.pc = "create"
        /\ Create(self.run, self.snap)
        /\ Request(c, IF MayCreate(self.run, self.snap)
                      THEN [self EXCEPT !.pc = "input"] ELSE NoRequest)
        /\ UNCHANGED <<message, object, input, worker>>

\* Seeded fault: copying a missing input goes unnoticed.
CopyUnchecked(c) ==
    LET self   == client[c]
        stored == self.source = self.run \/ input[self.source]
    IN  /\ self.pc = "input"
        /\ input' = [input EXCEPT ![self.run] = stored]
        /\ Request(c, [self EXCEPT !.pc = "enqueue"])
        /\ UNCHANGED <<row, cancelRequested, message, object, worker>>

\* put_input_file for a new upload, copy_input for a retry or a clone: copying
\* raises when the source run has no input.
StoreInput(c) ==
    LET self   == client[c]
        stored == self.source = self.run \/ input[self.source]
    IN  /\ self.pc = "input"
        /\ input' = [input EXCEPT ![self.run] = stored]
        /\ Request(c, [self EXCEPT !.pc = IF stored THEN "enqueue" ELSE "ingestFail"])
        /\ UNCHANGED <<row, cancelRequested, message, object, worker>>

EnqueueJob(c) ==
    /\ client[c].pc \in {"enqueue", "enqueueDirect"}
    /\ Enqueue(client[c].run)
    /\ Request(c, NoRequest)
    /\ UNCHANGED <<row, cancelRequested, object, input, worker>>

\* A call of create_analysis, retry or clone raises; a raising send may still
\* have reached the broker.  The handler then fails the attempt.
IngestionRaises(c) ==
    /\ "send" \in Faults
    /\ \/ client[c].pc \in {"input", "enqueue"} /\ UNCHANGED message
       \/ client[c].pc = "enqueue" /\ Enqueue(client[c].run)
    /\ Request(c, [client[c] EXCEPT !.pc = "ingestFail"])
    /\ UNCHANGED <<row, cancelRequested, object, input, worker>>

\* Seeded fault: the exception of the submission is re-raised without a save.
ReraiseOnly(c) ==
    /\ client[c].pc = "ingestFail"
    /\ Request(c, NoRequest)
    /\ UNCHANGED <<row, cancelRequested, message, object, input, worker>>

\* Saves the failure of the queued run it created, whatever the attempt is by now.
FailIngestion(c) ==
    LET self == client[c]
    IN  /\ self.pc = "ingestFail"
        /\ Save(self.run, Finish(self.snap, "failed", self.snap.stages))
        /\ Request(c, NoRequest)
        /\ UNCHANGED <<message, object, input, worker>>

\* finalize has no handler around its enqueue.
DirectEnqueueRaises(c) ==
    /\ "send" \in Faults
    /\ client[c].pc = "enqueueDirect"
    /\ Request(c, NoRequest)
    /\ UNCHANGED <<row, cancelRequested, message, object, input, worker>>

\* repository.create raises although the attempt is stored, its connection lost at the
\* commit.  It stands before the try block: nothing fails or enqueues the attempt.
CreateRaises(c, r) ==
    /\ "store" \in Faults
    /\ \/ /\ client[c].pc = "idle"
          /\ FreshId(r)
          /\ Create(r, New(r))
          /\ \/ "create" \in Endpoints /\ UNCHANGED input
             \/ "finalize" \in Endpoints /\ input' = [input EXCEPT ![r] = TRUE]
       \/ /\ client[c].pc = "create" /\ client[c].run = r
          /\ MayCreate(r, client[c].snap)
          /\ Create(r, client[c].snap)
          /\ UNCHANGED input
    /\ Request(c, NoRequest)
    /\ UNCHANGED <<message, object, worker>>

\* A create, the save of the handler that fails the attempt, or a write of a request to
\* cancel raises and changes nothing.
StoreRaises(c) ==
    /\ "store" \in Faults
    /\ client[c].pc \in {"create", "ingestFail", "cancelQueued", "requestCancel"}
    /\ Request(c, NoRequest)
    /\ UNCHANGED <<row, cancelRequested, message, object, input, worker>>

RequestDies(c) ==
    /\ "request" \in Faults
    /\ client[c].pc # "idle"
    /\ Request(c, NoRequest)
    /\ UNCHANGED <<row, cancelRequested, message, object, input, worker>>

----------------------------------------------------------------------------
(* Cancelling.                                                               *)

\* The handler decides on the status it loads; a terminal attempt gets a 409.
LoadForCancel(c, r) ==
    LET loaded == [NoRequest EXCEPT !.run = r, !.snap = row[r]]
    IN  /\ "cancel" \in Endpoints
        /\ client[c].pc = "idle"
        /\ Exists(r)
        /\ Request(c, IF IsTerminal(row[r]) THEN NoRequest
                      ELSE IF row[r].status = "queued"
                      THEN [loaded EXCEPT !.pc = "cancelQueued"]
                      ELSE [loaded EXCEPT !.pc = "requestCancel"])
        /\ UNCHANGED <<row, cancelRequested, message, object, input, worker>>

\* Saves the cancellation of the run as it was loaded.  queue.cancel does nothing
\* on Service Bus.
CancelQueued(c) ==
    LET self == client[c]
    IN  /\ self.pc = "cancelQueued"
        /\ Save(self.run, Finish(self.snap, "cancelled", self.snap.stages))
        /\ Request(c, NoRequest)
        /\ UNCHANGED <<message, object, input, worker>>

RequestCancel(c) ==
    /\ client[c].pc = "requestCancel"
    /\ RequestCancellation(client[c].run)
    /\ Request(c, NoRequest)
    /\ UNCHANGED <<message, object, input, worker>>

----------------------------------------------------------------------------
(* The system.                                                               *)

ExecutorStep(w) ==
    \/ CheckExecutable(w) \/ Complete(w)
    \/ LoadRun(w) \/ CheckQueued(w) \/ SaveStart(w)
    \/ PassFinishedStage(w) \/ SkipOptional(w) \/ BeginStage(w) \/ SaveRunning(w) \/ EndStage(w) \/ SaveDone(w)
    \/ CancelRebuild(w) \/ PublishArtifact(w) \/ VerifyArtifacts(w)
    \/ \E partial \in BOOLEAN : FinishRun(w, partial)
    \/ SaveFinal(w)
    \/ HandleCancellation(w) \/ SaveCancelled(w)
    \/ HandleFailure(w) \/ SaveFailed(w)

WorkerStep(w) ==
    \/ \E r \in RunId : Receive(w, r) \/ DeadLetterOverDelivered(w, r)
    \/ ExecutorStep(w)
    \/ Restart(w)

WorkerFault(w) == StepRaises(w) \/ Crash(w)

ClientStep(c) ==
    \/ \E r \in RunId :
          \/ Submit(c, r) \/ FinalizeUpload(c, r)
          \/ LoadForCancel(c, r)
          \/ \E new \in RunId : LoadForRetry(c, r, new) \/ LoadForClone(c, r, new)
    \/ CreateAttempt(c) \/ StoreInput(c) \/ EnqueueJob(c) \/ FailIngestion(c)
    \/ CancelQueued(c) \/ RequestCancel(c)

ClientFault(c) ==
    \/ IngestionRaises(c) \/ DirectEnqueueRaises(c) \/ RequestDies(c)
    \/ StoreRaises(c) \/ \E r \in RunId : CreateRaises(c, r)

BrokerStep(r) == AbandonedLockExpires(r) \/ LoseLock(r)

Next ==
    \/ \E w \in Worker : WorkerStep(w) \/ WorkerFault(w)
    \/ \E c \in Client : ClientStep(c) \/ ClientFault(c)
    \/ \E r \in RunId  : BrokerStep(r)

Spec == Init /\ [][Next]_vars

\* Workers run and are restarted, and the broker lets abandoned locks run out.
\* Nothing is assumed of API requests or of faults.
Fairness ==
    /\ \A w \in Worker : WF_vars(WorkerStep(w))
    /\ \A r \in RunId  : WF_vars(AbandonedLockExpires(r))

FairSpec == Spec /\ Fairness

----------------------------------------------------------------------------
(* Properties.                                                               *)

\* Once an attempt is terminal, no racing executor, request or handler changes
\* its stored manifest (MILESTONE_2, "terminal and immutable"; save's row lock).
TerminalImmutable ==
    [][\A r \in RunId : IsTerminal(row[r]) => row'[r] = row[r]]_vars

\* A succeeded attempt has every artifact in object storage and every required
\* stage succeeded, although it is completed from a row other executors write.
SucceededIsComplete ==
    \A r \in RunId : row[r].status = "succeeded" =>
        /\ \A a \in Artifact : object[r][a] # 0
        /\ \A s \in Stage \ Optional : row[r].stages[s] = "succeeded"

\* All artifacts ever published for an attempt come from one delivery: two
\* executions of the same attempt never mix their outputs (write_artifact is
\* write-once and every execution publishes in the same order).
SingleProducer ==
    \A r \in RunId : \A a, b \in Artifact :
        (object[r][a] # 0 /\ object[r][b] # 0) => object[r][a] = object[r][b]

\* A job is acknowledged to the broker only after the outcome of its attempt is
\* stored: whatever crashes or races happen, no settled job has a live attempt.
SettledIsTerminal ==
    \A r \in RunId : message[r].state = "completed" => IsTerminal(row[r])

\* No worker ever receives a job before its attempt and its input are stored.
JobHasInput ==
    \A r \in RunId : message[r].state # "unsent" => Exists(r) /\ input[r]

\* Attempts of one logical analysis form a chain: numbers are unique, and every
\* attempt but the first links to the one before it, which failed or was partial,
\* even when two requests retry the same attempt at once.
RetryChain ==
    \A r \in RunId : Exists(r) =>
        /\ \A q \in RunId \ {r} :
              Exists(q) /\ row[q].logical = row[r].logical => row[q].number # row[r].number
        /\ row[r].number > 1 =>
              LET p == row[r].previous
              IN  /\ p \in RunId
                  /\ Retryable(row[p])
                  /\ row[p].logical = row[r].logical
                  /\ row[p].number = row[r].number - 1

\* The stored rows implement the abstract attempt lifecycle, so everything that
\* holds of that specification holds of the control plane.
Lifecycle == INSTANCE AttemptLifecycle
                 WITH attempt <- [r \in RunId |->
                                    [status |-> row[r].status, logical |-> row[r].logical,
                                     number |-> row[r].number, previous |-> row[r].previous]]

ImplementsLifecycle == Lifecycle!LifecycleSpec

\* With the fault-free parts of the platform fair, every job that reached the
\* broker ends with its attempt terminal or its message dead-lettered.
JobsAreResolved ==
    \A r \in RunId :
        message[r].state \in {"available", "locked"}
            ~> (IsTerminal(row[r]) \/ message[r].state = "deadletter")

\* A live attempt that nobody will bring on: no request holds it, and its job was
\* never sent.
Stranded(r) ==
    /\ row[r].status \in {"queued", "running"}
    /\ message[r].state = "unsent"
    /\ \A c \in Client : client[c].run # r

\* No attempt is left queued or running once nobody will work on it again.
NoStrandedAttempt == \A r \in RunId : ~Stranded(r)

\* "Service Bus is at-least-once infrastructure, so the FootballAI execution path
\* must be idempotent": when nothing but worker crashes goes wrong, a redelivered
\* job does not turn its attempt into a failed one.
RedeliveryIsIdempotent ==
    \A r \in RunId : row[r].status # "failed"

=============================================================================
