---------------------------- MODULE SubmissionProofs ----------------------------
(***************************************************************************)
(* What API requests guarantee to workers, for every value of the          *)
(* constants: a job that was sent belongs to a stored attempt with a       *)
(* stored input, and no attempt is left without a request or a job that    *)
(* will bring it on unless its request was abandoned.                      *)
(*                                                                         *)
(* The attempt and its input are stored by the request that later sends    *)
(* the job, and until then that request is alone with its run id.          *)
(***************************************************************************)
EXTENDS LifecycleProofs, MCAnalysisExecution

\* The states of a request that works towards a job.
Submitting == {"create", "input", "enqueue", "enqueueDirect"}

Sent(r) == message[r].state # "unsent"

\* An analysis is named by a stored attempt, and there is nothing in an absent row.
RowsRooted ==
    \A r \in RunId :
        IF Exists(r) THEN row[r].logical \in RunId /\ Exists(row[r].logical)
                     ELSE row[r] = NoRun

SubmissionOK(self) ==
    /\ self.pc \in Submitting => ~Sent(self.run)
    /\ self.pc \in Submitting \ {"create"} => Exists(self.run)
    /\ self.pc \in {"enqueue", "enqueueDirect"} => input[self.run]

SubmissionsOK == \A c \in Client : SubmissionOK(client[c])

\* A run id is in the hands of one submission.
Alone ==
    \A c, d \in Client :
        client[c].pc \in Submitting /\ client[d].pc \in Submitting
        /\ client[c].run = client[d].run => c = d

SubmissionInv ==
    LifecycleInv /\ RowsRooted /\ JobHasInput /\ SubmissionsOK /\ Alone

----------------------------------------------------------------------------
(* Rows.                                                                     *)

LEMMA FreshMayCreate ==
    ASSUME RowsRooted, NEW r \in RunId, ~Exists(r)
    PROVE  MayCreate(r, New(r))
  <1>1. \A q \in RunId : row[q].logical # r
    BY NoRunIdAssumption DEF RowsRooted, NoRun
  <1>2. QED
    BY <1>1 DEF MayCreate, UniqueAttempt, New

\* A step leaves a row, saves over an attempt that is there, or creates one.
LEMMA RowsStep ==
    ASSUME LifecycleInv, RowsRooted, [Next]_vars
    PROVE  RowsRooted' /\ \A r \in RunId : Exists(r) => Exists(r)'
  <1>a. TypeInv /\ row \in [RunId -> Run]
    BY DEF LifecycleInv, TypeInv, TypeOK, RepositoryTypeOK
  <1>1. CASE UNCHANGED row
    BY <1>1 DEF RowsRooted, Exists
  <1>2. ASSUME NEW r \in RunId, NEW run, row' = [row EXCEPT ![r] = run], run.status # "none",
               run.logical = r \/ (run.logical \in RunId /\ Exists(run.logical))
        PROVE  RowsRooted' /\ \A q \in RunId : Exists(q) => Exists(q)'
    <2>1. row'[r] = run /\ \A q \in RunId \ {r} : row'[q] = row[q]
      BY <1>2, <1>a
    <2>2. \A q \in RunId : Exists(q) => Exists(q)'
      BY <1>2, <2>1 DEF Exists
    <2>3. Exists(r)'
      BY <1>2, <2>1 DEF Exists
    <2>4. ASSUME NEW q \in RunId, q # r
          PROVE  IF Exists(q)' THEN row'[q].logical \in RunId /\ Exists(row[q].logical)'
                               ELSE row'[q] = NoRun
      BY <2>1, <2>2, <2>4 DEF RowsRooted, Exists
    <2>5. row'[r].logical \in RunId /\ Exists(row[r].logical)'
      BY <1>2, <2>1, <2>2, <2>3
    <2>6. QED
      BY <2>1, <2>2, <2>3, <2>4, <2>5 DEF RowsRooted
  <1>3. ASSUME NEW r \in RunId, NEW run, Save(r, run), row' # row
        PROVE  RowsRooted' /\ \A q \in RunId : Exists(q) => Exists(q)'
    <2>1. row' = [row EXCEPT ![r] = run] /\ SameProvenance(row[r], run)
          /\ run.status \in AllowedStatusTransitions[row[r].status]
      BY <1>3 DEF Save, Written, Accepts, EnsureTransitionAllowed
    <2>2. run.status # "none" /\ row[r].status # "none"
      <3>1. row[r].status \in AnalysisRunStatus \cup {"none"}
        BY <1>a DEF Run
      <3>2. QED
        BY <2>1, <3>1 DEF AllowedStatusTransitions, AnalysisRunStatus
    <2>3. run.logical \in RunId /\ Exists(run.logical)
      BY <2>1, <2>2 DEF RowsRooted, Exists, SameProvenance
    <2>4. QED
      BY <1>2, <2>1, <2>2, <2>3
  <1>4. ASSUME NEW r \in RunId, NEW run, Creatable(r, run), Create(r, run), row' # row
        PROVE  RowsRooted' /\ \A q \in RunId : Exists(q) => Exists(q)'
    <2>1. row' = [row EXCEPT ![r] = run] /\ run.status # "none"
      BY <1>4 DEF Create, Written, Creatable, New, RetryFrom
    <2>2. run.logical = r \/ (run.logical \in RunId /\ Exists(run.logical))
      BY <1>4 DEF Creatable, New, RetryFrom, RowsRooted, Exists, Retryable
    <2>3. QED
      BY <1>2, <2>1, <2>2
  <1>5. ASSUME NEW c \in Client, Creation(c), row' # row
        PROVE  RowsRooted' /\ \A q \in RunId : Exists(q) => Exists(q)'
    <2>1. CASE CreateAttempt(c)
      BY <2>1, <1>4, <1>5 DEF CreateAttempt, LifecycleInv, TypeInv, ClientOK, RequestsLinked
    <2>2. CASE \E r \in RunId : Submit(c, r) \/ FinalizeUpload(c, r)
      BY <2>2, <1>4, <1>5 DEF Submit, FinalizeUpload, Creatable
    <2>3. ASSUME NEW r \in RunId, CreateRaises(c, r)
          PROVE  RowsRooted' /\ \A q \in RunId : Exists(q) => Exists(q)'
      <3>1. PICK run : Creatable(r, run) /\ Create(r, run)
        BY <2>3 DEF CreateRaises, Creatable, LifecycleInv, RequestsLinked
      <3>2. QED
        BY <3>1, <1>4, <1>5
    <2>4. QED
      BY <1>5, <2>1, <2>2, <2>3 DEF Creation
  <1>6. QED
    BY <1>a, <1>1, <1>3, <1>5, RowsChangeByRepository DEF RowStep, RowSave

----------------------------------------------------------------------------
(* Workers and the broker.                                                   *)

LEMMA OthersStep ==
    ASSUME TypeInv,
           \/ \E w \in Worker : WorkerStep(w) \/ WorkerFault(w)
           \/ \E r \in RunId  : BrokerStep(r)
           \/ UNCHANGED vars
    PROVE  /\ UNCHANGED <<input, client>>
           /\ \A r \in RunId : Sent(r)' <=> Sent(r)
  <1>a. message \in [RunId -> Message]
    BY DEF TypeInv, TypeOK, QueueTypeOK
  <1>1. UNCHANGED <<input, client>>
    BY ZenonT(40) DEF WorkerStep, ExecutorStep, WorkerFault, Receive, DeadLetterOverDelivered,
           CheckExecutable, Complete, LoadRun, CheckQueued, SaveStart, PassFinishedStage,
           SkipOptional, BeginStage, SaveRunning, EndStage, SaveDone, CancelRebuild,
           PublishArtifact, VerifyArtifacts, FinishRun, SaveFinal, HandleCancellation,
           SaveCancelled, HandleFailure, SaveFailed, StepRaises, Crash, Restart,
           Proceed, Persist, BrokerStep, AbandonedLockExpires, LoseLock, vars
  <1>2. ASSUME NEW q \in RunId, NEW d, Deliver(q) \/ DeadLetter(q) \/ CompleteMessage(q, d)
                                       \/ ExpireLock(q)
        PROVE  \A r \in RunId : Sent(r)' <=> Sent(r)
    BY <1>a, <1>2 DEF Deliver, DeadLetter, CompleteMessage, ExpireLock, HoldsLock, Sent, Message
  <1>3. ASSUME NEW w \in Worker, WorkerStep(w) \/ WorkerFault(w)
        PROVE  \A r \in RunId : Sent(r)' <=> Sent(r)
    <2>1. CASE Complete(w)
      <3>1. worker[w].run \in RunId
        BY <2>1 DEF Complete, TypeInv, WorkerOK
      <3>2. QED
        BY <2>1, <3>1, <1>2 DEF Complete
    <2>2. CASE \E r \in RunId : Receive(w, r) \/ DeadLetterOverDelivered(w, r)
      BY <2>2, <1>2 DEF Receive, DeadLetterOverDelivered
    <2>3. CASE message' = message
      BY <2>3 DEF Sent
    <2>4. QED
      BY <1>3, <2>1, <2>2, <2>3
      DEF WorkerStep, ExecutorStep, WorkerFault, CheckExecutable, LoadRun, CheckQueued,
          SaveStart, PassFinishedStage, SkipOptional, BeginStage, SaveRunning, EndStage,
          SaveDone, CancelRebuild, PublishArtifact, VerifyArtifacts, FinishRun, SaveFinal,
          HandleCancellation, SaveCancelled, HandleFailure, SaveFailed, StepRaises, Crash,
          Restart, Proceed, Persist
  <1>4. ASSUME NEW r \in RunId, BrokerStep(r) PROVE \A q \in RunId : Sent(q)' <=> Sent(q)
    BY <1>4, <1>2 DEF BrokerStep, AbandonedLockExpires, LoseLock
  <1>5. CASE UNCHANGED vars
    BY <1>5 DEF vars, Sent
  <1>6. QED
    BY <1>1, <1>3, <1>4, <1>5

LEMMA OthersSubmission ==
    ASSUME SubmissionInv, [Next]_vars, UNCHANGED <<input, client>>,
           \A r \in RunId : Sent(r)' <=> Sent(r)
    PROVE  JobHasInput' /\ SubmissionsOK' /\ Alone'
  <1>0. \A r \in RunId : Exists(r) => Exists(r)'
    BY RowsStep DEF SubmissionInv
  <1>1. JobHasInput'
    BY <1>0 DEF SubmissionInv, JobHasInput, Sent
  <1>2. \A c \in Client : client[c].pc # "idle" => client[c].run \in RunId
    BY DEF SubmissionInv, LifecycleInv, TypeInv, ClientOK
  <1>3. SubmissionsOK'
    BY <1>0, <1>2 DEF SubmissionInv, SubmissionsOK, SubmissionOK, Submitting
  <1>4. Alone'
    BY DEF SubmissionInv, Alone
  <1>5. QED
    BY <1>1, <1>3, <1>4

----------------------------------------------------------------------------
(* Requests.                                                                 *)

\* A request that does not submit, any more or at all.
LEMMA ClientLeaves ==
    ASSUME SubmissionInv, [Next]_vars, NEW c \in Client, NEW state, Request(c, state),
           state.pc \notin Submitting,
           \A q \in RunId : (input[q] => input'[q])
                            \/ (q = client[c].run /\ client[c].pc \in Submitting
                                /\ UNCHANGED message),
           \A r \in RunId : Sent(r)' => Sent(r) \/ (client[c].run = r /\ Exists(r) /\ input[r]
                                                   /\ client[c].pc \in Submitting),
           \A r \in RunId : Sent(r) => Sent(r)'
    PROVE  JobHasInput' /\ SubmissionsOK' /\ Alone'
  <1>0. /\ \A r \in RunId : Exists(r) => Exists(r)'
        /\ client \in [Client -> ClientState]
        /\ \A d \in Client : client[d].pc # "idle" => client[d].run \in RunId
    BY RowsStep DEF SubmissionInv, LifecycleInv, TypeInv, TypeOK, ClientOK
  <1>1. client'[c] = state /\ \A d \in Client \ {c} : client'[d] = client[d]
    BY <1>0 DEF Request
  <1>2. JobHasInput'
    <2>1. client[c].pc \in Submitting => ~Sent(client[c].run)
      BY DEF SubmissionInv, SubmissionsOK, SubmissionOK
    <2>2. QED
      BY <1>0, <2>1 DEF SubmissionInv, JobHasInput, Sent
  <1>3. ASSUME NEW d \in Client PROVE SubmissionOK(client[d])'
    <2>1. CASE d = c
      BY <1>1, <2>1 DEF SubmissionOK, Submitting
    <2>2. CASE d # c
      <3>1. client'[d] = client[d] /\ SubmissionOK(client[d])
        BY <1>1, <2>2 DEF SubmissionInv, SubmissionsOK
      <3>2. client[d].pc \in Submitting => ~Sent(client[d].run)'
        BY <1>0, <2>2, <3>1 DEF SubmissionOK, SubmissionInv, Alone, Submitting
      <3>3. client[d].pc \in Submitting /\ input[client[d].run] => input'[client[d].run]
        BY <1>0, <2>2 DEF SubmissionInv, Alone, Submitting
      <3>4. QED
        BY <1>0, <3>1, <3>2, <3>3 DEF SubmissionOK, Submitting
    <2>3. QED
      BY <2>1, <2>2
  <1>4. Alone'
    BY <1>1 DEF SubmissionInv, Alone
  <1>5. QED
    BY <1>2, <1>3, <1>4 DEF SubmissionsOK

\* A request that submits on, alone with its run id.
LEMMA ClientGoesOn ==
    ASSUME SubmissionInv, [Next]_vars, NEW c \in Client, NEW state, Request(c, state),
           NEW r \in RunId, state.run = r, state.pc \in Submitting, UNCHANGED message, ~Sent(r),
           state.pc # "create" => Exists(r)',
           \A q \in RunId \ {r} : input'[q] = input[q],
           state.pc \in {"enqueue", "enqueueDirect"} => input'[r],
           \A d \in Client \ {c} : client[d].run = r => client[d].pc \notin Submitting
    PROVE  JobHasInput' /\ SubmissionsOK' /\ Alone'
  <1>0. /\ \A q \in RunId : Exists(q) => Exists(q)'
        /\ client \in [Client -> ClientState]
        /\ \A d \in Client : client[d].pc # "idle" => client[d].run \in RunId
    BY RowsStep DEF SubmissionInv, LifecycleInv, TypeInv, TypeOK, ClientOK
  <1>1. client'[c] = state /\ \A d \in Client \ {c} : client'[d] = client[d]
    BY <1>0 DEF Request
  <1>2. JobHasInput'
    BY <1>0 DEF SubmissionInv, JobHasInput, Sent
  <1>3. ASSUME NEW d \in Client PROVE SubmissionOK(client[d])'
    <2>1. CASE d = c
      BY <1>1, <2>1 DEF SubmissionOK, Submitting, Sent
    <2>2. CASE d # c
      <3>1. client'[d] = client[d] /\ SubmissionOK(client[d])
        BY <1>1, <2>2 DEF SubmissionInv, SubmissionsOK
      <3>2. client[d].pc \in Submitting => client[d].run \in RunId \ {r}
        BY <1>0, <2>2 DEF Submitting
      <3>3. QED
        BY <1>0, <3>1, <3>2 DEF SubmissionOK, Submitting, Sent
    <2>3. QED
      BY <2>1, <2>2
  <1>4. Alone'
    BY <1>1 DEF SubmissionInv, Alone
  <1>5. QED
    BY <1>2, <1>3, <1>4 DEF SubmissionsOK

\* A request that begins is the first to hold its run id.
LEMMA ClientBegins ==
    ASSUME SubmissionInv, [Next]_vars, NEW c \in Client, NEW r \in RunId, FreshId(r)
    PROVE  /\ Submit(c, r) => JobHasInput' /\ SubmissionsOK' /\ Alone'
           /\ FinalizeUpload(c, r) => JobHasInput' /\ SubmissionsOK' /\ Alone'
           /\ \A q \in RunId : LoadForRetry(c, q, r) \/ LoadForClone(c, q, r)
                                => JobHasInput' /\ SubmissionsOK' /\ Alone'
  <1>a. row \in [RunId -> Run] /\ input \in [RunId -> BOOLEAN]
    BY DEF SubmissionInv, LifecycleInv, TypeInv, TypeOK, RepositoryTypeOK
  <1>b. ~Sent(r) /\ \A d \in Client : client[d].run # r
    BY DEF FreshId, SubmissionInv, JobHasInput, Sent
  <1>c. Create(r, New(r)) => Exists(r)'
    BY <1>a, FreshMayCreate DEF FreshId, SubmissionInv, Create, Written, New, Exists
  <1>1. ASSUME Submit(c, r) PROVE JobHasInput' /\ SubmissionsOK' /\ Alone'
    <2> DEFINE state == [pc |-> "input", run |-> r, source |-> r, snap |-> New(r)]
    <2>1. Request(c, state) /\ UNCHANGED <<message, input>> /\ Exists(r)'
      BY <1>1, <1>c DEF Submit
    <2>2. state.pc = "input" /\ state.run = r
      OBVIOUS
    <2> HIDE DEF state
    <2>3. QED
      BY <1>b, <2>1, <2>2, ClientGoesOn DEF Submitting
  <1>2. ASSUME FinalizeUpload(c, r) PROVE JobHasInput' /\ SubmissionsOK' /\ Alone'
    <2> DEFINE state == [NoRequest EXCEPT !.pc = "enqueueDirect", !.run = r]
    <2>1. Request(c, state) /\ UNCHANGED message /\ Exists(r)'
      BY <1>2, <1>c DEF FinalizeUpload
    <2>2. input'[r] /\ \A q \in RunId \ {r} : input'[q] = input[q]
      BY <1>2, <1>a DEF FinalizeUpload
    <2>3. state.pc = "enqueueDirect" /\ state.run = r
      BY DEF NoRequest
    <2> HIDE DEF state
    <2>4. QED
      BY <1>b, <2>1, <2>2, <2>3, ClientGoesOn DEF Submitting
  <1>3. ASSUME NEW q \in RunId, LoadForRetry(c, q, r) \/ LoadForClone(c, q, r)
        PROVE  JobHasInput' /\ SubmissionsOK' /\ Alone'
    <2>1. PICK state : Request(c, state) /\ state.pc = "create" /\ state.run = r
      BY <1>3 DEF LoadForRetry, LoadForClone
    <2>2. UNCHANGED <<message, input>>
      BY <1>3 DEF LoadForRetry, LoadForClone
    <2>3. QED
      BY <1>b, <2>1, <2>2, ClientGoesOn DEF Submitting
  <1>4. QED
    BY <1>1, <1>2, <1>3

\* The steps between the first and the job.
LEMMA ClientProceeds ==
    ASSUME SubmissionInv, [Next]_vars, NEW c \in Client
    PROVE  /\ CreateAttempt(c) => JobHasInput' /\ SubmissionsOK' /\ Alone'
           /\ StoreInput(c) => JobHasInput' /\ SubmissionsOK' /\ Alone'
  <1> DEFINE self == client[c]
  <1>a. /\ row \in [RunId -> Run] /\ input \in [RunId -> BOOLEAN]
        /\ self \in ClientState
        /\ self.pc # "idle" => self.run \in RunId
    BY DEF SubmissionInv, LifecycleInv, TypeInv, TypeOK, RepositoryTypeOK, ClientOK
  <1>b. self.pc \in Submitting =>
           ~Sent(self.run) /\ \A d \in Client \ {c} :
                                 client[d].run = self.run => client[d].pc \notin Submitting
    BY DEF SubmissionInv, SubmissionsOK, SubmissionOK, Alone
  <1>c. NoRequest.pc \notin Submitting
    BY DEF NoRequest, Submitting
  <1>1. ASSUME CreateAttempt(c), NEW r \in RunId, self.run = r
        PROVE  JobHasInput' /\ SubmissionsOK' /\ Alone'
    <2>0. self.pc = "create" /\ UNCHANGED <<message, input>>
      BY <1>1, <1>a DEF CreateAttempt
    <2>1. CASE MayCreate(self.run, self.snap)
      <3>1. Request(c, [self EXCEPT !.pc = "input"])
        BY <1>1, <2>1 DEF CreateAttempt
      <3>2. PICK state : Request(c, state) /\ state.pc = "input" /\ state.run = r
        BY <1>1, <1>a, <3>1 DEF ClientState
      <3>3. self.snap.status = "queued"
        <4>1. Creatable(self.run, self.snap)
          BY <2>0 DEF SubmissionInv, LifecycleInv, RequestsLinked
        <4>2. ASSUME NEW run, Creatable(self.run, run) PROVE run.status = "queued"
          BY <4>2 DEF Creatable, New, RetryFrom
        <4>3. QED
          BY <4>1, <4>2
      <3>4. Exists(r)'
        BY <1>1, <1>a, <2>0, <2>1, <3>3 DEF CreateAttempt, Create, Written, Exists
      <3>5. \A d \in Client \ {c} : client[d].run = r => client[d].pc \notin Submitting
        BY <1>1, <1>b, <2>0 DEF Submitting
      <3>6. ~Sent(r) /\ \A q \in RunId \ {r} : input'[q] = input[q]
        BY <1>1, <1>b, <2>0 DEF Submitting
      <3>7. state.pc \in Submitting /\ state.pc \notin {"enqueue", "enqueueDirect"}
        BY <3>2 DEF Submitting
      <3>8. QED
        BY <2>0, <3>2, <3>4, <3>5, <3>6, <3>7, ClientGoesOn
    <2>2. CASE ~MayCreate(self.run, self.snap)
      BY <1>1, <1>c, <2>0, <2>2, ClientLeaves DEF CreateAttempt, Sent
    <2>3. QED
      BY <2>1, <2>2
  <1>2. ASSUME StoreInput(c), NEW r \in RunId, self.run = r
        PROVE  JobHasInput' /\ SubmissionsOK' /\ Alone'
    <2> DEFINE stored == self.source = self.run \/ input[self.source]
    <2>1. /\ self.pc = "input" /\ UNCHANGED <<row, message>>
          /\ input' = [input EXCEPT ![r] = stored]
          /\ Request(c, [self EXCEPT !.pc = IF stored THEN "enqueue" ELSE "ingestFail"])
      BY <1>2, <1>a DEF StoreInput
    <2>2. input'[r] = stored /\ \A q \in RunId \ {r} : input'[q] = input[q]
      BY <1>2, <2>1, <1>a
    <2>3. PICK state : /\ Request(c, state) /\ state.run = r
                       /\ state.pc = IF stored THEN "enqueue" ELSE "ingestFail"
      BY <1>2, <1>a, <2>1 DEF ClientState
    <2>4. Exists(r)'
      BY <1>2, <2>1 DEF SubmissionInv, SubmissionsOK, SubmissionOK, Submitting, Exists
    <2>5. self.pc \in Submitting
      BY <2>1 DEF Submitting
    <2> HIDE DEF stored
    <2>6. CASE stored
      <3>1. \A d \in Client \ {c} : client[d].run = r => client[d].pc \notin Submitting
        BY <1>2, <1>b, <2>5
      <3>2. ~Sent(r) /\ input'[r] /\ \A q \in RunId \ {r} : input'[q] = input[q]
        BY <1>2, <1>b, <2>2, <2>5, <2>6
      <3>3. state.pc \in Submitting
        BY <2>3, <2>6 DEF Submitting
      <3>4. QED
        BY <2>1, <2>3, <2>4, <3>1, <3>2, <3>3, ClientGoesOn
    <2>7. CASE ~stored
      <3>1. state.pc \notin Submitting
        BY <2>3, <2>7 DEF Submitting
      <3>2. QED
        BY <1>2, <2>1, <2>2, <2>3, <2>5, <3>1, ClientLeaves DEF Sent
    <2>8. QED
      BY <2>6, <2>7
  <1>3. CreateAttempt(c) \/ StoreInput(c) => self.run \in RunId
    BY <1>a DEF CreateAttempt, StoreInput
  <1>4. QED
    BY <1>1, <1>2, <1>3

\* The steps that end a submission, and those of a request to cancel.
LEMMA ClientEnds ==
    ASSUME SubmissionInv, [Next]_vars, NEW c \in Client,
           \/ \E r \in RunId : LoadForCancel(c, r)
           \/ EnqueueJob(c) \/ IngestionRaises(c) \/ FailIngestion(c) \/ CancelQueued(c)
           \/ RequestCancel(c) \/ DirectEnqueueRaises(c) \/ RequestDies(c) \/ StoreRaises(c)
    PROVE  JobHasInput' /\ SubmissionsOK' /\ Alone'
  <1> DEFINE self == client[c]
  <1>a. /\ self \in ClientState /\ message \in [RunId -> Message]
        /\ self.pc # "idle" => self.run \in RunId
    BY DEF SubmissionInv, LifecycleInv, TypeInv, TypeOK, QueueTypeOK, ClientOK
  <1>b. UNCHANGED input
    BY DEF LoadForCancel, EnqueueJob, IngestionRaises, FailIngestion, CancelQueued,
           RequestCancel, DirectEnqueueRaises, RequestDies, StoreRaises
  <1>1. \E state : Request(c, state) /\ state.pc \notin Submitting
    <2>1. NoRequest.pc \notin Submitting
      BY DEF NoRequest, Submitting
    <2>2. ASSUME NEW r \in RunId, LoadForCancel(c, r)
          PROVE  \E state : Request(c, state) /\ state.pc \notin Submitting
      <3> DEFINE loaded == [NoRequest EXCEPT !.run = r, !.snap = row[r]]
      <3>1. /\ [loaded EXCEPT !.pc = "cancelQueued"].pc \notin Submitting
            /\ [loaded EXCEPT !.pc = "requestCancel"].pc \notin Submitting
        BY DEF NoRequest, Submitting
      <3>2. \/ Request(c, NoRequest)
            \/ Request(c, [loaded EXCEPT !.pc = "cancelQueued"])
            \/ Request(c, [loaded EXCEPT !.pc = "requestCancel"])
        BY <2>2 DEF LoadForCancel
      <3> HIDE DEF loaded
      <3>3. QED
        BY <2>1, <3>1, <3>2
    <2>3. CASE IngestionRaises(c)
      <3>1. [self EXCEPT !.pc = "ingestFail"].pc \notin Submitting
        BY <1>a DEF ClientState, Submitting
      <3>2. QED
        BY <2>3, <3>1 DEF IngestionRaises
    <2>4. QED
      BY <2>1, <2>2, <2>3 DEF EnqueueJob, FailIngestion, CancelQueued, RequestCancel,
                              DirectEnqueueRaises, RequestDies, StoreRaises
  <1> PICK state : Request(c, state) /\ state.pc \notin Submitting
    BY <1>1
  <1>2. CASE UNCHANGED message
    BY <1>b, <1>2, ClientLeaves DEF Sent
  <1>3. CASE self.pc \in {"enqueue", "enqueueDirect"} /\ Enqueue(self.run)
    <2>1. self.run \in RunId /\ self.pc \in Submitting /\ self.pc # "create"
      BY <1>3, <1>a DEF Submitting
    <2>2. Exists(self.run) /\ input[self.run]
      BY <1>3, <2>1 DEF SubmissionInv, SubmissionsOK, SubmissionOK
    <2>3. /\ message'[self.run].state = "available"
          /\ \A r \in RunId \ {self.run} : message'[r] = message[r]
      BY <1>3, <1>a, <2>1 DEF Enqueue, Message
    <2>4. /\ \A r \in RunId : Sent(r) => Sent(r)'
          /\ \A r \in RunId : Sent(r)' => Sent(r) \/ r = self.run
      BY <2>3 DEF Sent
    <2> HIDE DEF self
    <2>5. QED
      BY <1>b, <2>1, <2>2, <2>4, ClientLeaves DEF self
  <1>4. QED
    BY <1>2, <1>3 DEF LoadForCancel, EnqueueJob, IngestionRaises, FailIngestion, CancelQueued,
                      RequestCancel, DirectEnqueueRaises, RequestDies, StoreRaises

----------------------------------------------------------------------------
(* The theorem.                                                              *)

LEMMA SubmissionInit == Init => SubmissionInv
  <1> SUFFICES ASSUME Init PROVE SubmissionInv
    OBVIOUS
  <1>1. LifecycleInv
    BY TypeInit DEF Init, LifecycleInv, RequestsLinked, NoRequest
  <1>2. RowsRooted
    BY DEF Init, RepositoryInit, RowsRooted, Exists, NoRun
  <1>3. JobHasInput
    BY DEF Init, QueueInit, JobHasInput
  <1>4. SubmissionsOK /\ Alone
    BY DEF Init, SubmissionsOK, SubmissionOK, Alone, Submitting, NoRequest
  <1>5. QED
    BY <1>1, <1>2, <1>3, <1>4 DEF SubmissionInv

LEMMA SubmissionStep == SubmissionInv /\ [Next]_vars => SubmissionInv'
  <1> SUFFICES ASSUME SubmissionInv, [Next]_vars PROVE SubmissionInv'
    OBVIOUS
  <1>1. LifecycleInv' /\ RowsRooted'
    BY TypeStep, LinkedStep, RowsStep DEF SubmissionInv, LifecycleInv
  <1>2. JobHasInput' /\ SubmissionsOK' /\ Alone'
    <2>1. ASSUME NEW c \in Client, ClientStep(c) \/ ClientFault(c)
          PROVE  JobHasInput' /\ SubmissionsOK' /\ Alone'
      <3>1. CASE \E r \in RunId : \/ Submit(c, r) \/ FinalizeUpload(c, r)
                                 \/ \E q \in RunId : LoadForRetry(c, q, r)
                                                    \/ LoadForClone(c, q, r)
        <4>1. PICK r \in RunId : \/ Submit(c, r) \/ FinalizeUpload(c, r)
                                \/ \E q \in RunId : LoadForRetry(c, q, r)
                                                   \/ LoadForClone(c, q, r)
          BY <3>1
        <4>2. FreshId(r)
          BY <4>1 DEF Submit, FinalizeUpload, LoadForRetry, LoadForClone
        <4>3. QED
          BY <4>1, <4>2, ClientBegins
      <3>2. CASE CreateAttempt(c) \/ StoreInput(c)
        BY <3>2, ClientProceeds
      <3>3. CASE \/ \E r \in RunId : LoadForCancel(c, r)
                 \/ EnqueueJob(c) \/ IngestionRaises(c) \/ FailIngestion(c)
                 \/ CancelQueued(c) \/ RequestCancel(c) \/ DirectEnqueueRaises(c)
                 \/ RequestDies(c) \/ StoreRaises(c)
        BY <3>3, ClientEnds
      <3>4. CASE \E r \in RunId : CreateRaises(c, r)
        <4>1. /\ Request(c, NoRequest) /\ NoRequest.pc \notin Submitting
              /\ UNCHANGED message
              /\ input \in [RunId -> BOOLEAN]
          BY <3>4 DEF CreateRaises, NoRequest, Submitting, SubmissionInv, LifecycleInv,
                      TypeInv, TypeOK
        <4>2. \A q \in RunId : input[q] => input'[q]
          BY <3>4, <4>1 DEF CreateRaises
        <4>3. QED
          BY <4>1, <4>2, ClientLeaves DEF Sent
      <3>5. CASE ClientFault(c)
        BY <3>3, <3>4, <3>5 DEF ClientFault
      <3>6. CASE ClientStep(c)
        BY <3>1, <3>2, <3>3, <3>6 DEF ClientStep
      <3>7. QED
        BY <2>1, <3>5, <3>6
    <2>2. CASE \/ \E w \in Worker : WorkerStep(w) \/ WorkerFault(w)
               \/ \E r \in RunId  : BrokerStep(r)
               \/ UNCHANGED vars
      <3>1. TypeInv
        BY DEF SubmissionInv, LifecycleInv
      <3>2. QED
        BY <2>2, <3>1, OthersStep, OthersSubmission
    <2>3. QED
      BY <2>1, <2>2 DEF Next
  <1>3. QED
    BY <1>1, <1>2 DEF SubmissionInv

\* No worker ever receives a job before its attempt and its input are stored: the send is
\* the last call of the request that stored both, and no other request submits its run.
THEOREM JobsHaveInput == Spec => []JobHasInput
  <1>1. SubmissionInv => JobHasInput
    BY DEF SubmissionInv
  <1>2. QED
    BY <1>1, SubmissionInit, SubmissionStep, PTL DEF Spec

----------------------------------------------------------------------------
(* Who brings an attempt on.  Until its job is sent it is the request that   *)
(* created it, and the failure that request saves is one the row accepts.    *)

Live == {"queued", "running"}

Attends(self, r) ==
    self.run = r /\ self.pc \in {"input", "enqueue", "enqueueDirect", "ingestFail"}

Attended(r) ==
    row[r].status \in Live => Sent(r) \/ \E c \in Client : Attends(client[c], r)

\* The request still holds the run as it stored it.
HandlerOK(self) ==
    /\ \A r \in RunId :
          self.run = r /\ self.pc \in {"input", "enqueue", "ingestFail"} =>
              Exists(r) /\ SameProvenance(row[r], self.snap)
    /\ self.pc = "enqueueDirect" => "finalize" \in Endpoints

HandlersOK == \A c \in Client : HandlerOK(client[c])

StrandInv == SubmissionInv /\ HandlersOK

\* The steps that give up no request for the attempt r: a request whose create raised
\* without an effect, and one that cancels, have nothing to bring on.
DiligentStep(r) ==
    \/ \E w \in Worker : WorkerStep(w) \/ WorkerFault(w)
    \/ \E q \in RunId  : BrokerStep(q)
    \/ \E c \in Client : ClientStep(c) \/ IngestionRaises(c)
    \/ \E c \in Client : /\ StoreRaises(c)
                         /\ client[c].pc = "ingestFail" => client[c].run # r
    \/ \E c \in Client, q \in RunId : CreateRaises(c, q) /\ q # r
    \/ UNCHANGED vars

\* A save leaves every row in place.
LEMMA SaveKept ==
    ASSUME TypeInv, NEW r \in RunId, NEW q \in RunId, NEW run, Save(q, run)
    PROVE  /\ Exists(r) => Exists(r)' /\ SameProvenance(row[r], row'[r])
           /\ Exists(r) /\ row'[r].status \in Live => row[r].status \in Live
           /\ ~Exists(r) => ~Exists(r)'
  <1>a. row \in [RunId -> Run]
    BY DEF TypeInv, TypeOK, RepositoryTypeOK
  <1>1. CASE row' = row
    BY <1>1 DEF SameProvenance, Exists
  <1>2. CASE Accepts(q, run) /\ row' = [row EXCEPT ![q] = run]
    <2>1. /\ run.status \in AllowedStatusTransitions[row[q].status]
          /\ SameProvenance(row[q], run) /\ ~IsTerminal(row[q])
          /\ row[q].status \in AnalysisRunStatus \cup {"none"}
      BY <1>a, <1>2 DEF Accepts, EnsureTransitionAllowed, Run
    <2>2. row[q].status \in Live /\ run.status # "none"
      BY <2>1 DEF AllowedStatusTransitions, AnalysisRunStatus, IsTerminal, TerminalStatus, Live
    <2>3. row'[r] = IF r = q THEN run ELSE row[r]
      BY <1>a, <1>2
    <2>4. CASE r = q
      BY <2>1, <2>2, <2>3, <2>4 DEF Exists, Live
    <2>5. CASE r # q
      BY <2>3, <2>5 DEF Exists, SameProvenance
    <2>6. QED
      BY <2>4, <2>5
  <1>3. QED
    BY <1>1, <1>2 DEF Save, Written

\* What a step does to a row: it is saved over, or created.
LEMMA RowKept ==
    ASSUME SubmissionInv, [Next]_vars, NEW r \in RunId
    PROVE  /\ Exists(r) => Exists(r)' /\ SameProvenance(row[r], row'[r])
           /\ Exists(r) /\ row'[r].status \in Live => row[r].status \in Live
  <1>a. TypeInv /\ row \in [RunId -> Run]
    BY DEF SubmissionInv, LifecycleInv, TypeInv, TypeOK, RepositoryTypeOK
  <1>1. ASSUME NEW c \in Client, Creation(c), Exists(r) PROVE row'[r] = row[r]
    <2>1. ASSUME NEW q \in RunId, NEW run, Create(q, run) PROVE row'[r] = row[r]
      BY <1>a, <1>1, <2>1 DEF Create, MayCreate, Written, Exists
    <2>2. CreateAttempt(c) => client[c].run \in RunId
      BY <1>a DEF CreateAttempt, TypeInv, ClientOK
    <2>3. QED
      BY <1>1, <2>1, <2>2 DEF Creation, CreateAttempt, Submit, FinalizeUpload, CreateRaises
  <1>2. CASE UNCHANGED row
    BY <1>2 DEF Exists, SameProvenance
  <1>3. CASE \E q \in RunId : \E run : Save(q, run)
    BY <1>a, <1>3, SaveKept
  <1>4. CASE \E c \in Client : Creation(c)
    BY <1>1, <1>4 DEF Exists, SameProvenance
  <1>5. QED
    BY <1>a, <1>2, <1>3, <1>4, RowsChangeByRepository DEF RowStep, RowSave

\* A request that moves to another state.
LEMMA HandlerMoves ==
    ASSUME StrandInv, [Next]_vars, NEW c \in Client, NEW state, Request(c, state),
           HandlerOK(state)'
    PROVE  HandlersOK'
  <1>1. /\ client \in [Client -> ClientState]
        /\ \A d \in Client : client[d].pc # "idle" => client[d].run \in RunId
    BY DEF StrandInv, SubmissionInv, LifecycleInv, TypeInv, TypeOK, ClientOK
  <1>2. client'[c] = state /\ \A d \in Client \ {c} : client'[d] = client[d]
    BY <1>1 DEF Request
  <1>3. SubmissionInv
    BY DEF StrandInv
  <1>4. ASSUME NEW d \in Client PROVE HandlerOK(client[d])'
    <2>1. CASE d = c
      BY <1>2, <2>1 DEF HandlerOK
    <2>2. CASE d # c
      <3>1. client'[d] = client[d] /\ HandlerOK(client[d])
        BY <1>2, <2>2 DEF StrandInv, HandlersOK
      <3>2. ASSUME NEW r \in RunId, Exists(r), SameProvenance(row[r], client[d].snap)
            PROVE  Exists(r)' /\ SameProvenance(row'[r], client[d].snap)
        BY <1>3, <3>2, RowKept DEF SameProvenance
      <3>3. QED
        BY <3>1, <3>2 DEF HandlerOK
    <2>3. QED
      BY <2>1, <2>2
  <1>5. QED
    BY <1>4 DEF HandlersOK

\* A request that steps away from what it submitted, or has nothing yet.
LEMMA HandlerLeaves ==
    ASSUME StrandInv, [Next]_vars, NEW c \in Client, NEW state, Request(c, state),
           state.pc \notin {"input", "enqueue", "ingestFail", "enqueueDirect"}
    PROVE  HandlersOK'
  <1>1. HandlerOK(state)'
    BY DEF HandlerOK
  <1>2. QED
    BY <1>1, HandlerMoves

\* A request that goes on with the row it stored.
LEMMA HandlerProceeds ==
    ASSUME StrandInv, [Next]_vars, NEW c \in Client, NEW pc,
           Request(c, [client[c] EXCEPT !.pc = pc]),
           client[c].pc \in {"input", "enqueue", "ingestFail"}, pc # "enqueueDirect"
    PROVE  HandlersOK'
  <1> DEFINE state == [client[c] EXCEPT !.pc = pc]
  <1>1. client[c] \in ClientState /\ HandlerOK(client[c])
    BY DEF StrandInv, HandlersOK, SubmissionInv, LifecycleInv, TypeInv, TypeOK
  <1>2. state.pc = pc /\ state.run = client[c].run /\ state.snap = client[c].snap
    BY <1>1 DEF ClientState
  <1>3. PICK now : now = state
    OBVIOUS
  <1>4. now.pc = pc /\ now.run = client[c].run /\ now.snap = client[c].snap /\ Request(c, now)
    BY <1>2, <1>3
  <1> HIDE DEF state
  <1>5. ASSUME NEW r \in RunId, now.run = r
        PROVE  Exists(r)' /\ SameProvenance(row[r], now.snap)'
    <2>1. Exists(r) /\ SameProvenance(row[r], now.snap)
      BY <1>1, <1>4, <1>5 DEF HandlerOK
    <2>2. Exists(r)' /\ SameProvenance(row[r], row'[r])
      BY <2>1, RowKept DEF StrandInv
    <2>3. QED
      BY <2>1, <2>2 DEF SameProvenance
  <1>6. HandlerOK(now)'
    BY <1>4, <1>5 DEF HandlerOK
  <1>7. QED
    BY <1>4, <1>6, HandlerMoves

\* A creation that stores the run its request holds.
LEMMA HandlerStores ==
    ASSUME StrandInv, NEW r \in RunId, NEW run \in Run, run.status # "none",
           row' = [row EXCEPT ![r] = run]
    PROVE  Exists(r)' /\ SameProvenance(row'[r], run)
  <1>1. row \in [RunId -> Run]
    BY DEF StrandInv, SubmissionInv, LifecycleInv, TypeInv, TypeOK, RepositoryTypeOK
  <1>2. QED
    BY <1>1 DEF Exists, SameProvenance

LEMMA HandlersStep == StrandInv /\ [Next]_vars => HandlersOK'
  <1> SUFFICES ASSUME StrandInv, [Next]_vars PROVE HandlersOK'
    OBVIOUS
  <1>a. SubmissionInv /\ TypeInv /\ row \in [RunId -> Run] /\ HandlersOK
    BY DEF StrandInv, SubmissionInv, LifecycleInv, TypeInv, TypeOK, RepositoryTypeOK
  <1>1. CASE \/ \E w \in Worker : WorkerStep(w) \/ WorkerFault(w)
             \/ \E r \in RunId  : BrokerStep(r)
             \/ UNCHANGED vars
    <2>1. client' = client
      BY <1>1, <1>a, OthersStep
    <2>2. ASSUME NEW r \in RunId, NEW snap, Exists(r), SameProvenance(row[r], snap)
          PROVE  Exists(r)' /\ SameProvenance(row'[r], snap)
      BY <1>a, <2>2, RowKept DEF SameProvenance
    <2>3. QED
      BY <1>a, <2>1, <2>2 DEF HandlersOK, HandlerOK
  <1>2. ASSUME NEW c \in Client, ClientStep(c) \/ ClientFault(c) PROVE HandlersOK'
    <2>a. client[c] \in ClientState /\ (client[c].pc # "idle" => client[c].run \in RunId)
      BY <1>a DEF TypeInv, TypeOK, ClientOK
    <2>0. /\ Request(c, NoRequest) => HandlersOK'
          /\ NoRequest.pc \notin {"input", "enqueue", "ingestFail", "enqueueDirect"}
      <3>1. NoRequest.pc \notin {"input", "enqueue", "ingestFail", "enqueueDirect"}
        BY DEF NoRequest
      <3>2. QED
        BY <3>1, HandlerLeaves
    <2>1. ASSUME NEW r \in RunId, Submit(c, r) \/ FinalizeUpload(c, r) PROVE HandlersOK'
      <3>1. row' = [row EXCEPT ![r] = New(r)]
        BY <1>a, <2>1, FreshMayCreate DEF Submit, FinalizeUpload, FreshId, Create, Written,
                                          SubmissionInv
      <3>2. New(r) \in Run /\ New(r).status # "none"
        BY RunTypes DEF New
      <3>3. Exists(r)' /\ SameProvenance(row'[r], New(r))
        BY <3>1, <3>2, HandlerStores
      <3>4. PICK state : /\ Request(c, state) /\ state.run = r
                         /\ state.pc = "input" => state.snap = New(r)
                         /\ state.pc \in {"input", "enqueueDirect"}
                         /\ state.pc = "enqueueDirect" => "finalize" \in Endpoints
        <4>1. CASE Submit(c, r)
          BY <4>1 DEF Submit
        <4>2. CASE FinalizeUpload(c, r)
          BY <4>2 DEF FinalizeUpload, NoRequest
        <4>3. QED
          BY <2>1, <4>1, <4>2
      <3>5. HandlerOK(state)'
        BY <3>3, <3>4 DEF HandlerOK
      <3>6. QED
        BY <3>4, <3>5, HandlerMoves
    <2>2. ASSUME NEW r \in RunId, NEW new \in RunId,
                 LoadForRetry(c, r, new) \/ LoadForClone(c, r, new)
          PROVE  HandlersOK'
      <3>1. PICK state : Request(c, state) /\ state.pc = "create"
        BY <2>2 DEF LoadForRetry, LoadForClone
      <3>2. QED
        BY <3>1, HandlerLeaves
    <2>3. ASSUME NEW r \in RunId, LoadForCancel(c, r) PROVE HandlersOK'
      <3> DEFINE loaded == [NoRequest EXCEPT !.run = r, !.snap = row[r]]
      <3>1. /\ [loaded EXCEPT !.pc = "cancelQueued"].pc = "cancelQueued"
            /\ [loaded EXCEPT !.pc = "requestCancel"].pc = "requestCancel"
        BY DEF NoRequest
      <3>2. \/ Request(c, NoRequest)
            \/ Request(c, [loaded EXCEPT !.pc = "cancelQueued"])
            \/ Request(c, [loaded EXCEPT !.pc = "requestCancel"])
        BY <2>3 DEF LoadForCancel
      <3> HIDE DEF loaded
      <3>3. QED
        BY <2>0, <3>1, <3>2, HandlerLeaves
    <2>4. ASSUME CreateAttempt(c) PROVE HandlersOK'
      <3>1. CASE MayCreate(client[c].run, client[c].snap)
        <4>1. PICK r \in RunId : r = client[c].run
          BY <2>4, <2>a DEF CreateAttempt
        <4>2. PICK run \in Run : run = client[c].snap
          BY <2>a DEF ClientState
        <4>3. run.status = "queued"
          <5>1. Creatable(r, run)
            BY <1>a, <2>4, <4>1, <4>2
            DEF CreateAttempt, SubmissionInv, LifecycleInv, RequestsLinked
          <5>2. QED
            BY <5>1 DEF Creatable, New, RetryFrom
        <4>4. row' = [row EXCEPT ![r] = run] /\ Request(c, [client[c] EXCEPT !.pc = "input"])
          BY <2>4, <3>1, <4>1, <4>2 DEF CreateAttempt, Create, Written
        <4>5. Exists(r)' /\ SameProvenance(row'[r], run)
          BY <4>3, <4>4, HandlerStores
        <4>6. PICK state : /\ Request(c, state) /\ state.pc = "input"
                           /\ state.run = r /\ state.snap = run
          BY <2>a, <4>1, <4>2, <4>4 DEF ClientState
        <4>7. HandlerOK(state)'
          BY <4>5, <4>6 DEF HandlerOK
        <4>8. QED
          BY <4>6, <4>7, HandlerMoves
      <3>2. CASE ~MayCreate(client[c].run, client[c].snap)
        BY <2>0, <2>4, <3>2 DEF CreateAttempt
      <3>3. QED
        BY <3>1, <3>2
    <2>5. ASSUME StoreInput(c) PROVE HandlersOK'
      <3>1. /\ client[c].pc = "input"
            /\ \/ Request(c, [client[c] EXCEPT !.pc = "enqueue"])
               \/ Request(c, [client[c] EXCEPT !.pc = "ingestFail"])
        BY <2>5 DEF StoreInput
      <3>2. QED
        BY <3>1, HandlerProceeds
    <2>6. ASSUME IngestionRaises(c) PROVE HandlersOK'
      <3>1. /\ client[c].pc \in {"input", "enqueue"}
            /\ Request(c, [client[c] EXCEPT !.pc = "ingestFail"])
        BY <2>6 DEF IngestionRaises
      <3>2. QED
        BY <3>1, HandlerProceeds
    <2>7. CASE \/ EnqueueJob(c) \/ FailIngestion(c) \/ CancelQueued(c) \/ RequestCancel(c)
               \/ DirectEnqueueRaises(c) \/ RequestDies(c) \/ StoreRaises(c)
      BY <2>0, <2>7 DEF EnqueueJob, FailIngestion, CancelQueued, RequestCancel,
                        DirectEnqueueRaises, RequestDies, StoreRaises
    <2>8. CASE \E r \in RunId : CreateRaises(c, r)
      BY <2>0, <2>8 DEF CreateRaises
    <2>9. QED
      BY <1>2, <2>1, <2>2, <2>3, <2>4, <2>5, <2>6, <2>7, <2>8 DEF ClientStep, ClientFault
  <1>3. QED
    BY <1>1, <1>2 DEF Next

LEMMA StrandInit == Init => StrandInv /\ \A r \in RunId : Attended(r)
  <1> SUFFICES ASSUME Init PROVE StrandInv /\ \A r \in RunId : Attended(r)
    OBVIOUS
  <1>1. SubmissionInv
    BY SubmissionInit
  <1>2. HandlersOK
    BY DEF Init, HandlersOK, HandlerOK, NoRequest
  <1>3. \A r \in RunId : Attended(r)
    BY DEF Init, RepositoryInit, NoRun, Attended, Live
  <1>4. QED
    BY <1>1, <1>2, <1>3 DEF StrandInv

LEMMA StrandStep == StrandInv /\ [Next]_vars => StrandInv'
  BY SubmissionStep, HandlersStep DEF StrandInv

\* A job that was sent stays sent.
LEMMA SentStays ==
    ASSUME TypeInv, [Next]_vars, NEW r \in RunId, Sent(r)
    PROVE  Sent(r)'
  <1>a. message \in [RunId -> Message]
    BY DEF TypeInv, TypeOK, QueueTypeOK
  <1>1. ASSUME NEW c \in Client, ClientStep(c) \/ ClientFault(c) PROVE Sent(r)'
    <2>1. client[c].pc # "idle" => client[c].run \in RunId
      BY DEF TypeInv, ClientOK
    <2>2. CASE client[c].pc # "idle" /\ Enqueue(client[c].run)
      BY <1>a, <2>1, <2>2 DEF Enqueue, Sent, Message
    <2>3. CASE UNCHANGED message
      BY <2>3 DEF Sent
    <2>4. QED
      BY <1>1, <2>2, <2>3
      DEF ClientStep, ClientFault, Submit, FinalizeUpload, LoadForCancel, LoadForRetry,
          LoadForClone, CreateAttempt, StoreInput, EnqueueJob, FailIngestion, CancelQueued,
          RequestCancel, IngestionRaises, DirectEnqueueRaises, RequestDies, StoreRaises,
          CreateRaises
  <1>2. QED
    BY <1>1, OthersStep DEF Next

\* An attended attempt stays attended, is sent, or comes to its end.
LEMMA AttendanceStep ==
    ASSUME StrandInv, NEW r \in RunId, DiligentStep(r), [Next]_vars, NEW c \in Client,
           Attends(client[c], r), row[r].status \in Live
    PROVE  Sent(r)' \/ Attends(client[c], r)' \/ row'[r].status \notin Live
  <1>a. /\ client \in [Client -> ClientState] /\ message \in [RunId -> Message]
        /\ row \in [RunId -> Run] /\ TypeInv
        /\ HandlerOK(client[c])
    BY DEF StrandInv, HandlersOK, SubmissionInv, LifecycleInv, TypeInv, TypeOK,
           RepositoryTypeOK, QueueTypeOK
  <1>1. CASE client'[c] = client[c]
    BY <1>1 DEF Attends
  <1>2. ASSUME NEW d \in Client, d # c, ClientStep(d) \/ IngestionRaises(d)
        PROVE  client'[c] = client[c]
    BY <1>2, <1>a
    DEF ClientStep, IngestionRaises, Submit, FinalizeUpload, LoadForCancel, LoadForRetry,
        LoadForClone, CreateAttempt, StoreInput, EnqueueJob, FailIngestion, CancelQueued,
        RequestCancel, Request
  <1>3. ASSUME NEW pc, pc \in {"enqueue", "ingestFail"},
               Request(c, [client[c] EXCEPT !.pc = pc])
        PROVE  Attends(client[c], r)'
    <2>1. client'[c] = [client[c] EXCEPT !.pc = pc]
      BY <1>a, <1>3 DEF Request
    <2>2. client'[c].pc = pc /\ client'[c].run = r
      BY <1>a, <2>1 DEF Attends, ClientState
    <2>3. QED
      BY <1>3, <2>2 DEF Attends
  <1>4. CASE StoreInput(c)
    BY <1>3, <1>4 DEF StoreInput
  <1>5. CASE IngestionRaises(c)
    BY <1>3, <1>5 DEF IngestionRaises
  <1>6. CASE EnqueueJob(c)
    <2>1. message'[r].state = "available"
      BY <1>6, <1>a DEF EnqueueJob, Enqueue, Attends, Message
    <2>2. QED
      BY <2>1 DEF Sent
  <1>7. CASE FailIngestion(c)
    <2> DEFINE failed == Finish(client[c].snap, "failed", client[c].snap.stages)
    <2>1. SameProvenance(row[r], client[c].snap) /\ client[c].snap \in Run
      BY <1>7, <1>a DEF FailIngestion, Attends, HandlerOK, ClientState
    <2>2. failed.status = "failed" /\ SameProvenance(row[r], failed)
      BY <2>1 DEF Finish, SameProvenance, Run
    <2>3. ~IsTerminal(row[r]) /\ "failed" \in AllowedStatusTransitions[row[r].status]
      BY DEF Live, IsTerminal, TerminalStatus, AllowedStatusTransitions, AnalysisRunStatus
    <2>4. Save(r, failed)
      BY <1>7 DEF FailIngestion, Attends
    <2> HIDE DEF failed
    <2>5. row'[r] = failed
      BY <1>a, <2>2, <2>3, <2>4 DEF Save, Accepts, EnsureTransitionAllowed, Written
    <2>6. QED
      BY <2>2, <2>5 DEF Live
  <1>8. CASE \/ \E w \in Worker : WorkerStep(w) \/ WorkerFault(w)
             \/ \E q \in RunId  : BrokerStep(q)
             \/ UNCHANGED vars
    BY <1>1, <1>8, <1>a, OthersStep
  <1>9. ASSUME ClientStep(c), ~StoreInput(c), ~EnqueueJob(c), ~FailIngestion(c) PROVE FALSE
    BY <1>9 DEF Attends, ClientStep, Submit, FinalizeUpload, LoadForCancel, LoadForRetry,
                LoadForClone, CreateAttempt, CancelQueued, RequestCancel
  <1>10. ASSUME NEW d \in Client,
                \/ StoreRaises(d) /\ (client[d].pc = "ingestFail" => client[d].run # r)
                \/ \E q \in RunId : CreateRaises(d, q)
         PROVE  client'[c] = client[c]
    BY <1>10, <1>a DEF StoreRaises, CreateRaises, Request, Attends
  <1>11. QED
    BY <1>1, <1>2, <1>4, <1>5, <1>6, <1>7, <1>8, <1>9, <1>10 DEF DiligentStep

\* An attempt that a step creates is attended by the request that created it.
LEMMA CreationAttends ==
    ASSUME StrandInv, NEW r \in RunId, DiligentStep(r), [Next]_vars, ~Exists(r), Exists(r)'
    PROVE  \E c \in Client : Attends(client[c], r)'
  <1>a. /\ client \in [Client -> ClientState] /\ row \in [RunId -> Run] /\ TypeInv
        /\ \A c \in Client : client[c].pc # "idle" => client[c].run \in RunId
    BY DEF StrandInv, SubmissionInv, LifecycleInv, TypeInv, TypeOK, RepositoryTypeOK, ClientOK
  <1>b. ~RowSave
    BY <1>a, SaveKept DEF RowSave, Exists
  <1>2. ASSUME NEW q \in RunId, NEW run, Create(q, run) PROVE q = r /\ MayCreate(q, run)
    BY <1>a, <1>2 DEF Create, Written, Exists
  <1>1. PICK c \in Client : \/ CreateAttempt(c)
                           \/ \E q \in RunId : Submit(c, q) \/ FinalizeUpload(c, q)
    <2>1. ASSUME NEW d \in Client, ClientStep(d)
          PROVE  CreateAttempt(d) \/ \E q \in RunId : Submit(d, q) \/ FinalizeUpload(d, q)
      BY <1>a, <1>b, <2>1
      DEF ClientStep, StoreInput, EnqueueJob, FailIngestion, LoadForCancel, LoadForRetry,
          LoadForClone, CancelQueued, RequestCancel, RequestCancellation, RowSave
    <2>2. ASSUME NEW d \in Client,
                 \/ IngestionRaises(d) \/ StoreRaises(d)
                 \/ \E q \in RunId : CreateRaises(d, q) /\ q # r
          PROVE  FALSE
      BY <1>2, <1>b, <2>2 DEF IngestionRaises, StoreRaises, CreateRaises, RowSave
    <2>3. QED
      BY <1>a, <1>b, <2>1, <2>2, WorkersOnlySave DEF DiligentStep
  <1>3. ASSUME NEW q \in RunId, Submit(c, q) \/ FinalizeUpload(c, q)
        PROVE  Attends(client[c], r)'
    <2>1. q = r
      BY <1>2, <1>3 DEF Submit, FinalizeUpload
    <2>2. client'[c].run = r /\ client'[c].pc \in {"input", "enqueueDirect"}
      <3>1. ASSUME NEW state, Request(c, state)
            PROVE  client'[c] = state
        BY <1>a, <3>1 DEF Request
      <3>2. CASE Submit(c, q)
        <4>1. client'[c] = [pc |-> "input", run |-> q, source |-> q, snap |-> New(q)]
          BY <3>1, <3>2 DEF Submit
        <4>2. QED
          BY <2>1, <4>1
      <3>3. CASE FinalizeUpload(c, q)
        <4>1. client'[c] = [NoRequest EXCEPT !.pc = "enqueueDirect", !.run = q]
          BY <3>1, <3>3 DEF FinalizeUpload
        <4>2. QED
          BY <2>1, <4>1 DEF NoRequest
      <3>4. QED
        BY <1>3, <3>2, <3>3
    <2>3. QED
      BY <2>2 DEF Attends
  <1>4. CASE CreateAttempt(c)
    <2>1. client[c].run \in RunId /\ Create(client[c].run, client[c].snap)
      BY <1>4, <1>a DEF CreateAttempt
    <2>2. client[c].run = r /\ MayCreate(client[c].run, client[c].snap)
      BY <1>2, <2>1
    <2>3. client'[c] = [client[c] EXCEPT !.pc = "input"]
      BY <1>4, <1>a, <2>2 DEF CreateAttempt, Request
    <2>4. client'[c].run = r /\ client'[c].pc = "input"
      BY <1>a, <2>2, <2>3 DEF ClientState
    <2>5. QED
      BY <2>4 DEF Attends
  <1>5. QED
    BY <1>1, <1>3, <1>4

LEMMA AttendedStep ==
    ASSUME StrandInv, NEW r \in RunId, Attended(r), DiligentStep(r), [Next]_vars
    PROVE  Attended(r)'
  <1>a. SubmissionInv /\ TypeInv
    BY DEF StrandInv, SubmissionInv, LifecycleInv
  <1>1. ASSUME row'[r].status \in Live
        PROVE  Sent(r)' \/ \E c \in Client : Attends(client[c], r)'
    <2>1. Exists(r)'
      BY <1>1 DEF Exists, Live
    <2>2. CASE ~Exists(r)
      BY <2>1, <2>2, CreationAttends
    <2>3. CASE Exists(r)
      <3>1. row[r].status \in Live
        BY <1>1, <1>a, <2>3, RowKept
      <3>2. CASE Sent(r)
        BY <1>a, <3>2, SentStays
      <3>3. CASE \E c \in Client : Attends(client[c], r)
        BY <1>1, <3>1, <3>3, AttendanceStep
      <3>4. QED
        BY <3>1, <3>2, <3>3 DEF Attended
    <2>4. QED
      BY <2>2, <2>3
  <1>2. QED
    BY <1>1 DEF Attended

LEMMA AttendedIsNotStranded ==
    ASSUME NEW r \in RunId, Attended(r)
    PROVE  ~Stranded(r)
  BY DEF Attended, Attends, Stranded, Sent, Live

\* While requests submit, retry and clone and any of their calls raises, every attempt left
\* without a request or a job that will bring it on is one whose create raised once it was
\* stored, or the save of whose failure raised.  The handler of create_analysis fails every
\* other it could not enqueue, and its save is one the attempt's row accepts.
THEOREM NothingStranded == MCSpec => []SubmissionsStrandNothing
  <1> DEFINE Kept(r) == r \in forsaken \/ Attended(r)
             Inv == StrandInv /\ (scenario = "attempts" => \A r \in RunId : Kept(r))
  <1>1. MCInit => Inv
    BY StrandInit DEF MCInit
  <1>2. Inv /\ [MCNext]_mcVars => Inv'
    <2> SUFFICES ASSUME Inv, [MCNext]_mcVars PROVE Inv'
      OBVIOUS
    <2>1. /\ scenario' = scenario
          /\ scenario = "attempts" => AttemptsStep \/ UNCHANGED <<vars, forsaken>>
      BY DEF MCNext, mcVars
    <2>2. [Next]_vars
      BY DEF MCNext, mcVars, RaceStep, AttemptsStep, Submission, Forsakes, SteadyWorkerStep,
             Next, ClientStep, ClientFault
    <2>3. ASSUME NEW r \in RunId, r \notin forsaken', AttemptsStep \/ UNCHANGED <<vars, forsaken>>
          PROVE  r \notin forsaken /\ DiligentStep(r)
      <3>1. ASSUME NEW c \in Client, Submission(c)
            PROVE  DiligentStep(r)
        BY <3>1 DEF Submission, DiligentStep, ClientStep
      <3>2. ASSUME NEW w \in Worker, SteadyWorkerStep(w)
            PROVE  DiligentStep(r)
        BY <3>2 DEF SteadyWorkerStep, DiligentStep
      <3>3. ASSUME NEW c \in Client, NEW q \in RunId, Forsakes(c, q),
                   forsaken' = forsaken \cup {q}
            PROVE  r \notin forsaken /\ DiligentStep(r)
        BY <2>3, <3>3 DEF Forsakes, DiligentStep
      <3>4. QED
        BY <2>3, <3>1, <3>2, <3>3 DEF AttemptsStep, DiligentStep
    <2>4. ASSUME NEW r \in RunId, scenario = "attempts" PROVE Kept(r)'
      BY <2>1, <2>2, <2>3, <2>4, AttendedStep
    <2>5. QED
      BY <2>1, <2>2, <2>4, StrandStep
  <1>3. Inv => SubmissionsStrandNothing
    BY AttendedIsNotStranded DEF SubmissionsStrandNothing
  <1>4. QED
    BY <1>1, <1>2, <1>3, PTL DEF MCSpec

\* Attempts are stranded by abandoned requests and raising writes of requests alone: where
\* no API process dies in the middle of a request, no create, handler save or cancel of a
\* request raises, and no send for a finalized upload does (finalize has no handler around
\* its enqueue), every live attempt has a request or a job that will bring it on, whatever
\* workers, the broker, cancellations and the calls inside the try blocks do.
THEOREM OnlyAbandonedRequestsStrand ==
    ASSUME "request" \notin Faults, "store" \notin Faults,
           "finalize" \notin Endpoints \/ "send" \notin Faults
    PROVE  Spec => []NoStrandedAttempt
  <1> DEFINE Inv == StrandInv /\ \A r \in RunId : Attended(r)
  <1>1. Init => Inv
    BY StrandInit
  <1>2. Inv /\ [Next]_vars => Inv'
    <2> SUFFICES ASSUME Inv, [Next]_vars PROVE Inv'
      OBVIOUS
    <2>1. \A c \in Client : /\ ~RequestDies(c) /\ ~DirectEnqueueRaises(c) /\ ~StoreRaises(c)
                            /\ \A r \in RunId : ~CreateRaises(c, r)
      BY DEF RequestDies, DirectEnqueueRaises, StoreRaises, CreateRaises, StrandInv,
             HandlersOK, HandlerOK
    <2>2. \A r \in RunId : DiligentStep(r)
      BY <2>1 DEF DiligentStep, Next, ClientFault
    <2>3. QED
      BY <2>2, StrandStep, AttendedStep
  <1>3. Inv => NoStrandedAttempt
    BY AttendedIsNotStranded DEF NoStrandedAttempt
  <1>4. QED
    BY <1>1, <1>2, <1>3, PTL DEF Spec

================================================================================
