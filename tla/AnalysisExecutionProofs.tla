------------------------ MODULE AnalysisExecutionProofs ------------------------
(* Theorems about AnalysisExecution, for every value of its constants. *)
EXTENDS AnalysisExecution, TLAPS

----------------------------------------------------------------------------
(* Types of the constructors.                                                *)

\* Every constructor of the contract returns a run.
LEMMA RunTypes ==
    /\ NoRun \in Run
    /\ \A id \in RunId : New(id) \in Run
    /\ \A id \in RunId : \A run \in Run : RetryFrom(id, run) \in Run
    /\ \A run \in Run : Start(run) \in Run
    /\ \A run \in Run, s \in Stage, status \in StageStatus : WithStage(run, s, status) \in Run
    /\ \A run \in Run, status \in AnalysisRunStatus, stages \in [Stage -> StageStatus] :
          Finish(run, status, stages) \in Run
  <1>1. QueuedStages \in [Stage -> StageStatus]
    BY DEF QueuedStages, StageStatus
  <1>2. NoRun \in Run
    BY <1>1 DEF NoRun, Run
  <1>3. \A id \in RunId : New(id) \in Run
    BY <1>1 DEF New, Run, AnalysisRunStatus
  <1>4. \A id \in RunId : \A run \in Run : RetryFrom(id, run) \in Run
    BY <1>1 DEF RetryFrom, Run, AnalysisRunStatus
  <1>5. \A run \in Run : Start(run) \in Run
    BY DEF Start, Run, AnalysisRunStatus
  <1>6. \A run \in Run, s \in Stage, status \in StageStatus : WithStage(run, s, status) \in Run
    BY DEF WithStage, Run
  <1>7. \A run \in Run, status \in AnalysisRunStatus, stages \in [Stage -> StageStatus] :
           Finish(run, status, stages) \in Run
    BY DEF Finish, Run
  <1>8. QED
    BY <1>2, <1>3, <1>4, <1>5, <1>6, <1>7

----------------------------------------------------------------------------
(* TypeOK is not inductive alone: a busy worker or request has a run, and an *)
(* executor inside a stage has a stage as its index.                         *)

WorkerOK(self) ==
    /\ self \in WorkerState
    /\ self.pc \notin {"idle", "down"} => self.run \in RunId
    /\ self.pc \in {"saveRunning", "work", "saveDone"} => self.index \in Stage

ClientOK(self) ==
    /\ self \in ClientState
    /\ self.pc # "idle" => self.run \in RunId
    /\ self.pc \in {"create", "input"} => self.source \in RunId

TypeInv ==
    /\ TypeOK
    /\ \A w \in Worker : WorkerOK(worker[w])
    /\ \A c \in Client : ClientOK(client[c])

\* The fixed states of a worker and of a request are well formed.
LEMMA FixedStates ==
    /\ WorkerOK(Idle)
    /\ WorkerOK(Down)
    /\ ClientOK(NoRequest)
  BY RunTypes, MaxDeliveryAssumption, StagesAssumption, ArtifactsAssumption
  DEF Idle, Down, WorkerOK, WorkerState, WorkerPc, NoRequest, ClientOK, ClientState, ClientPc

\* What a busy worker becomes when its execution ends, fails or moves on.
LEMMA WorkerMoves ==
    ASSUME NEW self, WorkerOK(self), self.run \in RunId
    PROVE  /\ WorkerOK(Completing(self))
           /\ \A status : WorkerOK(Returned(self, status))
           /\ WorkerOK(Failing(self)) /\ WorkerOK(Cancelling(self))
           /\ \A run \in Run, n \in 1 .. NumStages + 1 : WorkerOK(EnterStages(self, run, n))
           /\ \A pc \in WorkerPc \ {"saveRunning", "work", "saveDone"} :
                 WorkerOK([self EXCEPT !.pc = pc])
           /\ \A pc \in WorkerPc \ {"saveRunning", "work", "saveDone"}, run \in Run :
                 WorkerOK([self EXCEPT !.pc = pc, !.local = run])
           /\ ActiveStage(self) \in Stage
  <1>1. WorkerOK(Completing(self))
    BY FixedStates DEF Completing, Idle, WorkerOK, WorkerState, WorkerPc
  <1>2. \A status : WorkerOK(Returned(self, status))
    BY <1>1, FixedStates DEF Returned
  <1>3. WorkerOK(Failing(self)) /\ WorkerOK(Cancelling(self))
    <2>1. 1 \in 1 .. NumArtifacts + 1
      BY ArtifactsAssumption
    <2>2. NoRun \in Run
      BY RunTypes
    <2>3. QED
      BY <2>1, <2>2 DEF Failing, Cancelling, Stopping, WorkerOK, WorkerState, WorkerPc
  <1>4. \A run \in Run, n \in 1 .. NumStages + 1 : WorkerOK(EnterStages(self, run, n))
    BY DEF EnterStages, WorkerOK, WorkerState, WorkerPc
  <1>5. \A pc \in WorkerPc \ {"saveRunning", "work", "saveDone"} :
           WorkerOK([self EXCEPT !.pc = pc])
    BY DEF WorkerOK, WorkerState
  <1>6. \A pc \in WorkerPc \ {"saveRunning", "work", "saveDone"}, run \in Run :
           WorkerOK([self EXCEPT !.pc = pc, !.local = run])
    BY DEF WorkerOK, WorkerState
  <1>7. ActiveStage(self) \in Stage
    BY StagesAssumption DEF ActiveStage, WorkerOK, WorkerState, Stage
  <1>8. QED
    BY <1>1, <1>2, <1>3, <1>4, <1>5, <1>6, <1>7

\* The stages an exception handler records.
LEMMA StoppedType ==
    ASSUME NEW run \in Run, NEW s \in Stage, NEW status \in StageStatus
    PROVE  Stopped(run, s, status) \in [Stage -> StageStatus]
  BY DEF Stopped, Run

\* The operations of the repository keep its rows runs.
LEMMA RepositoryTypes ==
    ASSUME RepositoryTypeOK, NEW r \in RunId, NEW run \in Run
    PROVE  /\ Save(r, run)   => RepositoryTypeOK'
           /\ Create(r, run) => RepositoryTypeOK'
           /\ RequestCancellation(r) => RepositoryTypeOK'
  BY DEF RepositoryTypeOK, Save, Create, RequestCancellation, Written

\* The operations of the broker keep its messages typed.
LEMMA QueueTypes ==
    ASSUME QueueTypeOK, NEW r \in RunId, NEW d
    PROVE  /\ Enqueue(r)            => QueueTypeOK'
           /\ Deliver(r)            => QueueTypeOK'
           /\ DeadLetter(r)         => QueueTypeOK'
           /\ CompleteMessage(r, d) => QueueTypeOK'
           /\ ExpireLock(r)         => QueueTypeOK'
  <1>1. Deliver(r) => message[r].deliveries + 1 \in 0 .. MaxDelivery
    BY MaxDeliveryAssumption DEF QueueTypeOK, Message, Deliver, OverDelivered
  <1>2. Enqueue(r) => QueueTypeOK'
    BY DEF QueueTypeOK, Enqueue, Message, MessageState
  <1>3. Deliver(r) => QueueTypeOK'
    BY <1>1 DEF QueueTypeOK, Deliver, Message, MessageState
  <1>4. DeadLetter(r) => QueueTypeOK'
    BY DEF QueueTypeOK, DeadLetter, Message, MessageState
  <1>5. CompleteMessage(r, d) => QueueTypeOK'
    BY DEF QueueTypeOK, CompleteMessage, Message, MessageState
  <1>6. ExpireLock(r) => QueueTypeOK'
    BY DEF QueueTypeOK, ExpireLock, Message, MessageState
  <1>7. QED
    BY <1>2, <1>3, <1>4, <1>5, <1>6

----------------------------------------------------------------------------
(* The three shapes of step the actions are made of.                         *)

\* A worker that only reads and moves on to a well-formed state.
LEMMA ProceedType ==
    ASSUME TypeInv, NEW w \in Worker, NEW state, WorkerOK(state), Proceed(w, state)
    PROVE  TypeInv'
  <1>1. RepositoryTypeOK' /\ QueueTypeOK'
    BY DEF TypeInv, TypeOK, Proceed, RepositoryTypeOK, QueueTypeOK
  <1>2. worker' = [worker EXCEPT ![w] = state]
    BY DEF Proceed, Become
  <1>3. /\ worker' \in [Worker -> WorkerState]
        /\ \A v \in Worker : WorkerOK(worker'[v])
    BY <1>2 DEF TypeInv, TypeOK, WorkerOK
  <1>4. QED
    BY <1>1, <1>3 DEF TypeInv, TypeOK, Proceed, WorkerOK

\* A worker that saves its copy of the run.
LEMMA PersistType ==
    ASSUME TypeInv, NEW w \in Worker, worker[w].run \in RunId,
           NEW accepted, WorkerOK(accepted), NEW rejected, WorkerOK(rejected),
           Persist(w, accepted, rejected)
    PROVE  TypeInv'
  <1>1. worker[w].local \in Run
    BY DEF TypeInv, TypeOK, WorkerState
  <1>2. RepositoryTypeOK'
    BY <1>1, RepositoryTypes DEF TypeInv, TypeOK, Persist
  <1>3. QueueTypeOK'
    BY DEF TypeInv, TypeOK, Persist, QueueTypeOK
  <1>4. \E state : WorkerOK(state) /\ worker' = [worker EXCEPT ![w] = state]
    BY DEF Persist, Become
  <1>5. /\ worker' \in [Worker -> WorkerState]
        /\ \A v \in Worker : WorkerOK(worker'[v])
    BY <1>4 DEF TypeInv, TypeOK, WorkerOK
  <1>6. QED
    BY <1>2, <1>3, <1>5 DEF TypeInv, TypeOK, Persist, WorkerOK

\* A request that moves to a well-formed state.
LEMMA RequestType ==
    ASSUME TypeInv, NEW c \in Client, NEW state, ClientOK(state), Request(c, state),
           RepositoryTypeOK', QueueTypeOK', input' \in [RunId -> BOOLEAN],
           UNCHANGED <<object, worker>>
    PROVE  TypeInv'
  <1>1. /\ client' \in [Client -> ClientState]
        /\ \A d \in Client : ClientOK(client'[d])
    BY DEF TypeInv, TypeOK, ClientOK, Request
  <1>2. QED
    BY <1>1 DEF TypeInv, TypeOK

----------------------------------------------------------------------------
(* Type correctness.                                                         *)

\* Claiming and settling a job.
LEMMA ClaimType ==
    ASSUME TypeInv, NEW w \in Worker
    PROVE  /\ \A r \in RunId : Receive(w, r) => TypeInv'
           /\ \A r \in RunId : DeadLetterOverDelivered(w, r) => TypeInv'
           /\ CheckExecutable(w) => TypeInv'
           /\ Complete(w) => TypeInv'
           /\ Restart(w) => TypeInv'
           /\ WorkerFault(w) => TypeInv'
  <1>1. ASSUME NEW r \in RunId, Receive(w, r) PROVE TypeInv'
    <2>1. message[r].deliveries + 1 \in 0 .. MaxDelivery
      BY <1>1, MaxDeliveryAssumption
      DEF TypeInv, TypeOK, QueueTypeOK, Message, Receive, Deliver, OverDelivered
    <2>2. WorkerOK(Claimed(r, message[r].deliveries + 1))
      BY <2>1, FixedStates DEF Claimed, Idle, WorkerOK, WorkerState, WorkerPc
    <2>3. QueueTypeOK'
      BY <1>1, QueueTypes DEF TypeInv, TypeOK, Receive
    <2>4. RepositoryTypeOK'
      BY <1>1 DEF TypeInv, TypeOK, Receive, RepositoryTypeOK
    <2>5. /\ worker' \in [Worker -> WorkerState]
          /\ \A v \in Worker : WorkerOK(worker'[v])
      BY <1>1, <2>2 DEF TypeInv, TypeOK, WorkerOK, Receive, Become
    <2>6. QED
      BY <1>1, <2>3, <2>4, <2>5 DEF TypeInv, TypeOK, Receive, WorkerOK
  <1>2. ASSUME NEW r \in RunId, DeadLetterOverDelivered(w, r) PROVE TypeInv'
    <2>1. QueueTypeOK'
      BY <1>2, QueueTypes DEF TypeInv, TypeOK, DeadLetterOverDelivered
    <2>2. RepositoryTypeOK'
      BY <1>2 DEF TypeInv, TypeOK, DeadLetterOverDelivered, RepositoryTypeOK
    <2>3. QED
      BY <1>2, <2>1, <2>2 DEF TypeInv, TypeOK, DeadLetterOverDelivered
  <1>3. ASSUME CheckExecutable(w) PROVE TypeInv'
    <2>1. WorkerOK(worker[w]) /\ worker[w].run \in RunId
      BY <1>3 DEF TypeInv, WorkerOK, CheckExecutable
    <2>2. "load" \in WorkerPc \ {"saveRunning", "work", "saveDone"}
      BY DEF WorkerPc
    <2>3. \E state : WorkerOK(state) /\ Proceed(w, state)
      BY <1>3, <2>1, <2>2, WorkerMoves DEF CheckExecutable, Proceed
    <2>4. QED
      BY <2>3, ProceedType
  <1>4. ASSUME Complete(w) PROVE TypeInv'
    <2>1. worker[w].run \in RunId
      BY <1>4 DEF TypeInv, WorkerOK, Complete
    <2>2. QueueTypeOK'
      BY <1>4, <2>1, QueueTypes DEF TypeInv, TypeOK, Complete
    <2>3. RepositoryTypeOK'
      BY <1>4 DEF TypeInv, TypeOK, Complete, RepositoryTypeOK
    <2>4. /\ worker' \in [Worker -> WorkerState]
          /\ \A v \in Worker : WorkerOK(worker'[v])
      BY <1>4, FixedStates DEF TypeInv, TypeOK, WorkerOK, Complete, Become
    <2>5. QED
      BY <1>4, <2>2, <2>3, <2>4 DEF TypeInv, TypeOK, Complete, WorkerOK
  <1>5. ASSUME Restart(w) PROVE TypeInv'
    BY <1>5, FixedStates, ProceedType DEF Restart
  <1>6. ASSUME WorkerFault(w) PROVE TypeInv'
    <2>1. CASE StepRaises(w)
      <3>1. WorkerOK(worker[w]) /\ worker[w].run \in RunId
        BY <2>1 DEF TypeInv, WorkerOK, StepRaises, Guarded
      <3>2. QED
        BY <2>1, <3>1, WorkerMoves, ProceedType DEF StepRaises
    <2>2. CASE Crash(w)
      BY <2>2, FixedStates, ProceedType DEF Crash
    <2>3. QED
      BY <1>6, <2>1, <2>2 DEF WorkerFault
  <1>7. QED
    BY <1>1, <1>2, <1>3, <1>4, <1>5, <1>6

\* Starting an attempt and driving it through its stages.
LEMMA StageType ==
    ASSUME TypeInv, NEW w \in Worker
    PROVE  /\ LoadRun(w) => TypeInv'
           /\ CheckQueued(w) => TypeInv'
           /\ SaveStart(w) => TypeInv'
           /\ PassFinishedStage(w) => TypeInv'
           /\ SkipOptional(w) => TypeInv'
           /\ BeginStage(w) => TypeInv'
           /\ SaveRunning(w) => TypeInv'
           /\ EndStage(w) => TypeInv'
           /\ SaveDone(w) => TypeInv'
  <1> DEFINE self == worker[w]
             run  == row[self.run]
             plain == WorkerPc \ {"saveRunning", "work", "saveDone"}
  <1>a. WorkerOK(self) /\ self.local \in Run
    BY DEF TypeInv, TypeOK, WorkerOK, WorkerState
  <1>b. {"checkQueued", "saveStart", "stage", "cancel", "fail", "complete"} \subseteq plain
    BY DEF WorkerPc
  <1>c. self.pc \notin {"idle", "down"} => self.run \in RunId /\ run \in Run
    BY <1>a DEF WorkerOK, TypeInv, TypeOK, RepositoryTypeOK
  <1>d. self.index \in Nat /\ 1 \in 1 .. NumStages + 1
    BY <1>a, StagesAssumption DEF WorkerOK, WorkerState
  <1>e. self.index \in Stage => self.index + 1 \in 1 .. NumStages + 1
    BY StagesAssumption DEF Stage
  <1>f. AtStage(w) => self.index \in Stage /\ self.run \in RunId
    BY <1>a, <1>c, StagesAssumption DEF AtStage, Stage, WorkerOK, WorkerState
  <1>1. ASSUME LoadRun(w) PROVE TypeInv'
    <2>1. self.run \in RunId /\ run \in Run
      BY <1>1, <1>c DEF LoadRun
    <2>2. /\ WorkerOK(Returned(self, run.status))
          /\ WorkerOK([self EXCEPT !.pc = "checkQueued", !.local = run])
          /\ WorkerOK(EnterStages(self, run, 1))
      BY <1>a, <1>b, <1>d, <2>1, WorkerMoves
    <2>3. \E state : WorkerOK(state) /\ Proceed(w, state)
      BY <1>1, <2>2 DEF LoadRun
    <2>4. QED
      BY <2>3, ProceedType
  <1>2. ASSUME CheckQueued(w) PROVE TypeInv'
    <2>1. self.run \in RunId
      BY <1>2, <1>c DEF CheckQueued
    <2>2. Finish(self.local, "cancelled", self.local.stages) \in Run /\ Start(self.local) \in Run
      BY <1>a, RunTypes DEF Run, AnalysisRunStatus
    <2>3. \A next \in Run : WorkerOK([self EXCEPT !.pc = "saveStart", !.local = next])
      BY <1>a, <1>b, <2>1, WorkerMoves
    <2>4. \E state : WorkerOK(state) /\ Proceed(w, state)
      BY <1>2, <2>2, <2>3 DEF CheckQueued
    <2>5. QED
      BY <2>4, ProceedType
  <1>3. ASSUME SaveStart(w) PROVE TypeInv'
    <2>1. self.run \in RunId
      BY <1>3, <1>c DEF SaveStart
    <2>2. WorkerOK(EnterStages(self, self.local, 1))
      BY <1>a, <1>d, <2>1, WorkerMoves
    <2>3. \E accepted : WorkerOK(accepted) /\ Persist(w, accepted, Down)
      BY <1>3, <2>2, FixedStates DEF SaveStart
    <2>4. QED
      BY <2>1, <2>3, FixedStates, PersistType
  <1>4. ASSUME PassFinishedStage(w) PROVE TypeInv'
    <2>1. self.index \in Stage /\ self.run \in RunId /\ self.pc = "stage"
      BY <1>4, <1>f DEF PassFinishedStage, AtStage
    <2>2. WorkerOK([self EXCEPT !.index = @ + 1])
      BY <1>a, <1>e, <2>1 DEF WorkerOK, WorkerState
    <2>3. QED
      BY <1>4, <2>2, ProceedType DEF PassFinishedStage
  <1>5. ASSUME SkipOptional(w) PROVE TypeInv'
    <2> DEFINE skipped == WithStage(self.local, self.index, "skipped")
    <2>1. self.index \in Stage /\ self.run \in RunId
      BY <1>5, <1>f DEF SkipOptional, Pending
    <2>2. skipped \in Run
      BY <1>a, <2>1, RunTypes DEF StageStatus
    <2>3. WorkerOK(EnterStages(self, skipped, self.index + 1)) /\ WorkerOK(Failing(self))
      BY <1>a, <1>e, <2>1, <2>2, WorkerMoves
    <2>4. RepositoryTypeOK'
      BY <1>5, <2>1, <2>2, RepositoryTypes DEF SkipOptional, TypeInv, TypeOK
    <2>5. QueueTypeOK'
      BY <1>5 DEF SkipOptional, TypeInv, TypeOK, QueueTypeOK
    <2>6. \E state : WorkerOK(state) /\ worker' = [worker EXCEPT ![w] = state]
      BY <1>5, <2>3 DEF SkipOptional, Become
    <2>7. /\ worker' \in [Worker -> WorkerState]
          /\ \A v \in Worker : WorkerOK(worker'[v])
      BY <2>6 DEF TypeInv, TypeOK, WorkerOK
    <2>8. QED
      BY <1>5, <2>4, <2>5, <2>7 DEF SkipOptional, TypeInv, TypeOK, WorkerOK
  <1>6. ASSUME BeginStage(w) PROVE TypeInv'
    <2>1. self.index \in Stage /\ self.run \in RunId
      BY <1>6, <1>f DEF BeginStage, Pending
    <2>2. WithStage(self.local, self.index, "running") \in Run
      BY <1>a, <2>1, RunTypes DEF StageStatus
    <2>3. WorkerOK([self EXCEPT !.pc = "saveRunning",
                                !.local = WithStage(@, self.index, "running")])
      BY <1>a, <2>1, <2>2 DEF WorkerOK, WorkerState, WorkerPc
    <2>4. WorkerOK(Cancelling(self))
      BY <1>a, <2>1, WorkerMoves
    <2>5. \E state : WorkerOK(state) /\ Proceed(w, state)
      BY <1>6, <2>3, <2>4 DEF BeginStage
    <2>6. QED
      BY <2>5, ProceedType
  <1>7. ASSUME SaveRunning(w) PROVE TypeInv'
    <2>1. self.index \in Stage /\ self.run \in RunId
      BY <1>7, <1>a, <1>c DEF SaveRunning, WorkerOK
    <2>2. WorkerOK([self EXCEPT !.pc = "work"]) /\ WorkerOK(Failing(self))
      BY <1>a, <2>1, WorkerMoves DEF WorkerOK, WorkerState, WorkerPc
    <2>3. QED
      BY <1>7, <2>1, <2>2, PersistType DEF SaveRunning
  <1>8. ASSUME EndStage(w) PROVE TypeInv'
    <2>1. self.index \in Stage /\ self.run \in RunId
      BY <1>8, <1>a, <1>c DEF EndStage, WorkerOK
    <2>2. WithStage(self.local, self.index, "succeeded") \in Run
      BY <1>a, <2>1, RunTypes DEF StageStatus
    <2>3. WorkerOK([self EXCEPT !.pc = "saveDone",
                                !.payloads = IF self.index = Detection THEN "built" ELSE @,
                                !.local = WithStage(@, self.index, "succeeded")])
      BY <1>a, <2>1, <2>2 DEF WorkerOK, WorkerState, WorkerPc
    <2>4. WorkerOK(Cancelling(self))
      BY <1>a, <2>1, WorkerMoves
    <2>5. \E state : WorkerOK(state) /\ Proceed(w, state)
      BY <1>8, <2>3, <2>4 DEF EndStage
    <2>6. QED
      BY <2>5, ProceedType
  <1>9. ASSUME SaveDone(w) PROVE TypeInv'
    <2>1. self.index \in Stage /\ self.run \in RunId
      BY <1>9, <1>a, <1>c DEF SaveDone, WorkerOK
    <2>2. WorkerOK(EnterStages(self, self.local, self.index + 1)) /\ WorkerOK(Failing(self))
      BY <1>a, <1>e, <2>1, WorkerMoves
    <2>3. QED
      BY <1>9, <2>1, <2>2, PersistType DEF SaveDone
  <1>10. QED
    BY <1>1, <1>2, <1>3, <1>4, <1>5, <1>6, <1>7, <1>8, <1>9

\* Publishing, completing the run, and the exception handlers.
LEMMA FinishType ==
    ASSUME TypeInv, NEW w \in Worker
    PROVE  /\ PublishArtifact(w) => TypeInv'
           /\ CancelRebuild(w) => TypeInv'
           /\ VerifyArtifacts(w) => TypeInv'
           /\ \A partial \in BOOLEAN : FinishRun(w, partial) => TypeInv'
           /\ SaveFinal(w) => TypeInv'
           /\ HandleCancellation(w) => TypeInv'
           /\ SaveCancelled(w) => TypeInv'
           /\ HandleFailure(w) => TypeInv'
           /\ SaveFailed(w) => TypeInv'
  <1> DEFINE self == worker[w]
             run  == row[self.run]
             plain == WorkerPc \ {"saveRunning", "work", "saveDone"}
  <1>a. WorkerOK(self) /\ self.local \in Run
    BY DEF TypeInv, TypeOK, WorkerOK, WorkerState
  <1>b. {"finish", "saveFinal", "saveCancelled", "saveFailed"} \subseteq plain
    BY DEF WorkerPc
  <1>c. self.pc \notin {"idle", "down"} => self.run \in RunId /\ run \in Run
    BY <1>a DEF WorkerOK, TypeInv, TypeOK, RepositoryTypeOK
  <1>d. AllStagesDone(w) => self.run \in RunId /\ self.pc = "stage"
    BY <1>c DEF AllStagesDone
  <1>e. NumStages \in Stage
    BY StagesAssumption DEF Stage
  <1>1. ASSUME PublishArtifact(w) PROVE TypeInv'
    <2>1. self.run \in RunId /\ self.pc = "stage"
      BY <1>1, <1>d DEF PublishArtifact
    <2>2. self.artifact \in Artifact /\ self.artifact + 1 \in 1 .. NumArtifacts + 1
          /\ self.delivery \in 0 .. MaxDelivery
      BY <1>1, <1>a, ArtifactsAssumption DEF PublishArtifact, WorkerOK, WorkerState, Artifact
    <2>3. WorkerOK([self EXCEPT !.artifact = @ + 1]) /\ WorkerOK(Failing(self))
      BY <1>a, <2>1, <2>2, WorkerMoves DEF WorkerOK, WorkerState
    <2>4. \E state : WorkerOK(state) /\ worker' = [worker EXCEPT ![w] = state]
      BY <1>1, <2>3 DEF PublishArtifact, Become
    <2>5. /\ worker' \in [Worker -> WorkerState]
          /\ \A v \in Worker : WorkerOK(worker'[v])
      BY <2>4 DEF TypeInv, TypeOK, WorkerOK
    <2>6. object' \in [RunId -> Object]
      <3>1. object \in [RunId -> Object] /\ object[self.run] \in Object
        BY <2>1 DEF TypeInv, TypeOK
      <3>2. [object[self.run] EXCEPT ![self.artifact] = self.delivery] \in Object
        BY <2>2, <3>1 DEF Object
      <3>3. \/ object' = object
            \/ object' = [object EXCEPT ![self.run] =
                             [object[self.run] EXCEPT ![self.artifact] = self.delivery]]
        BY <1>1 DEF PublishArtifact
      <3>4. QED
        BY <2>1, <3>1, <3>2, <3>3
    <2>7. RepositoryTypeOK' /\ QueueTypeOK'
      BY <1>1 DEF PublishArtifact, TypeInv, TypeOK, RepositoryTypeOK, QueueTypeOK
    <2>8. QED
      BY <1>1, <2>5, <2>6, <2>7 DEF PublishArtifact, TypeInv, TypeOK, WorkerOK
  <1>2. ASSUME VerifyArtifacts(w) PROVE TypeInv'
    <2>1. self.run \in RunId
      BY <1>2, <1>d DEF VerifyArtifacts
    <2>2. WorkerOK([self EXCEPT !.pc = "finish", !.local = NoRun, !.payloads = "none"])
      BY <1>a, <2>1, RunTypes DEF WorkerOK, WorkerState, WorkerPc
    <2>3. QED
      BY <1>2, <2>2, ProceedType DEF VerifyArtifacts
  <1>3. ASSUME NEW partial \in BOOLEAN, FinishRun(w, partial) PROVE TypeInv'
    <2>1. self.run \in RunId /\ run \in Run
      BY <1>3, <1>c DEF FinishRun
    <2>2. Completed(run, partial) \in Run
      <3>1. [run.stages EXCEPT ![NumStages] = "partial"] \in [Stage -> StageStatus]
            /\ run.stages \in [Stage -> StageStatus]
        BY <1>e, <2>1 DEF Run, StageStatus
      <3>2. {"partial", "succeeded"} \subseteq AnalysisRunStatus
        BY DEF AnalysisRunStatus
      <3>3. QED
        BY <2>1, <3>1, <3>2, RunTypes DEF Completed
    <2>3. WorkerOK([self EXCEPT !.pc = "saveFinal", !.local = Completed(run, partial)])
          /\ WorkerOK(Failing(self))
      BY <1>a, <1>b, <2>1, <2>2, WorkerMoves
    <2>4. \E state : WorkerOK(state) /\ Proceed(w, state)
      BY <1>3, <2>3 DEF FinishRun
    <2>5. QED
      BY <2>4, ProceedType
  <1>4. ASSUME SaveFinal(w) PROVE TypeInv'
    <2>1. self.run \in RunId
      BY <1>4, <1>c DEF SaveFinal
    <2>2. WorkerOK(Completing(self)) /\ WorkerOK(Failing(self))
      BY <1>a, <2>1, WorkerMoves
    <2>3. QED
      BY <1>4, <2>1, <2>2, PersistType DEF SaveFinal
  <1>5. ASSUME HandleCancellation(w) PROVE TypeInv'
    <2> DEFINE updated == Finish(run, "cancelled", Stopped(run, ActiveStage(self), "cancelled"))
    <2>1. self.run \in RunId /\ run \in Run /\ ActiveStage(self) \in Stage
      BY <1>5, <1>a, <1>c, WorkerMoves DEF HandleCancellation
    <2>2. updated \in Run
      BY <2>1, StoppedType, RunTypes DEF StageStatus, AnalysisRunStatus
    <2>3. WorkerOK([self EXCEPT !.pc = "saveCancelled", !.local = updated])
      BY <1>a, <1>b, <2>1, <2>2, WorkerMoves
    <2>4. \E state : WorkerOK(state) /\ Proceed(w, state)
      BY <1>5, <2>3, FixedStates DEF HandleCancellation
    <2>5. QED
      BY <2>4, ProceedType
  <1>6. ASSUME SaveCancelled(w) PROVE TypeInv'
    BY <1>6, <1>c, FixedStates, PersistType DEF SaveCancelled
  <1>7. ASSUME HandleFailure(w) PROVE TypeInv'
    <2> DEFINE updated == Finish(run, "failed", Stopped(run, ActiveStage(self), "failed"))
    <2>1. self.run \in RunId /\ run \in Run /\ ActiveStage(self) \in Stage
      BY <1>7, <1>a, <1>c, WorkerMoves DEF HandleFailure
    <2>2. updated \in Run
      BY <2>1, StoppedType, RunTypes DEF StageStatus, AnalysisRunStatus
    <2>3. WorkerOK([self EXCEPT !.pc = "saveFailed", !.local = updated])
          /\ WorkerOK(Returned(self, run.status))
      BY <1>a, <1>b, <2>1, <2>2, WorkerMoves
    <2>4. \E state : WorkerOK(state) /\ Proceed(w, state)
      BY <1>7, <2>3, FixedStates DEF HandleFailure
    <2>5. QED
      BY <2>4, ProceedType
  <1>8. ASSUME SaveFailed(w) PROVE TypeInv'
    <2>1. self.run \in RunId
      BY <1>8, <1>c DEF SaveFailed
    <2>2. WorkerOK(Completing(self))
      BY <1>a, <2>1, WorkerMoves
    <2>3. QED
      BY <1>8, <2>1, <2>2, FixedStates, PersistType DEF SaveFailed
  <1>9. ASSUME CancelRebuild(w) PROVE TypeInv'
    BY <1>9, <1>a, <1>d, WorkerMoves, ProceedType DEF CancelRebuild
  <1>10. QED
    BY <1>1, <1>2, <1>3, <1>4, <1>5, <1>6, <1>7, <1>8, <1>9

\* API requests.
LEMMA ClientType ==
    ASSUME TypeInv, NEW c \in Client
    PROVE  ClientStep(c) \/ ClientFault(c) => TypeInv'
  <1> DEFINE self == client[c]
  <1>a. ClientOK(self) /\ self.snap \in Run /\ self.source \in RunId \cup {NoRunId}
    BY DEF TypeInv, TypeOK, ClientOK, ClientState
  <1>b. RepositoryTypeOK /\ QueueTypeOK /\ input \in [RunId -> BOOLEAN]
    BY DEF TypeInv, TypeOK
  <1>c. UNCHANGED <<row, cancelRequested>> => RepositoryTypeOK'
    BY <1>b DEF RepositoryTypeOK
  <1>d. UNCHANGED message => QueueTypeOK'
    BY <1>b DEF QueueTypeOK
  <1>e. self.pc # "idle" =>
           /\ self.run \in RunId
           /\ \A pc \in ClientPc \ {"create", "input"} : ClientOK([self EXCEPT !.pc = pc])
    BY <1>a DEF ClientOK, ClientState
  <1>1. ASSUME NEW r \in RunId, Submit(c, r) PROVE TypeInv'
    <2>1. ClientOK([pc |-> "input", run |-> r, source |-> r, snap |-> New(r)])
      BY RunTypes DEF ClientOK, ClientState, ClientPc
    <2>2. RepositoryTypeOK'
      BY <1>1, <1>b, RunTypes, RepositoryTypes DEF Submit
    <2>3. QED
      BY <1>1, <1>b, <1>d, <2>1, <2>2, RequestType DEF Submit
  <1>2. ASSUME NEW r \in RunId, FinalizeUpload(c, r) PROVE TypeInv'
    <2>1. ClientOK([NoRequest EXCEPT !.pc = "enqueueDirect", !.run = r])
      BY FixedStates DEF NoRequest, ClientOK, ClientState, ClientPc
    <2>2. RepositoryTypeOK'
      BY <1>2, <1>b, RunTypes, RepositoryTypes DEF FinalizeUpload
    <2>3. QED
      BY <1>2, <1>b, <1>d, <2>1, <2>2, RequestType DEF FinalizeUpload
  <1>3. ASSUME NEW r \in RunId, NEW new \in RunId, LoadForRetry(c, r, new) PROVE TypeInv'
    <2>1. RetryFrom(r, row[r]) \in Run
      BY <1>b, RunTypes DEF RepositoryTypeOK
    <2>2. ClientOK([pc |-> "create", run |-> new, source |-> r,
                    snap |-> RetryFrom(r, row[r])])
      BY <2>1 DEF ClientOK, ClientState, ClientPc
    <2>3. QED
      BY <1>3, <1>b, <1>c, <1>d, <2>2, RequestType DEF LoadForRetry
  <1>4. ASSUME NEW r \in RunId, NEW new \in RunId, LoadForClone(c, r, new) PROVE TypeInv'
    <2>1. ClientOK([pc |-> "create", run |-> new, source |-> r, snap |-> New(new)])
      BY RunTypes DEF ClientOK, ClientState, ClientPc
    <2>2. QED
      BY <1>4, <1>b, <1>c, <1>d, <2>1, RequestType DEF LoadForClone
  <1>5. ASSUME CreateAttempt(c) PROVE TypeInv'
    <2>1. ClientOK([self EXCEPT !.pc = "input"])
      BY <1>5, <1>a DEF CreateAttempt, ClientOK, ClientState, ClientPc
    <2>2. RepositoryTypeOK'
      BY <1>5, <1>a, <1>b, <1>e, RepositoryTypes DEF CreateAttempt
    <2>3. \E state : ClientOK(state) /\ Request(c, state)
      BY <1>5, <2>1, FixedStates DEF CreateAttempt
    <2>4. QED
      BY <1>5, <1>b, <1>d, <2>2, <2>3, RequestType DEF CreateAttempt
  <1>6. ASSUME StoreInput(c) PROVE TypeInv'
    <2>1. self.run \in RunId /\ self.source \in RunId
      BY <1>5, <1>6, <1>a DEF StoreInput, ClientOK
    <2>2. (self.source = self.run \/ input[self.source]) \in BOOLEAN
      BY <1>b, <2>1
    <2>3. input' \in [RunId -> BOOLEAN]
      BY <1>6, <1>b, <2>1, <2>2 DEF StoreInput
    <2>4. {"enqueue", "ingestFail"} \subseteq ClientPc \ {"create", "input"}
      BY DEF ClientPc
    <2>5. \E state : ClientOK(state) /\ Request(c, state)
      BY <1>6, <1>e, <2>4 DEF StoreInput
    <2>6. QED
      BY <1>6, <1>c, <1>d, <2>3, <2>5, RequestType DEF StoreInput
  <1>7. ASSUME EnqueueJob(c) PROVE TypeInv'
    <2>1. QueueTypeOK'
      BY <1>7, <1>b, <1>e, QueueTypes DEF EnqueueJob
    <2>2. QED
      BY <1>7, <1>b, <1>c, <2>1, FixedStates, RequestType DEF EnqueueJob
  <1>8. ASSUME FailIngestion(c) PROVE TypeInv'
    <2>1. Finish(self.snap, "failed", self.snap.stages) \in Run
      BY <1>a, RunTypes DEF Run, AnalysisRunStatus
    <2>2. RepositoryTypeOK'
      BY <1>8, <1>b, <1>e, <2>1, RepositoryTypes DEF FailIngestion
    <2>3. QED
      BY <1>8, <1>b, <1>d, <2>2, FixedStates, RequestType DEF FailIngestion
  <1>9. ASSUME NEW r \in RunId, LoadForCancel(c, r) PROVE TypeInv'
    <2>1. row[r] \in Run
      BY <1>b DEF RepositoryTypeOK
    <2>2. \A pc \in {"cancelQueued", "requestCancel"} :
             ClientOK([NoRequest EXCEPT !.run = r, !.snap = row[r], !.pc = pc])
      BY <2>1, FixedStates DEF NoRequest, ClientOK, ClientState, ClientPc
    <2>3. \E state : ClientOK(state) /\ Request(c, state)
      BY <1>9, <2>2, FixedStates DEF LoadForCancel
    <2>4. QED
      BY <1>9, <1>b, <1>c, <1>d, <2>3, RequestType DEF LoadForCancel
  <1>10. ASSUME CancelQueued(c) PROVE TypeInv'
    <2>1. Finish(self.snap, "cancelled", self.snap.stages) \in Run
      BY <1>a, RunTypes DEF Run, AnalysisRunStatus
    <2>2. RepositoryTypeOK'
      BY <1>10, <1>b, <1>e, <2>1, RepositoryTypes DEF CancelQueued
    <2>3. QED
      BY <1>10, <1>b, <1>d, <2>2, FixedStates, RequestType DEF CancelQueued
  <1>11. ASSUME RequestCancel(c) PROVE TypeInv'
    <2>1. RepositoryTypeOK'
      BY <1>11, <1>b, <1>e, RunTypes, RepositoryTypes DEF RequestCancel
    <2>2. QED
      BY <1>11, <1>b, <1>d, <2>1, FixedStates, RequestType DEF RequestCancel
  <1>12. ASSUME ClientFault(c) PROVE TypeInv'
    <2>1. CASE IngestionRaises(c)
      <3>1. QueueTypeOK'
        BY <2>1, <1>b, <1>d, <1>e, QueueTypes DEF IngestionRaises
      <3>2. ClientOK([self EXCEPT !.pc = "ingestFail"])
        BY <2>1, <1>e DEF IngestionRaises, ClientPc
      <3>3. QED
        BY <2>1, <1>b, <1>c, <3>1, <3>2, RequestType DEF IngestionRaises
    <2>2. CASE DirectEnqueueRaises(c) \/ RequestDies(c) \/ StoreRaises(c)
      BY <2>2, <1>b, <1>c, <1>d, FixedStates, RequestType
      DEF DirectEnqueueRaises, RequestDies, StoreRaises
    <2>3. ASSUME NEW r \in RunId, CreateRaises(c, r) PROVE TypeInv'
      <3>1. RepositoryTypeOK'
        BY <2>3, <1>a, <1>b, RunTypes, RepositoryTypes DEF CreateRaises
      <3>2. input' \in [RunId -> BOOLEAN]
        BY <2>3, <1>b DEF CreateRaises
      <3>3. QED
        BY <2>3, <1>d, <3>1, <3>2, FixedStates, RequestType DEF CreateRaises
    <2>4. QED
      BY <1>12, <2>1, <2>2, <2>3 DEF ClientFault
  <1>13. QED
    BY <1>1, <1>2, <1>3, <1>4, <1>5, <1>6, <1>7, <1>8, <1>9, <1>10, <1>11, <1>12
    DEF ClientStep

\* Locks that run out or are lost.
LEMMA BrokerType ==
    ASSUME TypeInv, NEW r \in RunId, BrokerStep(r)
    PROVE  TypeInv'
  <1>1. QueueTypeOK'
    BY QueueTypes DEF BrokerStep, AbandonedLockExpires, LoseLock, TypeInv, TypeOK
  <1>2. UNCHANGED <<row, cancelRequested, object, input, worker, client>>
    BY DEF BrokerStep, AbandonedLockExpires, LoseLock
  <1>3. QED
    BY <1>1, <1>2 DEF TypeInv, TypeOK, RepositoryTypeOK

\* Every step keeps the types.
LEMMA TypeStep == TypeInv /\ [Next]_vars => TypeInv'
  <1> SUFFICES ASSUME TypeInv, [Next]_vars PROVE TypeInv'
    OBVIOUS
  <1>1. ASSUME NEW w \in Worker, WorkerStep(w) \/ WorkerFault(w) PROVE TypeInv'
    BY <1>1, ClaimType, StageType, FinishType DEF WorkerStep, ExecutorStep
  <1>2. ASSUME NEW c \in Client, ClientStep(c) \/ ClientFault(c) PROVE TypeInv'
    BY <1>2, ClientType
  <1>3. ASSUME NEW r \in RunId, BrokerStep(r) PROVE TypeInv'
    BY <1>3, BrokerType
  <1>4. CASE UNCHANGED vars
    BY <1>4 DEF vars, TypeInv, TypeOK, RepositoryTypeOK, QueueTypeOK
  <1>5. QED
    BY <1>1, <1>2, <1>3, <1>4 DEF Next

\* The initial state has the types.
LEMMA TypeInit == Init => TypeInv
  <1> SUFFICES ASSUME Init PROVE TypeInv
    OBVIOUS
  <1>1. RepositoryTypeOK
    BY RunTypes DEF Init, RepositoryInit, RepositoryTypeOK
  <1>2. QueueTypeOK
    BY MaxDeliveryAssumption DEF Init, QueueInit, QueueTypeOK, Message, MessageState
  <1>3. object \in [RunId -> Object] /\ input \in [RunId -> BOOLEAN]
    BY MaxDeliveryAssumption DEF Init, Object
  <1>4. /\ worker \in [Worker -> WorkerState] /\ \A w \in Worker : WorkerOK(worker[w])
        /\ client \in [Client -> ClientState] /\ \A c \in Client : ClientOK(client[c])
    BY FixedStates DEF Init, WorkerOK, ClientOK
  <1>5. QED
    BY <1>1, <1>2, <1>3, <1>4 DEF TypeInv, TypeOK

\* The strengthened type invariant holds in every reachable state.
LEMMA TypeInvariant == Spec => []TypeInv
  BY TypeInit, TypeStep, PTL DEF Spec

\* Every variable has its type in every reachable state of the platform.
THEOREM TypeCorrect == Spec => []TypeOK
  <1>1. TypeInv => TypeOK
    BY DEF TypeInv
  <1>2. QED
    BY <1>1, TypeInvariant, PTL

----------------------------------------------------------------------------
(* Terminal attempts are immutable: whatever a process saves or creates, it   *)
(* goes through the repository's rules.                                      *)

Creation(c) ==
    \/ CreateAttempt(c)
    \/ \E r \in RunId : Submit(c, r) \/ FinalizeUpload(c, r) \/ CreateRaises(c, r)

RowSave == UNCHANGED row \/ \E r \in RunId : \E run : Save(r, run)

RowStep == RowSave \/ \E c \in Client : Creation(c)

\* Workers and the broker change rows only by a save.
LEMMA WorkersOnlySave ==
    ASSUME TypeInv,
           \/ \E w \in Worker : WorkerStep(w) \/ WorkerFault(w)
           \/ \E r \in RunId  : BrokerStep(r)
           \/ UNCHANGED vars
    PROVE  RowSave
  <1>1. ASSUME NEW w \in Worker, NEW accepted, NEW rejected, Persist(w, accepted, rejected),
               worker[w].pc \notin {"idle", "down"}
        PROVE  RowSave
    BY <1>1 DEF TypeInv, WorkerOK, Persist, RowSave
  <1>2. ASSUME NEW w \in Worker, WorkerStep(w) PROVE RowSave
    <2>1. CASE SaveStart(w)
      BY <2>1, <1>1 DEF SaveStart
    <2>2. CASE SaveRunning(w) \/ SaveFinal(w) \/ SaveCancelled(w) \/ SaveFailed(w)
      BY <2>2, <1>1 DEF SaveRunning, SaveFinal, SaveCancelled, SaveFailed
    <2>3. CASE SaveDone(w)
      BY <2>3, <1>1 DEF SaveDone
    <2>4. CASE SkipOptional(w)
      BY <2>4 DEF SkipOptional, Pending, AtStage, TypeInv, WorkerOK, RowSave
    <2>5. CASE \/ \E r \in RunId : Receive(w, r) \/ DeadLetterOverDelivered(w, r)
               \/ CheckExecutable(w) \/ Complete(w) \/ PublishArtifact(w)
      BY <2>5 DEF Receive, DeadLetterOverDelivered, CheckExecutable, Complete,
                  PublishArtifact, RowSave
    <2>6. CASE \/ LoadRun(w) \/ CheckQueued(w) \/ PassFinishedStage(w) \/ BeginStage(w)
               \/ EndStage(w) \/ CancelRebuild(w) \/ VerifyArtifacts(w)
               \/ \E partial \in BOOLEAN : FinishRun(w, partial)
               \/ HandleCancellation(w) \/ HandleFailure(w) \/ Restart(w)
      BY <2>6 DEF LoadRun, CheckQueued, PassFinishedStage, BeginStage, EndStage,
                  CancelRebuild, VerifyArtifacts, FinishRun, HandleCancellation, HandleFailure,
                   Restart,
                  Proceed, RowSave
    <2>7. QED
      BY <1>2, <2>1, <2>2, <2>3, <2>4, <2>5, <2>6 DEF WorkerStep, ExecutorStep
  <1>3. ASSUME NEW w \in Worker, WorkerFault(w) PROVE RowSave
    BY <1>3 DEF WorkerFault, StepRaises, Crash, Proceed, RowSave
  <1>4. ASSUME NEW r \in RunId, BrokerStep(r) PROVE RowSave
    BY <1>4 DEF BrokerStep, AbandonedLockExpires, LoseLock, RowSave
  <1>5. CASE UNCHANGED vars
    BY <1>5 DEF vars, RowSave
  <1>6. QED
    BY <1>2, <1>3, <1>4, <1>5

\* Rows change only by a save or by a request that creates an attempt.
LEMMA RowsChangeByRepository == TypeInv /\ [Next]_vars => RowStep
  <1> SUFFICES ASSUME TypeInv, [Next]_vars PROVE RowStep
    OBVIOUS
  <1>1. ASSUME NEW c \in Client, ClientStep(c) \/ ClientFault(c) PROVE RowStep
    <2>1. client[c].pc # "idle" => client[c].run \in RunId
      BY DEF TypeInv, ClientOK
    <2>2. CASE IngestionRaises(c) \/ DirectEnqueueRaises(c) \/ RequestDies(c) \/ StoreRaises(c)
      BY <2>2 DEF IngestionRaises, DirectEnqueueRaises, RequestDies, StoreRaises, RowStep, RowSave
    <2>3. CASE Creation(c)
      BY <2>3 DEF RowStep
    <2>4. CASE FailIngestion(c) \/ CancelQueued(c)
      BY <2>1, <2>4 DEF FailIngestion, CancelQueued, RowStep, RowSave
    <2>5. CASE \/ StoreInput(c) \/ EnqueueJob(c) \/ RequestCancel(c)
               \/ \E r \in RunId : LoadForCancel(c, r)
               \/ \E r, new \in RunId : LoadForRetry(c, r, new) \/ LoadForClone(c, r, new)
      BY <2>5 DEF StoreInput, EnqueueJob, RequestCancel, RequestCancellation, LoadForCancel,
                  LoadForRetry, LoadForClone, RowStep, RowSave
    <2>6. QED
      BY <1>1, <2>2, <2>3, <2>4, <2>5 DEF ClientStep, ClientFault, Creation
  <1>2. QED
    BY <1>1, WorkersOnlySave DEF Next, RowStep

\* No step changes a terminal row.
LEMMA TerminalStep ==
    TypeInv /\ [Next]_vars => \A r \in RunId : IsTerminal(row[r]) => row'[r] = row[r]
  <1> SUFFICES ASSUME TypeInv, RowStep, NEW r \in RunId, IsTerminal(row[r])
               PROVE  row'[r] = row[r]
    BY RowsChangeByRepository
  <1>1. ASSUME NEW q \in RunId, NEW run, Save(q, run) PROVE row'[r] = row[r]
    BY <1>1 DEF Save, Accepts, EnsureTransitionAllowed, TypeInv, TypeOK, RepositoryTypeOK, Written
  <1>2. ASSUME NEW q \in RunId, NEW run, Create(q, run) PROVE row'[r] = row[r]
    BY <1>2 DEF Create, MayCreate, Exists, IsTerminal, TerminalStatus,
                TypeInv, TypeOK, RepositoryTypeOK, Written
  <1>3. ASSUME NEW c \in Client, Creation(c) PROVE row'[r] = row[r]
    <2>1. CreateAttempt(c) => client[c].run \in RunId
      BY DEF CreateAttempt, TypeInv, ClientOK
    <2>2. QED
      BY <1>2, <1>3, <2>1 DEF Creation, CreateAttempt, Submit, FinalizeUpload, CreateRaises
  <1>4. QED
    BY <1>1, <1>3 DEF RowStep, RowSave

\* Once an attempt is terminal no step of any process changes its stored manifest.
THEOREM TerminalAttemptsImmutable == Spec => TerminalImmutable
  <1>1. TypeInv /\ [Next]_vars
          => [\A r \in RunId : IsTerminal(row[r]) => row'[r] = row[r]]_vars
    BY TerminalStep
  <1>2. QED
    BY <1>1, TypeInvariant, PTL DEF Spec, TerminalImmutable

=============================================================================
