----------------------------- MODULE OutcomeProofs -----------------------------
(***************************************************************************)
(* What the platform guarantees about outcomes, for every value of the     *)
(* constants: a settled job has a terminal attempt, the artifacts of an    *)
(* attempt have one producer, a succeeded attempt is complete, an attempt  *)
(* fails for a reason, and an early cancellation is not lost.              *)
(*                                                                         *)
(* The first three need each other's bookkeeping, so they are proved from  *)
(* one inductive invariant.  Its core is what each executor may rely on    *)
(* about its own state, Sound, and the reason it can: terminal rows and    *)
(* published objects never change, whoever acts.                           *)
(***************************************************************************)
EXTENDS SubmissionProofs, MCExecutionFaults

Published(r, objects) == \A a \in Artifact : objects[r][a] # 0

StagesComplete(run) ==
    run.status = "succeeded" => \A s \in Stage \ Optional : run.stages[s] = "succeeded"

\* What the state of a worker says of the rows and of the objects.
Sound(self, rows, objects) ==
    /\ self.pc \notin {"idle", "down"} => self.delivery # 0
    /\ self.pc = "complete" => IsTerminal(rows[self.run])
    /\ self.pc \in {"saveFinal", "saveFailed"} => IsTerminal(self.local)
    /\ self.pc \in {"checkQueued", "saveStart", "stage", "saveRunning", "work", "saveDone",
                    "saveCancelled", "saveFailed"} => self.local.status # "succeeded"
    /\ self.artifact > 1 => /\ self.run \in RunId /\ self.delivery # 0
                            /\ objects[self.run][1] = self.delivery
    /\ self.pc \in {"finish", "saveFinal"} => Published(self.run, objects)
    /\ self.pc = "saveFinal" => StagesComplete(self.local)

WorkersSound == \A w \in Worker : Sound(worker[w], row, object)

\* A request creates queued attempts.
RequestsSound == \A c \in Client : client[c].pc = "create" => client[c].snap.status = "queued"

\* SingleProducer, stated against the first artifact, which is published first.
FirstProducer ==
    \A r \in RunId : \A a \in Artifact : object[r][a] # 0 => object[r][a] = object[r][1]

OutcomeInv ==
    /\ TypeInv
    /\ WorkersSound
    /\ RequestsSound
    /\ SettledIsTerminal
    /\ FirstProducer
    /\ SucceededIsComplete

----------------------------------------------------------------------------
(* What never changes.                                                       *)

\* Objects appear only by publication.
LEMMA ObjectsAppear ==
    ASSUME [Next]_vars, object' # object
    PROVE  \E w \in Worker : PublishArtifact(w)
  <1>1. ASSUME NEW w \in Worker, ~PublishArtifact(w), WorkerStep(w) \/ WorkerFault(w)
        PROVE  UNCHANGED object
    BY <1>1 DEF WorkerStep, ExecutorStep, WorkerFault, Receive, DeadLetterOverDelivered,
                CheckExecutable, Complete, LoadRun, CheckQueued, SaveStart, PassFinishedStage,
                SkipOptional, BeginStage, SaveRunning, EndStage, SaveDone, CancelRebuild,
                VerifyArtifacts, FinishRun, SaveFinal, HandleCancellation, SaveCancelled,
                HandleFailure, SaveFailed, StepRaises, Crash, Restart, Proceed, Persist
  <1>2. ASSUME NEW c \in Client, ClientStep(c) \/ ClientFault(c) PROVE UNCHANGED object
    BY <1>2 DEF ClientStep, ClientFault, Submit, FinalizeUpload, LoadForRetry, LoadForClone,
                CreateAttempt, StoreInput, EnqueueJob, FailIngestion, LoadForCancel,
                CancelQueued, RequestCancel, IngestionRaises, DirectEnqueueRaises, RequestDies,
                StoreRaises, CreateRaises
  <1>3. ASSUME NEW r \in RunId, BrokerStep(r) PROVE UNCHANGED object
    BY <1>3 DEF BrokerStep, AbandonedLockExpires, LoseLock
  <1>4. QED
    BY <1>1, <1>2, <1>3 DEF Next, vars

\* A published object is never replaced: write_artifact is write-once.
LEMMA ObjectStep ==
    ASSUME TypeInv, [Next]_vars, NEW r \in RunId, NEW a \in Artifact, object[r][a] # 0
    PROVE  object'[r][a] = object[r][a]
  <1>1. object \in [RunId -> Object] /\ Object = [Artifact -> 0 .. MaxDelivery]
    BY DEF TypeInv, TypeOK, Object
  <1>2. ASSUME NEW w \in Worker, PublishArtifact(w) PROVE object'[r][a] = object[r][a]
    BY <1>1, <1>2 DEF PublishArtifact, Occupied
  <1>3. QED
    BY <1>2, ObjectsAppear

\* A sound worker state stays sound while terminal rows and objects stay.
LEMMA SoundStays ==
    ASSUME TypeInv, [Next]_vars, NEW self, WorkerOK(self), Sound(self, row, object)
    PROVE  Sound(self, row', object')
  <1>1. 1 \in Artifact
    BY ArtifactsAssumption DEF Artifact
  <1>2. self.pc \in {"complete", "finish", "saveFinal"} => self.run \in RunId
    BY DEF WorkerOK
  <1>3. self.pc = "complete" => IsTerminal(row'[self.run])
    BY <1>2, TerminalStep DEF Sound
  <1>4. self.artifact > 1 => object'[self.run][1] = self.delivery
    BY <1>1, ObjectStep DEF Sound
  <1>5. self.pc \in {"finish", "saveFinal"} => Published(self.run, object')
    BY <1>2, ObjectStep DEF Sound, Published
  <1>6. QED
    BY <1>3, <1>4, <1>5 DEF Sound

----------------------------------------------------------------------------
(* Where a sound worker goes.                                                *)

LEMMA SoundMoves ==
    ASSUME NEW self, WorkerOK(self), self.run \in RunId, NEW rows, NEW objects,
           Sound(self, rows, objects), self.pc \notin {"idle", "down"}
    PROVE  /\ Sound(Idle, rows, objects)
           /\ Sound(Down, rows, objects)
           /\ Sound(Failing(self), rows, objects)
           /\ Sound(Cancelling(self), rows, objects)
           /\ IsTerminal(rows[self.run]) => Sound(Completing(self), rows, objects)
           /\ \A status : IsTerminal(rows[self.run])
                            => Sound(Returned(self, status), rows, objects)
           /\ \A run, n : run.status # "succeeded"
                            => Sound(EnterStages(self, run, n), rows, objects)
  <1>1. Sound(Idle, rows, objects) /\ Sound(Down, rows, objects)
    BY DEF Sound, Idle, Down
  <1>2. \A pc \in {"fail", "cancel"} : Sound(Stopping(self, pc), rows, objects)
    BY DEF Sound, Stopping, WorkerOK, WorkerState
  <1>3. IsTerminal(rows[self.run]) => Sound(Completing(self), rows, objects)
    BY DEF Sound, Completing, Idle
  <1>4. \A run, n : run.status # "succeeded" => Sound(EnterStages(self, run, n), rows, objects)
    BY DEF Sound, EnterStages, WorkerOK, WorkerState
  <1>5. QED
    BY <1>1, <1>2, <1>3, <1>4 DEF Failing, Cancelling, Returned

\* When one worker moves to a sound state, all workers are sound.
LEMMA SoundWorkers ==
    ASSUME OutcomeInv, [Next]_vars, NEW w \in Worker, NEW state, Become(w, state),
           Sound(state, row', object')
    PROVE  WorkersSound'
  <1>1. worker' \in [Worker -> WorkerState] /\ worker' = [worker EXCEPT ![w] = state]
    BY TypeStep DEF OutcomeInv, TypeInv, TypeOK, Become
  <1>2. \A v \in Worker : Sound(worker[v], row', object')
    BY SoundStays DEF OutcomeInv, TypeInv, WorkersSound
  <1>3. ASSUME NEW v \in Worker PROVE Sound(worker'[v], row', object')
    <2>1. worker \in [Worker -> WorkerState]
      BY DEF OutcomeInv, TypeInv, TypeOK
    <2>2. CASE v = w
      BY <1>1, <2>1, <2>2
    <2>3. CASE v # w
      BY <1>1, <1>2, <2>1, <2>3
    <2>4. QED
      BY <2>2, <2>3
  <1>4. QED
    BY <1>3 DEF WorkersSound

\* A worker that only reads and moves to a sound state.
LEMMA SoundProceed ==
    ASSUME OutcomeInv, [Next]_vars, NEW w \in Worker, NEW state, Proceed(w, state),
           Sound(state, row, object)
    PROVE  WorkersSound'
  <1>1. row' = row /\ object' = object /\ Become(w, state)
    BY DEF Proceed
  <1>2. QED
    BY <1>1, SoundWorkers

\* A worker that saves its copy of the run.
LEMMA SoundPersist ==
    ASSUME OutcomeInv, [Next]_vars, NEW w \in Worker, NEW accepted, NEW rejected,
           Persist(w, accepted, rejected), worker[w].run \in RunId,
           Sound(rejected, row, object),
           Accepts(worker[w].run, worker[w].local) => Sound(accepted, row', object)
    PROVE  WorkersSound'
  <1> DEFINE ok == Accepts(worker[w].run, worker[w].local)
  <1>1. object' = object /\ Become(w, IF ok THEN accepted ELSE rejected)
    BY DEF Persist
  <1>2. ~ok => row' = row
    BY DEF Persist, Save, Written
  <1>3. Sound(IF ok THEN accepted ELSE rejected, row', object')
    BY <1>1, <1>2
  <1>4. QED
    BY <1>1, <1>3, SoundWorkers

----------------------------------------------------------------------------
(* Every step keeps the workers sound.                                       *)

LEMMA ClaimSound ==
    ASSUME OutcomeInv, [Next]_vars, NEW w \in Worker
    PROVE  /\ \A r \in RunId : Receive(w, r) => WorkersSound'
           /\ \A r \in RunId : DeadLetterOverDelivered(w, r) => WorkersSound'
           /\ CheckExecutable(w) => WorkersSound'
           /\ Complete(w) => WorkersSound'
           /\ Restart(w) => WorkersSound'
           /\ WorkerFault(w) => WorkersSound'
  <1> DEFINE self == worker[w]
  <1>a. WorkerOK(self) /\ Sound(self, row, object)
    BY DEF OutcomeInv, TypeInv, WorkersSound
  <1>b. Sound(Idle, row, object) /\ Sound(Down, row, object)
    BY DEF Sound, Idle, Down
  <1>1. ASSUME NEW r \in RunId, Receive(w, r) PROVE WorkersSound'
    <2>1. message[r].deliveries + 1 # 0
      BY MaxDeliveryAssumption
      DEF OutcomeInv, TypeInv, TypeOK, QueueTypeOK, Message
    <2>2. Sound(Claimed(r, message[r].deliveries + 1), row, object)
      BY <2>1 DEF Sound, Claimed, Idle
    <2>3. row' = row /\ object' = object /\ Become(w, Claimed(r, message[r].deliveries + 1))
      BY <1>1 DEF Receive
    <2>4. QED
      BY <2>2, <2>3, SoundWorkers
  <1>2. ASSUME NEW r \in RunId, DeadLetterOverDelivered(w, r) PROVE WorkersSound'
    BY <1>2 DEF DeadLetterOverDelivered, OutcomeInv, WorkersSound
  <1>3. ASSUME CheckExecutable(w) PROVE WorkersSound'
    <2>1. self.run \in RunId /\ self.pc = "claimed" /\ row' = row /\ object' = object
      BY <1>3, <1>a DEF CheckExecutable, WorkerOK
    <2>2. Sound([self EXCEPT !.pc = "load"], row, object)
      BY <1>a, <2>1 DEF Sound, WorkerOK, WorkerState
    <2>3. IsTerminal(row[self.run]) => Sound(Completing(self), row, object)
      BY <1>a, <2>1, SoundMoves
    <2>4. \E state : Sound(state, row, object) /\ Become(w, state)
      BY <1>3, <2>2, <2>3 DEF CheckExecutable
    <2>5. QED
      BY <2>1, <2>4, SoundWorkers
  <1>4. ASSUME Complete(w) PROVE WorkersSound'
    <2>1. row' = row /\ object' = object
      BY <1>4 DEF Complete
    <2>2. \E state : Sound(state, row, object) /\ Become(w, state)
      BY <1>4, <1>b DEF Complete
    <2>3. QED
      BY <2>1, <2>2, SoundWorkers
  <1>5. ASSUME Restart(w) PROVE WorkersSound'
    BY <1>5, <1>b, SoundProceed DEF Restart
  <1>6. ASSUME WorkerFault(w) PROVE WorkersSound'
    <2>1. CASE StepRaises(w)
      BY <2>1, <1>a, SoundMoves, SoundProceed DEF StepRaises, Guarded, WorkerOK
    <2>2. CASE Crash(w)
      BY <2>2, <1>b, SoundProceed DEF Crash
    <2>3. QED
      BY <1>6, <2>1, <2>2 DEF WorkerFault
  <1>7. QED
    BY <1>1, <1>2, <1>3, <1>4, <1>5, <1>6

LEMMA StageSound ==
    ASSUME OutcomeInv, [Next]_vars, NEW w \in Worker
    PROVE  /\ LoadRun(w) => WorkersSound'
           /\ CheckQueued(w) => WorkersSound'
           /\ SaveStart(w) => WorkersSound'
           /\ PassFinishedStage(w) => WorkersSound'
           /\ SkipOptional(w) => WorkersSound'
           /\ BeginStage(w) => WorkersSound'
           /\ SaveRunning(w) => WorkersSound'
           /\ EndStage(w) => WorkersSound'
           /\ SaveDone(w) => WorkersSound'
  <1> DEFINE self == worker[w]
             run  == row[self.run]
  <1>a. WorkerOK(self) /\ Sound(self, row, object) /\ self \in WorkerState
    BY DEF OutcomeInv, TypeInv, WorkersSound, WorkerOK
  <1>b. Sound(Idle, row, object) /\ Sound(Down, row, object)
    BY DEF Sound, Idle, Down
  <1>c. \A rows : Sound(Idle, rows, object)
    BY DEF Sound, Idle
  <1>1. ASSUME LoadRun(w) PROVE WorkersSound'
    <2>1. self.run \in RunId /\ self.pc = "load"
      BY <1>1, <1>a DEF LoadRun, WorkerOK
    <2>2. IsTerminal(run) => Sound(Returned(self, run.status), row, object)
      BY <1>a, <2>1, SoundMoves
    <2>3. ~IsTerminal(run) => run.status # "succeeded"
      BY DEF IsTerminal, TerminalStatus
    <2>4. ~IsTerminal(run) => Sound(EnterStages(self, run, 1), row, object)
      BY <1>a, <2>1, <2>3, SoundMoves
    <2>5. ~IsTerminal(run)
            => Sound([self EXCEPT !.pc = "checkQueued", !.local = run], row, object)
      BY <1>a, <2>1, <2>3 DEF Sound, WorkerState
    <2>6. \E state : Sound(state, row, object) /\ Proceed(w, state)
      BY <1>1, <2>2, <2>4, <2>5 DEF LoadRun
    <2>7. QED
      BY <2>6, SoundProceed
  <1>2. ASSUME CheckQueued(w) PROVE WorkersSound'
    <2> DEFINE next == IF CancellationRequested(self.run)
                       THEN Finish(self.local, "cancelled", self.local.stages)
                       ELSE Start(self.local)
    <2>1. self.local \in Run /\ self.pc = "checkQueued"
      BY <1>2, <1>a DEF WorkerState, CheckQueued
    <2>2. next.status # "succeeded"
      BY <2>1 DEF Finish, Start, Run
    <2>3. Sound([self EXCEPT !.pc = "saveStart", !.local = next], row, object)
      BY <1>a, <2>1, <2>2 DEF Sound, WorkerState
    <2>4. QED
      BY <1>2, <2>3, SoundProceed DEF CheckQueued
  <1>3. ASSUME SaveStart(w) PROVE WorkersSound'
    <2>1. self.run \in RunId /\ self.pc = "saveStart"
      BY <1>3, <1>a DEF SaveStart, WorkerOK
    <2>2. self.local.status # "succeeded" /\ Sound(self, row', object)
      BY <1>a, <2>1, SoundStays DEF Sound, OutcomeInv
    <2>3. Sound(EnterStages(self, self.local, 1), row', object)
      BY <1>a, <2>1, <2>2, SoundMoves
    <2>4. \E accepted : Sound(accepted, row', object) /\ Persist(w, accepted, Down)
      BY <1>3, <1>c, <2>3 DEF SaveStart
    <2>5. QED
      BY <2>1, <2>4, <1>b, SoundPersist
  <1>4. ASSUME PassFinishedStage(w) PROVE WorkersSound'
    <2>1. self.pc = "stage"
      BY <1>4 DEF PassFinishedStage, AtStage
    <2>2. Sound([self EXCEPT !.index = @ + 1], row, object)
      BY <1>a, <2>1 DEF Sound, WorkerState
    <2>3. QED
      BY <1>4, <2>2, SoundProceed DEF PassFinishedStage
  <1>5. ASSUME SkipOptional(w) PROVE WorkersSound'
    <2> DEFINE skipped == WithStage(self.local, self.index, "skipped")
    <2>1. self.run \in RunId /\ self.pc = "stage"
      BY <1>5, <1>a DEF SkipOptional, Pending, AtStage, WorkerOK
    <2>2. Sound(self, row', object')
      BY <1>a, SoundStays DEF OutcomeInv
    <2>3. self.local \in Run /\ self.local.status # "succeeded"
      BY <1>a, <2>1 DEF Sound, WorkerState
    <2>4. skipped.status # "succeeded"
      BY <2>3 DEF WithStage, Run
    <2>5. /\ Sound(EnterStages(self, skipped, self.index + 1), row', object')
          /\ Sound(Failing(self), row', object')
      BY <1>a, <2>1, <2>2, <2>4, SoundMoves
    <2>6. \E state : Sound(state, row', object') /\ Become(w, state)
      BY <1>5, <2>5 DEF SkipOptional
    <2>7. QED
      BY <2>6, SoundWorkers
  <1>6. ASSUME BeginStage(w) PROVE WorkersSound'
    <2> DEFINE running == WithStage(self.local, self.index, "running")
    <2>1. self.run \in RunId /\ self.pc = "stage"
      BY <1>6, <1>a DEF BeginStage, Pending, AtStage, WorkerOK
    <2>2. running.status # "succeeded"
      BY <1>a, <2>1 DEF WithStage, Run, Sound, WorkerState
    <2>3. Sound([self EXCEPT !.pc = "saveRunning",
                             !.local = WithStage(@, self.index, "running")], row, object)
      BY <1>a, <2>1, <2>2 DEF Sound, WorkerState
    <2>4. Sound(Cancelling(self), row, object)
      BY <1>a, <2>1, SoundMoves
    <2>5. \E state : Sound(state, row, object) /\ Proceed(w, state)
      BY <1>6, <2>3, <2>4 DEF BeginStage
    <2>6. QED
      BY <2>5, SoundProceed
  <1>7. ASSUME SaveRunning(w) PROVE WorkersSound'
    <2>1. self.run \in RunId /\ self.pc = "saveRunning" /\ object' = object
      BY <1>7, <1>a DEF SaveRunning, WorkerOK, Persist
    <2>2. Sound(self, row', object)
      BY <1>a, <2>1, SoundStays DEF OutcomeInv
    <2>3. Sound([self EXCEPT !.pc = "work"], row', object)
      BY <1>a, <2>1, <2>2 DEF Sound, WorkerState
    <2>4. Sound(Failing(self), row, object)
      BY <1>a, <2>1, SoundMoves
    <2>5. QED
      BY <1>7, <2>1, <2>3, <2>4, SoundPersist DEF SaveRunning
  <1>8. ASSUME EndStage(w) PROVE WorkersSound'
    <2> DEFINE done == WithStage(self.local, self.index, "succeeded")
    <2>1. self.run \in RunId /\ self.pc = "work"
      BY <1>8, <1>a DEF EndStage, WorkerOK
    <2>2. done.status # "succeeded"
      BY <1>a, <2>1 DEF WithStage, Run, Sound, WorkerState
    <2>3. Sound([self EXCEPT !.pc = "saveDone",
                             !.payloads = IF self.index = Detection THEN "built" ELSE @,
                             !.local = WithStage(@, self.index, "succeeded")], row, object)
      BY <1>a, <2>1, <2>2 DEF Sound, WorkerState
    <2>4. Sound(Cancelling(self), row, object)
      BY <1>a, <2>1, SoundMoves
    <2>5. \E state : Sound(state, row, object) /\ Proceed(w, state)
      BY <1>8, <2>3, <2>4 DEF EndStage
    <2>6. QED
      BY <2>5, SoundProceed
  <1>9. ASSUME SaveDone(w) PROVE WorkersSound'
    <2>1. self.run \in RunId /\ self.pc = "saveDone" /\ object' = object
      BY <1>9, <1>a DEF SaveDone, WorkerOK, Persist
    <2>2. Sound(self, row', object) /\ self.local.status # "succeeded"
      BY <1>a, <2>1, SoundStays DEF OutcomeInv, Sound
    <2>3. /\ Sound(EnterStages(self, self.local, self.index + 1), row', object)
          /\ Sound(Failing(self), row, object)
      BY <1>a, <2>1, <2>2, SoundMoves
    <2>4. QED
      BY <1>9, <2>1, <2>3, SoundPersist DEF SaveDone
  <1>10. QED
    BY <1>1, <1>2, <1>3, <1>4, <1>5, <1>6, <1>7, <1>8, <1>9

LEMMA FinishSound ==
    ASSUME OutcomeInv, [Next]_vars, NEW w \in Worker
    PROVE  /\ CancelRebuild(w) => WorkersSound'
           /\ PublishArtifact(w) => WorkersSound'
           /\ VerifyArtifacts(w) => WorkersSound'
           /\ \A partial \in BOOLEAN : FinishRun(w, partial) => WorkersSound'
           /\ SaveFinal(w) => WorkersSound'
           /\ HandleCancellation(w) => WorkersSound'
           /\ SaveCancelled(w) => WorkersSound'
           /\ HandleFailure(w) => WorkersSound'
           /\ SaveFailed(w) => WorkersSound'
  <1> DEFINE self == worker[w]
             run  == row[self.run]
  <1>a. WorkerOK(self) /\ Sound(self, row, object) /\ self \in WorkerState
    BY DEF OutcomeInv, TypeInv, WorkersSound, WorkerOK
  <1>b. Sound(Down, row, object) /\ \A rows : Sound(Idle, rows, object)
    BY DEF Sound, Idle, Down
  <1>c. self.pc \notin {"idle", "down"} => self.run \in RunId /\ run \in Run
    BY <1>a DEF WorkerOK, OutcomeInv, TypeInv, TypeOK, RepositoryTypeOK
  <1>1. ASSUME CancelRebuild(w) PROVE WorkersSound'
    BY <1>1, <1>a, <1>c, SoundMoves, SoundProceed DEF CancelRebuild, AllStagesDone
  <1>2. ASSUME PublishArtifact(w) PROVE WorkersSound'
    <2>1. self.run \in RunId /\ self.pc = "stage" /\ row' = row
      BY <1>2, <1>c DEF PublishArtifact, AllStagesDone
    <2>2. Sound(self, row', object')
      BY <1>a, SoundStays DEF OutcomeInv
    <2>3. Sound(Failing(self), row', object')
      BY <1>a, <2>1, <2>2, SoundMoves
    <2>4. CASE Occupied(self.run, self.artifact)
      BY <1>2, <2>3, <2>4, SoundWorkers DEF PublishArtifact
    <2>5. CASE ~Occupied(self.run, self.artifact)
      <3>1. /\ object' = [object EXCEPT ![self.run][self.artifact] = self.delivery]
            /\ Become(w, [self EXCEPT !.artifact = @ + 1])
        BY <1>2, <2>5 DEF PublishArtifact
      <3>2. self.artifact \in Artifact /\ self.delivery # 0
        BY <1>2, <1>a, <2>1 DEF PublishArtifact, WorkerState, Artifact, Sound
      <3>3. object'[self.run][1] = self.delivery
        <4>1. object[self.run] \in [Artifact -> 0 .. MaxDelivery] /\ 1 \in Artifact
          BY <2>1, ArtifactsAssumption DEF OutcomeInv, TypeInv, TypeOK, Object, Artifact
        <4>2. CASE self.artifact = 1
          BY <2>1, <3>1, <4>1, <4>2 DEF OutcomeInv, TypeInv, TypeOK
        <4>3. CASE self.artifact > 1
          BY <2>2, <4>3 DEF Sound
        <4>4. QED
          BY <3>2, <4>2, <4>3 DEF Artifact
      <3>4. Sound([self EXCEPT !.artifact = @ + 1], row', object')
        BY <1>a, <2>1, <2>2, <3>2, <3>3 DEF Sound, WorkerState
      <3>5. QED
        BY <3>1, <3>4, SoundWorkers
    <2>6. QED
      BY <2>4, <2>5
  <1>3. ASSUME VerifyArtifacts(w) PROVE WorkersSound'
    <2>1. self.pc = "stage" /\ Published(self.run, object)
      BY <1>3 DEF VerifyArtifacts, Intact, AllStagesDone, Published
    <2>2. Sound([self EXCEPT !.pc = "finish", !.local = NoRun, !.payloads = "none"],
                row, object)
      BY <1>a, <2>1 DEF Sound, WorkerState
    <2>3. QED
      BY <1>3, <2>2, SoundProceed DEF VerifyArtifacts
  <1>4. ASSUME NEW partial \in BOOLEAN, FinishRun(w, partial) PROVE WorkersSound'
    <2> DEFINE updated == Completed(run, partial)
               final   == [self EXCEPT !.pc = "saveFinal", !.local = updated]
    <2>1. self.pc = "finish" /\ self.run \in RunId /\ run \in Run
      BY <1>4, <1>c DEF FinishRun
    <2>2. IsTerminal(updated)
      BY <2>1 DEF Completed, Finish, Run, IsTerminal, TerminalStatus
    <2>3. ValidLifecycle(updated) => StagesComplete(updated)
      BY DEF ValidLifecycle, StagesComplete
    <2>4. ValidLifecycle(updated) => Sound(final, row, object)
      BY <1>a, <2>1, <2>2, <2>3 DEF Sound, WorkerState
    <2>5. Sound(Failing(self), row, object)
      BY <1>a, <2>1, SoundMoves
    <2>6. \E state : Sound(state, row, object) /\ Proceed(w, state)
      BY <1>4, <2>4, <2>5 DEF FinishRun
    <2>7. QED
      BY <2>6, SoundProceed
  <1>5. ASSUME SaveFinal(w) PROVE WorkersSound'
    <2>1. self.run \in RunId /\ self.pc = "saveFinal" /\ object' = object
      BY <1>5, <1>c DEF SaveFinal, Persist
    <2>2. Sound(Failing(self), row, object) /\ Sound(self, row', object)
      BY <1>a, <2>1, SoundMoves, SoundStays DEF OutcomeInv
    <2>3. Accepts(self.run, self.local) => row'[self.run] = self.local
      BY <1>5, <2>1
      DEF SaveFinal, Persist, Save, OutcomeInv, TypeInv, TypeOK, RepositoryTypeOK, Written
    <2>4. IsTerminal(self.local)
      BY <1>a, <2>1 DEF Sound
    <2>5. Accepts(self.run, self.local) => IsTerminal(row'[self.run])
      BY <2>3, <2>4
    <2>6. IsTerminal(row'[self.run]) => Sound(Completing(self), row', object)
      BY <1>a, <2>1, <2>2, SoundMoves
    <2>7. QED
      BY <1>5, <2>1, <2>2, <2>5, <2>6, SoundPersist DEF SaveFinal
  <1>6. ASSUME HandleCancellation(w) PROVE WorkersSound'
    <2> DEFINE updated == Finish(run, "cancelled", Stopped(run, ActiveStage(self), "cancelled"))
    <2>1. self.run \in RunId /\ self.pc = "cancel" /\ run \in Run
      BY <1>6, <1>c DEF HandleCancellation
    <2>2. updated.status # "succeeded"
      BY <2>1 DEF Finish, Run
    <2>3. Sound([self EXCEPT !.pc = "saveCancelled", !.local = updated], row, object)
      BY <1>a, <2>1, <2>2 DEF Sound, WorkerState
    <2>4. \E state : Sound(state, row, object) /\ Proceed(w, state)
      BY <1>6, <1>b, <2>3 DEF HandleCancellation
    <2>5. QED
      BY <2>4, SoundProceed
  <1>7. ASSUME SaveCancelled(w) PROVE WorkersSound'
    <2>1. self.run \in RunId
      BY <1>7, <1>c DEF SaveCancelled
    <2>2. QED
      BY <1>7, <1>b, <2>1, SoundPersist DEF SaveCancelled
  <1>8. ASSUME HandleFailure(w) PROVE WorkersSound'
    <2> DEFINE updated == Finish(run, "failed", Stopped(run, ActiveStage(self), "failed"))
    <2>1. self.run \in RunId /\ self.pc = "fail" /\ run \in Run
      BY <1>8, <1>c DEF HandleFailure
    <2>2. updated.status = "failed"
      BY <2>1 DEF Finish, Run
    <2>3. Sound([self EXCEPT !.pc = "saveFailed", !.local = updated], row, object)
      BY <1>a, <2>1, <2>2 DEF Sound, WorkerState, IsTerminal, TerminalStatus
    <2>4. IsTerminal(run) => Sound(Returned(self, run.status), row, object)
      BY <1>a, <2>1, SoundMoves
    <2>5. \E state : Sound(state, row, object) /\ Proceed(w, state)
      BY <1>8, <1>b, <2>3, <2>4 DEF HandleFailure
    <2>6. QED
      BY <2>5, SoundProceed
  <1>9. ASSUME SaveFailed(w) PROVE WorkersSound'
    <2>1. self.run \in RunId /\ self.pc = "saveFailed" /\ object' = object
      BY <1>9, <1>c DEF SaveFailed, Persist
    <2>2. Sound(self, row', object)
      BY <1>a, <2>1, SoundStays DEF OutcomeInv
    <2>3. Accepts(self.run, self.local) => row'[self.run] = self.local
      BY <1>9, <2>1
      DEF SaveFailed, Persist, Save, OutcomeInv, TypeInv, TypeOK, RepositoryTypeOK, Written
    <2>4. IsTerminal(self.local)
      BY <1>a, <2>1 DEF Sound
    <2>5. Accepts(self.run, self.local) => IsTerminal(row'[self.run])
      BY <2>3, <2>4
    <2>6. IsTerminal(row'[self.run]) => Sound(Completing(self), row', object)
      BY <1>a, <2>1, <2>2, SoundMoves
    <2>7. QED
      BY <1>9, <1>b, <2>1, <2>5, <2>6, SoundPersist DEF SaveFailed
  <1>10. QED
    BY <1>1, <1>2, <1>3, <1>4, <1>5, <1>6, <1>7, <1>8, <1>9

\* Requests, the broker and stuttering leave the workers alone.
LEMMA WorkersKept ==
    ASSUME OutcomeInv, [Next]_vars, UNCHANGED worker
    PROVE  WorkersSound'
  BY SoundStays DEF OutcomeInv, TypeInv, WorkersSound

LEMMA WorkersStep == OutcomeInv /\ [Next]_vars => WorkersSound'
  <1> SUFFICES ASSUME OutcomeInv, [Next]_vars PROVE WorkersSound'
    OBVIOUS
  <1>1. ASSUME NEW w \in Worker, WorkerStep(w) \/ WorkerFault(w) PROVE WorkersSound'
    BY <1>1, ClaimSound, StageSound, FinishSound DEF WorkerStep, ExecutorStep
  <1>2. ASSUME NEW c \in Client, ClientStep(c) \/ ClientFault(c) PROVE UNCHANGED worker
    BY <1>2 DEF ClientStep, ClientFault, Submit, FinalizeUpload, LoadForRetry, LoadForClone,
                CreateAttempt, StoreInput, EnqueueJob, FailIngestion, LoadForCancel,
                CancelQueued, RequestCancel, IngestionRaises, DirectEnqueueRaises, RequestDies,
                StoreRaises, CreateRaises
  <1>3. ASSUME NEW r \in RunId, BrokerStep(r) PROVE UNCHANGED worker
    BY <1>3 DEF BrokerStep, AbandonedLockExpires, LoseLock
  <1>4. CASE UNCHANGED vars
    BY <1>4, WorkersKept DEF vars
  <1>5. QED
    BY <1>1, <1>2, <1>3, <1>4, WorkersKept DEF Next

----------------------------------------------------------------------------
(* Every step keeps what is said of requests, messages, objects and rows.    *)

\* Only a request itself changes its state, and it creates queued attempts.
LEMMA RequestsStep == OutcomeInv /\ [Next]_vars => RequestsSound'
  <1> SUFFICES ASSUME OutcomeInv, [Next]_vars PROVE RequestsSound'
    OBVIOUS
  <1>a. client \in [Client -> ClientState] /\ RequestsSound
    BY DEF OutcomeInv, TypeInv, TypeOK
  <1>1. CASE UNCHANGED client
    BY <1>1, <1>a DEF RequestsSound
  <1>2. ASSUME NEW c \in Client, NEW state, Request(c, state),
               state.pc = "create" => state.snap.status = "queued"
        PROVE  RequestsSound'
    BY <1>2, <1>a DEF Request, RequestsSound
  <1>3. ASSUME NEW c \in Client, ClientStep(c) \/ ClientFault(c) PROVE RequestsSound'
    <2>1. CASE \E r, new \in RunId : LoadForRetry(c, r, new) \/ LoadForClone(c, r, new)
      BY <2>1, <1>2 DEF LoadForRetry, LoadForClone, RetryFrom, New
    <2>2. CASE \E r \in RunId : \/ Submit(c, r) \/ FinalizeUpload(c, r)
                               \/ LoadForCancel(c, r) \/ CreateRaises(c, r)
      BY <2>2, <1>2 DEF Submit, FinalizeUpload, LoadForCancel, CreateRaises, NoRequest
    <2>3. client[c] \in ClientState
      BY <1>a
    <2>4. CASE CreateAttempt(c) \/ StoreInput(c) \/ IngestionRaises(c)
      BY <2>3, <2>4, <1>2
      DEF CreateAttempt, StoreInput, IngestionRaises, NoRequest, ClientState
    <2>5. CASE \/ EnqueueJob(c) \/ FailIngestion(c) \/ CancelQueued(c) \/ RequestCancel(c)
               \/ DirectEnqueueRaises(c) \/ RequestDies(c) \/ StoreRaises(c)
      BY <2>5, <1>2 DEF EnqueueJob, FailIngestion, CancelQueued, RequestCancel,
                        DirectEnqueueRaises, RequestDies, StoreRaises, NoRequest
    <2>6. QED
      BY <1>3, <2>1, <2>2, <2>4, <2>5 DEF ClientStep, ClientFault
  <1>4. ASSUME NEW w \in Worker, WorkerStep(w) \/ WorkerFault(w) PROVE UNCHANGED client
    BY <1>4 DEF WorkerStep, ExecutorStep, WorkerFault, Receive, DeadLetterOverDelivered,
                CheckExecutable, Complete, LoadRun, CheckQueued, SaveStart, PassFinishedStage,
                SkipOptional, BeginStage, SaveRunning, EndStage, SaveDone, CancelRebuild,
                PublishArtifact, VerifyArtifacts, FinishRun, SaveFinal, HandleCancellation,
                SaveCancelled, HandleFailure, SaveFailed, StepRaises, Crash, Restart,
                Proceed, Persist
  <1>5. ASSUME NEW r \in RunId, BrokerStep(r) PROVE UNCHANGED client
    BY <1>5 DEF BrokerStep, AbandonedLockExpires, LoseLock
  <1>6. QED
    BY <1>1, <1>3, <1>4, <1>5 DEF Next, vars

\* A message is completed only by a worker that knows its attempt is terminal.
LEMMA SettledStep == OutcomeInv /\ [Next]_vars => SettledIsTerminal'
  <1> SUFFICES ASSUME OutcomeInv, [Next]_vars, NEW r \in RunId,
                      message'[r].state = "completed", ~IsTerminal(row[r])
               PROVE  IsTerminal(row'[r])
    BY TerminalStep DEF OutcomeInv, SettledIsTerminal
  <1>a. message \in [RunId -> Message] /\ message[r].state # "completed"
    BY DEF OutcomeInv, SettledIsTerminal, TypeInv, TypeOK, QueueTypeOK
  <1>1. ASSUME NEW q \in RunId, \/ Enqueue(q) \/ Deliver(q) \/ DeadLetter(q) \/ ExpireLock(q)
        PROVE  FALSE
    BY <1>1, <1>a DEF Enqueue, Deliver, DeadLetter, ExpireLock, Message
  <1>2. ASSUME NEW w \in Worker, Complete(w) PROVE FALSE
    <2>1. worker[w].run \in RunId /\ IsTerminal(row[worker[w].run])
      BY <1>2 DEF Complete, OutcomeInv, TypeInv, WorkerOK, WorkersSound, Sound
    <2>2. message'[r] = message[r]
      BY <1>2, <1>a, <2>1 DEF Complete, CompleteMessage
    <2>3. QED
      BY <1>a, <2>2
  <1>3. CASE UNCHANGED message
    BY <1>3, <1>a
  <1>4. ASSUME NEW w \in Worker, WorkerStep(w) \/ WorkerFault(w), ~Complete(w)
        PROVE  \/ UNCHANGED message
               \/ \E q \in RunId : Deliver(q) \/ DeadLetter(q)
    BY <1>4 DEF WorkerStep, ExecutorStep, WorkerFault, Receive, DeadLetterOverDelivered,
                CheckExecutable, LoadRun, CheckQueued, SaveStart, PassFinishedStage,
                SkipOptional, BeginStage, SaveRunning, EndStage, SaveDone, CancelRebuild,
                PublishArtifact, VerifyArtifacts, FinishRun, SaveFinal, HandleCancellation,
                SaveCancelled, HandleFailure, SaveFailed, StepRaises, Crash, Restart,
                Proceed, Persist
  <1>5. ASSUME NEW c \in Client, ClientStep(c) \/ ClientFault(c)
        PROVE  UNCHANGED message \/ \E q \in RunId : Enqueue(q)
    <2>1. client[c].pc # "idle" => client[c].run \in RunId
      BY DEF OutcomeInv, TypeInv, ClientOK
    <2>2. CASE EnqueueJob(c) \/ IngestionRaises(c)
      BY <2>1, <2>2 DEF EnqueueJob, IngestionRaises
    <2>3. QED
      BY <1>5, <2>2
      DEF ClientStep, ClientFault, Submit, FinalizeUpload, LoadForRetry, LoadForClone,
          CreateAttempt, StoreInput, FailIngestion, LoadForCancel, CancelQueued,
          RequestCancel, DirectEnqueueRaises, RequestDies, StoreRaises, CreateRaises
  <1>6. ASSUME NEW q \in RunId, BrokerStep(q) PROVE ExpireLock(q)
    BY <1>6 DEF BrokerStep, AbandonedLockExpires, LoseLock
  <1>7. QED
    BY <1>1, <1>2, <1>3, <1>4, <1>5, <1>6 DEF Next, vars

\* An executor that publishes an artifact after the first published the first too.
LEMMA ProducerStep == OutcomeInv /\ [Next]_vars => FirstProducer'
  <1> SUFFICES ASSUME OutcomeInv, [Next]_vars, NEW r \in RunId, NEW a \in Artifact,
                      object'[r][a] # 0
               PROVE  object'[r][a] = object'[r][1]
    BY DEF FirstProducer
  <1>a. 1 \in Artifact /\ object \in [RunId -> Object] /\ Object = [Artifact -> 0 .. MaxDelivery]
    BY ArtifactsAssumption DEF Artifact, Object, OutcomeInv, TypeInv, TypeOK
  <1>b. TypeInv /\ FirstProducer
    BY DEF OutcomeInv
  <1>1. CASE object[r][a] # 0
    <2>1. object[r][1] = object[r][a]
      BY <1>1, <1>b DEF FirstProducer
    <2>2. QED
      BY <1>1, <1>a, <1>b, <2>1, ObjectStep
  <1>2. CASE object[r][a] = 0
    <2>1. PICK w \in Worker : PublishArtifact(w)
      BY <1>2, ObjectsAppear
    <2> DEFINE self == worker[w]
    <2>2. /\ object' = [object EXCEPT ![self.run][self.artifact] = self.delivery]
          /\ ~Occupied(self.run, self.artifact)
      BY <2>1, <1>2 DEF PublishArtifact
    <2>3. self.run = r /\ self.artifact = a
      BY <2>2, <1>2, <1>a
    <2>4. object'[r][a] = self.delivery
      BY <2>2, <2>3, <1>a
    <2>5. CASE a = 1
      BY <2>5
    <2>6. CASE a # 1
      <3>1. object[r][1] = self.delivery /\ self.delivery # 0
        BY <2>3, <2>6 DEF OutcomeInv, WorkersSound, Sound, Artifact
      <3>2. QED
        BY <2>4, <3>1, <1>a, <1>b, ObjectStep
    <2>7. QED
      BY <2>5, <2>6
  <1>3. QED
    BY <1>1, <1>2

\* Whoever saves success has seen every artifact and every required stage.
EarnedSuccess(r, run) ==
    run.status = "succeeded" => Published(r, object) /\ StagesComplete(run)

OutcomeStep ==
    \/ UNCHANGED row
    \/ \E r \in RunId : \E run : EarnedSuccess(r, run) /\ (Save(r, run) \/ Create(r, run))

LEMMA SuccessIsEarned == OutcomeInv /\ [Next]_vars => OutcomeStep
  <1> SUFFICES ASSUME OutcomeInv, [Next]_vars PROVE OutcomeStep
    OBVIOUS
  <1>1. ASSUME NEW w \in Worker, NEW accepted, NEW rejected, Persist(w, accepted, rejected),
               worker[w].pc \in {"saveStart", "saveRunning", "saveDone", "saveFinal",
                                 "saveCancelled", "saveFailed"}
        PROVE  OutcomeStep
    <2>1. worker[w].run \in RunId /\ Sound(worker[w], row, object)
      BY <1>1 DEF OutcomeInv, TypeInv, WorkerOK, WorkersSound
    <2>2. EarnedSuccess(worker[w].run, worker[w].local)
      BY <1>1, <2>1 DEF Sound, EarnedSuccess
    <2>3. QED
      BY <1>1, <2>1, <2>2 DEF Persist, OutcomeStep
  <1>2. ASSUME NEW w \in Worker, WorkerStep(w) PROVE OutcomeStep
    <2>1. CASE SaveStart(w)
      BY <2>1, <1>1 DEF SaveStart
    <2>2. CASE SaveRunning(w) \/ SaveFinal(w) \/ SaveCancelled(w) \/ SaveFailed(w)
      BY <2>2, <1>1 DEF SaveRunning, SaveFinal, SaveCancelled, SaveFailed
    <2>3. CASE SaveDone(w)
      BY <2>3, <1>1 DEF SaveDone
    <2>4. CASE SkipOptional(w)
      <3> DEFINE skipped == WithStage(worker[w].local, worker[w].index, "skipped")
      <3>1. /\ worker[w].run \in RunId /\ worker[w].local \in Run
            /\ worker[w].local.status # "succeeded"
        BY <2>4 DEF SkipOptional, Pending, AtStage, OutcomeInv, TypeInv, WorkerOK, WorkerState,
                    WorkersSound, Sound
      <3>2. skipped.status # "succeeded"
        BY <3>1 DEF WithStage, Run
      <3>3. QED
        BY <2>4, <3>1, <3>2 DEF SkipOptional, EarnedSuccess, OutcomeStep
    <2>5. CASE \/ \E r \in RunId : Receive(w, r) \/ DeadLetterOverDelivered(w, r)
               \/ CheckExecutable(w) \/ Complete(w) \/ PublishArtifact(w)
      BY <2>5 DEF Receive, DeadLetterOverDelivered, CheckExecutable, Complete,
                  PublishArtifact, OutcomeStep
    <2>6. CASE \/ LoadRun(w) \/ CheckQueued(w) \/ PassFinishedStage(w) \/ BeginStage(w)
               \/ EndStage(w) \/ CancelRebuild(w) \/ VerifyArtifacts(w)
               \/ \E partial \in BOOLEAN : FinishRun(w, partial)
               \/ HandleCancellation(w) \/ HandleFailure(w) \/ Restart(w)
      BY <2>6 DEF LoadRun, CheckQueued, PassFinishedStage, BeginStage, EndStage,
                  CancelRebuild, VerifyArtifacts, FinishRun, HandleCancellation,
                  HandleFailure, Restart, Proceed, OutcomeStep
    <2>7. QED
      BY <1>2, <2>1, <2>2, <2>3, <2>4, <2>5, <2>6 DEF WorkerStep, ExecutorStep
  <1>3. ASSUME NEW w \in Worker, WorkerFault(w) PROVE OutcomeStep
    BY <1>3 DEF WorkerFault, StepRaises, Crash, Proceed, OutcomeStep
  <1>4. ASSUME NEW c \in Client, ClientStep(c) \/ ClientFault(c) PROVE OutcomeStep
    <2>1. client[c].snap \in Run /\ (client[c].pc # "idle" => client[c].run \in RunId)
      BY DEF OutcomeInv, TypeInv, TypeOK, ClientOK, ClientState
    <2>2. CASE IngestionRaises(c) \/ DirectEnqueueRaises(c) \/ RequestDies(c) \/ StoreRaises(c)
      BY <2>2 DEF IngestionRaises, DirectEnqueueRaises, RequestDies, StoreRaises, OutcomeStep
    <2>a. ASSUME NEW r \in RunId, Create(r, New(r)) PROVE OutcomeStep
      BY <2>a DEF New, EarnedSuccess, OutcomeStep
    <2>b. ASSUME client[c].pc = "create", Create(client[c].run, client[c].snap)
          PROVE  OutcomeStep
      <3>1. EarnedSuccess(client[c].run, client[c].snap)
        BY <2>b DEF OutcomeInv, RequestsSound, EarnedSuccess
      <3>2. QED
        BY <2>1, <2>b, <3>1 DEF OutcomeStep
    <2>3. CASE \E r \in RunId : Submit(c, r) \/ FinalizeUpload(c, r) \/ CreateRaises(c, r)
      BY <2>3, <2>a, <2>b DEF Submit, FinalizeUpload, CreateRaises
    <2>4. CASE CreateAttempt(c)
      BY <2>4, <2>b DEF CreateAttempt
    <2>5. CASE FailIngestion(c) \/ CancelQueued(c)
      <3>1. \A status \in {"failed", "cancelled"} :
               EarnedSuccess(client[c].run, Finish(client[c].snap, status, client[c].snap.stages))
        BY <2>1 DEF Finish, Run, EarnedSuccess
      <3>2. QED
        BY <2>1, <2>5, <3>1 DEF FailIngestion, CancelQueued, OutcomeStep
    <2>6. CASE \/ StoreInput(c) \/ EnqueueJob(c) \/ RequestCancel(c)
               \/ \E r \in RunId : LoadForCancel(c, r)
               \/ \E r, new \in RunId : LoadForRetry(c, r, new) \/ LoadForClone(c, r, new)
      BY <2>6 DEF StoreInput, EnqueueJob, RequestCancel, RequestCancellation, LoadForCancel,
                  LoadForRetry, LoadForClone, OutcomeStep
    <2>7. QED
      BY <1>4, <2>2, <2>3, <2>4, <2>5, <2>6 DEF ClientStep, ClientFault
  <1>5. ASSUME NEW r \in RunId, BrokerStep(r) PROVE OutcomeStep
    BY <1>5 DEF BrokerStep, AbandonedLockExpires, LoseLock, OutcomeStep
  <1>6. CASE UNCHANGED vars
    BY <1>6 DEF vars, OutcomeStep
  <1>7. QED
    BY <1>2, <1>3, <1>4, <1>5, <1>6 DEF Next

LEMMA SucceededStep == OutcomeInv /\ [Next]_vars => SucceededIsComplete'
  <1> SUFFICES ASSUME OutcomeInv, [Next]_vars, NEW r \in RunId, row'[r].status = "succeeded"
               PROVE  Published(r, object') /\ StagesComplete(row'[r])
    BY DEF SucceededIsComplete, Published, StagesComplete
  <1>a. row \in [RunId -> Run] /\ TypeInv
    BY DEF OutcomeInv, TypeInv, TypeOK, RepositoryTypeOK
  <1>1. Published(r, object) => Published(r, object')
    BY <1>a, ObjectStep DEF Published
  <1>2. CASE row'[r] = row[r]
    BY <1>1, <1>2 DEF OutcomeInv, SucceededIsComplete, Published, StagesComplete
  <1>3. CASE row'[r] # row[r]
    <2>1. PICK q \in RunId : \E run : EarnedSuccess(q, run) /\ (Save(q, run) \/ Create(q, run))
      BY <1>3, SuccessIsEarned DEF OutcomeStep
    <2>2. PICK run : EarnedSuccess(q, run) /\ (Save(q, run) \/ Create(q, run))
      BY <2>1
    <2>3. q = r /\ row'[r] = run
      BY <1>3, <1>a, <2>2 DEF Save, Create, Written
    <2>4. QED
      BY <1>1, <2>2, <2>3 DEF EarnedSuccess
  <1>4. QED
    BY <1>2, <1>3

----------------------------------------------------------------------------
(* The invariant and its consequences.                                       *)

LEMMA OutcomeInit == Init => OutcomeInv
  <1> SUFFICES ASSUME Init PROVE OutcomeInv
    OBVIOUS
  <1>1. TypeInv
    BY TypeInit
  <1>2. WorkersSound /\ RequestsSound
    BY DEF Init, WorkersSound, RequestsSound, Sound, Idle, NoRequest
  <1>3. SettledIsTerminal /\ SucceededIsComplete
    BY DEF Init, QueueInit, RepositoryInit, NoRun, SettledIsTerminal, SucceededIsComplete
  <1>4. FirstProducer
    BY DEF Init, FirstProducer
  <1>5. QED
    BY <1>1, <1>2, <1>3, <1>4 DEF OutcomeInv

LEMMA OutcomeInvariant == Spec => []OutcomeInv
  <1>1. OutcomeInv /\ [Next]_vars => OutcomeInv'
    BY TypeStep, WorkersStep, RequestsStep, SettledStep, ProducerStep, SucceededStep
    DEF OutcomeInv
  <1>2. QED
    BY <1>1, OutcomeInit, PTL DEF Spec

\* A job is settled only after its attempt is terminal, for any number of workers,
\* requests, deliveries and faults.
THEOREM SettledJobsAreTerminal == Spec => []SettledIsTerminal
  <1>1. OutcomeInv => SettledIsTerminal
    BY DEF OutcomeInv
  <1>2. QED
    BY <1>1, OutcomeInvariant, PTL

\* Concurrent executions of an attempt never mix their artifacts.
THEOREM OneProducer == Spec => []SingleProducer
  <1>1. OutcomeInv => SingleProducer
    BY DEF OutcomeInv, FirstProducer, SingleProducer
  <1>2. QED
    BY <1>1, OutcomeInvariant, PTL

\* A succeeded attempt has all its artifacts and all its required stages.
THEOREM SuccessIsComplete == Spec => []SucceededIsComplete
  <1>1. OutcomeInv => SucceededIsComplete
    BY DEF OutcomeInv
  <1>2. QED
    BY <1>1, OutcomeInvariant, PTL

----------------------------------------------------------------------------
(* Why executors fail.  While nothing has raised, an executor fails only on  *)
(* a terminal attempt, which its handler leaves alone, or on an artifact     *)
(* that is there already: its saves are otherwise accepted.                  *)

\* What excuses the failure of an executor.
Excused(r, rows, objects, why) ==
    why \/ IsTerminal(rows[r]) \/ \E a \in Artifact : objects[r][a] # 0

\* An executor works on a stored attempt, with a copy the attempt's row accepts.
Accountable(self, rows, objects, why) ==
    /\ self.pc \notin {"idle", "down"} => rows[self.run].status # "none"
    /\ self.pc \in {"checkQueued", "saveStart", "stage", "saveRunning", "work", "saveDone"}
         => SameProvenance(rows[self.run], self.local)
    /\ self.pc = "checkQueued" => self.local.status = "queued"
    /\ self.pc = "saveStart" => self.local.status \in {"running", "cancelled"}
    /\ self.pc \in {"stage", "saveRunning", "work", "saveDone"} => self.local.status = "running"
    /\ self.pc = "saveFinal" => self.local.status \in {"succeeded", "partial"}
    /\ self.pc = "saveCancelled" => self.local.status = "cancelled"
    /\ self.pc \in {"finish", "saveFinal", "fail", "saveFailed"}
         => Excused(self.run, rows, objects, why)

WorkersAccountable == \A w \in Worker : Accountable(worker[w], row, object, raised)

\* Where no send raises and nothing is copied, no request fails what it stored.
RequestsNeverFail ==
    \A c \in Client :
        /\ client[c].pc \notin {"create", "ingestFail"}
        /\ client[c].pc = "input" => client[c].source = client[c].run

FailureInv == SubmissionInv /\ WorkersAccountable /\ RequestsNeverFail /\ FailureNeedsPublication

\* What went before still excuses, and a row keeps its provenance.
LEMMA AccountableStays ==
    ASSUME SubmissionInv, [Next]_vars, raised => raised', NEW self, WorkerOK(self),
           Accountable(self, row, object, raised)
    PROVE  Accountable(self, row', object', raised')
  <1>a. TypeInv
    BY DEF SubmissionInv, LifecycleInv
  <1>1. CASE self.pc \in {"idle", "down"}
    BY <1>1 DEF Accountable
  <1>2. ASSUME NEW r \in RunId, r = self.run, row[r].status # "none"
        PROVE  Accountable(self, row', object', raised')
    <2>1. row'[r].status # "none" /\ SameProvenance(row[r], row'[r])
      BY <1>2, RowKept DEF Exists
    <2>2. IsTerminal(row[r]) => IsTerminal(row'[r])
      BY <1>a, TerminalStep
    <2>3. \A a \in Artifact : object[r][a] # 0 => object'[r][a] # 0
      BY <1>a, ObjectStep
    <2>4. Excused(r, row, object, raised) => Excused(r, row', object', raised')
      BY <2>2, <2>3 DEF Excused
    <2>5. SameProvenance(row[r], self.local) => SameProvenance(row'[r], self.local)
      BY <2>1 DEF SameProvenance
    <2>6. QED
      BY <1>2, <2>1, <2>4, <2>5 DEF Accountable
  <1>3. self.pc \notin {"idle", "down"} => self.run \in RunId /\ row[self.run].status # "none"
    BY DEF WorkerOK, Accountable
  <1>4. QED
    BY <1>1, <1>2, <1>3

\* Where an accountable worker goes.
LEMMA AccountableMoves ==
    ASSUME NEW self, self \in WorkerState, NEW rows, NEW objects, NEW why,
           Accountable(self, rows, objects, why), self.pc \notin {"idle", "down"}
    PROVE  /\ Accountable(Idle, rows, objects, why)
           /\ Accountable(Down, rows, objects, why)
           /\ Accountable(Cancelling(self), rows, objects, why)
           /\ Accountable(Completing(self), rows, objects, why)
           /\ \A status : Accountable(Returned(self, status), rows, objects, why)
           /\ Excused(self.run, rows, objects, why)
                => Accountable(Failing(self), rows, objects, why)
           /\ \A run, n : SameProvenance(rows[self.run], run) /\ run.status = "running"
                => Accountable(EnterStages(self, run, n), rows, objects, why)
  <1>1. Accountable(Idle, rows, objects, why) /\ Accountable(Down, rows, objects, why)
    BY DEF Accountable, Idle, Down
  <1>2. Accountable(Cancelling(self), rows, objects, why)
    BY DEF Accountable, Cancelling, Stopping, WorkerState
  <1>3. Accountable(Completing(self), rows, objects, why)
    BY DEF Accountable, Completing, Idle
  <1>4. Excused(self.run, rows, objects, why) => Accountable(Failing(self), rows, objects, why)
    BY DEF Accountable, Failing, Stopping, WorkerState
  <1>5. \A run, n : SameProvenance(rows[self.run], run) /\ run.status = "running"
                      => Accountable(EnterStages(self, run, n), rows, objects, why)
    BY DEF Accountable, EnterStages, WorkerState
  <1>6. QED
    BY <1>1, <1>2, <1>3, <1>4, <1>5 DEF Returned

\* When one worker moves to an accountable state, all workers are accountable.
LEMMA AccountableWorkers ==
    ASSUME SubmissionInv, WorkersAccountable, [Next]_vars, raised => raised',
           NEW w \in Worker, NEW state, Become(w, state),
           Accountable(state, row', object', raised')
    PROVE  WorkersAccountable'
  <1>1. worker \in [Worker -> WorkerState] /\ \A v \in Worker : WorkerOK(worker[v])
    BY DEF SubmissionInv, LifecycleInv, TypeInv, TypeOK
  <1>2. worker' = [worker EXCEPT ![w] = state]
    BY DEF Become
  <1>3. \A v \in Worker : Accountable(worker[v], row', object', raised')
    BY <1>1, AccountableStays DEF WorkersAccountable
  <1>4. \A v \in Worker : Accountable(worker'[v], row', object', raised')
    BY <1>1, <1>2, <1>3
  <1>5. QED
    BY <1>4 DEF WorkersAccountable

\* A save of a live copy of the run is rejected only by a terminal row.
LEMMA LiveSavesAccepted ==
    ASSUME NEW r \in RunId, NEW run, row[r] \in Run, row[r].status # "none",
           SameProvenance(row[r], run), run.status = "running", ~Accepts(r, run)
    PROVE  IsTerminal(row[r])
  BY DEF Run, Accepts, EnsureTransitionAllowed, AllowedStatusTransitions, AnalysisRunStatus,
         IsTerminal, TerminalStatus

\* A worker that saves its copy of the run.
LEMMA AccountablePersist ==
    ASSUME SubmissionInv, WorkersAccountable, [Next]_vars, raised => raised',
           NEW w \in Worker, NEW accepted, NEW rejected, Persist(w, accepted, rejected),
           Accountable(accepted, row', object', raised'),
           ~Accepts(worker[w].run, worker[w].local)
             => Accountable(rejected, row', object', raised')
    PROVE  WorkersAccountable'
  <1>1. \E state : Become(w, state) /\ Accountable(state, row', object', raised')
    BY DEF Persist
  <1>2. QED
    BY <1>1, AccountableWorkers

LEMMA AccountableClaims ==
    ASSUME SubmissionInv, WorkersAccountable, [Next]_vars, raised => raised', NEW w \in Worker
    PROVE  /\ \A r \in RunId : Receive(w, r) => WorkersAccountable'
           /\ \A r \in RunId : DeadLetterOverDelivered(w, r) => WorkersAccountable'
           /\ CheckExecutable(w) => WorkersAccountable'
           /\ Complete(w) => WorkersAccountable'
           /\ Restart(w) => WorkersAccountable'
           /\ Crash(w) => WorkersAccountable'
           /\ StepRaises(w) /\ raised' => WorkersAccountable'
  <1>0. PICK self \in WorkerState : self = worker[w]
    BY DEF SubmissionInv, LifecycleInv, TypeInv, TypeOK
  <1>a. WorkerOK(self) /\ Accountable(self, row', object', raised')
    BY <1>0, AccountableStays
    DEF SubmissionInv, LifecycleInv, TypeInv, WorkersAccountable
  <1>b. Accountable(Idle, row', object', raised') /\ Accountable(Down, row', object', raised')
    BY DEF Accountable, Idle, Down
  <1>1. ASSUME NEW r \in RunId, Receive(w, r) PROVE WorkersAccountable'
    <2>1. Exists(r) /\ row' = row
      BY <1>1 DEF Receive, Deliver, SubmissionInv, JobHasInput
    <2>2. Accountable(Claimed(r, message[r].deliveries + 1), row', object', raised')
      BY <2>1 DEF Accountable, Claimed, Idle, Exists
    <2>3. QED
      BY <1>1, <2>2, AccountableWorkers DEF Receive
  <1>2. ASSUME NEW r \in RunId, DeadLetterOverDelivered(w, r) PROVE WorkersAccountable'
    <2>1. worker' = worker
      BY <1>2 DEF DeadLetterOverDelivered
    <2>2. QED
      BY <2>1, AccountableStays
      DEF SubmissionInv, LifecycleInv, TypeInv, WorkersAccountable
  <1>3. ASSUME CheckExecutable(w) PROVE WorkersAccountable'
    <2>1. self.pc = "claimed"
      BY <1>0, <1>3 DEF CheckExecutable
    <2>2. Accountable([self EXCEPT !.pc = "load"], row', object', raised')
      BY <1>a, <2>1 DEF Accountable, WorkerState
    <2>3. Accountable(Completing(self), row', object', raised')
      BY <1>a, <2>1, AccountableMoves
    <2>4. \E state : Accountable(state, row', object', raised') /\ Become(w, state)
      BY <1>0, <1>3, <2>2, <2>3 DEF CheckExecutable
    <2>5. QED
      BY <2>4, AccountableWorkers
  <1>4. ASSUME Complete(w) PROVE WorkersAccountable'
    <2>1. \E state : Accountable(state, row', object', raised') /\ Become(w, state)
      BY <1>4, <1>b DEF Complete
    <2>2. QED
      BY <2>1, AccountableWorkers
  <1>5. ASSUME Restart(w) \/ Crash(w) PROVE WorkersAccountable'
    <2>1. \E state : Accountable(state, row', object', raised') /\ Become(w, state)
      BY <1>5, <1>b DEF Restart, Crash, Proceed
    <2>2. QED
      BY <2>1, AccountableWorkers
  <1>6. ASSUME StepRaises(w), raised' PROVE WorkersAccountable'
    <2>1. self.pc \notin {"idle", "down"} /\ Become(w, Failing(self))
      BY <1>0, <1>6 DEF StepRaises, Guarded, Proceed
    <2>2. Excused(self.run, row', object', raised')
      BY <1>6 DEF Excused
    <2>3. Accountable(Failing(self), row', object', raised')
      BY <1>a, <2>1, <2>2, AccountableMoves
    <2>4. QED
      BY <2>1, <2>3, AccountableWorkers
  <1>7. QED
    BY <1>1, <1>2, <1>3, <1>4, <1>5, <1>6

LEMMA AccountableStages ==
    ASSUME SubmissionInv, WorkersAccountable, [Next]_vars, raised => raised', NEW w \in Worker
    PROVE  /\ LoadRun(w) => WorkersAccountable'
           /\ CheckQueued(w) => WorkersAccountable'
           /\ SaveStart(w) => WorkersAccountable'
           /\ PassFinishedStage(w) => WorkersAccountable'
           /\ SkipOptional(w) => WorkersAccountable'
           /\ BeginStage(w) => WorkersAccountable'
           /\ SaveRunning(w) => WorkersAccountable'
           /\ EndStage(w) => WorkersAccountable'
           /\ SaveDone(w) => WorkersAccountable'
  <1>0. PICK self \in WorkerState : self = worker[w]
    BY DEF SubmissionInv, LifecycleInv, TypeInv, TypeOK
  <1>a. /\ WorkerOK(self) /\ Accountable(self, row', object', raised')
        /\ Accountable(self, row, object, raised)
    BY <1>0, AccountableStays
    DEF SubmissionInv, LifecycleInv, TypeInv, WorkersAccountable
  <1>b. Accountable(Idle, row', object', raised') /\ Accountable(Down, row', object', raised')
    BY DEF Accountable, Idle, Down
  <1>c. /\ self.local \in Run
        /\ self.pc \notin {"idle", "down"} =>
              self.run \in RunId /\ row[self.run] \in Run /\ row[self.run].status # "none"
    BY <1>a DEF WorkerState, WorkerOK, Accountable, SubmissionInv, LifecycleInv, TypeInv,
                TypeOK, RepositoryTypeOK
  <1>d. ASSUME NEW r \in RunId, IsTerminal(row[r]) PROVE Excused(r, row', object', raised')
    <2>1. IsTerminal(row'[r])
      BY <1>d, TerminalStep DEF SubmissionInv, LifecycleInv
    <2>2. QED
      BY <2>1 DEF Excused
  \* A rejected save of a live copy leads to an excused failure.
  <1>e. ASSUME self.pc \notin {"idle", "down"}, NEW run, SameProvenance(row[self.run], run),
               run.status = "running", ~Accepts(self.run, run)
        PROVE  Accountable(Failing(self), row', object', raised')
    BY <1>a, <1>c, <1>d, <1>e, LiveSavesAccepted, AccountableMoves
  <1>1. ASSUME LoadRun(w) PROVE WorkersAccountable'
    <2>1. PICK run \in Run : run = row[self.run]
      BY <1>0, <1>c, <1>1 DEF LoadRun
    <2>2. self.pc = "load" /\ row' = row
      BY <1>0, <1>1 DEF LoadRun, Proceed
    <2>3. SameProvenance(row'[self.run], run) /\ run.status # "none"
      BY <1>c, <2>1, <2>2 DEF SameProvenance
    <2>4. Accountable(Returned(self, run.status), row', object', raised')
      BY <1>a, <2>2, AccountableMoves
    <2>5. run.status = "queued" =>
             Accountable([self EXCEPT !.pc = "checkQueued", !.local = run],
                         row', object', raised')
      BY <1>a, <2>2, <2>3 DEF Accountable, WorkerState
    <2>6. run.status = "running" => Accountable(EnterStages(self, run, 1), row', object', raised')
      BY <1>a, <2>2, <2>3, AccountableMoves
    <2>7. IsTerminal(run) \/ run.status \in {"queued", "running"}
      BY <2>3 DEF Run, AnalysisRunStatus, IsTerminal, TerminalStatus
    <2>8. \E state : Accountable(state, row', object', raised') /\ Become(w, state)
      BY <1>0, <1>1, <2>1, <2>4, <2>5, <2>6, <2>7 DEF LoadRun, Proceed
    <2>9. QED
      BY <2>8, AccountableWorkers
  <1>2. ASSUME CheckQueued(w) PROVE WorkersAccountable'
    <2>1. self.pc = "checkQueued"
      BY <1>0, <1>2 DEF CheckQueued
    <2>2. ASSUME NEW next, SameProvenance(self.local, next),
                 next.status \in {"running", "cancelled"}
          PROVE  Accountable([self EXCEPT !.pc = "saveStart", !.local = next],
                             row', object', raised')
      BY <1>a, <2>1, <2>2 DEF Accountable, WorkerState, SameProvenance
    <2>3. /\ SameProvenance(self.local, Start(self.local))
          /\ Start(self.local).status = "running"
      BY <1>c DEF Start, Run, SameProvenance
    <2>4. /\ SameProvenance(self.local, Finish(self.local, "cancelled", self.local.stages))
          /\ Finish(self.local, "cancelled", self.local.stages).status = "cancelled"
      BY <1>c DEF Finish, Run, SameProvenance
    <2>5. \E state : Accountable(state, row', object', raised') /\ Become(w, state)
      BY <1>0, <1>2, <2>2, <2>3, <2>4 DEF CheckQueued, Proceed
    <2>6. QED
      BY <2>5, AccountableWorkers
  <1>3. ASSUME SaveStart(w) PROVE WorkersAccountable'
    <2>1. self.pc = "saveStart"
      BY <1>0, <1>3 DEF SaveStart
    <2>2. /\ SameProvenance(row'[self.run], self.local)
          /\ self.local.status \in {"running", "cancelled"}
      BY <1>a, <2>1 DEF Accountable
    <2>3. self.local.status = "running"
             => Accountable(EnterStages(self, self.local, 1), row', object', raised')
      BY <1>a, <2>1, <2>2, AccountableMoves
    <2>4. \E accepted : Accountable(accepted, row', object', raised')
                        /\ Persist(w, accepted, Down)
      BY <1>0, <1>b, <1>3, <2>2, <2>3 DEF SaveStart
    <2>5. QED
      BY <1>b, <2>4, AccountablePersist
  <1>4. ASSUME PassFinishedStage(w) PROVE WorkersAccountable'
    <2>1. self.pc = "stage" /\ Become(w, [self EXCEPT !.index = @ + 1])
      BY <1>0, <1>4 DEF PassFinishedStage, AtStage, Proceed
    <2>2. Accountable([self EXCEPT !.index = @ + 1], row', object', raised')
      BY <1>a, <2>1 DEF Accountable, WorkerState
    <2>3. QED
      BY <2>1, <2>2, AccountableWorkers
  <1>5. ASSUME SkipOptional(w) PROVE WorkersAccountable'
    <2>1. self.pc = "stage"
      BY <1>0, <1>5 DEF SkipOptional, Pending, AtStage
    <2>2. PICK skipped : skipped = WithStage(self.local, self.index, "skipped")
      OBVIOUS
    <2>3. SameProvenance(self.local, skipped) /\ skipped.status = self.local.status
      BY <1>c, <2>2 DEF WithStage, Run, SameProvenance
    <2>4. /\ skipped.status = "running" /\ SameProvenance(row[self.run], skipped)
          /\ SameProvenance(row'[self.run], skipped)
      BY <1>a, <2>1, <2>3 DEF Accountable, SameProvenance
    <2>5. Accountable(EnterStages(self, skipped, self.index + 1), row', object', raised')
      BY <1>a, <2>1, <2>4, AccountableMoves
    <2>6. ~Accepts(self.run, skipped) => Accountable(Failing(self), row', object', raised')
      BY <1>e, <2>1, <2>4
    <2>7. Become(w, IF Accepts(self.run, skipped)
                    THEN EnterStages(self, skipped, self.index + 1) ELSE Failing(self))
      BY <1>0, <1>5, <2>2 DEF SkipOptional
    <2>8. \E state : Accountable(state, row', object', raised') /\ Become(w, state)
      BY <2>5, <2>6, <2>7
    <2>9. QED
      BY <2>8, AccountableWorkers
  <1>6. ASSUME BeginStage(w) PROVE WorkersAccountable'
    <2>1. self.pc = "stage"
      BY <1>0, <1>6 DEF BeginStage, Pending, AtStage
    <2>2. PICK running : running = WithStage(self.local, self.index, "running")
      OBVIOUS
    <2>3. SameProvenance(self.local, running) /\ running.status = self.local.status
      BY <1>c, <2>2 DEF WithStage, Run, SameProvenance
    <2>4. Accountable([self EXCEPT !.pc = "saveRunning", !.local = running],
                      row', object', raised')
      BY <1>a, <2>1, <2>3 DEF Accountable, WorkerState, SameProvenance
    <2>5. Accountable(Cancelling(self), row', object', raised')
      BY <1>a, <2>1, AccountableMoves
    <2>6. \/ Become(w, Cancelling(self))
          \/ Become(w, [self EXCEPT !.pc = "saveRunning", !.local = running])
      BY <1>0, <1>6, <2>2 DEF BeginStage, Proceed
    <2>7. QED
      BY <2>4, <2>5, <2>6, AccountableWorkers
  <1>7. ASSUME SaveRunning(w) PROVE WorkersAccountable'
    <2>1. self.pc = "saveRunning" /\ Persist(w, [self EXCEPT !.pc = "work"], Failing(self))
      BY <1>0, <1>7 DEF SaveRunning
    <2>2. Accountable([self EXCEPT !.pc = "work"], row', object', raised')
      BY <1>a, <2>1 DEF Accountable, WorkerState
    <2>3. SameProvenance(row[self.run], self.local) /\ self.local.status = "running"
      BY <1>a, <2>1 DEF Accountable
    <2>4. ~Accepts(self.run, self.local) => Accountable(Failing(self), row', object', raised')
      BY <1>e, <2>1, <2>3
    <2>5. QED
      BY <1>0, <2>1, <2>2, <2>4, AccountablePersist
  <1>8. ASSUME EndStage(w) PROVE WorkersAccountable'
    <2>1. self.pc = "work"
      BY <1>0, <1>8 DEF EndStage
    <2>2. PICK done : done = WithStage(self.local, self.index, "succeeded")
      OBVIOUS
    <2>3. PICK built : built = IF self.index = Detection THEN "built" ELSE self.payloads
      OBVIOUS
    <2>4. SameProvenance(self.local, done) /\ done.status = self.local.status
      BY <1>c, <2>2 DEF WithStage, Run, SameProvenance
    <2>5. Accountable([self EXCEPT !.pc = "saveDone", !.payloads = built, !.local = done],
                      row', object', raised')
      BY <1>a, <2>1, <2>4 DEF Accountable, WorkerState, SameProvenance
    <2>6. Accountable(Cancelling(self), row', object', raised')
      BY <1>a, <2>1, AccountableMoves
    <2>7. \/ Become(w, Cancelling(self))
          \/ Become(w, [self EXCEPT !.pc = "saveDone", !.payloads = built, !.local = done])
      BY <1>0, <1>8, <2>2, <2>3 DEF EndStage, Proceed
    <2>8. QED
      BY <2>5, <2>6, <2>7, AccountableWorkers
  <1>9. ASSUME SaveDone(w) PROVE WorkersAccountable'
    <2>1. /\ self.pc = "saveDone"
          /\ Persist(w, EnterStages(self, self.local, self.index + 1), Failing(self))
      BY <1>0, <1>9 DEF SaveDone
    <2>2. /\ SameProvenance(row[self.run], self.local) /\ self.local.status = "running"
          /\ SameProvenance(row'[self.run], self.local)
      BY <1>a, <2>1 DEF Accountable
    <2>3. Accountable(EnterStages(self, self.local, self.index + 1), row', object', raised')
      BY <1>a, <2>1, <2>2, AccountableMoves
    <2>4. ~Accepts(self.run, self.local) => Accountable(Failing(self), row', object', raised')
      BY <1>e, <2>1, <2>2
    <2>5. QED
      BY <1>0, <2>1, <2>3, <2>4, AccountablePersist
  <1>10. QED
    BY <1>1, <1>2, <1>3, <1>4, <1>5, <1>6, <1>7, <1>8, <1>9

LEMMA AccountableFinish ==
    ASSUME SubmissionInv, WorkersAccountable, [Next]_vars, raised => raised', NEW w \in Worker
    PROVE  /\ CancelRebuild(w) => WorkersAccountable'
           /\ PublishArtifact(w) => WorkersAccountable'
           /\ VerifyArtifacts(w) => WorkersAccountable'
           /\ \A partial \in BOOLEAN : FinishRun(w, partial) => WorkersAccountable'
           /\ SaveFinal(w) => WorkersAccountable'
           /\ HandleCancellation(w) => WorkersAccountable'
           /\ SaveCancelled(w) => WorkersAccountable'
           /\ HandleFailure(w) => WorkersAccountable'
           /\ SaveFailed(w) => WorkersAccountable'
  <1>0. PICK self \in WorkerState : self = worker[w]
    BY DEF SubmissionInv, LifecycleInv, TypeInv, TypeOK
  <1>a. /\ WorkerOK(self) /\ Accountable(self, row', object', raised')
        /\ Accountable(self, row, object, raised)
    BY <1>0, AccountableStays
    DEF SubmissionInv, LifecycleInv, TypeInv, WorkersAccountable
  <1>b. Accountable(Idle, row', object', raised') /\ Accountable(Down, row', object', raised')
    BY DEF Accountable, Idle, Down
  <1>c. self.pc \notin {"idle", "down"} => self.run \in RunId /\ row[self.run] \in Run
    BY <1>a DEF WorkerOK, SubmissionInv, LifecycleInv, TypeInv, TypeOK, RepositoryTypeOK
  <1>d. \A r \in RunId, a \in Artifact : object[r][a] # 0 => object'[r][a] # 0
    BY ObjectStep DEF SubmissionInv, LifecycleInv
  <1>1. ASSUME CancelRebuild(w) PROVE WorkersAccountable'
    <2>1. self.pc = "stage" /\ Become(w, Cancelling(self))
      BY <1>0, <1>1 DEF CancelRebuild, AllStagesDone, Proceed
    <2>2. QED
      BY <1>a, <2>1, AccountableMoves, AccountableWorkers
  <1>2. ASSUME PublishArtifact(w) PROVE WorkersAccountable'
    <2>1. /\ self.pc = "stage" /\ self.artifact \in Artifact /\ self.run \in RunId
      BY <1>0, <1>c, <1>2 DEF PublishArtifact, AllStagesDone, Artifact, WorkerState
    <2>2. CASE Occupied(self.run, self.artifact)
      <3>1. Excused(self.run, row', object', raised')
        BY <1>d, <2>1, <2>2 DEF Occupied, Excused
      <3>2. Become(w, Failing(self))
        BY <1>0, <1>2, <2>2 DEF PublishArtifact
      <3>3. QED
        BY <1>a, <2>1, <3>1, <3>2, AccountableMoves, AccountableWorkers
    <2>3. CASE ~Occupied(self.run, self.artifact)
      <3>1. Become(w, [self EXCEPT !.artifact = @ + 1])
        BY <1>0, <1>2, <2>3 DEF PublishArtifact
      <3>2. Accountable([self EXCEPT !.artifact = @ + 1], row', object', raised')
        BY <1>a, <2>1 DEF Accountable, WorkerState
      <3>3. QED
        BY <3>1, <3>2, AccountableWorkers
    <2>4. QED
      BY <2>2, <2>3
  <1>3. ASSUME VerifyArtifacts(w) PROVE WorkersAccountable'
    <2>1. self.pc = "stage" /\ \A a \in Artifact : object[self.run][a] # 0
      BY <1>0, <1>3 DEF VerifyArtifacts, AllStagesDone, Intact
    <2>2. Excused(self.run, row', object', raised')
      <3>1. 1 \in Artifact /\ self.run \in RunId
        BY <1>c, <2>1, ArtifactsAssumption DEF Artifact
      <3>2. QED
        BY <1>d, <2>1, <3>1 DEF Excused
    <2>3. Accountable([self EXCEPT !.pc = "finish", !.local = NoRun, !.payloads = "none"],
                      row', object', raised')
      BY <1>a, <2>1, <2>2 DEF Accountable, WorkerState
    <2>4. QED
      BY <1>0, <1>3, <2>3, AccountableWorkers DEF VerifyArtifacts, Proceed
  <1>4. ASSUME NEW partial \in BOOLEAN, FinishRun(w, partial) PROVE WorkersAccountable'
    <2>1. self.pc = "finish" /\ Excused(self.run, row', object', raised')
      BY <1>0, <1>a, <1>4 DEF FinishRun, Accountable
    <2>2. PICK updated : updated = Completed(row[self.run], partial)
      OBVIOUS
    <2>3. updated.status \in {"succeeded", "partial"}
      BY <1>c, <2>1, <2>2 DEF Completed, Finish, Run
    <2>4. Accountable([self EXCEPT !.pc = "saveFinal", !.local = updated],
                      row', object', raised')
      BY <1>a, <2>1, <2>3 DEF Accountable, WorkerState
    <2>5. Accountable(Failing(self), row', object', raised')
      BY <1>a, <2>1, AccountableMoves
    <2>6. \/ Become(w, [self EXCEPT !.pc = "saveFinal", !.local = updated])
          \/ Become(w, Failing(self))
      BY <1>0, <1>4, <2>2 DEF FinishRun, Proceed
    <2>7. QED
      BY <2>4, <2>5, <2>6, AccountableWorkers
  <1>5. ASSUME SaveFinal(w) PROVE WorkersAccountable'
    <2>1. self.pc = "saveFinal" /\ Persist(w, Completing(self), Failing(self))
      BY <1>0, <1>5 DEF SaveFinal
    <2>2. Excused(self.run, row', object', raised')
      BY <1>a, <2>1 DEF Accountable
    <2>3. /\ Accountable(Completing(self), row', object', raised')
          /\ Accountable(Failing(self), row', object', raised')
      BY <1>a, <2>1, <2>2, AccountableMoves
    <2>4. QED
      BY <2>1, <2>3, AccountablePersist
  <1>6. ASSUME HandleCancellation(w) PROVE WorkersAccountable'
    <2>1. self.pc = "cancel"
      BY <1>0, <1>6 DEF HandleCancellation
    <2>2. PICK updated : updated = Finish(row[self.run], "cancelled",
                                          Stopped(row[self.run], ActiveStage(self), "cancelled"))
      OBVIOUS
    <2>3. updated.status = "cancelled"
      BY <1>c, <2>1, <2>2 DEF Finish, Run
    <2>4. Accountable([self EXCEPT !.pc = "saveCancelled", !.local = updated],
                      row', object', raised')
      BY <1>a, <2>1, <2>3 DEF Accountable, WorkerState
    <2>5. \/ Become(w, [self EXCEPT !.pc = "saveCancelled", !.local = updated])
          \/ Become(w, Down)
      BY <1>0, <1>6, <2>2 DEF HandleCancellation, Proceed
    <2>6. QED
      BY <1>b, <2>4, <2>5, AccountableWorkers
  <1>7. ASSUME SaveCancelled(w) PROVE WorkersAccountable'
    BY <1>b, <1>7, AccountablePersist DEF SaveCancelled
  <1>8. ASSUME HandleFailure(w) PROVE WorkersAccountable'
    <2>1. self.pc = "fail"
      BY <1>0, <1>8 DEF HandleFailure
    <2>2. ASSUME NEW updated
          PROVE  Accountable([self EXCEPT !.pc = "saveFailed", !.local = updated],
                             row', object', raised')
      BY <1>a, <2>1 DEF Accountable, WorkerState
    <2>3. Accountable(Returned(self, row[self.run].status), row', object', raised')
      BY <1>a, <2>1, AccountableMoves
    <2>4. \E state : Accountable(state, row', object', raised') /\ Become(w, state)
      BY <1>0, <1>b, <1>8, <2>2, <2>3 DEF HandleFailure, Proceed
    <2>5. QED
      BY <2>4, AccountableWorkers
  <1>9. ASSUME SaveFailed(w) PROVE WorkersAccountable'
    <2>1. self.pc = "saveFailed" /\ Persist(w, Completing(self), Down)
      BY <1>0, <1>9 DEF SaveFailed
    <2>2. Accountable(Completing(self), row', object', raised')
      BY <1>a, <2>1, AccountableMoves
    <2>3. QED
      BY <1>b, <2>1, <2>2, AccountablePersist
  <1>10. QED
    BY <1>1, <1>2, <1>3, <1>4, <1>5, <1>6, <1>7, <1>8, <1>9

LEMMA AccountableStep ==
    ASSUME SubmissionInv, WorkersAccountable, [HistoryNext]_historyVars
    PROVE  WorkersAccountable' /\ [Next]_vars /\ (raised => raised')
  <1>1. [Next]_vars /\ (raised => raised')
    BY DEF HistoryNext, historyVars, QuietStep, Next, WorkerFault
  <1>2. CASE UNCHANGED worker
    <2>1. \A w \in Worker : WorkerOK(worker[w])
      BY DEF SubmissionInv, LifecycleInv, TypeInv
    <2>2. QED
      BY <1>1, <1>2, <2>1, AccountableStays DEF WorkersAccountable
  <1>3. ASSUME NEW c \in Client, ClientStep(c) \/ ClientFault(c) PROVE UNCHANGED worker
    BY <1>3 DEF ClientStep, ClientFault, Submit, FinalizeUpload, LoadForRetry, LoadForClone,
                CreateAttempt, StoreInput, EnqueueJob, FailIngestion, LoadForCancel,
                CancelQueued, RequestCancel, IngestionRaises, DirectEnqueueRaises, RequestDies,
                StoreRaises, CreateRaises
  <1>4. ASSUME NEW r \in RunId, BrokerStep(r) PROVE UNCHANGED worker
    BY <1>4 DEF BrokerStep, AbandonedLockExpires, LoseLock
  <1>5. ASSUME NEW w \in Worker, WorkerStep(w) PROVE WorkersAccountable'
    BY <1>1, <1>5, AccountableClaims, AccountableStages, AccountableFinish
    DEF WorkerStep, ExecutorStep
  <1>6. ASSUME NEW w \in Worker, Crash(w) \/ (StepRaises(w) /\ raised') PROVE WorkersAccountable'
    BY <1>1, <1>6, AccountableClaims
  <1>7. QED
    BY <1>1, <1>2, <1>3, <1>4, <1>5, <1>6 DEF HistoryNext, historyVars, QuietStep, vars

\* Requests that only create, finalize and cancel, and whose sends do not raise.
PlainRequests == "send" \notin Faults /\ Endpoints \cap {"retry", "clone"} = {}

LEMMA RequestsNeverFailStep ==
    ASSUME PlainRequests, TypeInv, RequestsNeverFail, [Next]_vars
    PROVE  RequestsNeverFail'
  <1>a. client \in [Client -> ClientState]
    BY DEF TypeInv, TypeOK
  <1>1. CASE UNCHANGED client
    BY <1>1 DEF RequestsNeverFail
  <1>2. ASSUME NEW c \in Client, NEW state, Request(c, state),
               state.pc \notin {"create", "ingestFail"},
               state.pc = "input" => state.source = state.run
        PROVE  RequestsNeverFail'
    BY <1>a, <1>2 DEF Request, RequestsNeverFail
  <1>3. ASSUME NEW c \in Client, ClientStep(c) \/ ClientFault(c) PROVE RequestsNeverFail'
    <2>0. PICK self \in ClientState : self = client[c]
      BY <1>a
    <2>1. CASE \E r \in RunId : \/ Submit(c, r) \/ FinalizeUpload(c, r)
                               \/ LoadForCancel(c, r) \/ CreateRaises(c, r)
      BY <1>2, <2>1 DEF Submit, FinalizeUpload, LoadForCancel, CreateRaises, NoRequest
    <2>2. CASE StoreInput(c)
      <3>1. self.source = self.run /\ self.pc = "input"
        BY <2>0, <2>2 DEF StoreInput, RequestsNeverFail
      <3>2. Request(c, [self EXCEPT !.pc = "enqueue"])
        BY <2>0, <2>2, <3>1 DEF StoreInput
      <3>3. [self EXCEPT !.pc = "enqueue"].pc = "enqueue"
        BY DEF ClientState
      <3>4. QED
        BY <1>2, <3>2, <3>3
    <2>3. CASE \/ EnqueueJob(c) \/ FailIngestion(c) \/ CancelQueued(c) \/ RequestCancel(c)
               \/ DirectEnqueueRaises(c) \/ RequestDies(c) \/ StoreRaises(c)
      BY <1>2, <2>3 DEF EnqueueJob, FailIngestion, CancelQueued, RequestCancel,
                        DirectEnqueueRaises, RequestDies, StoreRaises, NoRequest
    <2>4. /\ ~CreateAttempt(c) /\ ~IngestionRaises(c)
          /\ \A r, new \in RunId : ~LoadForRetry(c, r, new) /\ ~LoadForClone(c, r, new)
      BY DEF PlainRequests, RequestsNeverFail, CreateAttempt, IngestionRaises, LoadForRetry,
             LoadForClone
    <2>5. QED
      BY <1>3, <2>1, <2>2, <2>3, <2>4 DEF ClientStep, ClientFault
  <1>4. CASE \/ \E w \in Worker : WorkerStep(w) \/ WorkerFault(w)
             \/ \E r \in RunId  : BrokerStep(r)
             \/ UNCHANGED vars
    BY <1>1, <1>4, OthersStep
  <1>5. QED
    BY <1>3, <1>4 DEF Next

\* A row becomes failed by the save of an executor alone.
LEMMA FailuresAreSaved ==
    ASSUME SubmissionInv, WorkersAccountable, RequestsNeverFail, [Next]_vars,
           NEW r \in RunId, row'[r].status = "failed", row[r].status # "failed"
    PROVE  \E w \in Worker : /\ worker[w].pc = "saveFailed" /\ worker[w].run = r
                             /\ ~IsTerminal(row[r])
  <1>a. row \in [RunId -> Run] /\ TypeInv
    BY DEF SubmissionInv, LifecycleInv, TypeInv, TypeOK, RepositoryTypeOK
  <1>1. ASSUME NEW q \in RunId, NEW run, Save(q, run)
        PROVE  q = r /\ run.status = "failed" /\ ~IsTerminal(row[r])
    BY <1>a, <1>1 DEF Save, Accepts, EnsureTransitionAllowed, Written
  <1>2. ASSUME NEW c \in Client, ClientStep(c) \/ ClientFault(c) PROVE FALSE
    <2>0. PICK self \in ClientState : self = client[c]
      BY <1>a DEF TypeInv, TypeOK
    <2>a. self.pc # "idle" => self.run \in RunId
      BY <1>a, <2>0 DEF TypeInv, ClientOK
    <2>1. CASE CancelQueued(c)
      <3>1. Finish(self.snap, "cancelled", self.snap.stages).status = "cancelled"
        BY DEF ClientState, Finish, Run
      <3>2. self.run \in RunId /\ Save(self.run, Finish(self.snap, "cancelled", self.snap.stages))
        BY <2>0, <2>a, <2>1 DEF CancelQueued
      <3>3. QED
        BY <1>1, <3>1, <3>2
    <2>2. ASSUME NEW q \in RunId, Submit(c, q) \/ FinalizeUpload(c, q) \/ CreateRaises(c, q)
          PROVE  FALSE
      BY <1>a, <2>2 DEF Submit, FinalizeUpload, CreateRaises, Create, Written, New,
                        RequestsNeverFail
    <2>3. ~CreateAttempt(c) /\ ~FailIngestion(c)
      BY DEF RequestsNeverFail, CreateAttempt, FailIngestion
    <2>4. QED
      BY <1>2, <2>1, <2>2, <2>3
      DEF ClientStep, ClientFault, LoadForCancel, LoadForRetry, LoadForClone, StoreInput,
          EnqueueJob, RequestCancel, RequestCancellation, IngestionRaises,
          DirectEnqueueRaises, RequestDies, StoreRaises
  <1>3. ASSUME NEW w \in Worker, WorkerStep(w) \/ WorkerFault(w)
        PROVE  worker[w].pc = "saveFailed" /\ worker[w].run = r /\ ~IsTerminal(row[r])
    <2>0. PICK self \in WorkerState : self = worker[w]
      BY <1>a DEF TypeInv, TypeOK
    <2>a. /\ self.pc \notin {"idle", "down"} => self.run \in RunId
          /\ Accountable(self, row, object, raised)
      BY <1>a, <2>0 DEF TypeInv, WorkerOK, WorkersAccountable
    <2>1. CASE SkipOptional(w)
      <3>1. self.pc = "stage" /\ self.local.status = "running"
        BY <2>0, <2>a, <2>1 DEF SkipOptional, Pending, AtStage, Accountable
      <3>2. WithStage(self.local, self.index, "skipped").status = "running"
        BY <3>1 DEF WithStage, WorkerState, Run
      <3>3. self.run \in RunId /\ Save(self.run, WithStage(self.local, self.index, "skipped"))
        BY <2>0, <2>a, <2>1, <3>1 DEF SkipOptional
      <3>4. QED
        BY <1>1, <3>2, <3>3
    <2>2. CASE \/ SaveStart(w) \/ SaveRunning(w) \/ SaveDone(w) \/ SaveFinal(w)
               \/ SaveCancelled(w) \/ SaveFailed(w)
      <3>1. /\ self.pc \in {"saveStart", "saveRunning", "saveDone", "saveFinal",
                            "saveCancelled", "saveFailed"}
            /\ Save(self.run, self.local)
        BY <2>0, <2>2 DEF SaveStart, SaveRunning, SaveDone, SaveFinal, SaveCancelled,
                          SaveFailed, Persist
      <3>2. self.run = r /\ self.local.status = "failed" /\ ~IsTerminal(row[r])
        BY <1>1, <2>a, <3>1
      <3>3. QED
        BY <2>0, <2>a, <3>1, <3>2 DEF Accountable
    <2>3. CASE UNCHANGED row
      BY <2>3
    <2>4. QED
      BY <1>3, <2>1, <2>2, <2>3
      DEF WorkerStep, ExecutorStep, WorkerFault, Receive, DeadLetterOverDelivered,
          CheckExecutable, Complete, LoadRun, CheckQueued, PassFinishedStage, BeginStage,
          EndStage, CancelRebuild, PublishArtifact, VerifyArtifacts, FinishRun,
          HandleCancellation, HandleFailure, StepRaises, Crash, Restart, Proceed
  <1>4. ASSUME NEW q \in RunId, BrokerStep(q) PROVE FALSE
    BY <1>4 DEF BrokerStep, AbandonedLockExpires, LoseLock
  <1>5. QED
    BY <1>2, <1>3, <1>4 DEF Next, vars

LEMMA FailureStep ==
    ASSUME PlainRequests, FailureInv, [HistoryNext]_historyVars
    PROVE  FailureInv'
  <1>1. /\ SubmissionInv /\ TypeInv /\ WorkersAccountable /\ RequestsNeverFail
        /\ FailureNeedsPublication
    BY DEF FailureInv, SubmissionInv, LifecycleInv
  <1>2. WorkersAccountable' /\ [Next]_vars /\ (raised => raised')
    BY <1>1, AccountableStep
  <1>3. SubmissionInv' /\ RequestsNeverFail'
    BY <1>1, <1>2, SubmissionStep, RequestsNeverFailStep
  <1>4. ASSUME NEW r \in RunId, row'[r].status = "failed"
        PROVE  raised' \/ \E a \in Artifact : object'[r][a] # 0
    <2>1. raised \/ \E a \in Artifact : object[r][a] # 0
      <3>1. CASE row[r].status = "failed"
        BY <1>1, <3>1 DEF FailureNeedsPublication
      <3>2. CASE row[r].status # "failed"
        <4>1. PICK w \in Worker : /\ worker[w].pc = "saveFailed" /\ worker[w].run = r
                                  /\ ~IsTerminal(row[r])
          BY <1>1, <1>2, <1>4, <3>2, FailuresAreSaved
        <4>2. QED
          BY <1>1, <4>1 DEF WorkersAccountable, Accountable, Excused
      <3>3. QED
        BY <3>1, <3>2
    <2>2. QED
      BY <1>1, <1>2, <2>1, ObjectStep
  <1>5. FailureNeedsPublication'
    BY <1>4 DEF FailureNeedsPublication
  <1>6. QED
    BY <1>2, <1>3, <1>5 DEF FailureInv

\* While nothing has raised, only an execution that had begun to publish can make a later
\* one fail its attempt: crashes, lost locks and redeliveries before that are harmless,
\* for any number of workers, stages and deliveries.  Requests that retry or clone are
\* left out, because copying an input that is not there fails the attempt at once.
THEOREM FailuresFollowPublication ==
    ASSUME PlainRequests
    PROVE  HistorySpec => []FailureNeedsPublication
  <1>1. HistoryInit => FailureInv
    <2> SUFFICES ASSUME HistoryInit PROVE FailureInv
      OBVIOUS
    <2>1. SubmissionInv
      BY SubmissionInit DEF HistoryInit
    <2>2. WorkersAccountable /\ RequestsNeverFail
      BY DEF HistoryInit, Init, WorkersAccountable, Accountable, RequestsNeverFail, Idle,
             NoRequest
    <2>3. FailureNeedsPublication
      BY DEF HistoryInit, Init, RepositoryInit, NoRun, FailureNeedsPublication
    <2>4. QED
      BY <2>1, <2>2, <2>3 DEF FailureInv
  <1>2. FailureInv /\ [HistoryNext]_historyVars => FailureInv'
    BY FailureStep
  <1>3. FailureInv => FailureNeedsPublication
    BY DEF FailureInv
  <1>4. QED
    BY <1>1, <1>2, <1>3, PTL DEF HistorySpec

----------------------------------------------------------------------------
(* Early cancellation.  As long as no two executors met on an attempt, the   *)
(* one that works on it knows its last stage as the row has it; and once a   *)
(* cancellation is requested before that stage, nobody gets past it.         *)

Last(run) == run.stages[NumStages]

Over == {"succeeded", "skipped"}

\* What an executor's own state says of the last stage.
LastOK(self) ==
    /\ self.pc = "stage" /\ self.index > NumStages => Last(self.local) \in Over
    /\ self.pc = "saveRunning" /\ self.index = NumStages => Last(self.local) = "running"
    /\ self.pc = "saveDone" /\ self.index = NumStages => Last(self.local) = "succeeded"
    /\ self.pc = "saveFailed" => self.local.status = "failed"

\* The executor and the row agree on the last stage, unless the attempt is terminal.
InStep(self, stored) ==
    \/ IsTerminal(stored)
    \/ /\ self.pc \in {"checkQueued", "saveStart", "stage"} => Last(stored) = Last(self.local)
       /\ self.pc \in {"saveRunning", "work", "saveDone"} /\ self.index # NumStages
             => Last(stored) = Last(self.local)
       /\ self.pc \in {"work", "saveDone"} /\ self.index = NumStages => Last(stored) = "running"
       /\ self.pc \in {"finish", "saveFinal"} => Last(stored) \in Over

ExecutorsInStep ==
    ~overlapped => /\ ~Overlap
                   /\ \A w \in Worker : worker[w].pc \notin {"idle", "down"}
                                          => InStep(worker[w], row[worker[w].run])

\* An executor that will not get past the last stage.
Barred(self) ==
    /\ self.pc \notin {"finish", "saveFinal"}
    /\ self.pc \in {"checkQueued", "saveStart", "stage", "saveRunning", "work", "saveDone"}
         => Last(self.local) \notin Over
    /\ self.pc = "stage" => self.index <= NumStages
    /\ self.pc = "saveDone" => self.index < NumStages

\* An attempt that can no longer succeed or end partial.
RowDoomed(stored) ==
    /\ stored.status \notin {"none", "succeeded", "partial"}
    /\ IsTerminal(stored) \/ Last(stored) \notin Over

Doomed(r) ==
    /\ cancelRequested[r]
    /\ RowDoomed(row[r])
    /\ \A w \in Worker : worker[w].pc \notin {"idle", "down"} /\ worker[w].run = r
                           => Barred(worker[w])

EarlyInv ==
    /\ SubmissionInv
    /\ WorkersAccountable
    /\ \A w \in Worker : LastOK(worker[w])
    /\ ExecutorsInStep

LastRequired == NumStages \notin Optional

\* What an executor's step does to its state and to the row of its attempt.
Careful(self, next, stored, after, requested) ==
    /\ LastOK(next)
    /\ next.pc \notin {"idle", "down"} => next.run = self.run
    /\ next.pc \notin {"idle", "down"} /\ InStep(self, stored) => InStep(next, after)
    /\ RowDoomed(stored) /\ Barred(self) /\ requested => RowDoomed(after) /\ Barred(next)

\* A row that an executor's step leaves alone, and states that say nothing of it.
LEMMA CarefulAside ==
    ASSUME NEW self, NEW next, NEW stored, NEW requested,
           next.pc \in {"idle", "down", "claimed", "load", "cancel", "fail", "complete"},
           next.pc \notin {"idle", "down"} => next.run = self.run
    PROVE  Careful(self, next, stored, stored, requested)
  BY DEF Careful, LastOK, InStep, Barred

LEMMA CarefulPcs ==
    ASSUME NEW self \in WorkerState
    PROVE  /\ Idle.pc = "idle" /\ Down.pc = "down"
           /\ Failing(self).pc = "fail" /\ Failing(self).run = self.run
           /\ Cancelling(self).pc = "cancel" /\ Cancelling(self).run = self.run
           /\ Completing(self).pc = "complete" /\ Completing(self).run = self.run
           /\ \A status : \/ Returned(self, status).pc = "idle"
                          \/ Returned(self, status).pc = "complete"
                             /\ Returned(self, status).run = self.run
  BY DEF Idle, Down, Failing, Cancelling, Stopping, Completing, Returned, WorkerState

\* What a save of a run may do to its row.
LEMMA CarefulSave ==
    ASSUME TypeInv, NEW r \in RunId, NEW run, Save(r, run)
    PROVE  /\ Accepts(r, run) => row'[r] = run /\ ~IsTerminal(row[r])
           /\ ~Accepts(r, run) => row'[r] = row[r]
           /\ \A q \in RunId \ {r} : row'[q] = row[q]
  BY DEF TypeInv, TypeOK, RepositoryTypeOK, Save, Accepts, EnsureTransitionAllowed, Written

LEMMA CarefulStep ==
    ASSUME LastRequired, SubmissionInv, WorkersAccountable, [Next]_vars,
           NEW w \in Worker, ExecutorStep(w) \/ WorkerFault(w),
           NEW self \in WorkerState, self = worker[w], LastOK(self),
           NEW r \in RunId, r = self.run, self.pc \notin {"idle", "down"},
           NEW next, next = worker'[w]
    PROVE  Careful(self, next, row[r], row'[r], cancelRequested[r])
  <1>a. /\ TypeInv /\ row[r] \in Run /\ self.local \in Run
        /\ WorkerOK(self) /\ Accountable(self, row, object, raised)
        /\ worker \in [Worker -> WorkerState] /\ NumStages \in Stage
    BY StagesAssumption DEF SubmissionInv, LifecycleInv, TypeInv, TypeOK, RepositoryTypeOK,
       WorkerState, WorkersAccountable, Stage
  <1>b. ASSUME NEW state, Become(w, state) PROVE next = state
    BY <1>a, <1>b DEF Become
  <1>c. \A s \in Stage : \A status : Last(WithStage(self.local, s, status)) =
                                   (IF s = NumStages THEN status ELSE Last(self.local))
    BY <1>a DEF Last, WithStage, Run
  <1>d. \A s, status : /\ WithStage(self.local, s, status).status = self.local.status
    BY <1>a DEF WithStage, Run
  <1>1. CASE \/ CheckExecutable(w) \/ Complete(w) \/ CancelRebuild(w) \/ StepRaises(w)
             \/ Crash(w)
    <2>1. row' = row
      BY <1>1 DEF CheckExecutable, Complete, CancelRebuild, StepRaises, Crash, Proceed
    <2>2. /\ next.pc \in {"idle", "down", "load", "cancel", "fail", "complete"}
          /\ next.pc \notin {"idle", "down"} => next.run = self.run
      <3>1. [self EXCEPT !.pc = "load"].pc = "load" /\ [self EXCEPT !.pc = "load"].run = self.run
        BY DEF WorkerState
      <3>2. \/ next = [self EXCEPT !.pc = "load"] \/ next = Completing(self) \/ next = Idle
            \/ next = Down \/ next = Cancelling(self) \/ next = Failing(self)
        BY <1>1, <1>b DEF CheckExecutable, Complete, CancelRebuild, StepRaises, Crash, Proceed
      <3>3. QED
        BY ZenonT(40), <3>1, <3>2, CarefulPcs
    <2>3. QED
      BY <2>1, <2>2, CarefulAside
  <1>2. CASE LoadRun(w)
    <2>1. row'[r] = row[r] /\ self.pc = "load"
      BY <1>2 DEF LoadRun, Proceed
    <2>2. \/ next = Returned(self, row[r].status)
          \/ next = [self EXCEPT !.pc = "checkQueued", !.local = row[r]]
          \/ next = EnterStages(self, row[r], 1)
      BY <1>2, <1>b DEF LoadRun, Proceed
    <2>3. CASE next = Returned(self, row[r].status)
      BY <2>1, <2>3, CarefulPcs, CarefulAside
    <2>4. ~IsTerminal(row[r]) \/ next = Returned(self, row[r].status)
      BY <1>2, <1>b DEF LoadRun, Proceed
    <2>5. CASE next = [self EXCEPT !.pc = "checkQueued", !.local = row[r]] /\ ~IsTerminal(row[r])
      <3>1. next.pc = "checkQueued" /\ next.run = self.run /\ next.local = row[r]
        BY <2>5 DEF WorkerState
      <3>2. QED
        BY <2>1, <2>5, <3>1 DEF Careful, LastOK, InStep, RowDoomed, Barred
    <2>6. CASE next = EnterStages(self, row[r], 1) /\ ~IsTerminal(row[r])
      <3>1. next.pc = "stage" /\ next.run = self.run /\ next.local = row[r] /\ next.index = 1
        BY <2>6 DEF EnterStages, WorkerState
      <3>2. QED
        BY <2>1, <2>6, <3>1, StagesAssumption DEF Careful, LastOK, InStep, RowDoomed, Barred
    <2>7. QED
      BY <2>2, <2>3, <2>4, <2>5, <2>6
  <1>3. CASE CheckQueued(w)
    <2>1. row'[r] = row[r] /\ self.pc = "checkQueued"
      BY <1>3 DEF CheckQueued, Proceed
    <2>2. PICK local : /\ next = [self EXCEPT !.pc = "saveStart", !.local = local]
                       /\ \/ local = Finish(self.local, "cancelled", self.local.stages)
                          \/ local = Start(self.local)
      BY <1>3, <1>b DEF CheckQueued, Proceed
    <2>3. Last(local) = Last(self.local)
      BY <1>a, <2>2 DEF Finish, Start, Last, Run
    <2>4. next.pc = "saveStart" /\ next.run = self.run /\ next.local = local
      BY <2>2 DEF WorkerState
    <2>5. QED
      BY <2>1, <2>3, <2>4 DEF Careful, LastOK, InStep, RowDoomed, Barred
  <1>4. CASE SaveStart(w)
    <2>1. Save(r, self.local) /\ self.pc = "saveStart"
      BY <1>4 DEF SaveStart, Persist
    <2>2. CASE ~Accepts(r, self.local)
      <3>1. next = Down
        BY <1>4, <1>b, <2>2 DEF SaveStart, Persist
      <3>2. QED
        BY <1>a, <2>1, <2>2, <3>1, CarefulSave, CarefulPcs, CarefulAside
    <2>3. CASE Accepts(r, self.local)
      <3>1. row'[r] = self.local /\ ~IsTerminal(row[r])
        BY <1>a, <2>1, <2>3, CarefulSave
      <3>2. self.local.status \in {"running", "cancelled"}
        BY <1>a, <2>1 DEF Accountable
      <3>3. next = Idle \/ next = EnterStages(self, self.local, 1)
        BY <1>4, <1>b, <2>3 DEF SaveStart, Persist
      <3>4. \/ next.pc = "idle"
            \/ /\ next.pc = "stage" /\ next.run = self.run /\ next.local = self.local
               /\ next.index = 1
        <4>1. CASE next = Idle
          BY <4>1, CarefulPcs
        <4>2. CASE next = EnterStages(self, self.local, 1)
          BY <4>2 DEF EnterStages, WorkerState
        <4>3. QED
          BY <3>3, <4>1, <4>2
      <3>5. QED
        BY <2>1, <3>1, <3>2, <3>4, StagesAssumption
        DEF Careful, LastOK, InStep, RowDoomed, Barred, IsTerminal, TerminalStatus
    <2>4. QED
      BY <2>2, <2>3
  <1>5. CASE PassFinishedStage(w)
    <2>1. /\ row'[r] = row[r] /\ self.pc = "stage" /\ self.index \in 1 .. NumStages
          /\ self.local.stages[self.index] \in Over
      BY <1>5 DEF PassFinishedStage, Pending, AtStage, Proceed, Over, WorkerState
    <2>2. next = [self EXCEPT !.index = @ + 1]
      BY <1>5, <1>b DEF PassFinishedStage, Proceed
    <2>3. /\ next.pc = "stage" /\ next.run = self.run /\ next.local = self.local
          /\ next.index = self.index + 1
      BY <2>1, <2>2 DEF WorkerState
    <2>4. next.index > NumStages => self.index = NumStages
      BY <2>1, <2>3, StagesAssumption
    <2>5. self.index = NumStages => Last(self.local) \in Over
      BY <2>1 DEF Last
    <2>6. self.index # NumStages => next.index <= NumStages
      BY <2>1, <2>3, StagesAssumption
    <2>7. QED
      BY <2>1, <2>3, <2>4, <2>5, <2>6 DEF Careful, LastOK, InStep, RowDoomed, Barred
  <1>6. CASE SkipOptional(w)
    <2> DEFINE skipped == WithStage(self.local, self.index, "skipped")
    <2>1. /\ Save(r, skipped) /\ self.pc = "stage" /\ self.index \in Stage
          /\ self.index # NumStages
      BY <1>6 DEF SkipOptional, Pending, AtStage, WorkerState, Stage, LastRequired
    <2>2. Last(skipped) = Last(self.local) /\ skipped.status = "running"
      BY <1>a, <1>c, <1>d, <2>1 DEF Accountable
    <2>3. next = IF Accepts(r, skipped) THEN EnterStages(self, skipped, self.index + 1)
                 ELSE Failing(self)
      BY <1>6, <1>b DEF SkipOptional
    <2> HIDE DEF skipped
    <2>4. CASE ~Accepts(r, skipped)
      BY <1>a, <2>1, <2>3, <2>4, CarefulSave, CarefulPcs, CarefulAside
    <2>5. CASE Accepts(r, skipped)
      <3>1. row'[r] = skipped /\ ~IsTerminal(row[r])
        BY <1>a, <2>1, <2>5, CarefulSave
      <3>2. /\ next.pc = "stage" /\ next.run = self.run /\ next.local = skipped
            /\ next.index = self.index + 1
        BY <2>3, <2>5 DEF EnterStages, WorkerState
      <3>3. next.index <= NumStages /\ ~(next.index > NumStages)
        BY <2>1, <3>2, StagesAssumption DEF Stage
      <3>4. QED
        BY <2>1, <2>2, <3>1, <3>2, <3>3 DEF Careful, LastOK, InStep, RowDoomed, Barred
    <2>6. QED
      BY <2>4, <2>5
  <1>7. CASE BeginStage(w)
    <2>1. row'[r] = row[r] /\ self.pc = "stage" /\ self.index \in Stage
      BY <1>7 DEF BeginStage, Pending, AtStage, Proceed, WorkerState, Stage
    <2>2. CASE cancelRequested[r]
      <3>1. next = Cancelling(self)
        BY <1>7, <1>b, <2>2 DEF BeginStage, Proceed, Checkpoint, CancellationRequested
      <3>2. QED
        BY <2>1, <3>1, CarefulPcs, CarefulAside
    <2>3. CASE ~cancelRequested[r]
      <3>1. PICK running : running = WithStage(self.local, self.index, "running")
        OBVIOUS
      <3>2. next = [self EXCEPT !.pc = "saveRunning", !.local = running]
        BY <1>7, <1>b, <2>3, <3>1 DEF BeginStage, Proceed, Checkpoint, CancellationRequested
      <3>3. /\ next.pc = "saveRunning" /\ next.run = self.run /\ next.local = running
            /\ next.index = self.index
        BY <3>2 DEF WorkerState
      <3>4. Last(running) = IF self.index = NumStages THEN "running" ELSE Last(self.local)
        BY <1>c, <2>1, <3>1
      <3>5. QED
        BY <2>1, <2>3, <3>3, <3>4 DEF Careful, LastOK, InStep, RowDoomed, Barred
    <2>4. QED
      BY <2>2, <2>3
  <1>8. CASE SaveRunning(w)
    <2>1. /\ Save(r, self.local) /\ self.pc = "saveRunning" /\ self.local.status = "running"
      BY <1>8, <1>a DEF SaveRunning, Persist, Accountable
    <2>2. next = IF Accepts(r, self.local) THEN [self EXCEPT !.pc = "work"] ELSE Failing(self)
      BY <1>8, <1>b DEF SaveRunning, Persist
    <2>3. CASE ~Accepts(r, self.local)
      BY <1>a, <2>1, <2>2, <2>3, CarefulSave, CarefulPcs, CarefulAside
    <2>4. CASE Accepts(r, self.local)
      <3>1. row'[r] = self.local /\ ~IsTerminal(row[r])
        BY <1>a, <2>1, <2>4, CarefulSave
      <3>2. /\ next.pc = "work" /\ next.run = self.run /\ next.local = self.local
            /\ next.index = self.index
        BY <2>2, <2>4 DEF WorkerState
      <3>3. QED
        BY <2>1, <3>1, <3>2 DEF Careful, LastOK, InStep, RowDoomed, Barred
    <2>5. QED
      BY <2>3, <2>4
  <1>9. CASE EndStage(w)
    <2>1. row'[r] = row[r] /\ self.pc = "work" /\ self.index \in Stage
      BY <1>9, <1>a DEF EndStage, Proceed, WorkerOK
    <2>2. CASE cancelRequested[r]
      <3>1. next = Cancelling(self)
        BY <1>9, <1>b, <2>2 DEF EndStage, Proceed, Checkpoint, CancellationRequested
      <3>2. QED
        BY <2>1, <3>1, CarefulPcs, CarefulAside
    <2>3. CASE ~cancelRequested[r]
      <3>1. PICK done : done = WithStage(self.local, self.index, "succeeded")
        OBVIOUS
      <3>2. PICK built : built = IF self.index = Detection THEN "built" ELSE self.payloads
        OBVIOUS
      <3>3. next = [self EXCEPT !.pc = "saveDone", !.payloads = built, !.local = done]
        BY <1>9, <1>b, <2>3, <3>1, <3>2 DEF EndStage, Proceed, Checkpoint, CancellationRequested
      <3>4. /\ next.pc = "saveDone" /\ next.run = self.run /\ next.local = done
            /\ next.index = self.index
        BY <3>3 DEF WorkerState
      <3>5. Last(done) = IF self.index = NumStages THEN "succeeded" ELSE Last(self.local)
        BY <1>c, <2>1, <3>1
      <3>6. QED
        BY <2>1, <2>3, <3>4, <3>5 DEF Careful, LastOK, InStep, RowDoomed, Barred
    <2>4. QED
      BY <2>2, <2>3
  <1>10. CASE SaveDone(w)
    <2>1. /\ Save(r, self.local) /\ self.pc = "saveDone" /\ self.local.status = "running"
          /\ self.index \in Stage
      BY <1>10, <1>a DEF SaveDone, Persist, Accountable, WorkerOK
    <2>2. next = IF Accepts(r, self.local) THEN EnterStages(self, self.local, self.index + 1)
                 ELSE Failing(self)
      BY <1>10, <1>b DEF SaveDone, Persist
    <2>3. CASE ~Accepts(r, self.local)
      BY <1>a, <2>1, <2>2, <2>3, CarefulSave, CarefulPcs, CarefulAside
    <2>4. CASE Accepts(r, self.local)
      <3>1. row'[r] = self.local /\ ~IsTerminal(row[r])
        BY <1>a, <2>1, <2>4, CarefulSave
      <3>2. /\ next.pc = "stage" /\ next.run = self.run /\ next.local = self.local
            /\ next.index = self.index + 1
        BY <2>2, <2>4 DEF EnterStages, WorkerState
      <3>3. /\ next.index > NumStages => self.index = NumStages
            /\ self.index < NumStages => next.index <= NumStages
        BY <2>1, <3>2, StagesAssumption DEF Stage
      <3>4. self.index = NumStages => Last(self.local) = "succeeded"
        BY <2>1 DEF LastOK
      <3>5. QED
        BY <2>1, <3>1, <3>2, <3>3, <3>4 DEF Careful, LastOK, InStep, RowDoomed, Barred, Over
    <2>5. QED
      BY <2>3, <2>4
  <1>11. CASE PublishArtifact(w) \/ VerifyArtifacts(w)
    <2>1. /\ row'[r] = row[r] /\ self.pc = "stage" /\ self.index > NumStages
          /\ self.index \in 1 .. NumStages + 1
      BY <1>11 DEF PublishArtifact, VerifyArtifacts, AllStagesDone, Proceed, WorkerState
    <2>2. ~Barred(self)
      BY <2>1, StagesAssumption DEF Barred
    <2>3. \/ next = Failing(self)
          \/ next = [self EXCEPT !.artifact = @ + 1]
          \/ next = [self EXCEPT !.pc = "finish", !.local = NoRun, !.payloads = "none"]
      BY <1>11, <1>b DEF PublishArtifact, VerifyArtifacts, Proceed
    <2>4. CASE next = Failing(self)
      BY <2>1, <2>4, CarefulPcs, CarefulAside
    <2>5. CASE next = [self EXCEPT !.artifact = @ + 1]
      <3>1. /\ next.pc = "stage" /\ next.run = self.run /\ next.local = self.local
            /\ next.index = self.index
        BY <2>1, <2>5 DEF WorkerState
      <3>2. QED
        BY <2>1, <2>2, <3>1 DEF Careful, LastOK, InStep
    <2>6. CASE next = [self EXCEPT !.pc = "finish", !.local = NoRun, !.payloads = "none"]
      <3>1. next.pc = "finish" /\ next.run = self.run
        BY <2>6 DEF WorkerState
      <3>2. QED
        BY <2>1, <2>2, <3>1 DEF Careful, LastOK, InStep
    <2>7. QED
      BY <2>3, <2>4, <2>5, <2>6
  <1>12. ASSUME NEW partial \in BOOLEAN, FinishRun(w, partial)
         PROVE  Careful(self, next, row[r], row'[r], cancelRequested[r])
    <2>1. row'[r] = row[r] /\ self.pc = "finish"
      BY <1>12 DEF FinishRun, Proceed
    <2>2. PICK updated : \/ next = [self EXCEPT !.pc = "saveFinal", !.local = updated]
                         \/ next = Failing(self)
      BY <1>12, <1>b DEF FinishRun, Proceed
    <2>3. CASE next = Failing(self)
      BY <2>1, <2>3, CarefulPcs, CarefulAside
    <2>4. CASE next = [self EXCEPT !.pc = "saveFinal", !.local = updated]
      <3>1. next.pc = "saveFinal" /\ next.run = self.run
        BY <2>4 DEF WorkerState
      <3>2. QED
        BY <2>1, <3>1 DEF Careful, LastOK, InStep, Barred
    <2>5. QED
      BY <2>2, <2>3, <2>4
  <1>13. CASE HandleCancellation(w) \/ HandleFailure(w)
    <2>1. /\ row'[r] = row[r] /\ row[r] \in Run
      BY <1>13, <1>a DEF HandleCancellation, HandleFailure, Proceed
    <2>2. PICK cancelled, failed :
             /\ \/ next = [self EXCEPT !.pc = "saveCancelled", !.local = cancelled]
                \/ next = [self EXCEPT !.pc = "saveFailed", !.local = failed]
                \/ next = Down \/ next = Returned(self, row[r].status)
             /\ failed = Finish(row[r], "failed", Stopped(row[r], ActiveStage(self), "failed"))
      BY <1>13, <1>b DEF HandleCancellation, HandleFailure, Proceed
    <2>3. failed.status = "failed"
      BY <2>1, <2>2 DEF Finish, Run
    <2>4. CASE next = Down \/ next = Returned(self, row[r].status)
      BY <2>1, <2>4, CarefulPcs, CarefulAside
    <2>5. CASE next = [self EXCEPT !.pc = "saveCancelled", !.local = cancelled]
      <3>1. next.pc = "saveCancelled" /\ next.run = self.run
        BY <2>5 DEF WorkerState
      <3>2. QED
        BY <2>1, <3>1 DEF Careful, LastOK, InStep, Barred
    <2>6. CASE next = [self EXCEPT !.pc = "saveFailed", !.local = failed]
      <3>1. next.pc = "saveFailed" /\ next.run = self.run /\ next.local = failed
        BY <2>6 DEF WorkerState
      <3>2. QED
        BY <2>1, <2>3, <3>1 DEF Careful, LastOK, InStep, Barred
    <2>7. QED
      BY <2>2, <2>4, <2>5, <2>6
  <1>14. CASE SaveFinal(w) \/ SaveCancelled(w) \/ SaveFailed(w)
    <2>1. /\ Save(r, self.local) /\ self.pc \in {"saveFinal", "saveCancelled", "saveFailed"}
      BY <1>14 DEF SaveFinal, SaveCancelled, SaveFailed, Persist
    <2>2. /\ next.pc \in {"idle", "down", "fail", "complete"}
          /\ next.pc \notin {"idle", "down"} => next.run = self.run
      <3>1. next = Completing(self) \/ next = Failing(self) \/ next = Idle \/ next = Down
        BY <1>14, <1>b DEF SaveFinal, SaveCancelled, SaveFailed, Persist
      <3>2. QED
        BY <3>1, CarefulPcs
    <2>3. self.pc # "saveFinal" => self.local.status \in {"cancelled", "failed"}
      BY <1>a, <2>1 DEF Accountable, LastOK
    <2>4. row'[r] = row[r] \/ row'[r] = self.local
      BY <1>a, <2>1, CarefulSave
    <2>5. RowDoomed(row[r]) /\ Barred(self) => RowDoomed(row'[r])
      BY <2>1, <2>3, <2>4 DEF RowDoomed, Barred, IsTerminal, TerminalStatus
    <2>6. QED
      BY <2>2, <2>5 DEF Careful, LastOK, InStep, Barred
  <1>15. QED
    BY <1>1, <1>2, <1>3, <1>4, <1>5, <1>6, <1>7, <1>8, <1>9, <1>10, <1>11, <1>12, <1>13, <1>14
    DEF ExecutorStep, WorkerFault

\* Requests and the broker only ever end an attempt that is there.
LEMMA RequestsEndRows ==
    ASSUME TypeInv, NEW r \in RunId, Exists(r),
           \/ \E c \in Client : ClientStep(c) \/ ClientFault(c)
           \/ \E q \in RunId  : BrokerStep(q)
           \/ UNCHANGED vars
    PROVE  /\ row'[r] = row[r] \/ row'[r].status \in {"failed", "cancelled"}
           /\ cancelRequested[r] => cancelRequested'[r]
           /\ worker' = worker
  <1>a. cancelRequested \in [RunId -> BOOLEAN]
    BY DEF TypeInv, TypeOK, RepositoryTypeOK
  <1>1. ASSUME NEW c \in Client, NEW status, client[c].run \in RunId,
               Save(client[c].run, Finish(client[c].snap, status, client[c].snap.stages))
        PROVE  row'[r] = row[r] \/ row'[r].status = status
    <2>1. client[c].snap \in Run
      BY DEF TypeInv, TypeOK, ClientState
    <2>2. Finish(client[c].snap, status, client[c].snap.stages).status = status
      BY <2>1 DEF Finish, Run
    <2>3. QED
      BY <1>1, <2>2, CarefulSave
  <1>2. ASSUME NEW q \in RunId, NEW run, Create(q, run) PROVE row'[r] = row[r]
    BY <1>2 DEF Create, MayCreate, Written, TypeInv, TypeOK, RepositoryTypeOK
  <1>3. ASSUME NEW c \in Client, ClientStep(c) \/ ClientFault(c)
        PROVE  /\ row'[r] = row[r] \/ row'[r].status \in {"failed", "cancelled"}
               /\ cancelRequested[r] => cancelRequested'[r]
               /\ worker' = worker
    <2>1. client[c].pc # "idle" => client[c].run \in RunId
      BY DEF TypeInv, ClientOK
    <2>2. CASE FailIngestion(c) \/ CancelQueued(c)
      <3>1. client[c].run \in RunId
        BY <2>1, <2>2 DEF FailIngestion, CancelQueued
      <3>2. \E status \in {"failed", "cancelled"} :
               Save(client[c].run, Finish(client[c].snap, status, client[c].snap.stages))
        BY <2>2 DEF FailIngestion, CancelQueued
      <3>3. worker' = worker /\ cancelRequested' = cancelRequested
        BY <2>2 DEF FailIngestion, CancelQueued, Save
      <3>4. QED
        BY <1>1, <3>1, <3>2, <3>3
    <2>3. CASE CreateAttempt(c)
      <3>1. client[c].run \in RunId
        BY <2>1, <2>3 DEF CreateAttempt
      <3>2. QED
        BY <1>2, <2>3, <3>1 DEF CreateAttempt, Create
    <2>4. CASE \E q \in RunId : Submit(c, q) \/ FinalizeUpload(c, q) \/ CreateRaises(c, q)
      BY <1>2, <2>4 DEF Submit, FinalizeUpload, CreateRaises, Create
    <2>5. CASE RequestCancel(c)
      BY <1>a, <2>5 DEF RequestCancel, RequestCancellation
    <2>6. CASE \/ \E q \in RunId : LoadForCancel(c, q)
               \/ \E q, new \in RunId : LoadForRetry(c, q, new) \/ LoadForClone(c, q, new)
               \/ StoreInput(c) \/ EnqueueJob(c) \/ IngestionRaises(c)
               \/ DirectEnqueueRaises(c) \/ RequestDies(c) \/ StoreRaises(c)
      BY <2>6 DEF LoadForCancel, LoadForRetry, LoadForClone, StoreInput, EnqueueJob,
                  IngestionRaises, DirectEnqueueRaises, RequestDies, StoreRaises
    <2>7. QED
      BY <1>3, <2>2, <2>3, <2>4, <2>5, <2>6 DEF ClientStep, ClientFault
  <1>4. CASE (\E q \in RunId : BrokerStep(q)) \/ UNCHANGED vars
    BY <1>4 DEF BrokerStep, AbandonedLockExpires, LoseLock, vars
  <1>5. QED
    BY <1>3, <1>4

\* What a worker does to the others, and to other rows: nothing.
LEMMA WorkersActAlone ==
    ASSUME TypeInv, NEW w \in Worker, WorkerStep(w) \/ WorkerFault(w)
    PROVE  /\ \A v \in Worker \ {w} : worker'[v] = worker[v]
           /\ \A r \in RunId : r # worker[w].run => row'[r] = row[r]
           /\ cancelRequested' = cancelRequested
  <1>a. worker \in [Worker -> WorkerState] /\ row \in [RunId -> Run]
    BY DEF TypeInv, TypeOK, RepositoryTypeOK
  <1>b. ASSUME NEW state, Become(w, state) PROVE \A v \in Worker \ {w} : worker'[v] = worker[v]
    BY <1>a, <1>b DEF Become
  <1>1. \A v \in Worker \ {w} : worker'[v] = worker[v]
    BY <1>b DEF WorkerStep, ExecutorStep, WorkerFault, Receive, DeadLetterOverDelivered,
           CheckExecutable, Complete, LoadRun, CheckQueued, SaveStart, PassFinishedStage,
           SkipOptional, BeginStage, SaveRunning, EndStage, SaveDone, CancelRebuild,
           PublishArtifact, VerifyArtifacts, FinishRun, SaveFinal, HandleCancellation,
           SaveCancelled, HandleFailure, SaveFailed, StepRaises, Crash, Restart, Proceed, Persist
  <1>2. \/ UNCHANGED <<row, cancelRequested>>
        \/ \E run : Save(worker[w].run, run)
    BY DEF WorkerStep, ExecutorStep, WorkerFault, Receive, DeadLetterOverDelivered,
           CheckExecutable, Complete, LoadRun, CheckQueued, SaveStart, PassFinishedStage,
           SkipOptional, BeginStage, SaveRunning, EndStage, SaveDone, CancelRebuild,
           PublishArtifact, VerifyArtifacts, FinishRun, SaveFinal, HandleCancellation,
           SaveCancelled, HandleFailure, SaveFailed, StepRaises, Crash, Restart, Proceed, Persist
  <1>3. ASSUME NEW run, Save(worker[w].run, run)
        PROVE  /\ \A r \in RunId : r # worker[w].run => row'[r] = row[r]
               /\ cancelRequested' = cancelRequested
    BY <1>a, <1>3 DEF Save, Written
  <1>4. QED
    BY <1>1, <1>2, <1>3

\* A worker that claims a job, or that is down or without one.
LEMMA ClaimsAreIdle ==
    ASSUME TypeInv, NEW w \in Worker, WorkerStep(w) \/ WorkerFault(w),
           ~ExecutorStep(w), ~WorkerFault(w)
    PROVE  /\ UNCHANGED <<row, cancelRequested>>
           /\ worker' = worker \/ worker'[w].pc \in {"idle", "claimed"}
  <1>a. worker \in [Worker -> WorkerState]
    BY DEF TypeInv, TypeOK
  <1>1. CASE \E r \in RunId : Receive(w, r)
    BY <1>a, <1>1 DEF Receive, Become, Claimed, Idle
  <1>2. CASE Restart(w)
    BY <1>a, <1>2 DEF Restart, Proceed, Become, Idle
  <1>3. CASE \E r \in RunId : DeadLetterOverDelivered(w, r)
    BY <1>3 DEF DeadLetterOverDelivered
  <1>4. QED
    BY <1>1, <1>2, <1>3 DEF WorkerStep

\* Executor steps and faults are those of a busy worker.
LEMMA ExecutorsAreBusy ==
    ASSUME TypeInv, NEW w \in Worker, ExecutorStep(w) \/ WorkerFault(w)
    PROVE  worker[w].pc \notin {"idle", "down"} /\ worker[w].run \in RunId
  <1>1. worker[w].pc \notin {"idle", "down"}
    BY DEF ExecutorStep, WorkerFault, CheckExecutable, Complete, LoadRun, CheckQueued, SaveStart,
           PassFinishedStage, Pending, AtStage, SkipOptional, BeginStage, SaveRunning, EndStage,
           SaveDone, CancelRebuild, AllStagesDone, PublishArtifact, VerifyArtifacts, FinishRun,
           SaveFinal, HandleCancellation, SaveCancelled, HandleFailure, SaveFailed, StepRaises,
           Guarded, Crash
  <1>2. QED
    BY <1>1 DEF TypeInv, WorkerOK

LEMMA EarlyStep ==
    ASSUME LastRequired, EarlyInv, [HistoryNext]_historyVars
    PROVE  EarlyInv'
  <1>1. /\ SubmissionInv /\ WorkersAccountable /\ TypeInv
        /\ \A w \in Worker : LastOK(worker[w])
        /\ worker \in [Worker -> WorkerState]
        /\ \A w \in Worker : worker[w].pc \notin {"idle", "down"} =>
              worker[w].run \in RunId /\ Exists(worker[w].run)
    BY DEF EarlyInv, SubmissionInv, LifecycleInv, TypeInv, TypeOK, WorkersAccountable,
           Accountable, WorkerOK, Exists
  <1>2. WorkersAccountable' /\ [Next]_vars
    BY <1>1, AccountableStep
  <1>3. SubmissionInv' /\ TypeInv'
    BY <1>1, <1>2, SubmissionStep DEF SubmissionInv, LifecycleInv
  <1>4. ASSUME ~overlapped'
        PROVE  ~overlapped /\ ~Overlap /\ ~Overlap'
               /\ \A w \in Worker : worker[w].pc \notin {"idle", "down"}
                                      => InStep(worker[w], row[worker[w].run])
    <2>1. ~overlapped
      BY <1>4 DEF HistoryNext, historyVars
    <2>2. CASE UNCHANGED historyVars
      BY <2>1, <2>2 DEF historyVars, vars, Overlap, EarlyInv, ExecutorsInStep
    <2>3. CASE HistoryNext
      BY <1>4, <2>1, <2>3 DEF HistoryNext, EarlyInv, ExecutorsInStep
    <2>4. QED
      BY <2>2, <2>3
  <1>5. ASSUME NEW w \in Worker, WorkerStep(w) \/ WorkerFault(w)
        PROVE  /\ \A v \in Worker : LastOK(worker[v])'
               /\ ~overlapped' => \A v \in Worker : worker'[v].pc \notin {"idle", "down"}
                                     => InStep(worker'[v], row'[worker'[v].run])
    <2>1. ASSUME NEW v \in Worker \ {w}, ~overlapped', worker'[v].pc \notin {"idle", "down"}
          PROVE  InStep(worker'[v], row'[worker'[v].run])
      <3>1. worker'[v] = worker[v] /\ InStep(worker[v], row[worker[v].run])
        BY <1>1, <1>4, <1>5, <2>1, WorkersActAlone
      <3>2. worker[v].run # worker[w].run /\ worker[v].run \in RunId
        <4>1. worker[v].run \in RunId /\ worker[v].run # NoRunId
          BY <1>1, <2>1, <3>1, NoRunIdAssumption
        <4>2. QED
          BY <1>4, <2>1, <4>1 DEF Overlap
      <3>3. QED
        BY <1>1, <1>5, <3>1, <3>2, WorkersActAlone
    <2>2. \A v \in Worker \ {w} : LastOK(worker[v])'
      BY <1>1, <1>5, WorkersActAlone DEF LastOK
    <2>3. CASE ExecutorStep(w) \/ WorkerFault(w)
      <3>1. PICK self \in WorkerState : self = worker[w]
        BY <1>1
      <3>2. PICK r \in RunId : r = self.run
        BY <1>1, <2>3, <3>1, ExecutorsAreBusy
      <3>3. PICK next : next = worker'[w]
        OBVIOUS
      <3>4. self.pc \notin {"idle", "down"} /\ LastOK(self)
        BY <1>1, <2>3, <3>1, ExecutorsAreBusy
      <3>5. Careful(self, next, row[r], row'[r], cancelRequested[r])
        BY <1>1, <1>2, <2>3, <3>1, <3>2, <3>3, <3>4, CarefulStep
      <3>6. LastOK(next)
        BY <3>5 DEF Careful
      <3>7. ~overlapped' /\ next.pc \notin {"idle", "down"} => InStep(next, row'[next.run])
        BY <1>4, <3>1, <3>2, <3>4, <3>5 DEF Careful
      <3>8. LastOK(worker[w])'
        BY <3>3, <3>6 DEF LastOK
      <3>9. QED
        BY <2>1, <2>2, <3>3, <3>7, <3>8
    <2>4. CASE ~ExecutorStep(w) /\ ~WorkerFault(w)
      <3>1. CASE worker' = worker
        <4>1. row' = row
          BY <1>1, <1>5, <2>4, ClaimsAreIdle
        <4>2. LastOK(worker[w])'
          BY <1>1, <3>1 DEF LastOK
        <4>3. QED
          BY <1>1, <1>4, <2>2, <3>1, <4>1, <4>2
      <3>2. CASE worker'[w].pc \in {"idle", "claimed"}
        <4>1. LastOK(worker[w])' /\ InStep(worker'[w], row'[worker'[w].run])
          BY <3>2 DEF LastOK, InStep
        <4>2. QED
          BY <2>1, <2>2, <4>1
      <3>3. QED
        BY <1>1, <1>5, <2>4, <3>1, <3>2, ClaimsAreIdle
    <2>5. QED
      BY <2>3, <2>4
  <1>6. CASE \/ \E c \in Client : ClientStep(c) \/ ClientFault(c)
             \/ \E q \in RunId  : BrokerStep(q)
             \/ UNCHANGED vars
    <2>1. worker' = worker
      BY ZenonT(40), <1>6 DEF ClientStep, ClientFault, Submit, FinalizeUpload, LoadForRetry,
                  LoadForClone, CreateAttempt, StoreInput, EnqueueJob, FailIngestion, LoadForCancel,
                  CancelQueued, RequestCancel, IngestionRaises, DirectEnqueueRaises, RequestDies,
                  StoreRaises, CreateRaises, BrokerStep, AbandonedLockExpires, LoseLock, vars
    <2>2. ASSUME NEW w \in Worker, worker[w].pc \notin {"idle", "down"}, ~overlapped'
          PROVE  InStep(worker[w], row'[worker[w].run])
      <3>1. PICK r \in RunId : r = worker[w].run
        BY <1>1, <2>2
      <3>2. row'[r] = row[r] \/ row'[r].status \in {"failed", "cancelled"}
        BY <1>1, <1>6, <2>2, <3>1, RequestsEndRows
      <3>3. InStep(worker[w], row[r])
        BY <1>4, <2>2, <3>1
      <3>4. row'[r].status \in {"failed", "cancelled"} => InStep(worker[w], row'[r])
        BY DEF InStep, IsTerminal, TerminalStatus
      <3>5. QED
        BY <3>1, <3>2, <3>3, <3>4
    <2>3. \A w \in Worker : LastOK(worker[w])'
      BY <1>1, <2>1 DEF LastOK
    <2>4. ASSUME NEW w \in Worker, worker'[w].pc \notin {"idle", "down"}, ~overlapped'
          PROVE  InStep(worker'[w], row'[worker'[w].run])
      BY <2>1, <2>2, <2>4
    <2>5. QED
      BY <1>2, <1>3, <1>4, <2>3, <2>4 DEF EarlyInv, ExecutorsInStep
  <1>7. ASSUME NEW w \in Worker, WorkerStep(w) \/ WorkerFault(w) PROVE EarlyInv'
    BY <1>2, <1>3, <1>4, <1>5, <1>7 DEF EarlyInv, ExecutorsInStep
  <1>8. QED
    BY <1>2, <1>6, <1>7 DEF Next

\* A cancellation requested before the last stage dooms its attempt.
LEMMA EarlyDooms ==
    ASSUME EarlyInv, NEW r \in RunId, cancelRequested[r], row[r].status = "running",
           Last(row[r]) = "queued", ~overlapped
    PROVE  Doomed(r)
  <1>1. RowDoomed(row[r])
    BY DEF RowDoomed, Over
  <1>2. ASSUME NEW w \in Worker, worker[w].pc \notin {"idle", "down"}, worker[w].run = r
        PROVE  Barred(worker[w])
    <2>1. PICK self \in WorkerState : self = worker[w]
      BY DEF EarlyInv, SubmissionInv, LifecycleInv, TypeInv, TypeOK
    <2>2. LastOK(self) /\ InStep(self, row[r]) /\ ~IsTerminal(row[r]) /\ WorkerOK(self)
      BY <1>2, <2>1 DEF EarlyInv, ExecutorsInStep, IsTerminal, TerminalStatus, SubmissionInv,
                        LifecycleInv, TypeInv
    <2>3. self.index \in 1 .. NumStages + 1
          /\ (self.pc \in {"saveRunning", "work", "saveDone"} => self.index \in 1 .. NumStages)
      BY <2>2 DEF WorkerState, WorkerOK, Stage
    <2>4. Barred(self)
      <3>1. self.pc \notin {"finish", "saveFinal"}
        BY <2>2 DEF InStep, Over
      <3>2. self.pc \in {"checkQueued", "saveStart", "stage", "saveRunning", "work", "saveDone"}
              => Last(self.local) \notin Over
        BY <2>2 DEF InStep, LastOK, Over
      <3>3. self.pc = "stage" => self.index <= NumStages
        BY <2>2, <2>3, <3>2, StagesAssumption DEF LastOK
      <3>4. self.pc = "saveDone" => self.index < NumStages
        <4>1. self.pc = "saveDone" => self.index # NumStages
          BY <2>2 DEF InStep
        <4>2. QED
          BY <2>3, <4>1, StagesAssumption
      <3>5. QED
        BY <3>1, <3>2, <3>3, <3>4 DEF Barred
    <2>5. QED
      BY <2>1, <2>4
  <1>3. QED
    BY <1>1, <1>2 DEF Doomed

\* A doomed attempt stays doomed, whatever executions of it overlap.
LEMMA DoomedStays ==
    ASSUME LastRequired, EarlyInv, [Next]_vars, NEW r \in RunId, Doomed(r)
    PROVE  Doomed(r)'
  <1>1. /\ SubmissionInv /\ WorkersAccountable /\ TypeInv /\ Exists(r)
        /\ cancelRequested[r] /\ RowDoomed(row[r])
        /\ \A w \in Worker : LastOK(worker[w])
        /\ worker \in [Worker -> WorkerState]
    BY DEF EarlyInv, SubmissionInv, LifecycleInv, TypeInv, TypeOK, Doomed, RowDoomed, Exists
  <1>2. CASE \/ \E c \in Client : ClientStep(c) \/ ClientFault(c)
             \/ \E q \in RunId  : BrokerStep(q)
             \/ UNCHANGED vars
    <2>1. /\ row'[r] = row[r] \/ row'[r].status \in {"failed", "cancelled"}
          /\ cancelRequested'[r]
          /\ worker' = worker
      BY <1>1, <1>2, RequestsEndRows
    <2>2. RowDoomed(row'[r])
      BY <1>1, <2>1 DEF RowDoomed, IsTerminal, TerminalStatus
    <2>3. \A w \in Worker : worker'[w].pc \notin {"idle", "down"} /\ worker'[w].run = r
                              => Barred(worker'[w])
      BY <2>1 DEF Doomed
    <2>4. QED
      BY <2>1, <2>2, <2>3 DEF Doomed
  <1>3. ASSUME NEW w \in Worker, WorkerStep(w) \/ WorkerFault(w) PROVE Doomed(r)'
    <2>1. cancelRequested'[r] /\ \A v \in Worker \ {w} : worker'[v] = worker[v]
      BY <1>1, <1>3, WorkersActAlone
    <2>2. RowDoomed(row'[r]) /\ (worker'[w].pc \notin {"idle", "down"} /\ worker'[w].run = r
                                   => Barred(worker'[w]))
      <3>1. PICK self \in WorkerState : self = worker[w]
        BY <1>1
      <3>2. PICK next : next = worker'[w]
        OBVIOUS
      <3>3. CASE (ExecutorStep(w) \/ WorkerFault(w)) /\ self.run = r
        <4>1. self.pc \notin {"idle", "down"} /\ LastOK(self) /\ Barred(self)
          BY <1>1, <3>1, <3>3, ExecutorsAreBusy DEF Doomed
        <4>2. Careful(self, next, row[r], row'[r], cancelRequested[r])
          BY <1>1, <3>1, <3>2, <3>3, <4>1, CarefulStep
        <4>3. QED
          BY <1>1, <3>2, <4>1, <4>2 DEF Careful
      <3>4. CASE (ExecutorStep(w) \/ WorkerFault(w)) /\ self.run # r
        <4>1. PICK q \in RunId : q = self.run
          BY <1>1, <3>1, <3>4, ExecutorsAreBusy
        <4>2. self.pc \notin {"idle", "down"} /\ LastOK(self)
          BY <1>1, <3>1, <3>4, ExecutorsAreBusy
        <4>3. Careful(self, next, row[q], row'[q], cancelRequested[q])
          BY <1>1, <3>1, <3>2, <3>4, <4>1, <4>2, CarefulStep
        <4>4. next.pc \notin {"idle", "down"} => next.run # r
          BY <3>4, <4>3 DEF Careful
        <4>5. row'[r] = row[r]
          BY <1>1, <1>3, <3>1, <3>4, WorkersActAlone
        <4>6. QED
          BY <1>1, <3>2, <4>4, <4>5
      <3>5. CASE ~ExecutorStep(w) /\ ~WorkerFault(w)
        <4>1. row'[r] = row[r] /\ (worker' = worker \/ worker'[w].pc \in {"idle", "claimed"})
          BY <1>1, <1>3, <3>5, ClaimsAreIdle
        <4>2. worker'[w].pc = "claimed" => Barred(worker'[w])
          BY DEF Barred
        <4>3. QED
          BY <1>1, <4>1, <4>2 DEF Doomed
      <3>6. QED
        BY <3>3, <3>4, <3>5
    <2>3. QED
      BY <2>1, <2>2 DEF Doomed
  <1>4. QED
    BY <1>2, <1>3 DEF Next

LEMMA EarlyInit == HistoryInit => EarlyInv
  <1> SUFFICES ASSUME HistoryInit PROVE EarlyInv
    OBVIOUS
  <1>1. SubmissionInv
    BY SubmissionInit DEF HistoryInit
  <1>2. \A w \in Worker : worker[w] = Idle
    BY DEF HistoryInit, Init
  <1>3. WorkersAccountable /\ \A w \in Worker : LastOK(worker[w])
    BY <1>2 DEF WorkersAccountable, Accountable, LastOK, Idle
  <1>4. ExecutorsInStep
    BY <1>2 DEF ExecutorsInStep, Overlap, Idle
  <1>5. QED
    BY <1>1, <1>3, <1>4 DEF EarlyInv

\* A cancellation requested before the last stage began is never lost, for any number of
\* workers, deliveries, crashes and lost locks: unless executors overlapped before it, the
\* attempt neither succeeds nor ends partial.  The last stage is a required one.
THEOREM EarlyCancellationsWin ==
    ASSUME LastRequired
    PROVE  HistorySpec => EarlyCancellationWins
  <1> SUFFICES ASSUME NEW r \in RunId
               PROVE  HistorySpec =>
                        []((/\ cancelRequested[r]
                            /\ row[r].status = "running"
                            /\ row[r].stages[NumStages] = "queued"
                            /\ ~overlapped)
                             => [](row[r].status \notin {"succeeded", "partial"}))
    BY DEF EarlyCancellationWins
  <1>1. EarlyInv /\ [HistoryNext]_historyVars => EarlyInv'
    BY EarlyStep
  <1>2. EarlyInv /\ (/\ cancelRequested[r] /\ row[r].status = "running"
                     /\ row[r].stages[NumStages] = "queued" /\ ~overlapped) => Doomed(r)
    BY EarlyDooms DEF Last
  <1>3. EarlyInv /\ Doomed(r) /\ [HistoryNext]_historyVars => Doomed(r)'
    <2>1. EarlyInv /\ [HistoryNext]_historyVars => [Next]_vars
      BY AccountableStep DEF EarlyInv
    <2>2. QED
      BY <2>1, DoomedStays
  <1>4. Doomed(r) => row[r].status \notin {"succeeded", "partial"}
    BY DEF Doomed, RowDoomed
  <1>5. QED
    BY <1>1, <1>2, <1>3, <1>4, EarlyInit, PTL DEF HistorySpec

=============================================================================
