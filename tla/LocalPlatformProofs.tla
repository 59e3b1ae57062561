-------------------------- MODULE LocalPlatformProofs --------------------------
(***************************************************************************)
(* The local store without its lock, for every number of runs, executors,  *)
(* requests and files: what an outcome registers lies on the disk, a job   *)
(* is enqueued for a complete input, and an import holds what it hashed.   *)
(* And the readiness of the API: how old the checks behind an answer are.  *)
(*                                                                         *)
(* All need to know what a process may rely on between a check and the     *)
(* step it allows: the name it reserved is still empty, the files it       *)
(* verified are still there because a file is linked once, nobody else     *)
(* writes the input of the run it creates, and a version of a source file  *)
(* that V1 replaced does not come back.                                    *)
(***************************************************************************)
EXTENDS MCLocalPlatform, TLAPS

\* The files of an artifact list, as ArtifactsVerified finds them in a directory.
Lie(contents, files) == \A a \in Artifact : contents[a] # 0 => files[a] = contents[a]

Completed == {"succeeded", "partial"}

\* What a saving process knows between the check and the replacement.
Checked(state, files) ==
    state.new.status \in Completed => Lie(state.new.artifacts, files[state.run])

\* What an executor or a request relies on.
Sound(state, files) ==
    /\ state.pc # "idle" => state.run \in Run
    /\ state.pc = "link" => state.artifact \in 1 .. NumOutputs
    /\ state.pc = "copy" => state.source \in Run
    /\ state.pc \in {"save", "replace"} => /\ state.next \in {"idle", "work", "fail"}
                                           /\ state.refused \in {"idle", "work", "fail"}
    /\ state.pc = "replace" => Checked(state, files)

\* What an import relies on.
ImportSound(state, files) ==
    /\ state.pc \in {"manifest", "start", "replace", "read", "copy", "failed", "rehash",
                     "finish"} => state.run \in Run
    /\ state.pc = "replace" => Checked(state, files)

\* A name is reserved by one process at a time.
Reservations ==
    /\ \A p \in Process : proc[p].pc = "manifest" => space[proc[p].run] = "reserved"
    /\ import.pc = "manifest" => space[import.run] = "reserved"
    /\ \A p, q \in Process :
          proc[p].pc = "manifest" /\ proc[q].pc = "manifest" /\ proc[p].run = proc[q].run
              => p = q
    /\ \A p \in Process :
          ~(proc[p].pc = "manifest" /\ import.pc = "manifest" /\ proc[p].run = import.run)

StoreInv ==
    /\ TypeOK
    /\ \A p \in Process : Sound(proc[p], artifact)
    /\ ImportSound(import, artifact)
    /\ Reservations
    /\ OutcomeMatchesFiles

\* Files are added to a store, never changed.
FilesStay == \A r \in Run, a \in Artifact : artifact[r][a] # 0 => artifact'[r][a] = artifact[r][a]

----------------------------------------------------------------------------
(* Lemmas about the store.                                                   *)

LEMMA Types ==
    /\ NoRun \notin Run
    /\ NumArtifacts \in Nat \ {0} /\ NumOutputs \in Artifact
    /\ Executor \subseteq Content /\ 0 \notin Content
    /\ NoContents \in Contents
    /\ \A status \in Status : With(status) \in Manifest
    /\ Idle \in ProcState
  BY RunAssumption, ArtifactAssumption, OutputsAssumption, ExecutorAssumption,
     ContentAssumption
  DEF NoContents, Contents, With, Manifest, Status, Idle, ProcState, Pc, Artifact

LEMMA LieStays ==
    ASSUME StoreTypeOK, FilesStay, NEW contents, NEW r \in Run, Lie(contents, artifact[r])
    PROVE  Lie(contents, artifact'[r])
  BY DEF Lie, FilesStay, StoreTypeOK

LEMMA SoundStays ==
    ASSUME StoreTypeOK, FilesStay, NEW state, Sound(state, artifact)
    PROVE  Sound(state, artifact')
  BY LieStays DEF Sound, Checked

LEMMA ImportSoundStays ==
    ASSUME StoreTypeOK, FilesStay, NEW state, ImportSound(state, artifact)
    PROVE  ImportSound(state, artifact')
  BY LieStays DEF ImportSound, Checked

\* Outcomes stay as they are as long as manifests do.
LEMMA OutcomesStay ==
    ASSUME StoreTypeOK, FilesStay, OutcomeMatchesFiles, manifest' = manifest, space' = space
    PROVE  OutcomeMatchesFiles'
  <1>1. ASSUME NEW r \in Run, Has(r, Completed) PROVE Lie(manifest[r].artifacts, artifact[r])
    BY <1>1 DEF OutcomeMatchesFiles, Lie, ArtifactsVerified, Completed
  <1>2. \A r \in Run : Has(r, Completed)' => Lie(manifest[r].artifacts, artifact'[r])
    BY <1>1, LieStays DEF Has, Readable
  <1>3. QED
    BY <1>2 DEF OutcomeMatchesFiles, Lie, ArtifactsVerified, Completed, Has, Readable

----------------------------------------------------------------------------
(* Steps that take no name and replace no manifest.                          *)

Quiet == space' = space /\ manifest' = manifest /\ FilesStay /\ StoreTypeOK'

\* A process that does not come to hold a reservation.
LEMMA QuietProcess ==
    ASSUME StoreInv, Quiet, NEW p \in Process, NEW state \in ProcState,
           state.pc # "manifest", Sound(state, artifact'),
           proc' = [proc EXCEPT ![p] = state], importVars' = importVars,
           job' \in [Run -> BOOLEAN], claims' \in 0 .. MaxClaims
    PROVE  StoreInv'
  <1>a. StoreTypeOK /\ FilesStay /\ proc \in [Process -> ProcState]
    BY DEF StoreInv, TypeOK, Quiet
  <1>1. TypeOK'
    BY <1>a DEF StoreInv, TypeOK, Quiet, ImportTypeOK, importVars
  <1>2. \A q \in Process : Sound(proc'[q], artifact')
    BY <1>a, SoundStays DEF StoreInv
  <1>3. ImportSound(import', artifact')
    BY <1>a, ImportSoundStays DEF StoreInv, importVars
  <1>4. Reservations'
    BY <1>a DEF StoreInv, Reservations, Quiet, importVars
  <1>5. OutcomeMatchesFiles'
    BY <1>a, OutcomesStay DEF StoreInv, Quiet
  <1>6. QED
    BY <1>1, <1>2, <1>3, <1>4, <1>5 DEF StoreInv

LEMMA QuietImport ==
    ASSUME StoreInv, Quiet, ImportTypeOK', import'.pc = "manifest" => import' = import,
           ImportSound(import', artifact'), UNCHANGED <<job, claims, proc>>
    PROVE  StoreInv'
  <1>a. StoreTypeOK /\ FilesStay
    BY DEF StoreInv, TypeOK, Quiet
  <1>1. TypeOK'
    BY DEF StoreInv, TypeOK, Quiet
  <1>2. \A q \in Process : Sound(proc'[q], artifact')
    BY <1>a, SoundStays DEF StoreInv
  <1>3. Reservations'
    BY <1>a DEF StoreInv, Reservations, Quiet
  <1>4. OutcomeMatchesFiles'
    BY <1>a, OutcomesStay DEF StoreInv, Quiet
  <1>5. QED
    BY <1>1, <1>2, <1>3, <1>4 DEF StoreInv

LEMMA IdleIsSound == Sound(Idle, artifact') /\ Idle.pc = "idle"
  BY DEF Sound, Idle

LEMMA Becomes ==
    ASSUME StoreInv, Quiet, NEW p \in Process, NEW state \in ProcState,
           state.pc # "manifest", Sound(state, artifact'), Become(p, state)
    PROVE  StoreInv'
  <1>1. /\ importVars' = importVars /\ job' \in [Run -> BOOLEAN]
        /\ claims' \in 0 .. MaxClaims
    BY DEF Become, StoreInv, TypeOK
  <1>2. CASE state.pc = "idle"
    BY <1>1, <1>2, QuietProcess, IdleIsSound, Types DEF Become
  <1>3. CASE state.pc # "idle"
    BY <1>1, <1>3, QuietProcess DEF Become
  <1>4. QED
    BY <1>2, <1>3

LEMMA ReadsAreQuiet ==
    ASSUME StoreInv, UNCHANGED storeVars PROVE Quiet /\ artifact' = artifact
  BY DEF storeVars, Quiet, FilesStay, StoreInv, TypeOK, StoreTypeOK

LEMMA Reads ==
    ASSUME StoreInv, NEW p \in Process, NEW state \in ProcState,
           state.pc # "manifest", Sound(state, artifact), Read(p, state)
    PROVE  StoreInv'
  BY ReadsAreQuiet, Becomes DEF Read

\* The record of a process, as the invariant has it.
LEMMA ProcessState ==
    ASSUME StoreInv, NEW p \in Process
    PROVE  /\ proc[p] \in ProcState
           /\ Sound(proc[p], artifact)
           /\ proc[p].pc = "replace" /\ proc[p].run \in Run =>
                Checked(proc[p], artifact)
           /\ StoreTypeOK
  BY DEF StoreInv, TypeOK, Sound

----------------------------------------------------------------------------
(* save.                                                                     *)

LEMMA SavingState ==
    ASSUME NEW self \in ProcState, NEW new \in Manifest, self.run \in Run,
           NEW next \in {"idle", "work", "fail"}, NEW refused \in {"idle", "work", "fail"}
    PROVE  /\ Saving(self, new, next, refused) \in ProcState
           /\ Saving(self, new, next, refused).pc # "manifest"
           /\ Sound(Saving(self, new, next, refused), artifact)
  BY DEF Saving, ProcState, Pc, Sound

LEMMA SaveCheckStep ==
    ASSUME StoreInv, NEW p \in Process, SaveCheck(p) PROVE StoreInv'
  <1> DEFINE self == proc[p]
             taken == [self EXCEPT !.pc = "replace"]
             left  == [self EXCEPT !.pc = self.refused]
  <1>a. self \in ProcState /\ Sound(self, artifact) /\ StoreTypeOK /\ self.run \in Run
    BY ProcessState DEF SaveCheck, Sound
  <1>1. left \in ProcState /\ left.pc # "manifest" /\ Sound(left, artifact)
    BY <1>a DEF SaveCheck, ProcState, Pc, Sound
  <1>2. ASSUME SaveAccepts(self.run, self.new)
        PROVE  taken \in ProcState /\ taken.pc # "manifest" /\ Sound(taken, artifact)
    <2>1. manifest[self.run].status \in Status \ Ended
      BY <1>a, <1>2 DEF SaveAccepts, Successors, StoreTypeOK, Manifest, Status, Ended
    <2>2. self.new.status \in Completed => Lie(self.new.artifacts, artifact[self.run])
      BY <1>2 DEF SaveAccepts, ArtifactsVerified, Lie, Completed
    <2>3. QED
      BY <1>a, <2>1, <2>2 DEF ProcState, Pc, Sound, Checked, SaveCheck
  <1>3. CASE SaveAccepts(self.run, self.new)
    BY <1>2, <1>3, Reads DEF SaveCheck
  <1>4. CASE ~SaveAccepts(self.run, self.new)
    BY <1>1, <1>4, Reads DEF SaveCheck
  <1>5. QED
    BY <1>3, <1>4

\* An outcome that replaces a manifest matches the files it was checked against.
LEMMA Replaced ==
    ASSUME StoreInv, NEW r \in Run, NEW new \in Manifest, ReplaceManifest(r, new),
           new.status \in Completed => Lie(new.artifacts, artifact[r])
    PROVE  /\ StoreTypeOK' /\ FilesStay /\ OutcomeMatchesFiles'
           /\ space' = space /\ artifact' = artifact
  BY DEF ReplaceManifest, StoreInv, TypeOK, StoreTypeOK, FilesStay, OutcomeMatchesFiles,
         Has, Readable, Completed, Lie, ArtifactsVerified

LEMMA SaveReplaceStep ==
    ASSUME StoreInv, NEW p \in Process, SaveReplace(p) PROVE StoreInv'
  <1> DEFINE self  == proc[p]
             after == [self EXCEPT !.pc = self.next]
             state == IF after.pc = "idle" THEN Idle ELSE after
  <1>a. self \in ProcState /\ Sound(self, artifact) /\ self.run \in Run /\ self.pc = "replace"
    BY ProcessState DEF SaveReplace, Sound
  <1>b. self.new \in Manifest
    BY <1>a DEF ProcState
  <1>1. /\ StoreTypeOK' /\ FilesStay /\ OutcomeMatchesFiles'
        /\ space' = space /\ artifact' = artifact
    BY <1>a, <1>b, Replaced DEF SaveReplace, Sound, Checked
  <1>2. after \in ProcState /\ after.pc # "manifest" /\ Sound(after, artifact)
    BY <1>a DEF ProcState, Pc, Sound
  <1>3. state \in ProcState /\ state.pc # "manifest" /\ Sound(state, artifact')
    BY <1>1, <1>2, Types, IdleIsSound
  <1>4. proc' = [proc EXCEPT ![p] = state] /\ UNCHANGED <<job, claims, importVars>>
    BY DEF SaveReplace, Become
  <1>5. TypeOK'
    BY <1>1, <1>3, <1>4 DEF StoreInv, TypeOK, ImportTypeOK, importVars
  <1>6. \A q \in Process : Sound(proc'[q], artifact')
    BY <1>1, <1>3, <1>4 DEF StoreInv, TypeOK
  <1>7. ImportSound(import', artifact')
    BY <1>1, <1>4 DEF StoreInv, importVars
  <1>8. Reservations'
    BY <1>1, <1>3, <1>4 DEF StoreInv, TypeOK, Reservations, importVars
  <1>9. QED
    BY <1>1, <1>5, <1>6, <1>7, <1>8 DEF StoreInv

----------------------------------------------------------------------------
(* AnalysisExecutor.execute.                                                 *)

\* A step that only reads and goes on to a place where nothing more is known.
LEMMA MovesOn ==
    ASSUME StoreInv, NEW p \in Process, proc[p].pc # "idle",
           NEW pc \in Pc \ {"manifest", "link", "copy", "save", "replace"}
    PROVE  LET state == [proc[p] EXCEPT !.pc = pc]
           IN  state \in ProcState /\ state.pc # "manifest" /\ Sound(state, artifact)
  BY ProcessState DEF ProcState, Pc, Sound

LEMMA IdleState == Idle \in ProcState /\ Idle.pc # "manifest" /\ Sound(Idle, artifact)
  BY Types DEF Idle, Sound

LEMMA SaveStarts ==
    ASSUME StoreInv, NEW p \in Process, proc[p].pc # "idle", NEW new \in Manifest,
           NEW next \in {"idle", "work", "fail"}, NEW refused \in {"idle", "work", "fail"},
           Read(p, Saving(proc[p], new, next, refused))
    PROVE  StoreInv'
  BY ProcessState, SavingState, Reads DEF Sound

LEMMA ClaimStep ==
    ASSUME StoreInv, NEW e \in Process, NEW r \in Run, Claim(e, r) PROVE StoreInv'
  <1> DEFINE state == [Idle EXCEPT !.pc = "load", !.run = r]
  <1>1. state \in ProcState /\ state.pc # "manifest" /\ Sound(state, artifact)
    BY Types DEF Idle, ProcState, Pc, Sound
  <1>2. Quiet /\ artifact' = artifact
    BY ReadsAreQuiet DEF Claim
  <1>3. job' \in [Run -> BOOLEAN] /\ claims' \in 0 .. MaxClaims
    BY ExecutorAssumption DEF Claim, StoreInv, TypeOK
  <1>4. QED
    BY <1>1, <1>2, <1>3, QuietProcess DEF Claim

LEMMA LoadRunStep ==
    ASSUME StoreInv, NEW e \in Process, LoadRun(e) PROVE StoreInv'
  <1> DEFINE self == proc[e]
             run  == manifest[self.run]
  <1>1. CASE run.status \in Ended /\ Read(e, Idle)
    BY <1>1, Reads, IdleState
  <1>2. ASSUME NEW status \in {"cancelled", "running"}, NEW next \in {"idle", "work"},
               Read(e, Saving(self, With(status), next, "idle"))
        PROVE  StoreInv'
    <2>1. With(status) \in Manifest
      BY Types DEF Status
    <2>2. QED
      BY <1>2, <2>1, SaveStarts DEF LoadRun
  <1>3. CASE Read(e, [self EXCEPT !.pc = "work"])
    BY <1>3, MovesOn, Reads DEF LoadRun, Pc
  <1>4. CASE CancellationRequested(self.run)
    BY <1>1, <1>2, <1>3, <1>4 DEF LoadRun, Ended
  <1>5. CASE ~CancellationRequested(self.run)
    BY <1>1, <1>2, <1>3, <1>5 DEF LoadRun, Ended
  <1>6. QED
    BY <1>4, <1>5

LEMMA WorkStep ==
    ASSUME StoreInv, NEW e \in Process, Work(e) \/ VerifyOutputs(e) \/ PublishRefused(e)
    PROVE  StoreInv'
  <1>1. PICK pc \in {"cancel", "publish", "fail", "final"} :
             Read(e, [proc[e] EXCEPT !.pc = pc]) /\ proc[e].pc # "idle"
    BY DEF Work, VerifyOutputs, PublishRefused
  <1>2. QED
    BY <1>1, MovesOn, Reads DEF Pc

LEMMA PublishStep ==
    ASSUME StoreInv, NEW e \in Process, Publish(e) PROVE StoreInv'
  <1> DEFINE self == proc[e]
             link == [self EXCEPT !.pc = "link"]
  <1>1. ASSUME self.artifact <= NumOutputs
        PROVE  link \in ProcState /\ link.pc # "manifest" /\ Sound(link, artifact)
    <2>1. self \in ProcState /\ Sound(self, artifact) /\ self.artifact \in 1 .. NumOutputs + 1
      BY ProcessState DEF ProcState
    <2>2. self.artifact \in 1 .. NumOutputs
      BY <1>1, <2>1, Types DEF Artifact
    <2>3. QED
      BY <2>1, <2>2 DEF ProcState, Pc, Sound, Publish
  <1>2. CASE self.artifact > NumOutputs
    BY <1>2, MovesOn, Reads DEF Publish, Pc
  <1>3. CASE ~(self.artifact > NumOutputs)
    <2>1. self.artifact <= NumOutputs
      BY <1>3, Types, ProcessState DEF ProcState, Artifact
    <2>2. QED
      BY <1>1, <1>3, <2>1, MovesOn, Reads DEF Publish, Pc
  <1>4. QED
    BY <1>2, <1>3

\* A link adds a file and changes nothing else.
LEMMA Linked ==
    ASSUME StoreInv, NEW r \in Run, NEW a \in Artifact, NEW content \in Content \cup {0},
           Link(r, a, content)
    PROVE  Quiet
  BY DEF Link, Quiet, FilesStay, StoreInv, TypeOK, StoreTypeOK, Contents

LEMMA PublishLinkStep ==
    ASSUME StoreInv, NEW e \in Executor, PublishLink(e) PROVE StoreInv'
  <1> DEFINE self  == proc[e]
             state == [self EXCEPT !.pc = "publish", !.artifact = @ + 1]
  <1>a. self \in ProcState /\ Sound(self, artifact) /\ e \in Process /\ e \in Content
    BY ProcessState, Types DEF Process
  <1>b. self.run \in Run /\ self.artifact \in 1 .. NumOutputs /\ self.artifact \in Artifact
    BY <1>a, Types DEF PublishLink, Sound, Artifact
  <1>1. Quiet
    BY <1>a, <1>b, Linked DEF PublishLink
  <1>2. self.artifact + 1 \in 1 .. NumOutputs + 1
    BY <1>b, Types DEF Artifact
  <1>3. state \in ProcState /\ state.pc # "manifest" /\ Sound(state, artifact')
    <2> DEFINE number == self.artifact + 1
    <2> HIDE DEF number
    <2>1. number \in 1 .. NumOutputs + 1
      BY <1>2 DEF number
    <2> DEFINE moved == [[self EXCEPT !.pc = "publish"] EXCEPT !.artifact = number]
    <2>2. moved \in ProcState
      BY <1>a, <2>1 DEF ProcState, Pc
    <2>3. moved.pc = "publish" /\ moved.run = self.run
      BY <1>a DEF ProcState
    <2>4. Sound(moved, artifact')
      BY <1>b, <2>3 DEF Sound
    <2>5. QED
      BY <2>2, <2>3, <2>4 DEF number
  <1>4. QED
    BY <1>a, <1>1, <1>3, Becomes DEF PublishLink

LEMMA FinaliseStep ==
    ASSUME StoreInv, NEW e \in Executor, Finalise(e) PROVE StoreInv'
  <1> DEFINE self == proc[e]
             run  == manifest[self.run]
             success == [status |-> "succeeded", artifacts |-> Outputs(e)]
  <1>a. e \in Process /\ self.pc # "idle"
    BY DEF Finalise, Process
  <1>b. /\ success \in Manifest
        /\ With("cancelled") \in Manifest /\ With("failed") \in Manifest
    BY Types DEF Manifest, Status, Outputs, Contents
  <1>1. CASE Read(e, Saving(self, success, "idle", "fail"))
    BY <1>a, <1>b, <1>1, SaveStarts
  <1>2. CASE \/ Read(e, Saving(self, With("cancelled"), "idle", "idle"))
             \/ Read(e, Saving(self, With("failed"), "idle", "idle"))
    BY <1>a, <1>b, <1>2, SaveStarts
  <1>3. CASE Read(e, [self EXCEPT !.pc = "fail"])
    BY <1>a, <1>3, MovesOn, Reads DEF Pc
  <1>4. CASE Read(e, Idle)
    BY <1>a, <1>4, Reads, IdleState
  <1>5. QED
    BY <1>1, <1>2, <1>3, <1>4 DEF Finalise

LEMMA ExecutorSteps ==
    ASSUME StoreInv, NEW e \in Executor, ExecutorStep(e) PROVE StoreInv'
  BY ClaimStep, LoadRunStep, WorkStep, PublishStep, PublishLinkStep, FinaliseStep
  DEF ExecutorStep, Process

----------------------------------------------------------------------------
(* AnalysisCoordinator and the cancel endpoint.                              *)

LEMMA Reserved ==
    ASSUME StoreInv, NEW r \in Run, Reserve(r)
    PROVE  /\ StoreTypeOK' /\ FilesStay /\ OutcomeMatchesFiles' /\ artifact' = artifact
           /\ space[r] = "free" /\ space' = [space EXCEPT ![r] = "reserved"]
  BY DEF Reserve, StoreInv, TypeOK, StoreTypeOK, FilesStay, OutcomeMatchesFiles, Has,
         Readable, ArtifactsVerified

\* A process that was idle takes a name.
LEMMA TakesName ==
    ASSUME StoreInv, NEW p \in Process, NEW r \in Run, Reserve(r), proc[p].pc = "idle",
           NEW state \in ProcState, state.pc = "manifest", state.run = r, Become(p, state)
    PROVE  StoreInv'
  <1>1. /\ StoreTypeOK' /\ FilesStay /\ OutcomeMatchesFiles' /\ artifact' = artifact
        /\ space[r] = "free" /\ space' = [space EXCEPT ![r] = "reserved"]
    BY Reserved
  <1>2. Sound(state, artifact)
    BY DEF Sound
  <1>3. proc' = [proc EXCEPT ![p] = state] /\ UNCHANGED <<job, claims, importVars>>
    BY DEF Become
  <1>4. TypeOK'
    BY <1>1, <1>2, <1>3 DEF StoreInv, TypeOK, ImportTypeOK, importVars
  <1>5. \A q \in Process : Sound(proc'[q], artifact')
    BY <1>1, <1>2, <1>3 DEF StoreInv, TypeOK
  <1>6. ImportSound(import', artifact')
    BY <1>1, <1>3 DEF StoreInv, importVars
  <1>7. Reservations'
    <2>1. \A q \in Process : Sound(proc[q], artifact) /\ proc[q] \in ProcState
      BY DEF StoreInv, TypeOK
    <2>2. \A q \in Process : proc[q].pc = "manifest" => proc[q].run # r
      BY <1>1 DEF StoreInv, Reservations
    <2>3. import.pc = "manifest" => import.run # r
      BY <1>1 DEF StoreInv, Reservations
    <2>4. import' = import /\ space \in [Run -> {"free", "reserved", "written"}]
      BY <1>3 DEF importVars, StoreInv, TypeOK, StoreTypeOK
    <2>5. proc \in [Process -> ProcState]
      BY DEF StoreInv, TypeOK
    <2>6. \A q \in Process : q # p => proc'[q] = proc[q]
      BY <1>3, <2>5
    <2>7. proc'[p] = state
      BY <1>3, <2>5
    <2>8. \A n \in Run : n # r => space'[n] = space[n]
      BY <1>1, <2>4
    <2>9. space'[r] = "reserved"
      BY <1>1, <2>4
    <2>10. \A q \in Process : proc[q].pc = "manifest" => proc[q].run \in Run
      BY <2>1 DEF Sound
    <2>11. import.pc = "manifest" => import.run \in Run
      BY DEF StoreInv, ImportSound
    <2>12. QED
      BY <1>2, <2>2, <2>3, <2>4, <2>6, <2>7, <2>8, <2>9, <2>10, <2>11
      DEF StoreInv, Reservations
  <1>8. QED
    BY <1>1, <1>4, <1>5, <1>6, <1>7 DEF StoreInv

LEMMA CreateStep ==
    ASSUME StoreInv, NEW c \in Process, NEW r \in Run,
           Create(c, r) \/ \E from \in Run : Reuse(c, from, r)
    PROVE  StoreInv'
  <1>1. CASE Create(c, r)
    <2>1. LET state == [Idle EXCEPT !.pc = "manifest", !.run = r]
          IN  state \in ProcState /\ state.pc = "manifest" /\ state.run = r
      BY Types DEF Idle, ProcState, Pc
    <2>2. QED
      BY <1>1, <2>1, TakesName DEF Create
  <1>2. ASSUME NEW from \in Run, Reuse(c, from, r) PROVE StoreInv'
    <2>1. LET state == [Idle EXCEPT !.pc = "manifest", !.run = r, !.source = from]
          IN  state \in ProcState /\ state.pc = "manifest" /\ state.run = r
      BY Types DEF Idle, ProcState, Pc
    <2>2. QED
      BY <1>2, <2>1, TakesName DEF Reuse
  <1>3. QED
    BY <1>1, <1>2

\* The holder of a name writes its manifest, or gives the name back.
LEMMA NameUsed ==
    ASSUME StoreInv, NEW r \in Run, space[r] = "reserved",
           WriteNewManifest(r) \/ RemoveNamespace(r)
    PROVE  /\ StoreTypeOK' /\ FilesStay /\ OutcomeMatchesFiles' /\ artifact' = artifact
           /\ \A n \in Run : n # r => space'[n] = space[n]
  <1>1. With("queued") \in Manifest /\ With("queued").status = "queued"
    BY Types DEF Status, With
  <1>2. /\ StoreTypeOK' /\ FilesStay /\ artifact' = artifact
        /\ \A n \in Run : n # r => space'[n] = space[n] /\ manifest'[n] = manifest[n]
        /\ space'[r] = "written" => manifest'[r] = With("queued")
    BY <1>1 DEF WriteNewManifest, RemoveNamespace, StoreInv, TypeOK, StoreTypeOK, FilesStay
  <1>3. OutcomeMatchesFiles'
    BY <1>1, <1>2 DEF StoreInv, OutcomeMatchesFiles, Has, Readable, ArtifactsVerified
  <1>4. QED
    BY <1>2, <1>3

LEMMA WriteManifestStep ==
    ASSUME StoreInv, NEW c \in Process, WriteManifest(c) PROVE StoreInv'
  <1> DEFINE self == proc[c]
  <1>a. self \in ProcState /\ Sound(self, artifact) /\ self.run \in Run
    BY ProcessState DEF WriteManifest, Sound
  <1>b. space[self.run] = "reserved" /\ self.pc = "manifest"
    BY DEF WriteManifest, StoreInv, Reservations
  <1>1. PICK pc \in {"put", "copy", "idle"} :
            /\ pc = "copy" => self.source # NoRun
            /\ Proceed(c, pc)
            /\ WriteNewManifest(self.run) \/ RemoveNamespace(self.run)
    BY DEF WriteManifest
  <1> DEFINE moved == [self EXCEPT !.pc = pc]
             state == IF moved.pc = "idle" THEN Idle ELSE moved
  <1>2. /\ StoreTypeOK' /\ FilesStay /\ OutcomeMatchesFiles' /\ artifact' = artifact
        /\ \A n \in Run : n # self.run => space'[n] = space[n]
    BY <1>a, <1>b, <1>1, NameUsed
  <1>3. moved \in ProcState /\ moved.pc # "manifest" /\ Sound(moved, artifact)
    BY <1>a, <1>1 DEF ProcState, Pc, Sound
  <1>4. state \in ProcState /\ state.pc # "manifest" /\ Sound(state, artifact)
    BY <1>3, IdleState
  <1>5. proc' = [proc EXCEPT ![c] = state] /\ UNCHANGED <<job, claims, importVars>>
    BY <1>1 DEF Proceed, Become
  <1> HIDE DEF state
  <1>6. TypeOK'
    BY <1>2, <1>4, <1>5 DEF StoreInv, TypeOK, ImportTypeOK, importVars
  <1>7. \A q \in Process : Sound(proc'[q], artifact')
    BY <1>2, <1>4, <1>5 DEF StoreInv, TypeOK
  <1>8. ImportSound(import', artifact')
    BY <1>2, <1>5 DEF StoreInv, importVars
  <1>9. Reservations'
    <2>1. proc \in [Process -> ProcState] /\ import' = import
      BY <1>5 DEF StoreInv, TypeOK, importVars
    <2>2. \A q \in Process : q # c => proc'[q] = proc[q]
      BY <1>5, <2>1
    <2>3. proc'[c] = state
      BY <1>5, <2>1
    <2>4. \A q \in Process : q # c /\ proc[q].pc = "manifest" =>
              proc[q].run \in Run /\ proc[q].run # self.run
      BY <1>b DEF StoreInv, Reservations, Sound
    <2>5. import.pc = "manifest" => import.run \in Run /\ import.run # self.run
      BY <1>b DEF StoreInv, Reservations, ImportSound
    <2>6. QED
      BY <1>2, <1>4, <2>1, <2>2, <2>3, <2>4, <2>5 DEF StoreInv, Reservations
  <1>10. QED
    BY <1>2, <1>6, <1>7, <1>8, <1>9 DEF StoreInv

\* Inputs and markers are all these requests change in the store.
LEMMA InputsAreQuiet ==
    ASSUME StoreInv, NEW r \in Run,
           \/ OpenInput(r) \/ FinishInput(r) \/ RemoveInput(r) \/ PutMarker(r)
           \/ UNCHANGED storeVars
    PROVE  Quiet /\ artifact' = artifact
  BY DEF OpenInput, FinishInput, RemoveInput, PutMarker, storeVars, Quiet, FilesStay,
         StoreInv, TypeOK, StoreTypeOK

LEMMA RequestMoves ==
    ASSUME StoreInv, NEW c \in Process, proc[c].pc # "idle",
           \/ \E r \in Run : OpenInput(r) \/ FinishInput(r) \/ RemoveInput(r) \/ PutMarker(r)
           \/ UNCHANGED storeVars,
           NEW pc \in {"putEnd", "enqueue", "ingestFail", "idle"}, Proceed(c, pc)
    PROVE  StoreInv'
  <1>1. Quiet /\ artifact' = artifact
    BY InputsAreQuiet, ReadsAreQuiet
  <1>2. pc \in Pc \ {"manifest", "link", "copy", "save", "replace"}
    BY DEF Pc
  <1>3. QED
    BY <1>1, <1>2, MovesOn, Becomes DEF Proceed

LEMMA IngestionStep ==
    ASSUME StoreInv, NEW c \in Process,
           \/ PutInput(c) \/ PutInputEnd(c) \/ CopyInputEnd(c) \/ WriteMarker(c)
    PROVE  StoreInv'
  <1>1. proc[c].pc # "idle" /\ proc[c].run \in Run
    BY ProcessState DEF PutInput, PutInputEnd, CopyInputEnd, WriteMarker, Sound
  <1>2. QED
    BY <1>1, RequestMoves DEF PutInput, PutInputEnd, CopyInputEnd, WriteMarker

LEMMA CopyInputStep ==
    ASSUME StoreInv, NEW c \in Process, CopyInput(c) PROVE StoreInv'
  <1> DEFINE self  == proc[c]
             state == [self EXCEPT !.pc = "copyEnd", !.seen = input[self.source]]
  <1>a. /\ self \in ProcState /\ Sound(self, artifact) /\ StoreTypeOK
        /\ self.pc = "copy" /\ self.run \in Run /\ self.source \in Run
    BY ProcessState DEF CopyInput, Sound
  <1>1. CASE HasInput(self.source)
    <2>1. Quiet /\ artifact' = artifact
      BY <1>a, <1>1, InputsAreQuiet DEF CopyInput
    <2>2. input[self.source] \in {"none", "partial", "whole"}
      BY <1>a DEF StoreTypeOK
    <2>3. state \in ProcState /\ state.pc # "manifest" /\ Sound(state, artifact)
      BY <1>a, <2>2 DEF ProcState, Pc, Sound
    <2>4. QED
      BY <1>1, <2>1, <2>3, Becomes DEF CopyInput
  <1>2. CASE ~HasInput(self.source)
    BY <1>a, <1>2, RequestMoves DEF CopyInput
  <1>3. QED
    BY <1>1, <1>2

LEMMA EnqueueStep ==
    ASSUME StoreInv, NEW c \in Process, Enqueue(c) PROVE StoreInv'
  <1>1. CASE Read(c, [proc[c] EXCEPT !.pc = "ingestFail"])
    BY <1>1, MovesOn, Reads DEF Enqueue, Pc
  <1>2. ASSUME /\ job' = [job EXCEPT ![proc[c].run] = TRUE]
               /\ proc' = [proc EXCEPT ![c] = Idle]
               /\ UNCHANGED <<storeVars, importVars, claims>>
        PROVE  StoreInv'
    <2>1. Quiet /\ artifact' = artifact
      BY <1>2, ReadsAreQuiet
    <2>2. job' \in [Run -> BOOLEAN] /\ claims' \in 0 .. MaxClaims
      BY <1>2 DEF StoreInv, TypeOK
    <2>3. QED
      BY <1>2, <2>1, <2>2, IdleState, QuietProcess
  <1>3. QED
    BY <1>1, <1>2 DEF Enqueue

LEMMA FailIngestionStep ==
    ASSUME StoreInv, NEW c \in Process, FailIngestion(c) PROVE StoreInv'
  <1>1. With("failed") \in Manifest
    BY Types DEF Status
  <1>2. QED
    BY <1>1, SaveStarts DEF FailIngestion

LEMMA LoadForCancelStep ==
    ASSUME StoreInv, NEW c \in Process, NEW r \in Run, LoadForCancel(c, r) PROVE StoreInv'
  <1> DEFINE self == [Idle EXCEPT !.run = r]
  <1>1. self \in ProcState /\ self.run = r
    BY Types DEF Idle, ProcState
  <1>2. With("cancelled") \in Manifest
    BY Types DEF Status
  <1>3. CASE manifest[r].status = "queued"
    <2>1. Read(c, Saving(self, With("cancelled"), "idle", "idle"))
      BY <1>3 DEF LoadForCancel
    <2>2. QED
      BY <1>1, <1>2, <2>1, SavingState, Reads
  <1>4. CASE manifest[r].status # "queued"
    <2> HIDE DEF self
    <2>1. LET state == [self EXCEPT !.pc = "request"]
          IN  state \in ProcState /\ state.pc # "manifest" /\ Sound(state, artifact)
      BY <1>1 DEF ProcState, Pc, Sound
    <2>2. QED
      BY <1>4, <2>1, Reads DEF LoadForCancel, self
  <1>5. QED
    BY <1>3, <1>4

LEMMA RequestCancellationStep ==
    ASSUME StoreInv, NEW c \in Process, RequestCancellation(c) PROVE StoreInv'
  BY MovesOn, Reads DEF RequestCancellation, Pc

LEMMA RequestSteps ==
    ASSUME StoreInv, NEW c \in Request, RequestStep(c) PROVE StoreInv'
  BY CreateStep, WriteManifestStep, IngestionStep, CopyInputStep, EnqueueStep,
     FailIngestionStep, LoadForCancelStep, RequestCancellationStep
  DEF RequestStep, Process

----------------------------------------------------------------------------
(* LegacyV1Importer.                                                         *)

LEMMA ImportTypes ==
    /\ MaxEdits \in Nat /\ 1 \in Content
    /\ \A n \in 0 .. MaxEdits : n < MaxEdits => n + 1 \in 0 .. MaxEdits /\ n + 2 \in Content
  BY EditsAssumption

LEMMA FindSourcesStep ==
    ASSUME StoreInv, FindSources, UNCHANGED <<job, claims, proc>> PROVE StoreInv'
  <1>1. PICK found \in SUBSET Artifact :
            /\ source' = [a \in Artifact |-> IF a \in found THEN 1 ELSE 0]
            /\ import' = [NoImport EXCEPT !.pc = "hash", !.found = found, !.todo = found]
    BY DEF FindSources
  <1>2. source' \in Contents
    BY <1>1, ImportTypes DEF Contents
  <1>3. import' \in ImportState /\ import'.pc = "hash"
    BY <1>1, Types DEF NoImport, ImportState, ImportPc, Status
  <1>4. ImportTypeOK'
    BY <1>2, <1>3 DEF ImportTypeOK, FindSources, StoreInv, TypeOK
  <1>5. ImportSound(import', artifact')
    BY <1>3 DEF ImportSound
  <1>6. Quiet
    BY ReadsAreQuiet DEF FindSources
  <1>7. QED
    BY <1>3, <1>4, <1>5, <1>6, QuietImport

LEMMA EditStep ==
    ASSUME StoreInv, NEW a \in Artifact, Edit(a), UNCHANGED <<job, claims, proc>>
    PROVE  StoreInv'
  <1>1. edits \in 0 .. MaxEdits /\ source \in Contents /\ import \in ImportState
    BY DEF StoreInv, TypeOK, ImportTypeOK
  <1>2. edits' \in 0 .. MaxEdits /\ edits + 2 \in Content
    BY <1>1, ImportTypes DEF Edit
  <1>3. source' \in Contents
    BY <1>1, <1>2 DEF Edit, Contents
  <1>4. ImportTypeOK'
    BY <1>1, <1>2, <1>3 DEF ImportTypeOK, Edit
  <1>5. Quiet /\ artifact' = artifact
    BY ReadsAreQuiet DEF Edit
  <1>6. QED
    BY <1>4, <1>5, QuietImport DEF Edit, StoreInv

LEMMA ImportRecord ==
    ASSUME StoreInv
    PROVE  /\ import \in ImportState /\ ImportSound(import, artifact) /\ StoreTypeOK
           /\ source \in Contents /\ edits \in 0 .. MaxEdits
           /\ job \in [Run -> BOOLEAN]
  BY DEF StoreInv, TypeOK, ImportTypeOK

\* A step of the import that leaves the store alone.
LEMMA ImportReads ==
    ASSUME StoreInv, NEW state \in ImportState, Goto(state), UNCHANGED storeVars,
           state.pc # "manifest", ImportSound(state, artifact),
           UNCHANGED <<job, claims, proc>>
    PROVE  StoreInv'
  BY ReadsAreQuiet, QuietImport, ImportRecord DEF Goto, ImportTypeOK

LEMMA EndingState ==
    ASSUME StoreInv, NEW pc \in ImportPc \ {"manifest", "replace"},
           pc # "done" => import.run \in Run
    PROVE  /\ Ending(pc) \in ImportState /\ Ending(pc).pc # "manifest"
           /\ ImportSound(Ending(pc), artifact)
  BY ImportRecord DEF Ending, ImportState, ImportPc, ImportSound

LEMMA SaveImportStep ==
    ASSUME StoreInv, NEW pc, NEW status \in Status, NEW contents \in Contents,
           SaveImport(pc, status, contents), import.run \in Run,
           UNCHANGED <<job, claims, proc>>
    PROVE  StoreInv'
  <1> DEFINE new   == [status |-> status, artifacts |-> contents]
             taken == [import EXCEPT !.pc = "replace", !.new = new]
  <1>1. CASE ~SaveAccepts(import.run, new)
    <2>1. Goto(Ending("done")) /\ UNCHANGED storeVars
      BY <1>1 DEF SaveImport
    <2>2. QED
      BY <2>1, EndingState, ImportReads DEF ImportPc
  <1>2. CASE SaveAccepts(import.run, new)
    <2>1. Goto(taken) /\ UNCHANGED storeVars
      BY <1>2 DEF SaveImport
    <2>2. manifest[import.run].status \in Status \ Ended
      BY <1>2, ImportRecord DEF SaveAccepts, Successors, StoreTypeOK, Manifest, Status, Ended
    <2>3. new \in Manifest /\ (new.status \in Completed => Lie(new.artifacts, artifact[import.run]))
      BY <1>2 DEF SaveAccepts, ArtifactsVerified, Lie, Completed, Manifest
    <2> HIDE DEF new
    <2>4. taken \in ImportState /\ taken.pc = "replace" /\ taken.run = import.run
          /\ taken.new = new
      BY <2>2, <2>3, ImportRecord DEF ImportState, ImportPc
    <2>5. ImportSound(taken, artifact)
      BY <2>2, <2>3, <2>4 DEF ImportSound, Checked
    <2>6. QED
      BY <2>1, <2>4, <2>5, ImportReads
  <1>3. QED
    BY <1>1, <1>2

LEMMA SavesOfImport ==
    ASSUME StoreInv, StartImport \/ FailImport \/ FinishImport,
           UNCHANGED <<job, claims, proc>>
    PROVE  StoreInv'
  <1>1. import.copied \in Contents
    BY ImportRecord DEF ImportState
  <1>2. CASE StartImport
    BY <1>2, SaveImportStep, ImportRecord, Types DEF StartImport, SaveImport, ImportSound, Status
  <1>3. CASE FailImport
    BY <1>3, SaveImportStep, ImportRecord, Types DEF FailImport, SaveImport, ImportSound, Status
  <1>4. CASE FinishImport
    <2>1. import.run \in Run
      BY <1>4, ImportRecord DEF FinishImport, SaveImport, ImportSound
    <2>2. CASE import.pc = "finish" /\ Goto(Ending("done")) /\ UNCHANGED storeVars
      BY <2>2, EndingState, ImportReads DEF ImportPc
    <2>3. CASE SaveImport("finish", "succeeded", import.copied)
      BY <1>1, <2>1, <2>3, SaveImportStep DEF Status
    <2>4. CASE SaveImport("finish", "partial", import.copied)
      BY <1>1, <2>1, <2>4, SaveImportStep DEF Status
    <2>5. QED
      BY <1>4, <2>2, <2>3, <2>4 DEF FinishImport
  <1>5. QED
    BY <1>2, <1>3, <1>4

LEMMA ReplaceImportStep ==
    ASSUME StoreInv, ReplaceImport, UNCHANGED <<job, claims, proc>> PROVE StoreInv'
  <1>a. import \in ImportState /\ import.run \in Run /\ Checked(import, artifact)
    BY ImportRecord DEF ReplaceImport, ImportSound
  <1>b. import.new \in Manifest
    BY <1>a DEF ImportState
  <1>1. /\ StoreTypeOK' /\ FilesStay /\ OutcomeMatchesFiles'
        /\ space' = space /\ artifact' = artifact
    BY <1>a, <1>b, Replaced DEF ReplaceImport, Checked
  <1>2. PICK pc \in {"read", "done"} : Goto(Ending(pc))
    BY DEF ReplaceImport
  <1>3. /\ import' \in ImportState /\ import'.pc # "manifest"
        /\ ImportSound(import', artifact)
    BY <1>a, <1>2, EndingState DEF Goto, ImportPc
  <1>4. TypeOK'
    BY <1>1, <1>2, <1>3 DEF StoreInv, TypeOK, ImportTypeOK, Goto
  <1>5. Reservations'
    BY <1>1, <1>3 DEF StoreInv, Reservations
  <1>6. QED
    BY <1>1, <1>3, <1>4, <1>5 DEF StoreInv

\* The loops over the source files.
LEMMA VisitState ==
    ASSUME NEW state \in ImportState, state.run \in Run \/ state.pc = "hash",
           state.pc \in {"hash", "read", "rehash"},
           NEW pc \in {"reserve", "rehash", "finish"}, pc # "reserve" => state.run \in Run
    PROVE  /\ Visit(state, pc) \in ImportState /\ Visit(state, pc).pc # "manifest"
           /\ ImportSound(Visit(state, pc), artifact)
           /\ ImportSound(Visit(state, pc), artifact')
  BY DEF Visit, ImportState, ImportPc, ImportSound

LEMMA HashSourceStep ==
    ASSUME StoreInv, HashSource, UNCHANGED <<job, claims, proc>> PROVE StoreInv'
  <1>1. PICK a \in Remaining :
            Goto(IF source[a] = 0 THEN Ending("done")
                 ELSE Visit([import EXCEPT !.todo = @ \ {a}, !.hashes[a] = source[a]],
                            "reserve"))
    BY DEF HashSource
  <1> DEFINE visited == [import EXCEPT !.todo = @ \ {a}, !.hashes[a] = source[a]]
  <1>2. visited \in ImportState /\ visited.pc = "hash"
    <2>1. a \in Artifact /\ source[a] \in Content \cup {0}
      BY <1>1, ImportRecord DEF Remaining, ImportState, Contents
    <2>2. [import.hashes EXCEPT ![a] = source[a]] \in Contents
      BY <2>1, ImportRecord DEF ImportState, Contents
    <2>3. QED
      BY <2>1, <2>2, ImportRecord DEF ImportState, ImportPc, HashSource
  <1> HIDE DEF visited
  <1>3. CASE source[a] = 0
    BY <1>1, <1>3, EndingState, ImportReads DEF ImportPc, HashSource
  <1>4. CASE source[a] # 0
    <2>1. Goto(Visit(visited, "reserve"))
      BY <1>1, <1>4 DEF visited
    <2>2. QED
      BY <1>2, <2>1, VisitState, ImportReads DEF HashSource
  <1>5. QED
    BY <1>3, <1>4

LEMMA RehashSourceStep ==
    ASSUME StoreInv, RehashSource, UNCHANGED <<job, claims, proc>> PROVE StoreInv'
  <1>1. PICK a \in Remaining :
            Goto(IF source[a] = import.hashes[a]
                 THEN Visit([import EXCEPT !.todo = @ \ {a}], "finish") ELSE Ending("done"))
    BY DEF RehashSource
  <1> DEFINE visited == [import EXCEPT !.todo = @ \ {a}]
  <1>2. visited \in ImportState /\ visited.pc = "rehash" /\ visited.run \in Run
    BY ImportRecord DEF ImportState, ImportSound, RehashSource
  <1> HIDE DEF visited
  <1>3. CASE source[a] # import.hashes[a]
    BY <1>1, <1>3, EndingState, ImportReads DEF ImportPc, RehashSource
  <1>4. CASE source[a] = import.hashes[a]
    <2>1. Goto(Visit(visited, "finish"))
      BY <1>1, <1>4 DEF visited
    <2>2. QED
      BY <1>2, <2>1, VisitState, ImportReads DEF RehashSource
  <1>5. QED
    BY <1>3, <1>4

LEMMA ReadSourceStep ==
    ASSUME StoreInv, ReadSource, UNCHANGED <<job, claims, proc>> PROVE StoreInv'
  <1>1. PICK a \in Remaining :
            Goto(IF source[a] = 0 THEN Ending("failed")
                 ELSE [import EXCEPT !.pc = "copy", !.held = source[a]])
    BY DEF ReadSource
  <1>2. import.run \in Run
    BY ImportRecord DEF ReadSource, ImportSound
  <1>3. CASE source[a] = 0
    BY <1>1, <1>2, <1>3, EndingState, ImportReads DEF ImportPc, ReadSource
  <1>4. CASE source[a] # 0
    <2> DEFINE state == [import EXCEPT !.pc = "copy", !.held = source[a]]
    <2>1. source[a] \in Content \cup {0}
      BY <1>1, ImportRecord DEF Remaining, ImportState, Contents
    <2>2. state \in ImportState /\ state.pc = "copy" /\ state.run \in Run
      BY <1>2, <2>1, ImportRecord DEF ImportState, ImportPc
    <2>3. Goto(state)
      BY <1>1, <1>4
    <2> HIDE DEF state
    <2>4. QED
      BY <2>2, <2>3, ImportReads DEF ImportSound, ReadSource
  <1>5. QED
    BY <1>3, <1>4

LEMMA CopySourceStep ==
    ASSUME StoreInv, CopySource, UNCHANGED <<job, claims, proc>> PROVE StoreInv'
  <1>1. import.run \in Run /\ import \in ImportState
    BY ImportRecord DEF CopySource, ImportSound
  <1>2. CASE ~AcceptsArtifacts(import.run)
    BY <1>1, <1>2, EndingState, ImportReads DEF ImportPc, CopySource
  <1>3. CASE AcceptsArtifacts(import.run)
    <2> DEFINE visited(a) == [import EXCEPT !.pc = "read", !.todo = @ \ {a}, !.held = 0,
                                            !.copied[a] = import.held]
    <2>1. PICK a \in Remaining :
              Link(import.run, a, import.held) /\ Goto(Visit(visited(a), "rehash"))
      BY <1>3 DEF CopySource
    <2>2. a \in Artifact /\ import.held \in Content \cup {0}
      BY <1>1, <2>1 DEF Remaining, ImportState
    <2>3. visited(a) \in ImportState /\ visited(a).pc = "read" /\ visited(a).run \in Run
      <3>1. [import.copied EXCEPT ![a] = import.held] \in Contents
        BY <1>1, <2>2 DEF ImportState, Contents
      <3>2. QED
        BY <1>1, <2>2, <3>1 DEF ImportState, ImportPc
    <2>4. Quiet
      BY <1>1, <2>1, <2>2, Linked
    <2> HIDE DEF visited
    <2>5. /\ import' \in ImportState /\ import'.pc # "manifest"
          /\ ImportSound(import', artifact')
      BY <2>1, <2>3, VisitState DEF Goto
    <2>6. QED
      BY <2>1, <2>4, <2>5, QuietImport, ImportRecord DEF Goto, ImportTypeOK
  <1>4. QED
    BY <1>2, <1>3

LEMMA ReserveImportStep ==
    ASSUME StoreInv, NEW r \in Run, ReserveImport(r), UNCHANGED <<job, claims, proc>>
    PROVE  StoreInv'
  <1> DEFINE state == [import EXCEPT !.pc = "manifest", !.run = r]
  <1>1. /\ StoreTypeOK' /\ FilesStay /\ OutcomeMatchesFiles' /\ artifact' = artifact
        /\ space[r] = "free" /\ space' = [space EXCEPT ![r] = "reserved"]
    BY Reserved DEF ReserveImport
  <1>2. state \in ImportState /\ state.pc = "manifest" /\ state.run = r
    BY ImportRecord DEF ImportState, ImportPc
  <1>3. import' = state /\ UNCHANGED <<source, edits>>
    BY DEF ReserveImport, Goto
  <1> HIDE DEF state
  <1>4. TypeOK'
    BY <1>1, <1>2, <1>3 DEF StoreInv, TypeOK, ImportTypeOK
  <1>5. (\A q \in Process : Sound(proc'[q], artifact')) /\ ImportSound(import', artifact')
    BY <1>1, <1>2, <1>3 DEF StoreInv, ImportSound
  <1>6. Reservations'
    <2>1. \A q \in Process : proc[q].pc = "manifest" => proc[q].run # r /\ proc[q].run \in Run
      BY <1>1 DEF StoreInv, Reservations, Sound
    <2>2. \A n \in Run : space'[n] = IF n = r THEN "reserved" ELSE space[n]
      BY <1>1 DEF StoreInv, TypeOK, StoreTypeOK
    <2>3. QED
      BY <1>2, <1>3, <2>1, <2>2 DEF StoreInv, Reservations
  <1>7. QED
    BY <1>1, <1>4, <1>5, <1>6 DEF StoreInv

LEMMA WriteImportStep ==
    ASSUME StoreInv, WriteImport, UNCHANGED <<job, claims, proc>> PROVE StoreInv'
  <1>a. import.run \in Run /\ space[import.run] = "reserved" /\ import.pc = "manifest"
    BY ImportRecord DEF WriteImport, ImportSound, StoreInv, Reservations
  <1>1. /\ StoreTypeOK' /\ FilesStay /\ OutcomeMatchesFiles' /\ artifact' = artifact
        /\ \A n \in Run : n # import.run => space'[n] = space[n]
    BY <1>a, NameUsed DEF WriteImport
  <1>2. import' = [import EXCEPT !.pc = "start"] /\ UNCHANGED <<source, edits>>
    BY DEF WriteImport, Goto
  <1>3. import' \in ImportState /\ import'.pc = "start" /\ import'.run = import.run
    BY <1>2, ImportRecord DEF ImportState, ImportPc
  <1>4. TypeOK'
    BY <1>1, <1>2, <1>3 DEF StoreInv, TypeOK, ImportTypeOK
  <1>5. (\A q \in Process : Sound(proc'[q], artifact')) /\ ImportSound(import', artifact')
    BY <1>a, <1>1, <1>3 DEF StoreInv, ImportSound
  <1>6. Reservations'
    <2>1. \A q \in Process : proc[q].pc = "manifest" =>
              proc[q].run \in Run /\ proc[q].run # import.run
      BY <1>a DEF StoreInv, Reservations, Sound
    <2>2. QED
      BY <1>1, <1>3, <2>1 DEF StoreInv, Reservations
  <1>7. QED
    BY <1>1, <1>4, <1>5, <1>6 DEF StoreInv

LEMMA ImportSteps ==
    ASSUME StoreInv, V1Step, UNCHANGED <<job, claims, proc>> PROVE StoreInv'
  BY FindSourcesStep, EditStep, ReserveImportStep, WriteImportStep, HashSourceStep,
     SavesOfImport, ReplaceImportStep, ReadSourceStep, CopySourceStep, RehashSourceStep
  DEF V1Step, ImportStep

----------------------------------------------------------------------------
(* Theorems.                                                                 *)

LEMMA StoreInvInitially == Init => StoreInv
  <1> SUFFICES ASSUME Init PROVE StoreInv
    OBVIOUS
  <1>1. With("queued") \in Manifest
    BY Types DEF Status
  <1>2. StoreTypeOK
    BY <1>1, Types DEF Init, StoreInit, StoreTypeOK
  <1>3. ImportTypeOK
    BY <1>1, Types, ImportTypes
    DEF Init, ImportInit, ImportTypeOK, NoImport, ImportState, ImportPc, Status
  <1>4. TypeOK
    BY <1>2, <1>3, Types, ExecutorAssumption DEF Init, TypeOK
  <1>5. \A p \in Process : Sound(proc[p], artifact) /\ proc[p].pc = "idle"
    BY DEF Init, Sound, Idle
  <1>6. ImportSound(import, artifact) /\ import.pc = "idle"
    BY DEF Init, ImportInit, NoImport, ImportSound
  <1>7. OutcomeMatchesFiles
    BY DEF Init, StoreInit, OutcomeMatchesFiles, Has, Readable
  <1>8. QED
    BY <1>4, <1>5, <1>6, <1>7 DEF StoreInv, Reservations

LEMMA StoreInvStep == StoreInv /\ [Next]_vars => StoreInv'
  <1> SUFFICES ASSUME StoreInv, [Next]_vars PROVE StoreInv'
    OBVIOUS
  <1>1. CASE UNCHANGED vars
    <2>1. \A p \in Process : Sound(proc'[p], artifact')
      BY <1>1 DEF vars, storeVars, StoreInv
    <2>2. QED
      BY <1>1, <2>1 DEF vars, storeVars, importVars, StoreInv, TypeOK, StoreTypeOK, ImportTypeOK,
            Reservations, OutcomeMatchesFiles, Has, Readable, ArtifactsVerified
  <1>2. ASSUME NEW e \in Executor, ExecutorStep(e) PROVE StoreInv'
    BY <1>2, ExecutorSteps
  <1>3. ASSUME NEW c \in Request, RequestStep(c) PROVE StoreInv'
    BY <1>3, RequestSteps
  <1>4. ASSUME NEW p \in Process, SaveCheck(p) \/ SaveReplace(p) PROVE StoreInv'
    BY <1>4, SaveCheckStep, SaveReplaceStep
  <1>5. CASE V1Step /\ UNCHANGED <<job, claims, proc>>
    BY <1>5, ImportSteps
  <1>6. QED
    BY <1>1, <1>2, <1>3, <1>4, <1>5 DEF Next

LEMMA StoreInvHolds == Spec => []StoreInv
  BY StoreInvInitially, StoreInvStep, PTL DEF Spec

\* Every reachable state is well typed (LocalAnalysisRunStore, the executor, the
\* coordinator and the importer), for all constants.
THEOREM StoreTypeCorrect == Spec => []TypeOK
  BY StoreInvHolds, PTL DEF StoreInv

\* The files that an outcome registers lie on the disk with the recorded content
\* (save verifies them, os.link publishes each name once), however many executors,
\* requests and imports come between the verification and the replacement.
THEOREM OutcomesMatchFiles == Spec => []OutcomeMatchesFiles
  BY StoreInvHolds, PTL DEF StoreInv

----------------------------------------------------------------------------
(* Inputs.  A request owns the run it creates until its job is enqueued.     *)

Ingesting == {"put", "putEnd", "copy", "copyEnd", "enqueue"}

\* What a request that cancels can be about to do.
Cancelling(state) ==
    \/ state.pc \in {"idle", "request", "mark"}
    \/ /\ state.pc \in {"save", "replace"}
       /\ state.new = With("cancelled") /\ state.next = "idle" /\ state.refused = "idle"

\* What a process knows of its run and of the run's input.
Owns(state, names, queued, inputs) ==
    /\ state.pc \notin {"idle", "manifest"} => names[state.run] = "written"
    /\ state.pc \in Ingesting => ~queued[state.run]
    /\ state.pc = "enqueue" => inputs[state.run] = "whole"

OneOwner ==
    \A p, q \in Process :
        proc[p].pc \in Ingesting /\ proc[q].pc \in Ingesting /\ proc[p].run = proc[q].run
            => p = q

\* Beside an import there are only requests that cancel.
ImportAlone ==
    /\ import.pc # "idle" => \A p \in Process : Cancelling(proc[p])
    /\ import.pc # "idle" => \A r \in Run : ~job[r]

InputInv ==
    /\ \A p \in Process : Owns(proc[p], space, job, input)
    /\ OneOwner
    /\ EnqueuedInputIsWhole
    /\ ImportAlone

\* The owner of a run is the only one to change its input or to enqueue its job.
LEMMA OwnerSteps ==
    ASSUME StoreInv, InputInv, NEW p \in Process, NEW state,
           proc' = [proc EXCEPT ![p] = state], import' = import,
           \A r \in Run : Readable(r) => Readable(r)',
           \A r \in Run : input'[r] # input[r] => proc[p].pc \in Ingesting /\ r = proc[p].run,
           \A r \in Run : job'[r] => job[r] \/ /\ proc[p].pc = "enqueue" /\ r = proc[p].run
                                               /\ input' = input,
           Owns(state, space', job', input'),
           state.pc \in Ingesting => /\ state.run = proc[p].run
                                     /\ proc[p].pc \in Ingesting \cup {"manifest"},
           import.pc # "idle" => Cancelling(state)
    PROVE  InputInv'
  <1>1. /\ proc \in [Process -> ProcState]
        /\ \A q \in Process : proc[q].pc # "idle" => proc[q].run \in Run
    BY DEF StoreInv, TypeOK, Sound
  <1>2. proc'[p] = state /\ \A q \in Process : q # p => proc'[q] = proc[q]
    BY <1>1
  <1>3. ASSUME NEW q \in Process, q # p PROVE Owns(proc[q], space', job', input')
    BY <1>1, <1>3 DEF InputInv, Owns, OneOwner, Readable, Ingesting
  <1>4. \A q \in Process : Owns(proc'[q], space', job', input')
    BY <1>2, <1>3
  <1>5. ASSUME NEW q \in Process, q # p, proc[q].pc \in Ingesting, state.pc \in Ingesting,
               state.run = proc[q].run
        PROVE  FALSE
    <2>1. CASE proc[p].pc \in Ingesting
      BY <1>5, <2>1 DEF InputInv, OneOwner
    <2>2. CASE proc[p].pc = "manifest"
      BY <1>5, <2>2 DEF InputInv, Owns, StoreInv, Reservations, Ingesting
    <2>3. QED
      BY <1>5, <2>1, <2>2
  <1>6. OneOwner'
    BY <1>2, <1>5 DEF InputInv, OneOwner
  <1>7. ASSUME NEW r \in Run, job'[r] PROVE Readable(r)' /\ input'[r] = "whole"
    <2>1. CASE job[r]
      BY <1>7, <2>1 DEF InputInv, Owns, EnqueuedInputIsWhole
    <2>2. CASE proc[p].pc = "enqueue" /\ r = proc[p].run /\ input' = input
      BY <1>7, <2>2 DEF InputInv, Owns, Readable
    <2>3. QED
      BY <1>7, <2>1, <2>2
  <1>8. ImportAlone'
    <2>1. import.pc # "idle" => Cancelling(proc[p])
      BY DEF InputInv, ImportAlone
    <2>2. import.pc # "idle" => proc[p].pc # "enqueue"
      BY <2>1 DEF Cancelling
    <2>3. \A r \in Run : import.pc # "idle" => ~job'[r]
      BY <2>2 DEF InputInv, ImportAlone
    <2>4. \A q \in Process : import.pc # "idle" => Cancelling(proc'[q])
      BY <1>2 DEF InputInv, ImportAlone
    <2>5. QED
      BY <2>3, <2>4 DEF ImportAlone
  <1>9. QED
    BY <1>4, <1>6, <1>7, <1>8 DEF InputInv, EnqueuedInputIsWhole

\* Inputs, jobs and names stay as they are, and so does the import.
Apart == UNCHANGED <<space, input, job>> /\ import' = import

LEMMA ApartSteps ==
    ASSUME StoreInv, InputInv, NEW p \in Process, NEW state,
           proc' = [proc EXCEPT ![p] = state], Apart,
           Owns(state, space, job, input), state.pc \notin Ingesting,
           import.pc # "idle" => Cancelling(state)
    PROVE  InputInv'
  BY OwnerSteps DEF Apart, Readable

\* A process goes on with its run, in a place where it owns nothing of it.
LEMMA GoesOn ==
    ASSUME StoreInv, InputInv, NEW p \in Process, NEW state, Apart, Become(p, state),
           proc[p].pc \notin {"idle", "manifest"},
           state.pc = "idle" \/ state.run = proc[p].run, state.pc \notin Ingesting,
           Cancelling(proc[p]) => Cancelling(state)
    PROVE  InputInv'
  <1>1. Owns(proc[p], space, job, input)
    BY DEF InputInv
  <1>2. import.pc # "idle" => Cancelling(state)
    BY DEF InputInv, ImportAlone
  <1>3. CASE state.pc = "idle"
    <2>1. Owns(Idle, space, job, input) /\ Idle.pc \notin Ingesting /\ Cancelling(Idle)
      BY DEF Owns, Idle, Ingesting, Cancelling
    <2>2. proc' = [proc EXCEPT ![p] = Idle]
      BY <1>3 DEF Become
    <2>3. QED
      BY <2>1, <2>2, ApartSteps
  <1>4. CASE state.pc # "idle"
    <2>1. Owns(state, space, job, input)
      BY <1>1, <1>4 DEF Owns, Ingesting
    <2>2. proc' = [proc EXCEPT ![p] = state]
      BY <1>4 DEF Become
    <2>3. QED
      BY <1>2, <2>1, <2>2, ApartSteps
  <1>5. QED
    BY <1>3, <1>4

LEMMA ReadsAreApart ==
    ASSUME NEW p \in Process, NEW state, Read(p, state)
    PROVE  Apart /\ Become(p, state)
  BY DEF Read, Become, Apart, storeVars, importVars

LEMMA ReadsOn ==
    ASSUME StoreInv, InputInv, NEW p \in Process, NEW state, Read(p, state),
           proc[p].pc \notin {"idle", "manifest"},
           state.pc = "idle" \/ state.run = proc[p].run, state.pc \notin Ingesting,
           Cancelling(proc[p]) => Cancelling(state)
    PROVE  InputInv'
  BY ReadsAreApart, GoesOn

\* A move to another place in the code.
LEMMA Moved ==
    ASSUME StoreInv, NEW p \in Process, NEW pc
    PROVE  /\ [proc[p] EXCEPT !.pc = pc].pc = pc
           /\ [proc[p] EXCEPT !.pc = pc].run = proc[p].run
           /\ [proc[p] EXCEPT !.pc = pc].new = proc[p].new
           /\ [proc[p] EXCEPT !.pc = pc].next = proc[p].next
           /\ [proc[p] EXCEPT !.pc = pc].refused = proc[p].refused
           /\ [proc[p] EXCEPT !.pc = pc].source = proc[p].source
           /\ proc[p] \in ProcState
  BY ProcessState DEF ProcState

LEMMA MovesApart ==
    ASSUME StoreInv, InputInv, NEW p \in Process, proc[p].pc \notin {"idle", "manifest"},
           NEW pc, pc \notin Ingesting, ~Cancelling(proc[p]),
           Read(p, [proc[p] EXCEPT !.pc = pc])
    PROVE  InputInv'
  <1> DEFINE state == [proc[p] EXCEPT !.pc = pc]
  <1>1. state.pc = pc /\ state.run = proc[p].run /\ Read(p, state)
    BY Moved
  <1> HIDE DEF state
  <1>2. QED
    BY <1>1, ReadsOn

LEMMA SavingFields ==
    ASSUME NEW self \in ProcState, NEW new, NEW next, NEW refused
    PROVE  LET state == Saving(self, new, next, refused)
           IN  /\ state.pc = "save" /\ state.run = self.run /\ state.new = new
               /\ state.next = next /\ state.refused = refused
  BY DEF Saving, ProcState

LEMMA InputSaves ==
    ASSUME StoreInv, InputInv, NEW p \in Process, SaveCheck(p) \/ SaveReplace(p)
    PROVE  InputInv'
  <1> DEFINE self  == proc[p]
             taken == [self EXCEPT !.pc = "replace"]
             left  == [self EXCEPT !.pc = self.refused]
             after == [self EXCEPT !.pc = self.next]
  <1>1. /\ self \in ProcState /\ self.pc \in {"save", "replace"}
        /\ self.next \in {"idle", "work", "fail"} /\ self.refused \in {"idle", "work", "fail"}
    BY ProcessState DEF SaveCheck, SaveReplace, Sound
  <1>2. taken.run = self.run /\ taken.pc \notin Ingesting /\ (Cancelling(self) => Cancelling(taken))
    BY <1>1 DEF ProcState, Cancelling, Ingesting
  <1>3. left.run = self.run /\ left.pc \notin Ingesting /\ (Cancelling(self) => Cancelling(left))
    BY <1>1, Moved DEF Cancelling, Ingesting
  <1>4. after.run = self.run /\ after.pc \notin Ingesting /\ (Cancelling(self) => Cancelling(after))
    BY <1>1, Moved DEF Cancelling, Ingesting
  <1>5. CASE Read(p, taken)
    BY <1>1, <1>2, <1>5, ReadsOn
  <1>6. CASE Read(p, left)
    BY <1>1, <1>3, <1>6, ReadsOn
  <1>7. CASE SaveReplace(p)
    <2>1. Apart /\ Become(p, after)
      BY <1>7 DEF SaveReplace, Become, ReplaceManifest, Apart, importVars
    <2>2. QED
      BY <1>1, <1>4, <2>1, GoesOn
  <1>8. QED
    BY <1>5, <1>6, <1>7 DEF SaveCheck

LEMMA InputClaims ==
    ASSUME StoreInv, InputInv, NEW p \in Process, NEW r \in Run, Claim(p, r)
    PROVE  InputInv'
  <1> DEFINE state == [Idle EXCEPT !.pc = "load", !.run = r]
  <1>1. state.pc = "load" /\ state.run = r
    BY DEF Idle
  <1>2. Readable(r) /\ import.pc = "idle"
    BY DEF Claim, NoImportYet, InputInv, EnqueuedInputIsWhole
  <1>3. Owns(state, space, job, input) /\ state.pc \notin Ingesting
    BY <1>1, <1>2 DEF Owns, Readable, Ingesting
  <1>4. Apart /\ proc' = [proc EXCEPT ![p] = state]
    BY DEF Claim, Apart, storeVars, importVars
  <1>5. QED
    BY <1>2, <1>3, <1>4, ApartSteps

LEMMA NotCancelling ==
    ASSUME NEW state, state.pc \in {"load", "work", "publish", "link", "verify", "final",
                                    "cancel", "fail", "manifest", "put", "putEnd", "copy",
                                    "copyEnd", "enqueue", "ingestFail"}
    PROVE  ~Cancelling(state)
  BY DEF Cancelling

LEMMA InputLoads ==
    ASSUME StoreInv, InputInv, NEW e \in Process, LoadRun(e) PROVE InputInv'
  <1> DEFINE self == proc[e]
  <1>1. self.pc = "load" /\ self \in ProcState /\ ~Cancelling(self)
    BY Moved, NotCancelling DEF LoadRun
  <1>2. ASSUME NEW new, NEW next, Read(e, Saving(self, new, next, "idle")) PROVE InputInv'
    BY <1>1, <1>2, SavingFields, ReadsOn DEF Ingesting
  <1>3. CASE Read(e, Idle)
    BY <1>1, <1>3, ReadsOn DEF Ingesting, Idle
  <1>4. CASE Read(e, [self EXCEPT !.pc = "work"])
    BY <1>1, <1>4, MovesApart DEF Ingesting
  <1>5. QED
    BY <1>2, <1>3, <1>4 DEF LoadRun

LEMMA InputExecutions ==
    ASSUME StoreInv, InputInv, NEW e \in Process,
           Work(e) \/ Publish(e) \/ PublishRefused(e) \/ VerifyOutputs(e)
    PROVE  InputInv'
  <1> DEFINE self == proc[e]
  <1>1. PICK pc \in {"cancel", "publish", "fail", "verify", "link", "final"} :
            Read(e, [self EXCEPT !.pc = pc])
    BY DEF Work, Publish, PublishRefused, VerifyOutputs
  <1>2. self.pc \in {"work", "publish", "link", "verify"} /\ ~Cancelling(self)
    BY NotCancelling DEF Work, Publish, PublishRefused, VerifyOutputs
  <1>3. pc \notin Ingesting
    BY DEF Ingesting
  <1>4. QED
    BY <1>1, <1>2, <1>3, MovesApart

LEMMA InputLinks ==
    ASSUME StoreInv, InputInv, NEW e \in Process, PublishLink(e) PROVE InputInv'
  <1> DEFINE self  == proc[e]
             state == [self EXCEPT !.pc = "publish", !.artifact = @ + 1]
  <1>1. self.pc = "link" /\ self \in ProcState /\ ~Cancelling(self)
    BY Moved, NotCancelling DEF PublishLink
  <1>2. state.pc = "publish" /\ state.run = self.run
    BY <1>1 DEF ProcState
  <1>3. Apart /\ Become(e, state)
    BY DEF PublishLink, Link, Become, Apart, importVars
  <1>4. QED
    BY <1>1, <1>2, <1>3, GoesOn DEF Ingesting

LEMMA InputFinals ==
    ASSUME StoreInv, InputInv, NEW e \in Process, Finalise(e) PROVE InputInv'
  <1> DEFINE self == proc[e]
  <1>1. self.pc \in {"final", "cancel", "fail"} /\ self \in ProcState /\ ~Cancelling(self)
    BY Moved, NotCancelling DEF Finalise
  <1>2. ASSUME NEW new, NEW refused, Read(e, Saving(self, new, "idle", refused))
        PROVE  InputInv'
    BY <1>1, <1>2, SavingFields, ReadsOn DEF Ingesting
  <1>3. CASE Read(e, Idle)
    BY <1>1, <1>3, ReadsOn DEF Ingesting, Idle
  <1>4. CASE Read(e, [self EXCEPT !.pc = "fail"])
    BY <1>1, <1>4, MovesApart DEF Ingesting
  <1>5. QED
    BY <1>2, <1>3, <1>4 DEF Finalise

LEMMA InputExecutors ==
    ASSUME StoreInv, InputInv, NEW e \in Executor, ExecutorStep(e) PROVE InputInv'
  BY InputClaims, InputLoads, InputExecutions, InputLinks, InputFinals
  DEF ExecutorStep, Process

LEMMA InputReserves ==
    ASSUME StoreInv, InputInv, NEW c \in Process, NEW r \in Run,
           Create(c, r) \/ \E from \in Run : Reuse(c, from, r)
    PROVE  InputInv'
  <1>1. PICK state : /\ state.pc = "manifest" /\ import.pc = "idle"
                     /\ Reserve(r) /\ Become(c, state)
    <2>1. CASE Create(c, r)
      <3>1. [Idle EXCEPT !.pc = "manifest", !.run = r].pc = "manifest"
        BY DEF Idle
      <3>2. QED
        BY <2>1, <3>1 DEF Create, NoImportYet
    <2>2. ASSUME NEW from \in Run, Reuse(c, from, r)
          PROVE  \E state : /\ state.pc = "manifest" /\ import.pc = "idle"
                            /\ Reserve(r) /\ Become(c, state)
      <3>1. [Idle EXCEPT !.pc = "manifest", !.run = r, !.source = from].pc = "manifest"
        BY DEF Idle
      <3>2. QED
        BY <2>2, <3>1 DEF Reuse, NoImportYet
    <2>3. QED
      BY <2>1, <2>2
  <1>2. proc' = [proc EXCEPT ![c] = state] /\ import' = import /\ job' = job /\ input' = input
    BY <1>1 DEF Become, Reserve, importVars
  <1>3. \A n \in Run : Readable(n) => Readable(n)'
    BY <1>1 DEF Reserve, Readable, StoreInv, TypeOK, StoreTypeOK
  <1>4. Owns(state, space', job', input') /\ state.pc \notin Ingesting
    BY <1>1 DEF Owns, Ingesting
  <1>5. QED
    BY <1>1, <1>2, <1>3, <1>4, OwnerSteps

LEMMA InputCreates ==
    ASSUME StoreInv, InputInv, NEW c \in Process, WriteManifest(c) PROVE InputInv'
  <1> DEFINE self == proc[c]
  <1>a. /\ self.pc = "manifest" /\ self.run \in Run /\ space[self.run] = "reserved"
        /\ ~Cancelling(self) /\ StoreTypeOK
    BY ProcessState, NotCancelling DEF WriteManifest, Sound, StoreInv, Reservations
  <1>b. import.pc = "idle" /\ ~job[self.run]
    BY <1>a DEF InputInv, ImportAlone, EnqueuedInputIsWhole, Readable
  <1>1. CASE \/ WriteNewManifest(self.run) /\ Proceed(c, "put")
             \/ WriteNewManifest(self.run) /\ Proceed(c, "copy")
    <2>1. PICK pc \in {"put", "copy"} : WriteNewManifest(self.run) /\ Proceed(c, pc)
      BY <1>1
    <2> DEFINE state == [self EXCEPT !.pc = pc]
    <2>2. state.pc = pc /\ state.run = self.run
      BY Moved
    <2>3. proc' = [proc EXCEPT ![c] = state] /\ import' = import /\ job' = job /\ input' = input
      BY <2>1, <2>2 DEF Proceed, Become, WriteNewManifest, importVars
    <2> HIDE DEF state
    <2>4. space'[self.run] = "written" /\ \A n \in Run : Readable(n) => Readable(n)'
      BY <1>a, <2>1 DEF WriteNewManifest, Readable, StoreTypeOK
    <2>5. Owns(state, space', job', input')
      BY <1>b, <2>2, <2>3, <2>4 DEF Owns
    <2>6. QED
      BY <1>a, <1>b, <2>2, <2>3, <2>4, <2>5, OwnerSteps
  <1>2. CASE RemoveNamespace(self.run) /\ Proceed(c, "idle")
    <2>1. proc' = [proc EXCEPT ![c] = Idle] /\ import' = import /\ job' = job /\ input' = input
      BY <1>2, Moved DEF Proceed, Become, RemoveNamespace, importVars
    <2>2. \A n \in Run : Readable(n) => Readable(n)'
      BY <1>a, <1>2 DEF RemoveNamespace, Readable, StoreTypeOK
    <2>3. Owns(Idle, space', job', input') /\ Idle.pc \notin Ingesting
      BY DEF Owns, Idle, Ingesting
    <2>4. QED
      BY <1>b, <2>1, <2>2, <2>3, OwnerSteps
  <1>3. QED
    BY <1>1, <1>2 DEF WriteManifest

\* The owner of a run writes its input.
LEMMA OwnerWrites ==
    ASSUME StoreInv, InputInv, NEW c \in Process, proc[c].pc \in Ingesting \ {"enqueue"},
           NEW state, state.run = proc[c].run, state.pc \in Ingesting \cup {"ingestFail"},
           state.pc = "enqueue" => FinishInput(proc[c].run),
           \/ OpenInput(proc[c].run) \/ FinishInput(proc[c].run) \/ RemoveInput(proc[c].run)
           \/ UNCHANGED storeVars,
           Become(c, state)
    PROVE  InputInv'
  <1>a. proc[c].run \in Run /\ StoreTypeOK /\ ~Cancelling(proc[c])
    BY ProcessState, NotCancelling DEF Sound, Ingesting
  <1>b. Owns(proc[c], space, job, input) /\ import.pc = "idle"
    BY <1>a DEF InputInv, ImportAlone
  <1>1. proc' = [proc EXCEPT ![c] = state] /\ import' = import /\ job' = job
    BY DEF Become, importVars, Ingesting
  <1>2. /\ space' = space /\ \A r \in Run : input'[r] # input[r] => r = proc[c].run
        /\ state.pc = "enqueue" => input'[proc[c].run] = "whole"
    BY <1>a DEF OpenInput, FinishInput, RemoveInput, storeVars, StoreTypeOK
  <1>3. Owns(state, space', job', input')
    BY <1>b, <1>1, <1>2 DEF Owns, Ingesting
  <1>4. \A r \in Run : Readable(r) => Readable(r)'
    BY <1>2 DEF Readable
  <1>5. proc[c].pc \in Ingesting
    OBVIOUS
  <1>6. QED
    BY <1>b, <1>1, <1>2, <1>3, <1>4, <1>5, OwnerSteps

LEMMA InputWrites ==
    ASSUME StoreInv, InputInv, NEW c \in Process,
           PutInput(c) \/ PutInputEnd(c) \/ CopyInput(c) \/ CopyInputEnd(c)
    PROVE  InputInv'
  <1> DEFINE self == proc[c]
  <1>1. self.pc \in Ingesting \ {"enqueue"}
    BY DEF PutInput, PutInputEnd, CopyInput, CopyInputEnd, Ingesting
  <1>2. ASSUME NEW pc \in {"putEnd", "enqueue", "ingestFail"},
               pc = "enqueue" => FinishInput(self.run),
               \/ OpenInput(self.run) \/ FinishInput(self.run) \/ RemoveInput(self.run)
               \/ UNCHANGED storeVars,
               Proceed(c, pc)
        PROVE  InputInv'
    <2> DEFINE state == [self EXCEPT !.pc = pc]
    <2>1. state.pc = pc /\ state.run = self.run /\ Become(c, state)
      BY <1>2, Moved DEF Proceed
    <2> HIDE DEF state
    <2>2. state.pc \in Ingesting \cup {"ingestFail"}
      BY <2>1 DEF Ingesting
    <2>3. QED
      BY <1>1, <1>2, <2>1, <2>2, OwnerWrites
  <1>3. CASE PutInput(c)
    BY <1>2, <1>3 DEF PutInput
  <1>4. CASE PutInputEnd(c)
    BY <1>2, <1>4 DEF PutInputEnd
  <1>5. CASE CopyInputEnd(c)
    BY <1>2, <1>5 DEF CopyInputEnd
  <1>6. CASE CopyInput(c)
    <2> DEFINE state == [self EXCEPT !.pc = "copyEnd", !.seen = input[self.source]]
    <2>1. state.pc = "copyEnd" /\ state.run = self.run
      BY Moved DEF ProcState
    <2>2. CASE OpenInput(self.run) /\ Become(c, state)
      <3> HIDE DEF state
      <3>1. QED
        BY <1>1, <2>1, <2>2, OwnerWrites DEF Ingesting
    <2>3. QED
      BY <1>2, <1>6, <2>2 DEF CopyInput
  <1>7. QED
    BY <1>3, <1>4, <1>5, <1>6

LEMMA InputEnqueues ==
    ASSUME StoreInv, InputInv, NEW c \in Process, Enqueue(c) PROVE InputInv'
  <1> DEFINE self == proc[c]
  <1>1. self.pc = "enqueue" /\ ~Cancelling(self) /\ self.run \in Run
    BY ProcessState, NotCancelling DEF Enqueue, Sound
  <1>2. CASE Read(c, [self EXCEPT !.pc = "ingestFail"])
    BY <1>1, <1>2, MovesApart DEF Ingesting
  <1>3. CASE /\ job' = [job EXCEPT ![self.run] = TRUE] /\ proc' = [proc EXCEPT ![c] = Idle]
             /\ UNCHANGED <<storeVars, importVars, claims>>
    <2>1. import' = import /\ input' = input /\ space' = space
      BY <1>3 DEF storeVars, importVars
    <2>2. \A r \in Run : job'[r] => job[r] \/ r = self.run
      BY <1>1, <1>3 DEF StoreInv, TypeOK
    <2>3. Owns(Idle, space', job', input') /\ Idle.pc \notin Ingesting /\ Cancelling(Idle)
      BY DEF Owns, Idle, Ingesting, Cancelling
    <2>4. \A r \in Run : Readable(r) => Readable(r)'
      BY <2>1 DEF Readable
    <2>5. QED
      BY <1>1, <1>3, <2>1, <2>2, <2>3, <2>4, OwnerSteps
  <1>4. QED
    BY <1>2, <1>3 DEF Enqueue

LEMMA InputCancels ==
    ASSUME StoreInv, InputInv, NEW c \in Process,
           \/ FailIngestion(c) \/ RequestCancellation(c) \/ WriteMarker(c)
    PROVE  InputInv'
  <1> DEFINE self == proc[c]
  <1>1. CASE FailIngestion(c)
    <2>1. self.pc = "ingestFail" /\ self \in ProcState /\ ~Cancelling(self)
      BY <1>1, Moved, NotCancelling DEF FailIngestion
    <2>2. QED
      BY <1>1, <2>1, SavingFields, ReadsOn DEF FailIngestion, Ingesting
  <1>2. CASE RequestCancellation(c)
    <2>1. PICK pc \in {"mark", "idle"} : Read(c, [self EXCEPT !.pc = pc]) /\ self.pc = "request"
      BY <1>2 DEF RequestCancellation
    <2> DEFINE state == [self EXCEPT !.pc = pc]
    <2>2. state.pc = pc /\ state.run = self.run /\ Read(c, state)
      BY <2>1, Moved
    <2> HIDE DEF state
    <2>3. Cancelling(state) /\ state.pc \notin Ingesting
      BY <2>2 DEF Cancelling, Ingesting
    <2>4. QED
      BY <2>1, <2>2, <2>3, ReadsOn
  <1>3. CASE WriteMarker(c)
    <2> DEFINE state == [self EXCEPT !.pc = "idle"]
    <2>1. state.pc = "idle" /\ self.pc = "mark" /\ Become(c, state) /\ Apart
      BY <1>3, Moved DEF WriteMarker, Proceed, Become, PutMarker, Apart, importVars
    <2> HIDE DEF state
    <2>2. Cancelling(state) /\ state.pc \notin Ingesting
      BY <2>1 DEF Cancelling, Ingesting
    <2>3. QED
      BY <2>1, <2>2, GoesOn
  <1>4. QED
    BY <1>1, <1>2, <1>3

LEMMA InputLoadsForCancel ==
    ASSUME StoreInv, InputInv, NEW c \in Process, NEW r \in Run, LoadForCancel(c, r)
    PROVE  InputInv'
  <1> DEFINE self == [Idle EXCEPT !.run = r]
  <1>1. PICK state : /\ Read(c, state) /\ state.run = r /\ state.pc \in {"save", "request"}
                     /\ Cancelling(state)
    <2>1. self \in ProcState /\ self.run = r
      BY Types DEF Idle, ProcState
    <2> HIDE DEF self
    <2>2. LET state == Saving(self, With("cancelled"), "idle", "idle")
          IN  state.run = r /\ state.pc = "save" /\ Cancelling(state)
      BY <2>1, SavingFields DEF Cancelling
    <2>3. LET state == [self EXCEPT !.pc = "request"]
          IN  state.run = r /\ state.pc = "request" /\ Cancelling(state)
      BY <2>1 DEF ProcState, Cancelling
    <2>4. \/ Read(c, Saving(self, With("cancelled"), "idle", "idle"))
          \/ Read(c, [self EXCEPT !.pc = "request"])
      BY DEF LoadForCancel, self
    <2>5. QED
      BY <2>2, <2>3, <2>4
  <1>2. space[r] = "written"
    BY DEF LoadForCancel, Has, Readable
  <1>3. Owns(state, space, job, input) /\ state.pc \notin Ingesting
    BY <1>1, <1>2 DEF Owns, Ingesting
  <1>4. Apart /\ proc' = [proc EXCEPT ![c] = state]
    BY <1>1, ReadsAreApart DEF Become
  <1>5. QED
    BY <1>1, <1>3, <1>4, ApartSteps

LEMMA InputRequests ==
    ASSUME StoreInv, InputInv, NEW c \in Request, RequestStep(c) PROVE InputInv'
  BY InputReserves, InputCreates, InputWrites, InputEnqueues, InputCancels,
     InputLoadsForCancel
  DEF RequestStep, Process

\* V1 and an import change no input, no job and no process.
LEMMA InputImports ==
    ASSUME StoreInv, InputInv, V1Step, UNCHANGED <<job, claims, proc>> PROVE InputInv'
  <1>1. /\ input' = input
        /\ \/ space' = space
           \/ \E r \in Run : Reserve(r)
           \/ space' = [space EXCEPT ![import.run] = "written"]
    BY DEF V1Step, FindSources, Edit, ImportStep, ReserveImport, HashSource, WriteImport,
           StartImport, SaveImport, ReplaceImport, ReadSource, CopySource, FailImport,
           RehashSource, FinishImport, storeVars, Reserve, WriteNewManifest, ReplaceManifest,
           Link
  <1>2. \A r \in Run : Readable(r) => Readable(r)'
    BY <1>1, ImportRecord DEF Readable, StoreTypeOK, Reserve
  <1>3. \A p \in Process : proc[p].pc # "idle" => proc[p].run \in Run
    BY DEF StoreInv, Sound
  <1>4. \A p \in Process : Owns(proc'[p], space', job', input')
    BY <1>1, <1>2, <1>3 DEF InputInv, Owns, Readable
  <1>5. OneOwner' /\ EnqueuedInputIsWhole'
    BY <1>1, <1>2 DEF InputInv, OneOwner, EnqueuedInputIsWhole
  <1>6. CASE import.pc # "idle"
    <2>1. ImportAlone'
      BY <1>6 DEF InputInv, ImportAlone
    <2>2. QED
      BY <1>4, <1>5, <2>1 DEF InputInv
  <1>7. CASE EmptyStore
    <2>1. \A p \in Process : Cancelling(proc[p])
      BY <1>3, <1>7 DEF EmptyStore, InputInv, Owns, StoreInv, Reservations, Cancelling
    <2>2. \A r \in Run : ~job[r]
      BY <1>7 DEF EmptyStore, InputInv, EnqueuedInputIsWhole, Readable
    <2>3. ImportAlone'
      BY <2>1, <2>2 DEF ImportAlone
    <2>4. QED
      BY <1>4, <1>5, <2>3 DEF InputInv
  <1>8. CASE import' = import
    BY <1>4, <1>5, <1>8 DEF InputInv, ImportAlone
  <1>9. QED
    BY <1>6, <1>7, <1>8
    DEF V1Step, Edit, ImportStep, ReserveImport, HashSource, WriteImport, StartImport,
        SaveImport, ReplaceImport, ReadSource, CopySource, FailImport, RehashSource,
        FinishImport, NoImportYet

LEMMA InputInvInitially == Init => InputInv
  BY DEF Init, StoreInit, ImportInit, NoImport, InputInv, Owns, Idle, OneOwner, Ingesting,
         EnqueuedInputIsWhole, ImportAlone, Cancelling

LEMMA InputInvStep == StoreInv /\ InputInv /\ [Next]_vars => InputInv'
  <1> SUFFICES ASSUME StoreInv, InputInv, [Next]_vars PROVE InputInv'
    OBVIOUS
  <1>1. CASE UNCHANGED vars
    BY <1>1 DEF vars, storeVars, importVars, InputInv, OneOwner, EnqueuedInputIsWhole, ImportAlone,
          Readable
  <1>2. ASSUME NEW e \in Executor, ExecutorStep(e) PROVE InputInv'
    BY <1>2, InputExecutors
  <1>3. ASSUME NEW c \in Request, RequestStep(c) PROVE InputInv'
    BY <1>3, InputRequests
  <1>4. ASSUME NEW p \in Process, SaveCheck(p) \/ SaveReplace(p) PROVE InputInv'
    BY <1>4, InputSaves
  <1>5. CASE V1Step /\ UNCHANGED <<job, claims, proc>>
    BY <1>5, InputImports
  <1>6. QED
    BY <1>1, <1>2, <1>3, <1>4, <1>5 DEF Next

LEMMA InputInvHolds == Spec => []InputInv
  BY StoreInvHolds, InputInvInitially, InputInvStep, PTL DEF Spec

\* A job reaches the queue only when its attempt is readable and its input complete
\* (AnalysisCoordinator enqueues after put_input_file or copy_input, which compares the
\* digests), whoever reads or copies the inputs of other attempts meanwhile.
THEOREM EnqueuedInputsAreWhole == Spec => []EnqueuedInputIsWhole
  BY InputInvHolds, PTL DEF InputInv

----------------------------------------------------------------------------
(* The import.  A version of a source file never comes back once V1 replaced *)
(* it: a source that still has the recorded checksum was not touched in      *)
(* between, so what was copied from it is what was hashed.                   *)

\* No version is newer than the number of changes, so a change makes one that no
\* checksum recorded.
Versions(state, sources, changes) ==
    \A a \in Artifact : sources[a] \in 0 .. changes + 1 /\ state.hashes[a] \in 0 .. changes + 1

\* Nothing was copied before the run was set to running.
NothingCopied(state) ==
    \/ state.pc \in {"hash", "reserve", "manifest", "start"}
    \/ state.pc = "replace" /\ state.new.status = "running"

\* What the loops have visited.
Scanned(state) ==
    /\ state.pc = "idle" => state = NoImport
    /\ state.todo \subseteq state.found
    /\ state.pc = "hash" =>
           \A a \in Artifact : state.hashes[a] # 0 <=> a \in state.found \ state.todo
    /\ state.pc \notin {"idle", "hash", "done"} =>
           \A a \in Artifact : state.hashes[a] # 0 <=> a \in state.found
    /\ NothingCopied(state) => state.copied = NoContents
    /\ NothingCopied(state) /\ state.pc # "hash" => state.todo = state.found

First(state) == {a \in state.todo : \A b \in state.todo : a <= b}

\* What was copied from a source that has not changed since it was hashed.
Copies(state, sources) ==
    /\ state.pc \in {"read", "copy"} =>
           \A a \in state.found \ state.todo :
              sources[a] = state.hashes[a] => state.copied[a] = state.hashes[a]
    /\ state.pc \in {"read", "copy"} =>
           \A a \in Artifact : a \notin state.found \ state.todo => state.copied[a] = 0
    /\ state.pc = "copy" =>
           \A a \in First(state) : sources[a] = state.hashes[a] => state.held = state.hashes[a]
    /\ state.pc = "rehash" =>
           \A a \in Artifact : sources[a] = state.hashes[a] \/ a \notin state.todo
                               => state.copied[a] = state.hashes[a]
    /\ state.pc = "finish" => state.copied = state.hashes
    /\ state.pc = "replace" => state.new.status \in {"running", "failed"} \cup Completed
    /\ state.pc = "replace" /\ state.new.status \in Completed =>
           state.new.artifacts = state.hashes

\* The run of the import: only cancellations replace what the import has stored.
Imported(state, names, manifests, files) ==
    /\ state.pc \in {"start", "replace", "read", "copy", "failed", "rehash", "finish"} =>
           names[state.run] = "written"
    /\ state.pc \in {"read", "copy", "failed", "rehash", "finish"} =>
           manifests[state.run].status # "queued"
    /\ state.run \in Run => Lie(state.copied, files[state.run])
    /\ state.run \in Run /\ names[state.run] = "written"
           /\ manifests[state.run].status \in Completed =>
              state.pc = "done" /\ manifests[state.run].artifacts = state.hashes

\* As long as V1 changes nothing, the sources are those that were found.
Undisturbed(state, sources, changes, names, manifests) ==
    changes = 0 =>
        /\ state.pc # "idle" =>
               \A a \in Artifact : sources[a] = IF a \in state.found THEN 1 ELSE 0
        /\ state.pc = "done" => state.run \in Run /\ names[state.run] = "written"
        /\ state.pc = "done" => manifests[state.run].status \in Ended

ImportInv ==
    /\ Versions(import, source, edits)
    /\ Scanned(import)
    /\ Copies(import, source)
    /\ Imported(import, space, manifest, artifact)
    /\ Undisturbed(import, source, edits, space, manifest)

LEMMA ImportFields ==
    ASSUME StoreInv, ImportInv
    PROVE  /\ import \in ImportState /\ source \in Contents /\ edits \in Nat
           /\ import.hashes \in Contents /\ import.copied \in Contents
           /\ import.todo \subseteq Artifact /\ import.found \subseteq Artifact
           /\ Artifact \subseteq Int
  BY ImportRecord, ImportTypes DEF ImportState, Artifact

\* Steps of other processes: only cancellations replace manifests, and files stay.
LEMMA BesideImport ==
    ASSUME StoreInv, ImportInv, UNCHANGED importVars, FilesStay,
           import.pc # "idle" => space' = space,
           import.pc # "idle" =>
               \A r \in Run : manifest'[r] = manifest[r] \/ manifest'[r] = With("cancelled")
    PROVE  ImportInv'
  <1>1. Versions(import, source, edits)' /\ Scanned(import)' /\ Copies(import, source)'
    BY DEF ImportInv, importVars, Versions, Scanned, NothingCopied, Copies, First
  <1>2. CASE import.pc = "idle"
    <2>1. import = NoImport
      BY <1>2 DEF ImportInv, Scanned
    <2>2. NoImport.pc = "idle" /\ NoImport.run \notin Run
      BY Types DEF NoImport
    <2>3. Imported(import, space, manifest, artifact)'
      BY <2>1, <2>2 DEF Imported, importVars
    <2>4. Undisturbed(import, source, edits, space, manifest)'
      BY <2>1, <2>2 DEF Undisturbed, importVars
    <2>5. QED
      BY <1>1, <2>3, <2>4 DEF ImportInv
  <1>3. CASE import.pc # "idle"
    <2>a. With("cancelled").status = "cancelled" /\ "cancelled" \notin Completed
      BY DEF With, Completed
    <2>b. /\ import' = import /\ source' = source /\ edits' = edits /\ space' = space
          /\ \A r \in Run : manifest'[r] = manifest[r] \/ manifest'[r] = With("cancelled")
      BY <1>3 DEF importVars
    <2>c. /\ import.pc \in {"start", "replace", "read", "copy", "failed", "rehash", "finish"}
                 => import.run \in Run
          /\ StoreTypeOK
      BY ImportRecord DEF ImportSound
    <2>1. import.run \in Run => Lie(import.copied, artifact'[import.run])
      BY <2>c, LieStays DEF ImportInv, Imported
    <2>2. Imported(import, space, manifest, artifact)'
      BY <2>a, <2>b, <2>c, <2>1 DEF ImportInv, Imported
    <2>d. edits = 0 /\ import.pc = "done" => import.run \in Run
      BY DEF ImportInv, Undisturbed
    <2>3. Undisturbed(import, source, edits, space, manifest)'
      BY <2>a, <2>b, <2>d DEF ImportInv, Undisturbed, Ended
    <2>4. QED
      BY <1>1, <2>2, <2>3 DEF ImportInv
  <1>4. QED
    BY <1>2, <1>3

LEMMA ImportBesideExecutors ==
    ASSUME StoreInv, InputInv, ImportInv, NEW e \in Executor, ExecutorStep(e)
    PROVE  ImportInv'
  <1>a. e \in Process /\ e \in Content
    BY Types DEF Process
  <1>1. UNCHANGED importVars
    BY DEF ExecutorStep, Claim, LoadRun, Work, Publish, PublishLink, PublishRefused,
           VerifyOutputs, Finalise, Read, Become
  <1>2. FilesStay
    <2>1. CASE PublishLink(e)
      <3>1. proc[e].run \in Run /\ proc[e].artifact \in Artifact
        BY <1>a, <2>1, ProcessState, Types DEF PublishLink, Sound, Artifact
      <3>2. QED
        BY <1>a, <2>1, <3>1, Linked DEF PublishLink, Quiet
    <2>2. CASE ~PublishLink(e)
      <3>1. UNCHANGED storeVars
        BY <2>2 DEF ExecutorStep, Claim, LoadRun, Work, Publish, PublishRefused, VerifyOutputs,
              Finalise, Read
      <3>2. QED
        BY <3>1, ReadsAreQuiet DEF Quiet
    <2>3. QED
      BY <2>1, <2>2
  <1>3. import.pc = "idle"
    <2>1. CASE NoImportYet
      BY <2>1 DEF NoImportYet
    <2>2. CASE proc[e].pc \in {"load", "work", "publish", "link", "verify", "final", "cancel",
                               "fail"}
      <3>1. ~Cancelling(proc[e])
        BY <2>2, NotCancelling
      <3>2. QED
        BY <1>a, <3>1 DEF InputInv, ImportAlone
    <2>3. QED
      BY <2>1, <2>2 DEF ExecutorStep, Claim, LoadRun, Work, Publish, PublishLink,
            PublishRefused, VerifyOutputs, Finalise
  <1>4. QED
    BY <1>1, <1>2, <1>3, BesideImport

LEMMA ImportBesideRequests ==
    ASSUME StoreInv, InputInv, ImportInv, NEW c \in Request, RequestStep(c)
    PROVE  ImportInv'
  <1>a. c \in Process
    BY DEF Process
  <1>1. UNCHANGED importVars
    BY DEF RequestStep, Create, LoadForCancel, Reuse, WriteManifest, PutInput, PutInputEnd,
           CopyInput, CopyInputEnd, Enqueue, FailIngestion, RequestCancellation, WriteMarker,
           Proceed, Read, Become
  <1>2. artifact' = artifact
    BY DEF RequestStep, Create, LoadForCancel, Reuse, WriteManifest, PutInput, PutInputEnd,
           CopyInput, CopyInputEnd, Enqueue, FailIngestion, RequestCancellation, WriteMarker,
           Read, storeVars, Reserve, WriteNewManifest, RemoveNamespace, OpenInput,
           FinishInput, RemoveInput, PutMarker
  <1>3. FilesStay
    BY <1>2 DEF FilesStay
  <1>4. ASSUME import.pc # "idle" PROVE space' = space /\ manifest' = manifest
    <2>1. proc[c].pc \notin {"manifest", "put", "putEnd", "copy", "copyEnd", "enqueue",
                             "ingestFail"}
      BY <1>a, <1>4, NotCancelling DEF InputInv, ImportAlone
    <2>2. \/ \E r \in Run : LoadForCancel(c, r)
          \/ RequestCancellation(c) \/ WriteMarker(c)
      BY <1>4, <2>1 DEF RequestStep, Create, Reuse, WriteManifest, PutInput, PutInputEnd,
            CopyInput, CopyInputEnd, Enqueue, FailIngestion, NoImportYet
    <2>3. QED
      BY <2>2 DEF LoadForCancel, RequestCancellation, WriteMarker, Read, storeVars, PutMarker
  <1>5. QED
    BY <1>1, <1>3, <1>4, BesideImport

LEMMA ImportBesideSaves ==
    ASSUME StoreInv, InputInv, ImportInv, NEW p \in Process, SaveCheck(p) \/ SaveReplace(p)
    PROVE  ImportInv'
  <1>1. UNCHANGED importVars /\ artifact' = artifact /\ space' = space
    BY DEF SaveCheck, SaveReplace, Read, Become, storeVars, ReplaceManifest
  <1>2. FilesStay
    BY <1>1 DEF FilesStay
  <1>3. ASSUME import.pc # "idle", NEW r \in Run
        PROVE  manifest'[r] = manifest[r] \/ manifest'[r] = With("cancelled")
    <2>1. CASE SaveCheck(p)
      BY <2>1 DEF SaveCheck, Read, storeVars
    <2>2. CASE SaveReplace(p)
      <3>1. proc[p].new = With("cancelled")
        BY <1>3, <2>2 DEF SaveReplace, InputInv, ImportAlone, Cancelling
      <3>2. manifest \in [Run -> Manifest]
        BY ProcessState DEF StoreTypeOK
      <3>3. manifest' = [manifest EXCEPT ![proc[p].run] = proc[p].new]
        BY <2>2 DEF SaveReplace, ReplaceManifest
      <3>4. QED
        BY <3>1, <3>2, <3>3
    <2>3. QED
      BY <2>1, <2>2
  <1>4. QED
    BY <1>1, <1>2, <1>3, BesideImport

\* A version that V1 writes was recorded by nobody.
LEMMA ImportEdited ==
    ASSUME StoreInv, ImportInv, import.pc # "idle", NEW a \in Artifact, Edit(a)
    PROVE  ImportInv'
  <1>a. /\ edits \in Nat /\ source \in Contents /\ import \in ImportState
        /\ import.todo \subseteq Artifact
    BY ImportFields DEF ImportState
  <1>1. PICK version \in {0, edits + 2} : source' = [source EXCEPT ![a] = version]
    BY DEF Edit
  <1>2. /\ import' = import /\ edits' = edits + 1 /\ UNCHANGED <<space, manifest, artifact>>
        /\ \A b \in Artifact : source'[b] = IF b = a THEN version ELSE source[b]
    BY <1>a, <1>1 DEF Edit, storeVars, Contents
  <1>3. \A b \in Artifact : /\ source[b] \in 0 .. edits + 1
                            /\ import.hashes[b] \in 0 .. edits + 1
    BY DEF ImportInv, Versions
  <1>4. Versions(import, source, edits)'
    BY <1>a, <1>1, <1>2, <1>3 DEF Versions
  <1>5. \A b \in Artifact : import.hashes[b] # 0 /\ source'[b] = import.hashes[b] =>
            source[b] = import.hashes[b]
    BY <1>a, <1>1, <1>2, <1>3
  <1>6. Scanned(import)'
    BY <1>2 DEF ImportInv, Scanned, NothingCopied
  <1>7. Copies(import, source)'
    <2>1. import.pc \in {"read", "copy", "rehash"} =>
              \A b \in Artifact : import.hashes[b] # 0 <=> b \in import.found
      BY DEF ImportInv, Scanned
    <2>2. import.found \subseteq Artifact /\ import.todo \subseteq import.found
      BY ImportFields DEF ImportInv, Scanned
    <2>3. Copies(import, source)
      BY DEF ImportInv
    <2>4. Copies(import, source')
      BY <1>5, <2>1, <2>2, <2>3 DEF Copies, First
    <2>5. QED
      BY <1>2, <2>4
  <1>8. Imported(import, space, manifest, artifact)'
    BY <1>2 DEF ImportInv, Imported
  <1>9. edits' # 0
    BY <1>a, <1>2
  <1>10. Undisturbed(import, source, edits, space, manifest)'
    BY <1>9 DEF Undisturbed
  <1>11. QED
    BY <1>4, <1>6, <1>7, <1>8, <1>10 DEF ImportInv

LEMMA ImportFound ==
    ASSUME StoreInv, ImportInv, FindSources, EmptyStore PROVE ImportInv'
  <1>1. PICK found \in SUBSET Artifact :
            /\ source' = [a \in Artifact |-> IF a \in found THEN 1 ELSE 0]
            /\ import' = [NoImport EXCEPT !.pc = "hash", !.found = found, !.todo = found]
    BY DEF FindSources
  <1>2. /\ import'.pc = "hash" /\ import'.found = found /\ import'.todo = found
        /\ import'.run = NoRun /\ import'.hashes = NoContents /\ import'.copied = NoContents
    BY <1>1 DEF NoImport
  <1>3. edits' = edits /\ edits \in Nat
    BY ImportFields DEF FindSources
  <1>4. \A a \in Artifact : NoContents[a] = 0
    BY DEF NoContents
  <1>5. Versions(import, source, edits)'
    BY <1>1, <1>2, <1>3, <1>4 DEF Versions
  <1>6. Scanned(import)'
    BY <1>2, <1>4 DEF Scanned, NothingCopied
  <1>7. Copies(import, source)' /\ Imported(import, space, manifest, artifact)'
    BY <1>2, Types DEF Copies, Imported
  <1>8. Undisturbed(import, source, edits, space, manifest)'
    BY <1>1, <1>2 DEF Undisturbed
  <1>9. QED
    BY <1>5, <1>6, <1>7, <1>8 DEF ImportInv

\* The local state moves on; sources and store stay as they are.
LEMMA ImportGoesOn ==
    ASSUME ImportInv, NEW state, Goto(state), UNCHANGED storeVars,
           Versions(state, source, edits), Scanned(state), Copies(state, source),
           Imported(state, space, manifest, artifact),
           Undisturbed(state, source, edits, space, manifest)
    PROVE  ImportInv'
  BY DEF Goto, storeVars, ImportInv, Versions, Scanned, NothingCopied, Copies, First, Imported,
         Undisturbed

LEMMA EndingFields ==
    ASSUME StoreInv, NEW pc
    PROVE  LET state == Ending(pc)
           IN  /\ state.pc = pc /\ state.run = import.run /\ state.found = import.found
               /\ state.todo = import.todo /\ state.hashes = import.hashes
               /\ state.copied = import.copied /\ state.new = import.new
  BY ImportRecord DEF Ending, ImportState

\* A run that is not finished holds no outcome.
LEMMA ImportUnfinished ==
    ASSUME StoreInv, ImportInv, import.pc # "done", NEW state, state.run = import.run,
           state.copied = import.copied,
           state.pc \in {"start", "replace", "read", "copy", "failed", "rehash", "finish"} =>
               import.pc \in {"start", "replace", "read", "copy", "failed", "rehash", "finish"},
           state.pc \in {"read", "copy", "failed", "rehash", "finish"} =>
               import.pc \in {"read", "copy", "failed", "rehash", "finish"}
    PROVE  Imported(state, space, manifest, artifact)
  BY DEF ImportInv, Imported

LEMMA ImportEnds ==
    ASSUME StoreInv, ImportInv, import.pc \notin {"idle", "done"},
           Goto(Ending("done")), UNCHANGED storeVars,
           edits = 0 => import.run \in Run /\ Has(import.run, Ended)
    PROVE  ImportInv'
  <1> DEFINE state == Ending("done")
  <1>1. /\ state.pc = "done" /\ state.run = import.run /\ state.found = import.found
        /\ state.todo = import.todo /\ state.hashes = import.hashes
        /\ state.copied = import.copied /\ Goto(state)
    BY EndingFields
  <1> HIDE DEF state
  <1>2. Versions(state, source, edits) /\ Scanned(state) /\ Copies(state, source)
    BY <1>1 DEF ImportInv, Versions, Scanned, NothingCopied, Copies
  <1>3. Imported(state, space, manifest, artifact)
    BY <1>1, ImportUnfinished
  <1>4. Undisturbed(state, source, edits, space, manifest)
    BY <1>1 DEF ImportInv, Undisturbed, Has, Readable
  <1>5. QED
    BY <1>1, <1>2, <1>3, <1>4, ImportGoesOn

LEMMA ImportFails ==
    ASSUME StoreInv, ImportInv, import.pc \in {"read", "copy"},
           Goto(Ending("failed")), UNCHANGED storeVars
    PROVE  ImportInv'
  <1> DEFINE state == Ending("failed")
  <1>1. /\ state.pc = "failed" /\ state.run = import.run /\ state.found = import.found
        /\ state.todo = import.todo /\ state.hashes = import.hashes
        /\ state.copied = import.copied /\ Goto(state)
    BY EndingFields
  <1> HIDE DEF state
  <1>2. Versions(state, source, edits) /\ Scanned(state) /\ Copies(state, source)
    BY <1>1 DEF ImportInv, Versions, Scanned, NothingCopied, Copies
  <1>3. Imported(state, space, manifest, artifact)
    BY <1>1, ImportUnfinished
  <1>4. Undisturbed(state, source, edits, space, manifest)
    BY <1>1 DEF ImportInv, Undisturbed
  <1>5. QED
    BY <1>1, <1>2, <1>3, <1>4, ImportGoesOn

\* The first of the files a loop has not visited.
LEMMA FirstIsOne ==
    ASSUME StoreInv
    PROVE  /\ Remaining = First(import) /\ Remaining \subseteq import.todo
           /\ \A a, b \in Remaining : a = b
           /\ import.todo \subseteq Artifact
  BY ImportRecord DEF Remaining, First, ImportState, Artifact

\* A save that is refused ends the import, which then finds its run over.
LEMMA ImportSaves ==
    ASSUME StoreInv, ImportInv, NEW pc, NEW status, NEW contents,
           SaveImport(pc, status, contents), import.run \in Run,
           import.pc \in {"start", "failed", "finish"},
           status \in {"running", "failed"} \cup Completed,
           status = "running" => NothingCopied(import),
           status = "running" \/ status = "failed" \/ manifest[import.run].status # "queued",
           status \in Completed => contents = import.hashes,
           status \in Completed => Lie(contents, artifact[import.run])
    PROVE  ImportInv'
  <1> DEFINE new   == [status |-> status, artifacts |-> contents]
             taken == [import EXCEPT !.pc = "replace", !.new = new]
  <1>a. space[import.run] = "written" /\ manifest[import.run].status \in Status
    BY ImportRecord DEF ImportInv, Imported, StoreTypeOK, Manifest
  <1>1. CASE ~SaveAccepts(import.run, new)
    <2>1. manifest[import.run].status \in Ended
      BY <1>a, <1>1 DEF SaveAccepts, Successors, Readable, Status, Ended, Completed, Lie,
            ArtifactsVerified
    <2>2. Goto(Ending("done")) /\ UNCHANGED storeVars
      BY <1>1 DEF SaveImport
    <2>3. QED
      BY <1>a, <2>1, <2>2, ImportEnds DEF Has, Readable
  <1>2. CASE SaveAccepts(import.run, new)
    <2>a. new.status = status /\ new.artifacts = contents
      OBVIOUS
    <2>1. Goto(taken) /\ UNCHANGED storeVars
      BY <1>2 DEF SaveImport
    <2> HIDE DEF new
    <2>2. /\ taken.pc = "replace" /\ taken.run = import.run /\ taken.found = import.found
          /\ taken.todo = import.todo /\ taken.hashes = import.hashes
          /\ taken.copied = import.copied /\ taken.new = new
      BY ImportRecord DEF ImportState
    <2> HIDE DEF taken
    <2>3. Versions(taken, source, edits)
      BY <2>2 DEF ImportInv, Versions
    <2>4. Scanned(taken)
      BY <2>a, <2>2 DEF ImportInv, Scanned, NothingCopied
    <2>5. Copies(taken, source)
      BY <2>a, <2>2 DEF Copies
    <2>6. Imported(taken, space, manifest, artifact)
      BY <2>2, ImportUnfinished
    <2>7. Undisturbed(taken, source, edits, space, manifest)
      BY <2>2 DEF ImportInv, Undisturbed
    <2>8. QED
      BY <2>1, <2>3, <2>4, <2>5, <2>6, <2>7, ImportGoesOn
  <1>3. QED
    BY <1>1, <1>2

LEMMA ImportSaving ==
    ASSUME StoreInv, ImportInv, StartImport \/ FailImport \/ FinishImport PROVE ImportInv'
  <1>1. import.pc \in {"start", "failed", "finish"} => import.run \in Run
    BY ImportRecord DEF ImportSound
  <1>2. CASE StartImport
    <2>1. import.pc = "start" /\ NothingCopied(import)
      BY <1>2 DEF StartImport, SaveImport, NothingCopied
    <2>2. "running" \notin Completed
      BY DEF Completed
    <2>3. QED
      BY <1>1, <1>2, <2>1, <2>2, ImportSaves DEF StartImport
  <1>3. CASE FailImport
    <2>1. import.pc = "failed" /\ "failed" \notin Completed
      BY <1>3 DEF FailImport, SaveImport, Completed
    <2>2. QED
      BY <1>1, <1>3, <2>1, ImportSaves DEF FailImport
  <1>4. CASE FinishImport
    <2>1. import.pc = "finish"
      BY <1>4 DEF FinishImport, SaveImport
    <2>2. import.copied = import.hashes /\ manifest[import.run].status # "queued"
          /\ Lie(import.copied, artifact[import.run])
      BY <1>1, <2>1 DEF ImportInv, Copies, Imported
    <2>3. ASSUME NEW status \in Completed, SaveImport("finish", status, import.copied)
          PROVE  ImportInv'
      <3>1. status # "running"
        BY DEF Completed
      <3>2. QED
        BY <1>1, <2>1, <2>2, <2>3, <3>1, ImportSaves
    <2>4. import.found # Artifact => EvidenceOfPartial(CompletedStages(import.found))
      BY ImportFields DEF EvidenceOfPartial, CompletedStages
    <2>5. QED
      BY <1>4, <2>3, <2>4 DEF FinishImport, Completed
  <1>5. QED
    BY <1>2, <1>3, <1>4

LEMMA ImportReplaces ==
    ASSUME StoreInv, ImportInv, ReplaceImport PROVE ImportInv'
  <1> DEFINE r   == import.run
             new == import.new
  <1>a. import.pc = "replace" /\ r \in Run /\ StoreTypeOK
    BY ImportRecord DEF ReplaceImport, ImportSound
  <1>b. /\ new.status \in {"running", "failed"} \cup Completed
        /\ new.status \in Completed => new.artifacts = import.hashes
        /\ space[r] = "written"
    BY <1>a DEF ImportInv, Copies, Imported
  <1>1. /\ manifest'[r] = new
        /\ UNCHANGED <<space, artifact, source, edits>>
    BY <1>a DEF ReplaceImport, ReplaceManifest, StoreTypeOK, Goto
  <1>2. PICK pc \in {"read", "done"} :
            /\ import' = Ending(pc)
            /\ pc = "read" <=> new.status = "running"
    BY DEF ReplaceImport, Goto
  <1>3. /\ import'.pc = pc /\ import'.run = import.run /\ import'.found = import.found
        /\ import'.todo = import.todo /\ import'.hashes = import.hashes
        /\ import'.copied = import.copied
    BY <1>2, EndingFields
  <1>4. pc = "read" => import.copied = NoContents /\ import.todo = import.found
    BY <1>a, <1>2 DEF ImportInv, Scanned, NothingCopied
  <1>5. Versions(import, source, edits)'
    BY <1>1, <1>3 DEF ImportInv, Versions
  <1>6. Scanned(import)'
    BY <1>a, <1>3 DEF ImportInv, Scanned, NothingCopied
  <1>7. Copies(import, source)'
    BY <1>3, <1>4 DEF Copies, NoContents
  <1>8. Imported(import, space, manifest, artifact)'
    BY <1>a, <1>b, <1>1, <1>2, <1>3 DEF ImportInv, Imported, Completed
  <1>9. Undisturbed(import, source, edits, space, manifest)'
    BY <1>a, <1>b, <1>1, <1>2, <1>3 DEF ImportInv, Undisturbed, Completed, Ended
  <1>10. QED
    BY <1>5, <1>6, <1>7, <1>8, <1>9 DEF ImportInv

LEMMA ImportCreates ==
    ASSUME StoreInv, ImportInv, WriteImport \/ \E r \in Run : ReserveImport(r)
    PROVE  ImportInv'
  <1>1. PICK r \in Run, pc \in {"manifest", "start"} :
            /\ import'.pc = pc /\ import'.run = r /\ import'.found = import.found
            /\ import'.todo = import.todo /\ import'.hashes = import.hashes
            /\ import'.copied = import.copied
            /\ import.pc \in {"reserve", "manifest"}
            /\ space'[r] = IF pc = "start" THEN "written" ELSE "reserved"
            /\ pc = "start" => manifest'[r] = With("queued")
            /\ UNCHANGED <<artifact, source, edits>>
    <2>1. CASE WriteImport
      <3>1. import.run \in Run /\ StoreTypeOK
        BY <2>1, ImportRecord DEF WriteImport, ImportSound
      <3>2. import' = Ending("start")
        BY <2>1 DEF WriteImport, Goto, Ending
      <3>3. QED
        BY <2>1, <3>1, <3>2, EndingFields DEF WriteImport, WriteNewManifest, StoreTypeOK, Goto
    <2>2. ASSUME NEW r \in Run, ReserveImport(r)
          PROVE  /\ import'.pc = "manifest" /\ import'.run = r /\ import'.found = import.found
                 /\ import'.todo = import.todo /\ import'.hashes = import.hashes
                 /\ import'.copied = import.copied /\ import.pc = "reserve"
                 /\ space'[r] = "reserved" /\ UNCHANGED <<artifact, source, edits>>
      BY <2>2, ImportRecord DEF ReserveImport, Reserve, Goto, ImportState, StoreTypeOK
    <2>3. QED
      BY <2>1, <2>2
  <1>2. import.copied = NoContents /\ import.todo = import.found
    BY <1>1 DEF ImportInv, Scanned, NothingCopied
  <1>3. Versions(import, source, edits)'
    BY <1>1 DEF ImportInv, Versions
  <1>4. Scanned(import)'
    BY <1>1, <1>2 DEF ImportInv, Scanned, NothingCopied
  <1>5. Copies(import, source)'
    BY <1>1 DEF Copies
  <1>6. Imported(import, space, manifest, artifact)'
    BY <1>1, <1>2 DEF Imported, Lie, NoContents, With, Completed
  <1>7. Undisturbed(import, source, edits, space, manifest)'
    BY <1>1 DEF ImportInv, Undisturbed
  <1>8. QED
    BY <1>3, <1>4, <1>5, <1>6, <1>7 DEF ImportInv

LEMMA VisitFields ==
    ASSUME NEW state \in ImportState, NEW pc
    PROVE  LET next == Visit(state, pc)
           IN  /\ next.pc = IF state.todo = {} THEN pc ELSE state.pc
               /\ next.todo = IF state.todo = {} THEN state.found ELSE state.todo
               /\ next.run = state.run /\ next.found = state.found
               /\ next.hashes = state.hashes /\ next.copied = state.copied
  BY DEF Visit, ImportState

LEMMA ImportHashes ==
    ASSUME StoreInv, ImportInv, HashSource PROVE ImportInv'
  <1>a. import.pc = "hash" /\ import \in ImportState
    BY ImportRecord DEF HashSource
  <1>b. /\ import.todo \subseteq import.found
        /\ \A b \in Artifact : import.hashes[b] # 0 <=> b \in import.found \ import.todo
        /\ import.copied = NoContents
    BY <1>a DEF ImportInv, Scanned, NothingCopied
  <1>1. PICK a \in Remaining :
            Goto(IF source[a] = 0 THEN Ending("done")
                 ELSE Visit([import EXCEPT !.todo = @ \ {a}, !.hashes[a] = source[a]],
                            "reserve"))
    BY DEF HashSource
  <1>2. a \in Artifact /\ a \in import.todo /\ a \in import.found
    BY <1>b, <1>1, FirstIsOne
  <1>3. UNCHANGED storeVars
    BY DEF HashSource
  <1>4. CASE source[a] = 0
    <2>1. edits # 0
      BY <1>a, <1>2, <1>4 DEF ImportInv, Undisturbed
    <2>2. QED
      BY <1>a, <1>1, <1>3, <1>4, <2>1, ImportEnds
  <1>5. CASE source[a] # 0
    <2> DEFINE visited == [import EXCEPT !.todo = @ \ {a}, !.hashes[a] = source[a]]
               state   == Visit(visited, "reserve")
    <2>1. [import.hashes EXCEPT ![a] = source[a]] \in Contents
      BY <1>2, ImportFields DEF Contents
    <2>2. /\ visited \in ImportState /\ visited.pc = "hash" /\ visited.found = import.found
          /\ visited.run = import.run /\ visited.copied = import.copied
          /\ visited.todo = import.todo \ {a}
          /\ visited.hashes = [import.hashes EXCEPT ![a] = source[a]]
      BY <1>a, <2>1 DEF ImportState
    <2>3. Goto(state)
      BY <1>1, <1>5
    <2> HIDE DEF visited
    <2>4. /\ state.pc = IF visited.todo = {} THEN "reserve" ELSE "hash"
          /\ state.todo = IF visited.todo = {} THEN import.found ELSE visited.todo
          /\ state.run = import.run /\ state.found = import.found
          /\ state.hashes = visited.hashes /\ state.copied = import.copied
      BY ZenonT(40), <2>2, VisitFields
    <2> HIDE DEF state
    <2>5. \A b \in Artifact : state.hashes[b] = IF b = a THEN source[a] ELSE import.hashes[b]
      BY <1>2, <2>2, <2>4, ImportFields DEF Contents
    <2>6. Versions(state, source, edits)
      BY <1>2, <2>5 DEF ImportInv, Versions
    <2>7. \A b \in Artifact : state.hashes[b] # 0 <=> b \in import.found \ visited.todo
      BY <1>b, <1>2, <1>5, <2>2, <2>5
    <2>8. Scanned(state)
      BY <1>b, <2>2, <2>4, <2>7 DEF Scanned, NothingCopied
    <2>9. Copies(state, source) /\ Imported(state, space, manifest, artifact)
      BY <1>a, <2>4, ImportUnfinished DEF Copies
    <2>10. Undisturbed(state, source, edits, space, manifest)
      BY <1>a, <2>4 DEF ImportInv, Undisturbed
    <2>11. QED
      BY <1>3, <2>3, <2>6, <2>8, <2>9, <2>10, ImportGoesOn
  <1>6. QED
    BY <1>4, <1>5

LEMMA ImportReadsSource ==
    ASSUME StoreInv, ImportInv, ReadSource PROVE ImportInv'
  <1>a. import.pc = "read" /\ import \in ImportState /\ UNCHANGED storeVars
    BY ImportRecord DEF ReadSource
  <1>1. PICK a \in Remaining :
            Goto(IF source[a] = 0 THEN Ending("failed")
                 ELSE [import EXCEPT !.pc = "copy", !.held = source[a]])
    BY DEF ReadSource
  <1>2. CASE source[a] = 0
    BY <1>a, <1>1, <1>2, ImportFails
  <1>3. CASE source[a] # 0
    <2> DEFINE state == [import EXCEPT !.pc = "copy", !.held = source[a]]
    <2>1. /\ state.pc = "copy" /\ state.held = source[a] /\ state.run = import.run
          /\ state.found = import.found /\ state.todo = import.todo
          /\ state.hashes = import.hashes /\ state.copied = import.copied
      BY <1>a DEF ImportState
    <2>2. Goto(state)
      BY <1>1, <1>3
    <2> HIDE DEF state
    <2>3. Versions(state, source, edits) /\ Scanned(state)
      BY <1>a, <2>1 DEF ImportInv, Versions, Scanned, NothingCopied
    <2>4. First(state) = First(import) /\ \A b \in First(import) : b = a
      BY <1>1, <2>1, FirstIsOne DEF First
    <2>5. Copies(state, source)
      BY <1>a, <2>1, <2>4 DEF ImportInv, Copies
    <2>6. Imported(state, space, manifest, artifact)
      BY <1>a, <2>1, ImportUnfinished
    <2>7. Undisturbed(state, source, edits, space, manifest)
      BY <1>a, <2>1 DEF ImportInv, Undisturbed
    <2>8. QED
      BY <1>a, <2>2, <2>3, <2>5, <2>6, <2>7, ImportGoesOn
  <1>4. QED
    BY <1>2, <1>3

LEMMA ImportCopies ==
    ASSUME StoreInv, ImportInv, CopySource PROVE ImportInv'
  <1>a. import.pc = "copy" /\ import \in ImportState /\ import.run \in Run
    BY ImportRecord DEF CopySource, ImportSound
  <1>1. CASE ~AcceptsArtifacts(import.run)
    BY <1>a, <1>1, ImportFails DEF CopySource
  <1>2. CASE AcceptsArtifacts(import.run)
    <2> DEFINE copied(b) == [import EXCEPT !.pc = "read", !.todo = @ \ {b}, !.held = 0,
                                          !.copied[b] = import.held]
    <2>1. PICK a \in Remaining :
              Link(import.run, a, import.held) /\ Goto(Visit(copied(a), "rehash"))
      BY <1>2 DEF CopySource
    <2>a. a \in Artifact /\ a \in import.todo /\ a \in First(import)
      BY <2>1, FirstIsOne
    <2>b. /\ import.todo \subseteq import.found
          /\ \A b \in Artifact : import.hashes[b] # 0 <=> b \in import.found
      BY <1>a DEF ImportInv, Scanned
    <2>c. Copies(import, source) /\ Lie(import.copied, artifact[import.run])
      BY <1>a DEF ImportInv, Imported
    <2> DEFINE visited == copied(a)
               state   == Visit(visited, "rehash")
    <2>2. [import.copied EXCEPT ![a] = import.held] \in Contents
      BY <1>a, <2>a DEF ImportState, Contents
    <2>3. /\ visited \in ImportState /\ visited.pc = "read" /\ visited.found = import.found
          /\ visited.run = import.run /\ visited.hashes = import.hashes
          /\ visited.todo = import.todo \ {a}
          /\ visited.copied = [import.copied EXCEPT ![a] = import.held]
      BY <1>a, <2>2 DEF ImportState, ImportPc
    <2>4. Goto(state)
      BY <2>1
    <2> HIDE DEF visited
    <2>5. /\ state.pc = IF visited.todo = {} THEN "rehash" ELSE "read"
          /\ state.todo = IF visited.todo = {} THEN import.found ELSE visited.todo
          /\ state.run = import.run /\ state.found = import.found
          /\ state.hashes = import.hashes /\ state.copied = visited.copied
      BY ZenonT(40), <2>3, VisitFields
    <2> HIDE DEF state
    <2>6. \A b \in Artifact : state.copied[b] = IF b = a THEN import.held ELSE import.copied[b]
      BY <2>a, <2>3, <2>5, ImportFields DEF Contents
    <2>7. /\ import' = state /\ source' = source /\ edits' = edits
          /\ space' = space /\ manifest' = manifest
      BY <2>1, <2>4 DEF Goto, Link
    <2>8. Versions(state, source, edits) /\ Scanned(state)
      BY <1>a, <2>b, <2>3, <2>5 DEF ImportInv, Versions, Scanned, NothingCopied
    <2>9. Copies(state, source)
      <3>1. \A b \in import.found \ visited.todo : source[b] = import.hashes[b] =>
                state.copied[b] = import.hashes[b]
        BY <1>a, <2>a, <2>c, <2>3, <2>6, ImportFields DEF Copies
      <3>2. \A b \in Artifact : b \notin import.found \ visited.todo => state.copied[b] = 0
        BY <1>a, <2>a, <2>b, <2>c, <2>3, <2>6 DEF Copies
      <3>3. CASE visited.todo = {}
        BY <2>b, <2>5, <3>1, <3>2, <3>3, ImportFields DEF Copies
      <3>4. CASE visited.todo # {}
        BY <2>5, <3>1, <3>2, <3>4 DEF Copies
      <3>5. QED
        BY <3>3, <3>4
    <2>10. Lie(state.copied, artifact'[import.run])
      <3>1. artifact \in [Run -> Contents]
        BY ImportRecord DEF StoreTypeOK
      <3>2. \A b \in Artifact : artifact'[import.run][b] =
                IF b = a THEN import.held ELSE artifact[import.run][b]
        BY <1>a, <2>1, <2>a, <3>1 DEF Link, Contents
      <3>3. QED
        BY <2>c, <2>6, <3>2 DEF Lie
    <2>11. Imported(state, space, manifest, artifact')
      BY <1>a, <2>5, <2>10 DEF ImportInv, Imported
    <2>12. Undisturbed(state, source, edits, space, manifest)
      BY <1>a, <2>5 DEF ImportInv, Undisturbed
    <2>13. QED
      BY <2>7, <2>8, <2>9, <2>11, <2>12
      DEF ImportInv, Versions, Scanned, NothingCopied, Copies, First, Imported, Undisturbed
  <1>3. QED
    BY <1>1, <1>2

LEMMA ImportRehashes ==
    ASSUME StoreInv, ImportInv, RehashSource PROVE ImportInv'
  <1>a. /\ import.pc = "rehash" /\ import \in ImportState /\ UNCHANGED storeVars
    BY ImportRecord DEF RehashSource
  <1>b. /\ import.todo \subseteq import.found
        /\ \A b \in Artifact : import.hashes[b] # 0 <=> b \in import.found
    BY <1>a DEF ImportInv, Scanned
  <1>1. PICK a \in Remaining :
            Goto(IF source[a] = import.hashes[a]
                 THEN Visit([import EXCEPT !.todo = @ \ {a}], "finish") ELSE Ending("done"))
    BY DEF RehashSource
  <1>2. a \in Artifact /\ a \in import.todo /\ a \in import.found
    BY <1>b, <1>1, FirstIsOne
  <1>3. CASE source[a] # import.hashes[a]
    <2>1. edits = 0 => source[a] = 1 /\ import.hashes[a] \in 0 .. 1 /\ import.hashes[a] # 0
      BY <1>a, <1>b, <1>2 DEF ImportInv, Undisturbed, Versions
    <2>2. edits # 0
      BY <1>3, <2>1
    <2>3. QED
      BY <1>a, <1>1, <1>3, <2>2, ImportEnds
  <1>4. CASE source[a] = import.hashes[a]
    <2> DEFINE visited == [import EXCEPT !.todo = @ \ {a}]
               state   == Visit(visited, "finish")
    <2>1. /\ visited \in ImportState /\ visited.pc = "rehash" /\ visited.found = import.found
          /\ visited.run = import.run /\ visited.hashes = import.hashes
          /\ visited.todo = import.todo \ {a} /\ visited.copied = import.copied
      BY <1>a DEF ImportState
    <2>2. Goto(state)
      BY <1>1, <1>4
    <2> HIDE DEF visited
    <2>3. /\ state.pc = IF visited.todo = {} THEN "finish" ELSE "rehash"
          /\ state.todo = IF visited.todo = {} THEN import.found ELSE visited.todo
          /\ state.run = import.run /\ state.found = import.found
          /\ state.hashes = import.hashes /\ state.copied = import.copied
      BY <2>1, VisitFields
    <2> HIDE DEF state
    <2>4. Versions(state, source, edits) /\ Scanned(state)
      BY <1>a, <1>b, <2>1, <2>3 DEF ImportInv, Versions, Scanned, NothingCopied
    <2>5. \A b \in Artifact : source[b] = import.hashes[b] \/ b \notin visited.todo =>
              import.copied[b] = import.hashes[b]
      BY <1>a, <1>4, <2>1 DEF ImportInv, Copies
    <2>6. visited.todo = {} => import.copied = import.hashes
      BY <2>5, ImportFields DEF Contents
    <2>7. Copies(state, source)
      BY <2>3, <2>5, <2>6 DEF Copies
    <2>8. Imported(state, space, manifest, artifact)
      BY <1>a, <2>3, ImportUnfinished
    <2>9. Undisturbed(state, source, edits, space, manifest)
      BY <1>a, <2>3 DEF ImportInv, Undisturbed
    <2>10. QED
      BY <1>a, <2>2, <2>4, <2>7, <2>8, <2>9, ImportGoesOn
  <1>5. QED
    BY <1>3, <1>4

LEMMA ImportMoves ==
    ASSUME StoreInv, ImportInv, V1Step PROVE ImportInv'
  <1>1. ASSUME NEW a \in Artifact, ~NoImportYet, Edit(a) PROVE ImportInv'
    BY <1>1, ImportEdited DEF NoImportYet
  <1>2. CASE EmptyStore /\ FindSources
    BY <1>2, ImportFound
  <1>3. CASE ImportStep
    BY <1>3, ImportCreates, ImportHashes, ImportSaving, ImportReplaces, ImportReadsSource,
       ImportCopies, ImportRehashes
    DEF ImportStep
  <1>4. QED
    BY <1>1, <1>2, <1>3 DEF V1Step

LEMMA ImportInvInitially == Init => ImportInv
  <1> SUFFICES ASSUME Init PROVE ImportInv
    OBVIOUS
  <1>1. /\ import = NoImport /\ source = NoContents /\ edits = 0
        /\ NoImport.pc = "idle" /\ NoImport.run = NoRun /\ NoImport.hashes = NoContents
        /\ NoImport.todo = {} /\ NoImport.found = {}
    BY DEF Init, ImportInit, NoImport
  <1>2. \A a \in Artifact : NoContents[a] = 0
    BY DEF NoContents
  <1>3. Versions(import, source, edits)
    BY <1>1, <1>2 DEF Versions
  <1>4. Scanned(import) /\ Copies(import, source)
    BY <1>1 DEF Scanned, NothingCopied, Copies
  <1>5. Imported(import, space, manifest, artifact)
    BY <1>1, Types DEF Imported
  <1>6. Undisturbed(import, source, edits, space, manifest)
    BY <1>1 DEF Undisturbed
  <1>7. QED
    BY <1>3, <1>4, <1>5, <1>6 DEF ImportInv

LEMMA ImportInvStep == StoreInv /\ InputInv /\ ImportInv /\ [Next]_vars => ImportInv'
  <1> SUFFICES ASSUME StoreInv, InputInv, ImportInv, [Next]_vars PROVE ImportInv'
    OBVIOUS
  <1>1. CASE UNCHANGED vars
    <2>1. FilesStay
      BY <1>1 DEF vars, storeVars, FilesStay
    <2>2. QED
      BY <1>1, <2>1, BesideImport DEF vars, storeVars
  <1>2. ASSUME NEW e \in Executor, ExecutorStep(e) PROVE ImportInv'
    BY <1>2, ImportBesideExecutors
  <1>3. ASSUME NEW c \in Request, RequestStep(c) PROVE ImportInv'
    BY <1>3, ImportBesideRequests
  <1>4. ASSUME NEW p \in Process, SaveCheck(p) \/ SaveReplace(p) PROVE ImportInv'
    BY <1>4, ImportBesideSaves
  <1>5. CASE V1Step /\ UNCHANGED <<job, claims, proc>>
    BY <1>5, ImportMoves
  <1>6. QED
    BY <1>1, <1>2, <1>3, <1>4, <1>5 DEF Next

LEMMA ImportInvHolds == Spec => [](StoreInv /\ ImportInv)
  BY StoreInvHolds, InputInvHolds, ImportInvInitially, ImportInvStep, PTL DEF Spec

\* A completed import holds exactly the files whose checksums it recorded
\* (LegacyV1Importer hashes, copies and hashes again, without a lock V1 would respect),
\* whenever V1 rewrote or removed them.
THEOREM ImportsMatchSources == Spec => []ImportMatchesSource
  <1>1. StoreInv => import.run \in Run \cup {NoRun}
    BY ImportRecord DEF ImportState
  <1>2. StoreInv /\ ImportInv => ImportMatchesSource
    BY <1>1 DEF ImportInv, Imported, ImportMatchesSource, Has, Readable, Completed
  <1>3. QED
    BY <1>2, ImportInvHolds, PTL

\* An import leaves its run unfinished only when V1 changed a source meanwhile: without
\* that every path out of the importer, refused saves included, finds the run over.
THEOREM UndisturbedImportsEnd == Spec => []UndisturbedImportEnds
  <1>1. StoreInv /\ ImportInv => UndisturbedImportEnds
    BY DEF ImportInv, Undisturbed, UndisturbedImportEnds, Has, Readable
  <1>2. QED
    BY <1>1, ImportInvHolds, PTL

----------------------------------------------------------------------------
(* Readiness.                                                                *)

\* How long ago a check may be that a request goes by.
Since(self) == moment - Ttl - Patience - self.spent

\* When a check last found what a probe answers.
Answers(p) == seen[p][probe[p].ready]

\* The planes whose answers a request has.
Asked(self) == {p \in Plane : p < self.plane \/ self.pc = "reply"}

AskerOK(self) ==
    /\ self.pc \in {"decide", "check", "store", "stamp"} =>
           self.now <= moment /\ moment - self.now <= self.spent
    /\ self.pc = "store" => seen[self.plane][self.found] >= self.now
    /\ self.pc = "stamp" => Answers(self.plane) >= self.now - Patience
    /\ self.pc = "answer" => Answers(self.plane) >= Since(self)
    /\ self.pc = "resting" => self = Resting
    /\ self.ready => \A p \in Asked(self) : seen[p][TRUE] >= Since(self)
    /\ ~self.ready => \E p \in Asked(self) : seen[p][FALSE] >= Since(self)

\* A stamp may belong to another check than the answer beside it, but that check is no
\* older than the stamp by more than the time a request takes.
PlaneOK(p) ==
    /\ probe[p].checkedAt <= moment
    /\ \A found \in BOOLEAN : seen[p][found] <= moment
    /\ probe[p].checkedAt # Never => Answers(p) >= probe[p].checkedAt - Patience

ProbeInv ==
    /\ ProbeTypeOK
    /\ \A p \in Plane : PlaneOK(p)
    /\ \A t \in Asker : AskerOK(asker[t])

AskerState ==
    [pc : {"resting", "ask", "decide", "check", "store", "stamp", "answer", "reply"},
     plane : Plane, now : 0 .. LastMoment, found : BOOLEAN, ready : BOOLEAN,
     spent : 0 .. Patience]

LEMMA ProbeTypes ==
    /\ NumPlanes \in Nat /\ Ttl \in Nat /\ Patience \in Nat /\ LastMoment \in Nat
    /\ 1 \in Plane /\ Plane \subseteq Nat /\ Ttl > 0
    /\ Never \in Int /\ Never < 0
    /\ \A p \in Plane : p < NumPlanes => p + 1 \in Plane
    /\ Resting \in AskerState
  BY ProbeAssumption DEF Plane, Never, Resting, AskerState

LEMMA ProbeInitially == ProbeInit => ProbeInv
  <1> SUFFICES ASSUME ProbeInit PROVE ProbeInv
    OBVIOUS
  <1>1. ProbeTypeOK
    BY ProbeTypes DEF ProbeInit, ProbeTypeOK, AskerState
  <1>2. \A p \in Plane : PlaneOK(p)
    BY ProbeTypes DEF ProbeInit, PlaneOK
  <1>3. AskerOK(Resting)
    <2>1. Resting.pc = "resting" /\ Resting.ready /\ Resting.plane = 1
      BY DEF Resting
    <2>2. Asked(Resting) = {}
      BY <2>1 DEF Asked, Plane
    <2>3. QED
      BY <2>1, <2>2 DEF AskerOK
  <1>4. QED
    BY <1>1, <1>2, <1>3 DEF ProbeInv, ProbeInit

\* What a step of one request does for the others: time stands still, checks are only
\* added, and an answer that is replaced is replaced by one of a check that is recent.
Consulted ==
    /\ moment' = moment /\ ProbeTypeOK'
    /\ \A p \in Plane, found \in BOOLEAN : seen'[p][found] >= seen[p][found]
    /\ \A p \in Plane : Answers(p)' >= Answers(p) \/ Answers(p)' >= moment - Patience

LEMMA OthersAsk ==
    ASSUME ProbeInv, Consulted, NEW self \in AskerState, AskerOK(self)
    PROVE  AskerOK(self)'
  <1>1. /\ moment \in 0 .. LastMoment
        /\ \A q \in Plane, found \in BOOLEAN : seen[q][found] \in Int /\ seen'[q][found] \in Int
        /\ \A q \in Plane : Answers(q) \in Int /\ Answers(q)' \in Int
    BY ProbeTypes DEF ProbeInv, ProbeTypeOK, Consulted, Answers
  <1>2. /\ self.plane \in Plane /\ self.found \in BOOLEAN /\ self.now \in Int
        /\ self.spent \in Nat
    BY ProbeTypes DEF AskerState
  <1>3. Since(self)' = Since(self) /\ Since(self) \in Int /\ Since(self) <= moment - Patience
    BY <1>1, <1>2, ProbeTypes DEF Since, Consulted
  <1>4. Asked(self) \subseteq Plane
    BY DEF Asked
  <1>5. /\ \A p \in Plane, found \in BOOLEAN : seen'[p][found] >= seen[p][found]
        /\ \A p \in Plane : Answers(p)' >= Answers(p) \/ Answers(p)' >= moment - Patience
        /\ moment' = moment
    BY DEF Consulted
  <1>6. /\ self.ready => \A q \in Asked(self) : seen'[q][TRUE] >= Since(self)
        /\ ~self.ready => \E q \in Asked(self) : seen'[q][FALSE] >= Since(self)
    <2>1. ASSUME NEW q \in Asked(self), NEW found \in BOOLEAN, seen[q][found] >= Since(self)
          PROVE  seen'[q][found] >= Since(self)
      <3>1. /\ seen'[q][found] >= seen[q][found] /\ seen'[q][found] \in Int
            /\ seen[q][found] \in Int
        BY <1>1, <1>4, <1>5
      <3>2. QED
        BY <1>3, <2>1, <3>1
    <2>2. QED
      BY <2>1 DEF AskerOK
  <1>7. /\ Answers(self.plane) \in Int /\ Answers(self.plane)' \in Int /\ Patience \in Nat
        /\ \/ Answers(self.plane)' >= Answers(self.plane)
           \/ Answers(self.plane)' >= moment - Patience
        /\ seen'[self.plane][self.found] \in Int /\ seen[self.plane][self.found] \in Int
        /\ seen'[self.plane][self.found] >= seen[self.plane][self.found]
    BY <1>1, <1>2, <1>5, ProbeTypes
  <1>8. /\ self.pc = "store" => seen'[self.plane][self.found] >= self.now
        /\ self.pc = "stamp" => Answers(self.plane)' >= self.now - Patience
        /\ self.pc = "answer" => Answers(self.plane)' >= Since(self)
    BY <1>1, <1>2, <1>3, <1>7 DEF AskerOK
  <1>9. QED
    BY <1>3, <1>5, <1>6, <1>8 DEF AskerOK, Asked

\* A step of a request, which may ask or answer for its plane.
LEMMA Asks ==
    ASSUME ProbeInv, Consulted, NEW t \in Asker, NEW state \in AskerState,
           SetAsker(t, state), \A p \in Plane : PlaneOK(p)', AskerOK(state)'
    PROVE  ProbeInv'
  <1>1. ASSUME NEW u \in Asker PROVE AskerOK(asker[u])'
    <2>1. PICK self \in AskerState : self = asker[u]
      BY DEF ProbeInv, ProbeTypeOK, AskerState
    <2>2. AskerOK(self)'
      BY <2>1, OthersAsk DEF ProbeInv
    <2>3. asker'[u] = state \/ asker'[u] = self
      BY <2>1 DEF SetAsker, ProbeInv, ProbeTypeOK
    <2>4. QED
      BY ZenonT(40), <2>2, <2>3 DEF AskerOK
  <1>2. QED
    BY <1>1 DEF ProbeInv, Consulted

LEMMA AskerRecord ==
    ASSUME ProbeInv, NEW t \in Asker
    PROVE  /\ asker[t] \in AskerState /\ AskerOK(asker[t])
           /\ \A p \in Plane : Answers(p) \in Int /\ PlaneOK(p)
           /\ moment \in 0 .. LastMoment /\ Patience \in Nat
  BY ProbeTypes DEF ProbeInv, ProbeTypeOK, AskerState, Answers

LEMMA AsksReading ==
    ASSUME ProbeInv, NEW t \in Asker, NEW state \in AskerState, SetAsker(t, state),
           UNCHANGED <<moment, seen, probe>>, AskerOK(state)
    PROVE  ProbeInv'
  <1>1. \A p \in Plane : Answers(p)' = Answers(p) /\ Answers(p) \in Int
    BY ProbeTypes DEF Answers, ProbeInv, ProbeTypeOK
  <1>2. ProbeTypeOK'
    BY DEF SetAsker, ProbeInv, ProbeTypeOK, AskerState
  <1>3. Consulted
    <2>1. \A p \in Plane, found \in BOOLEAN :
              seen'[p][found] = seen[p][found] /\ seen[p][found] \in Int
      BY ProbeTypes DEF ProbeInv, ProbeTypeOK
    <2>2. QED
      BY <1>1, <1>2, <2>1 DEF Consulted
  <1>4. \A p \in Plane : PlaneOK(p)'
    BY DEF PlaneOK, Answers, ProbeInv
  <1>5. AskerOK(state)'
    BY DEF AskerOK, Answers, Since
  <1>6. QED
    BY <1>3, <1>4, <1>5, Asks

LEMMA DecideSteps ==
    ASSUME ProbeInv, NEW t \in Asker, AskReady(t) \/ Decide(t) \/ AnswerReady(t) \/ Reply(t)
    PROVE  ProbeInv'
  <1>s. PICK self \in AskerState : self = asker[t]
    BY AskerRecord
  <1>r. /\ self.plane \in Plane /\ self.spent \in 0 .. Patience /\ Patience \in Nat
        /\ self.ready \in BOOLEAN
    BY ProbeAssumption DEF AskerState
  <1>b. AskerOK(self) /\ Answers(self.plane) \in Int /\ PlaneOK(self.plane)
    BY <1>r, <1>s, AskerRecord
  <1>a. /\ AskerOK(self) /\ moment \in 0 .. LastMoment /\ self.plane \in Plane
        /\ self.plane \in Int /\ NumPlanes \in Int /\ self.spent \in Nat
        /\ Answers(self.plane) \in Int /\ PlaneOK(self.plane) /\ Patience \in Nat
        /\ moment \in Int /\ 0 \in 0 .. LastMoment /\ moment <= moment
        /\ moment - moment <= self.spent
    BY <1>r, <1>b, ProbeAssumption DEF ProbeInv, ProbeTypeOK, Plane
  <1>1. CASE AskReady(t)
    <2> DEFINE s == [self EXCEPT !.pc = "decide", !.now = moment]
    <2>1. /\ s \in AskerState /\ s.pc = "decide" /\ s.plane = self.plane /\ s.ready = self.ready
          /\ s.now = moment /\ s.spent = self.spent
      BY <1>a DEF AskerState
    <2>2. self.pc \in {"resting", "ask"} /\ SetAsker(t, s) /\ UNCHANGED <<moment, seen, probe>>
      BY <1>1, <1>s DEF AskReady
    <2> HIDE DEF s
    <2>3. Asked(s) = Asked(self) /\ Since(s) = Since(self)
      BY <2>1, <2>2 DEF Asked, Since
    <2>4. AskerOK(s)
      BY <1>a, <2>1, <2>3 DEF AskerOK
    <2>5. QED
      BY <2>1, <2>2, <2>4, AsksReading
  <1>2. CASE Decide(t) /\ IsStale(t)
    <2> DEFINE s == [self EXCEPT !.pc = "check"]
    <2>1. /\ s \in AskerState /\ s.pc = "check" /\ s.plane = self.plane /\ s.ready = self.ready
          /\ s.now = self.now /\ s.spent = self.spent
      BY <1>a DEF AskerState
    <2>2. self.pc = "decide" /\ SetAsker(t, s) /\ UNCHANGED <<moment, seen, probe>>
      BY <1>2, <1>s DEF Decide
    <2> HIDE DEF s
    <2>3. Asked(s) = Asked(self) /\ Since(s) = Since(self)
      BY <2>1, <2>2 DEF Asked, Since
    <2>4. AskerOK(s)
      BY <1>a, <2>1, <2>2, <2>3 DEF AskerOK
    <2>5. QED
      BY <2>1, <2>2, <2>4, AsksReading
  <1>3. CASE Decide(t) /\ ~IsStale(t)
    <2> DEFINE s == [self EXCEPT !.pc = "answer", !.now = 0]
    <2>1. /\ s \in AskerState /\ s.pc = "answer" /\ s.plane = self.plane /\ s.ready = self.ready
          /\ s.spent = self.spent
      BY <1>a DEF AskerState
    <2>2. self.pc = "decide" /\ SetAsker(t, s) /\ UNCHANGED <<moment, seen, probe>>
      BY <1>3, <1>s DEF Decide
    <2> HIDE DEF s
    <2>3. Asked(s) = Asked(self) /\ Since(s) = Since(self)
      BY <2>1, <2>2 DEF Asked, Since
    <2>4. Answers(self.plane) >= Since(self)
      <3> DEFINE at == probe[self.plane].checkedAt
      <3>1. at # Never /\ at \in Int /\ self.now \in Int /\ self.spent \in Int
        BY <1>3, <1>a, <1>s, ProbeTypes DEF IsStale, CheckedAt, ProbeInv, ProbeTypeOK, AskerState
      <3>2. ~(self.now - at >= Ttl)
        BY <1>3, <1>s DEF IsStale, CheckedAt
      <3>3. Answers(self.plane) >= at - Patience
        BY <1>a, <3>1 DEF PlaneOK
      <3>4. moment - self.now <= self.spent
        BY <1>a, <2>2 DEF AskerOK
      <3> HIDE DEF at
      <3>5. QED
        BY <1>a, <3>1, <3>2, <3>3, <3>4, ProbeTypes DEF Since
    <2>5. AskerOK(s)
      BY <1>a, <2>1, <2>3, <2>4 DEF AskerOK
    <2>6. QED
      BY <2>1, <2>2, <2>5, AsksReading
  <1>4. CASE AnswerReady(t)
    <2> DEFINE ready == self.ready /\ probe[self.plane].ready
    <2>0. self.pc = "answer" /\ UNCHANGED <<moment, seen, probe>>
      BY <1>4, <1>s DEF AnswerReady
    <2>1. PICK s \in AskerState :
             /\ SetAsker(t, s) /\ s.ready = ready /\ s.spent = self.spent
             /\ s.pc \in {"ask", "reply"}
             /\ \/ s.pc = "ask" /\ s.plane = self.plane + 1
                \/ s.pc = "reply" /\ self.plane = NumPlanes
      <3>1. ready \in BOOLEAN
        OBVIOUS
      <3>2. CASE self.plane < NumPlanes
        <4> DEFINE s == [self EXCEPT !.pc = "ask", !.plane = @ + 1, !.ready = ready]
        <4>1. s \in AskerState /\ s.ready = ready /\ s.spent = self.spent /\ s.pc = "ask"
              /\ s.plane = self.plane + 1
          BY <1>a, <3>1, <3>2, ProbeTypes DEF AskerState
        <4>2. SetAsker(t, s)
          BY <1>4, <1>s, <3>2 DEF AnswerReady
        <4>3. QED
          BY <4>1, <4>2
      <3>3. CASE ~(self.plane < NumPlanes)
        <4> DEFINE s == [self EXCEPT !.pc = "reply", !.ready = ready]
        <4>1. s \in AskerState /\ s.ready = ready /\ s.spent = self.spent /\ s.pc = "reply"
          BY <1>a, <3>1 DEF AskerState
        <4>2. SetAsker(t, s)
          BY <1>4, <1>s, <3>3 DEF AnswerReady
        <4>3. self.plane = NumPlanes
          BY <1>a, <3>3 DEF Plane
        <4>4. QED
          BY <4>1, <4>2, <4>3
      <3>4. QED
        BY <3>2, <3>3
    <2>2. Since(s) = Since(self) /\ Answers(self.plane) >= Since(self)
      BY <1>a, <2>0, <2>1 DEF Since, AskerOK
    <2>3. Asked(s) = Asked(self) \cup {self.plane}
      <3>1. \A p \in Plane : p \in Int /\ (p < self.plane + 1 <=> p < self.plane \/ p = self.plane)
        BY <1>a DEF Plane
      <3>2. \A p \in Plane : self.plane = NumPlanes => p < self.plane \/ p = self.plane
        BY <1>a DEF Plane
      <3>3. QED
        BY <1>a, <2>0, <2>1, <3>1, <3>2 DEF Asked
    <2>4. /\ ready => \A p \in Asked(s) : seen[p][TRUE] >= Since(s)
          /\ ~ready => \E p \in Asked(s) : seen[p][FALSE] >= Since(s)
      <3>0. probe[self.plane].ready \in BOOLEAN
        BY <1>a DEF ProbeInv, ProbeTypeOK
      <3>1. CASE ready
        BY <1>a, <2>2, <2>3, <3>1 DEF AskerOK, Answers
      <3>2. CASE ~ready /\ ~self.ready
        BY <1>a, <2>2, <2>3, <3>2 DEF AskerOK
      <3>3. CASE ~ready /\ self.ready
        BY <2>2, <2>3, <3>0, <3>3 DEF Answers
      <3>4. QED
        BY <3>1, <3>2, <3>3
    <2> HIDE DEF ready
    <2>5. AskerOK(s)
      BY <2>1, <2>4 DEF AskerOK
    <2>6. QED
      BY <2>0, <2>1, <2>5, AsksReading
  <1>5. CASE Reply(t)
    <2>1. AskerOK(Resting)
      <3>1. Resting.pc = "resting" /\ Resting.ready /\ Resting.plane = 1
        BY DEF Resting
      <3>2. Asked(Resting) = {}
        BY <3>1 DEF Asked, Plane
      <3>3. QED
        BY <3>1, <3>2 DEF AskerOK
    <2>2. QED
      BY <1>5, <2>1, ProbeTypes, AsksReading DEF Reply
  <1>6. QED
    BY <1>1, <1>2, <1>3, <1>4, <1>5


LEMMA CheckSteps ==
    ASSUME ProbeInv, NEW t \in Asker, RunCheck(t) \/ StoreReady(t) \/ StampChecked(t)
    PROVE  ProbeInv'
  <1>s. PICK self \in AskerState : self = asker[t]
    BY AskerRecord
  <1>p. PICK plane \in Plane : plane = self.plane
    BY DEF AskerState
  <1>r. /\ self.spent \in 0 .. Patience /\ Patience \in Nat /\ Ttl \in Nat
        /\ self.now \in 0 .. LastMoment /\ 0 \in 0 .. LastMoment /\ self.found \in BOOLEAN
    BY ProbeAssumption DEF AskerState
  <1>a. AskerOK(self) /\ moment \in 0 .. LastMoment
    BY <1>s, AskerRecord
  <1>b. /\ \A q \in Plane : PlaneOK(q) /\ Answers(q) \in Int
        /\ \A q \in Plane, found \in BOOLEAN : seen[q][found] \in Int
        /\ \A q \in Plane : probe[q].checkedAt \in Int
    BY ProbeTypes, AskerRecord DEF ProbeInv, ProbeTypeOK
  <1>n. self.pc \in {"check", "store", "stamp"} =>
            self.now <= moment /\ moment - self.now <= self.spent
    BY <1>a DEF AskerOK
  <1>1. ASSUME RunCheck(t) PROVE ProbeInv'
    <2>1. PICK found \in BOOLEAN :
             /\ SetAsker(t, [self EXCEPT !.pc = "store", !.found = found])
             /\ seen' = [seen EXCEPT ![plane][found] = moment]
      BY <1>1, <1>s, <1>p DEF RunCheck, Findings
    <2>2. self.pc = "check" /\ moment' = moment /\ probe' = probe
      BY <1>1, <1>s DEF RunCheck
    <2> DEFINE s == [self EXCEPT !.pc = "store", !.found = found]
    <2>3. /\ s \in AskerState /\ s.pc = "store" /\ s.found = found /\ s.plane = plane
          /\ s.now = self.now /\ s.spent = self.spent /\ s.ready = self.ready
      BY <1>p DEF AskerState
    <2>4. SetAsker(t, s)
      BY <2>1
    <2> HIDE DEF s
    <2>5. ProbeTypeOK'
      BY <1>a, <2>1, <2>2, <2>3, <2>4 DEF ProbeInv, ProbeTypeOK, SetAsker, AskerState
    <2>6. \A q \in Plane, v \in BOOLEAN :
             /\ seen'[q][v] = IF q = plane /\ v = found THEN moment ELSE seen[q][v]
             /\ seen'[q][v] >= seen[q][v] /\ seen'[q][v] <= moment
      <3>1. \A q \in Plane, v \in BOOLEAN :
               seen'[q][v] = IF q = plane /\ v = found THEN moment ELSE seen[q][v]
        BY <2>1 DEF ProbeInv, ProbeTypeOK
      <3>2. \A q \in Plane, v \in BOOLEAN : seen[q][v] <= moment
        BY <1>b DEF PlaneOK
      <3>3. QED
        BY <1>a, <1>b, <3>1, <3>2
    <2>7. \A q \in Plane : Answers(q)' >= Answers(q) /\ Answers(q)' \in Int
      BY <1>a, <1>b, <2>2, <2>6 DEF Answers, ProbeInv, ProbeTypeOK
    <2>8. Consulted
      BY <2>2, <2>5, <2>6, <2>7 DEF Consulted
    <2>9. \A q \in Plane : PlaneOK(q)'
      <3>1. ASSUME NEW q \in Plane, probe[q].checkedAt # Never
            PROVE  Answers(q)' >= probe[q].checkedAt - Patience
        <4>1. Answers(q) >= probe[q].checkedAt - Patience
          BY <1>b, <3>1 DEF PlaneOK
        <4>2. QED
          BY <1>b, <1>r, <2>7, <4>1
      <3>2. QED
        BY <1>b, <2>2, <2>6, <3>1 DEF PlaneOK
    <2>10. AskerOK(self)'
      BY <1>a, <2>8, OthersAsk
    <2>11. AskerOK(s)'
      <3>1. Asked(s) = Asked(self) /\ Since(s)' = Since(self)'
        BY <1>p, <2>2, <2>3 DEF Asked, Since
      <3>2. seen'[s.plane][s.found] >= s.now
        BY <1>a, <1>n, <1>r, <2>2, <2>3, <2>6
      <3>3. QED
        BY <1>n, <2>2, <2>3, <2>10, <3>1, <3>2 DEF AskerOK, Asked
    <2>12. QED
      BY <2>3, <2>4, <2>8, <2>9, <2>11, Asks
  <1>2. ASSUME StoreReady(t) PROVE ProbeInv'
    <2> DEFINE s == [self EXCEPT !.pc = "stamp", !.found = FALSE]
    <2>1. /\ SetAsker(t, s) /\ probe' = [probe EXCEPT ![plane].ready = self.found]
          /\ self.pc = "store" /\ UNCHANGED <<moment, seen>>
      BY <1>2, <1>s, <1>p DEF StoreReady
    <2>2. /\ s \in AskerState /\ s.pc = "stamp" /\ s.plane = plane
          /\ s.now = self.now /\ s.spent = self.spent /\ s.ready = self.ready
      BY <1>p DEF AskerState
    <2> HIDE DEF s
    <2>3. ProbeTypeOK'
      BY SMTT(20), <1>r, <2>1, <2>2 DEF ProbeInv, ProbeTypeOK, SetAsker, AskerState
    <2>4. \A q \in Plane : /\ probe'[q].checkedAt = probe[q].checkedAt
                           /\ probe'[q].ready = IF q = plane THEN self.found ELSE probe[q].ready
      BY <2>1 DEF ProbeInv, ProbeTypeOK
    <2>5. Answers(plane)' >= self.now /\ Answers(plane)' \in Int
      BY <1>a, <1>b, <1>p, <1>r, <2>1, <2>4 DEF AskerOK, Answers
    <2>6. \A q \in Plane \ {plane} : Answers(q)' = Answers(q)
      BY <2>1, <2>4 DEF Answers
    <2>7. Answers(plane)' >= moment - Patience
      BY <1>a, <1>n, <1>r, <2>1, <2>5
    <2>8. Consulted
      <3>1. \A q \in Plane : Answers(q)' >= Answers(q) \/ Answers(q)' >= moment - Patience
        BY <1>b, <2>6, <2>7
      <3>2. \A q \in Plane, v \in BOOLEAN : seen'[q][v] >= seen[q][v]
        BY <1>b, <2>1
      <3>3. QED
        BY <2>1, <2>3, <3>1, <3>2 DEF Consulted
    <2>9. \A q \in Plane : PlaneOK(q)'
      <3>1. ASSUME NEW q \in Plane, probe[q].checkedAt # Never
            PROVE  Answers(q)' >= probe[q].checkedAt - Patience
        <4>1. Answers(q) >= probe[q].checkedAt - Patience /\ probe[q].checkedAt <= moment
          BY <1>b, <3>1 DEF PlaneOK
        <4>2. QED
          BY <1>a, <1>b, <1>r, <2>5, <2>6, <2>7, <4>1
      <3>2. QED
        BY <1>b, <2>1, <2>4, <3>1 DEF PlaneOK
    <2>10. AskerOK(self)'
      BY <1>a, <2>8, OthersAsk
    <2>11. AskerOK(s)'
      <3>1. Asked(s) = Asked(self) /\ Since(s)' = Since(self)'
        BY <1>p, <2>1, <2>2 DEF Asked, Since
      <3>2. Answers(plane)' >= self.now - Patience
        BY <1>r, <2>5
      <3>3. QED
        BY <1>n, <2>1, <2>2, <2>10, <3>1, <3>2 DEF AskerOK, Asked
    <2>12. QED
      BY <2>1, <2>2, <2>8, <2>9, <2>11, Asks
  <1>3. ASSUME StampChecked(t) PROVE ProbeInv'
    <2> DEFINE s == [self EXCEPT !.pc = "answer", !.now = 0]
    <2>1. /\ SetAsker(t, s) /\ probe' = [probe EXCEPT ![plane].checkedAt = self.now]
          /\ self.pc = "stamp" /\ UNCHANGED <<moment, seen>>
      BY <1>3, <1>s, <1>p DEF StampChecked
    <2>2. /\ s \in AskerState /\ s.pc = "answer" /\ s.plane = plane
          /\ s.spent = self.spent /\ s.ready = self.ready
      BY <1>p, <1>r DEF AskerState
    <2> HIDE DEF s
    <2>3. ProbeTypeOK'
      BY <1>r, <2>1, <2>2 DEF ProbeInv, ProbeTypeOK, SetAsker, AskerState
    <2>4. \A q \in Plane :
             /\ probe'[q].checkedAt = IF q = plane THEN self.now ELSE probe[q].checkedAt
             /\ probe'[q].ready = probe[q].ready
      BY <2>1 DEF ProbeInv, ProbeTypeOK
    <2>5. \A q \in Plane : Answers(q)' = Answers(q)
      BY <2>1, <2>4 DEF Answers
    <2>6. Answers(plane) >= self.now - Patience
      BY <1>a, <1>p, <2>1 DEF AskerOK
    <2>7. Consulted
      <3>1. \A q \in Plane : Answers(q)' >= Answers(q)
        BY <1>b, <2>5
      <3>2. \A q \in Plane, v \in BOOLEAN : seen'[q][v] >= seen[q][v]
        BY <1>b, <2>1
      <3>3. QED
        BY <2>1, <2>3, <3>1, <3>2 DEF Consulted
    <2>8. \A q \in Plane : PlaneOK(q)'
      BY <1>b, <1>n, <2>1, <2>4, <2>5, <2>6 DEF PlaneOK
    <2>9. AskerOK(self)'
      BY <1>a, <2>7, OthersAsk
    <2>10. AskerOK(s)'
      <3>1. Asked(s) = Asked(self) /\ Since(s)' = Since(self)'
        BY <1>p, <2>1, <2>2 DEF Asked, Since
      <3>2. Answers(plane)' >= Since(s)'
        BY <1>a, <1>b, <1>n, <1>r, <2>1, <2>2, <2>5, <2>6 DEF Since
      <3>3. QED
        BY <2>1, <2>2, <2>9, <3>1, <3>2 DEF AskerOK, Asked
    <2>11. QED
      BY <2>1, <2>2, <2>7, <2>8, <2>10, Asks
  <1>4. QED
    BY <1>1, <1>2, <1>3

LEMMA MomentStep ==
    ASSUME ProbeInv, MomentPasses PROVE ProbeInv'
  <1>1. /\ moment \in 0 .. LastMoment /\ moment < LastMoment /\ LastMoment \in Nat
        /\ moment' = moment + 1 /\ UNCHANGED <<seen, probe>>
    BY ProbeAssumption DEF MomentPasses, ProbeInv, ProbeTypeOK
  <1>2. ASSUME NEW t \in Asker
        PROVE  asker'[t] \in AskerState /\ AskerOK(asker[t])'
    <2>1. PICK self \in AskerState : self = asker[t]
      BY AskerRecord
    <2>2. AskerOK(self) /\ self.spent \in 0 .. Patience /\ self.spent < Patience /\ Patience \in Nat
      BY <2>1, AskerRecord, ProbeAssumption DEF MomentPasses, AskerState
    <2>3. CASE self.pc = "resting"
      <3>1. asker'[t] = self /\ self = Resting
        BY <2>1, <2>2, <2>3 DEF MomentPasses, AskerOK
      <3>2. Asked(Resting) = {} /\ Resting.pc = "resting" /\ Resting.ready
        BY DEF Asked, Resting, Plane
      <3>3. QED
        BY <3>1, <3>2 DEF AskerOK
    <2>4. CASE self.pc # "resting"
      <3> DEFINE s == [self EXCEPT !.spent = @ + 1]
      <3>1. asker'[t] = s
        BY <2>1, <2>4 DEF MomentPasses
      <3>2. /\ s \in AskerState /\ s.pc = self.pc /\ s.plane = self.plane /\ s.now = self.now
            /\ s.found = self.found /\ s.ready = self.ready /\ s.spent = self.spent + 1
        BY <2>2 DEF AskerState
      <3> HIDE DEF s
      <3>3. Asked(s) = Asked(self) /\ \A p \in Plane : Answers(p)' = Answers(p)
        BY <1>1, <3>2 DEF Asked, Answers
      <3>4. Since(s)' = Since(self)
        BY <1>1, <2>2, <3>2, ProbeAssumption DEF Since
      <3>5. self.plane \in Plane /\ self.now \in 0 .. LastMoment
        BY DEF AskerState
      <3>6. s.pc \in {"decide", "check", "store", "stamp"} =>
                s.now <= moment + 1 /\ (moment + 1) - s.now <= s.spent
        BY <1>1, <2>2, <3>2, <3>5 DEF AskerOK
      <3>7. AskerOK(s)'
        BY <1>1, <2>2, <2>4, <3>2, <3>3, <3>4, <3>5, <3>6 DEF AskerOK, Asked
      <3>8. QED
        BY <3>1, <3>2, <3>7 DEF AskerOK
    <2>5. QED
      BY <2>3, <2>4
  <1>3. ProbeTypeOK'
    BY <1>1, <1>2 DEF ProbeInv, ProbeTypeOK, MomentPasses, AskerState
  <1>4. \A p \in Plane : PlaneOK(p)'
    <2>1. \A p \in Plane : probe[p].checkedAt \in Int /\ \A v \in BOOLEAN : seen[p][v] \in Int
      BY ProbeTypes DEF ProbeInv, ProbeTypeOK
    <2>2. QED
      BY <1>1, <2>1 DEF PlaneOK, Answers, ProbeInv
  <1>5. QED
    BY <1>2, <1>3, <1>4 DEF ProbeInv

LEMMA ProbeStepKeeps == ProbeInv /\ [ProbeNext]_probeVars => ProbeInv'
  <1>1. ProbeInv /\ ProbeNext => ProbeInv'
    BY DecideSteps, CheckSteps, MomentStep DEF ProbeNext, ProbeStep
  <1>2. ProbeInv /\ UNCHANGED probeVars => ProbeInv'
    BY DEF probeVars, ProbeInv, ProbeTypeOK, PlaneOK, AskerOK, Answers, Since
  <1>3. QED
    BY <1>1, <1>2

LEMMA ProbeInvRecent == ProbeInv => AnswersAreRecent
  <1> SUFFICES ASSUME ProbeInv, NEW t \in Asker, asker[t].pc = "reply"
               PROVE  LET recent(p) == moment - seen[p][asker[t].ready] <= Ttl + 2 * Patience
                      IN  IF asker[t].ready THEN \A p \in Plane : recent(p)
                          ELSE \E p \in Plane : recent(p)
    BY DEF AnswersAreRecent
  <1>1. PICK self \in AskerState : self = asker[t]
    BY AskerRecord
  <1>2. AskerOK(self) /\ Asked(self) = Plane /\ self.ready \in BOOLEAN
    BY <1>1, AskerRecord DEF Asked, AskerState
  <1>3. /\ self.spent \in 0 .. Patience /\ Patience \in Nat /\ Ttl \in Nat /\ moment \in Int
        /\ \A p \in Plane, v \in BOOLEAN : seen[p][v] \in Int
    BY ProbeAssumption, ProbeTypes DEF AskerState, ProbeInv, ProbeTypeOK
  <1>4. ASSUME NEW p \in Plane, NEW v \in BOOLEAN, seen[p][v] >= Since(self)
        PROVE  moment - seen[p][v] <= Ttl + 2 * Patience
    <2>1. seen[p][v] \in Int
      BY <1>3
    <2>2. QED
      BY <1>3, <1>4, <2>1 DEF Since
  <1>5. CASE self.ready
    BY <1>1, <1>2, <1>4, <1>5 DEF AskerOK
  <1>6. CASE ~self.ready
    BY <1>1, <1>2, <1>4, <1>6 DEF AskerOK
  <1>7. QED
    BY <1>1, <1>5, <1>6

\* What /api/ready says of a plane rests on a check of that plane that is at most as old
\* as a check counts and two requests take, however many threads share the caches.
THEOREM ReadinessRecent == ProbeSpec => []AnswersAreRecent
  BY ProbeInitially, ProbeStepKeeps, ProbeInvRecent, PTL DEF ProbeSpec

----------------------------------------------------------------------------
(* The deployment: a behaviour of the local platform is one of its store and *)
(* one of its probes.                                                        *)

LEMMA LocalParts == LocalSpec => Spec /\ ProbeSpec
  <1>1. LocalInit => Init /\ ProbeInit
    BY DEF LocalInit
  <1>2. [LocalNext]_localVars => [Next]_vars /\ [ProbeNext]_probeVars
    BY DEF LocalNext, localVars
  <1>3. QED
    BY <1>1, <1>2, PTL DEF LocalSpec, Spec, ProbeSpec

\* Every reachable state of a local deployment is well typed, store, import, processes
\* and readiness caches.
THEOREM LocalTypeCorrect == LocalSpec => []LocalTypeOK
  <1>1. ProbeInv => ProbeTypeOK
    BY DEF ProbeInv
  <1>2. ProbeSpec => []ProbeTypeOK
    BY <1>1, ProbeInitially, ProbeStepKeeps, PTL DEF ProbeSpec
  <1>3. QED
    BY <1>2, LocalParts, StoreTypeCorrect, PTL DEF LocalTypeOK

=============================================================================
