----------------------------- MODULE LocalPlatform -----------------------------
(***************************************************************************)
(* API requests, executors and an import on one local run store.  The      *)
(* store has no lock: a save is a check and a replacement, and every other *)
(* operation has the same gap, which other processes use.                  *)
(*                                                                         *)
(* The job queue is external: a job may be handed out more than once, to   *)
(* two executors at a time (LocalQueue and ServiceBus show how).  Stages are *)
(* left to AnalysisExecution; an executor checks for cancellation once and *)
(* publishes.                                                              *)
(***************************************************************************)
EXTENDS LegacyImport

CONSTANTS
    Executor,   \* executors: each publishes content of its own
    NumOutputs, \* artifacts of an execution
    MaxClaims,  \* bounds the executions of a behaviour
    Endpoints   \* enabled endpoints

ASSUME ExecutorAssumption  == Executor \subseteq Content /\ MaxClaims \in Nat
ASSUME OutputsAssumption   == NumOutputs \in Artifact
ASSUME EndpointsAssumption == Endpoints \subseteq {"create", "retry", "clone", "cancel"}
ASSUME ProcessAssumption   == Executor \cap Request = {}

VARIABLES
    job,     \* run -> whether its job was enqueued
    claims,  \* executions so far
    proc     \* the local state of each executor and API request

vars == <<storeVars, importVars, job, claims, proc>>

Process == Executor \cup Request

Pc == {"idle", "load", "work", "publish", "link", "verify", "final", "cancel", "fail",
       "manifest", "put", "putEnd", "copy", "copyEnd", "enqueue", "ingestFail",
       "request", "mark", "save", "replace"}

\* "source" is the run an input is copied from, "seen" its input as it was opened,
\* "new" the manifest to save, "next" and "refused" where a save goes on.
ProcState == [pc       : Pc,
              run      : Run \cup {NoRun},
              source   : Run \cup {NoRun},
              seen     : {"none", "partial", "whole"},
              artifact : 1 .. NumOutputs + 1,
              new      : Manifest,
              next     : Pc,
              refused  : Pc]

Idle == [pc |-> "idle", run |-> NoRun, source |-> NoRun, seen |-> "none", artifact |-> 1,
         new |-> With("queued"), next |-> "idle", refused |-> "idle"]

Init ==
    /\ StoreInit
    /\ ImportInit
    /\ job  = [r \in Run |-> FALSE]
    /\ claims = 0
    /\ proc = [p \in Process |-> Idle]

TypeOK ==
    /\ StoreTypeOK
    /\ ImportTypeOK
    /\ job \in [Run -> BOOLEAN]
    /\ claims \in 0 .. MaxClaims
    /\ proc \in [Process -> ProcState]

\* An import has no job, is no source of a retry and touches no other namespace:
\* cancellation is all that can meet it.  So the model keeps the two apart: an
\* import works in an empty store, and requests only cancel beside it.
EmptyStore == \A r \in Run : space[r] = "free"

NoImportYet == import.pc = "idle"

Become(p, state) ==
    /\ proc' = [proc EXCEPT ![p] = IF state.pc = "idle" THEN Idle ELSE state]
    /\ UNCHANGED <<job, claims, importVars>>

Proceed(p, pc) == Become(p, [proc[p] EXCEPT !.pc = pc])

\* A step that only reads.
Read(p, state) == Become(p, state) /\ UNCHANGED storeVars

----------------------------------------------------------------------------
(* save.                                                                     *)

Saving(self, new, next, refused) ==
    [self EXCEPT !.pc = "save", !.new = new, !.next = next, !.refused = refused]

SaveCheck(p) ==
    LET self == proc[p]
    IN  /\ self.pc = "save"
        /\ Read(p, IF SaveAccepts(self.run, self.new)
                   THEN [self EXCEPT !.pc = "replace"]
                   ELSE [self EXCEPT !.pc = self.refused])

SaveReplace(p) ==
    LET self == proc[p]
    IN  /\ self.pc = "replace"
        /\ ReplaceManifest(self.run, self.new)
        /\ Become(p, [self EXCEPT !.pc = self.next])

----------------------------------------------------------------------------
(* AnalysisExecutor.execute.  "idle" after a refused save stands for the     *)
(* worker that ends on the exception and is started again.                   *)

Claim(e, r) ==
    /\ proc[e].pc = "idle"
    /\ NoImportYet
    /\ job[r]
    /\ claims < MaxClaims
    /\ claims' = claims + 1
    /\ proc' = [proc EXCEPT ![e] = [Idle EXCEPT !.pc = "load", !.run = r]]
    /\ UNCHANGED <<storeVars, importVars, job>>

LoadRun(e) ==
    LET self == proc[e]
        run  == manifest[self.run]
    IN  /\ self.pc = "load"
        /\ Read(e, CASE run.status \in Ended -> Idle
                     [] run.status = "queued" ->
                          Saving(self, With(IF CancellationRequested(self.run)
                                            THEN "cancelled" ELSE "running"),
                                 IF CancellationRequested(self.run) THEN "idle" ELSE "work",
                                 "idle")
                     [] OTHER -> [self EXCEPT !.pc = "work"])

Work(e) ==
    LET self == proc[e]
    IN  /\ self.pc = "work"
        /\ \/ Read(e, [self EXCEPT !.pc = IF CancellationRequested(self.run) THEN "cancel"
                                         ELSE "publish"])
           \/ Read(e, [self EXCEPT !.pc = "fail"])

\* Seeded fault: one artifact too many.
PublishTooMany(e) ==
    LET self == proc[e]
    IN  /\ self.pc = "publish"
        /\ Read(e, [self EXCEPT !.pc = IF self.artifact > NumOutputs + 1 THEN "verify"
                                       ELSE IF AcceptsArtifacts(self.run) THEN "link"
                                       ELSE "fail"])

\* write_artifact looks at the status, then links.
Publish(e) ==
    LET self == proc[e]
    IN  /\ self.pc = "publish"
        /\ Read(e, [self EXCEPT !.pc = IF self.artifact > NumOutputs THEN "verify"
                                       ELSE IF AcceptsArtifacts(self.run) THEN "link"
                                       ELSE "fail"])

PublishLink(e) ==
    LET self == proc[e]
    IN  /\ self.pc = "link"
        /\ Link(self.run, self.artifact, e)
        /\ Become(e, [self EXCEPT !.pc = "publish", !.artifact = @ + 1])

\* os.link raises FileExistsError.
PublishRefused(e) ==
    /\ proc[e].pc = "link"
    /\ artifact[proc[e].run][proc[e].artifact] # 0
    /\ Read(e, [proc[e] EXCEPT !.pc = "fail"])

Outputs(e) == [a \in Artifact |-> IF a <= NumOutputs THEN e ELSE 0]

VerifyOutputs(e) ==
    LET self == proc[e]
    IN  /\ self.pc = "verify"
        /\ Read(e, [self EXCEPT !.pc = IF \A a \in 1 .. NumOutputs : ArtifactIntegrity(self.run, a, e)
                                       THEN "final" ELSE "fail"])

\* succeed and cancel are built from the run as it is loaded again.
Finalise(e) ==
    LET self == proc[e]
        run  == manifest[self.run]
    IN  /\ self.pc \in {"final", "cancel", "fail"}
        /\ Read(e, CASE self.pc = "final" ->
                          IF run.status = "running"
                          THEN Saving(self, [status |-> "succeeded", artifacts |-> Outputs(e)],
                                      "idle", "fail")
                          ELSE [self EXCEPT !.pc = "fail"]
                     [] self.pc = "cancel" /\ run.status \notin Ended ->
                          Saving(self, With("cancelled"), "idle", "idle")
                     [] self.pc = "fail" /\ run.status \notin Ended ->
                          Saving(self, With("failed"), "idle", "idle")
                     [] OTHER -> Idle)

ExecutorStep(e) ==
    \/ \E r \in Run : Claim(e, r)
    \/ LoadRun(e) \/ Work(e) \/ Publish(e) \/ PublishLink(e) \/ PublishRefused(e)
    \/ VerifyOutputs(e) \/ Finalise(e)

----------------------------------------------------------------------------
(* AnalysisCoordinator: create_analysis, retry and clone.                    *)

Create(c, r) ==
    /\ "create" \in Endpoints
    /\ NoImportYet
    /\ proc[c].pc = "idle"
    /\ Reserve(r)
    /\ Become(c, [Idle EXCEPT !.pc = "manifest", !.run = r])

Reuse(c, from, r) ==
    /\ proc[c].pc = "idle"
    /\ NoImportYet
    /\ \/ "retry" \in Endpoints /\ Has(from, {"failed", "partial"})
       \/ "clone" \in Endpoints /\ Readable(from)
    /\ Reserve(r)
    /\ Become(c, [Idle EXCEPT !.pc = "manifest", !.run = r, !.source = from])

WriteManifest(c) ==
    LET self == proc[c]
    IN  /\ self.pc = "manifest"
        /\ \/ /\ WriteNewManifest(self.run)
              /\ Proceed(c, IF self.source = NoRun THEN "put" ELSE "copy")
           \/ RemoveNamespace(self.run) /\ Proceed(c, "idle")

\* put_input_file; a write that raises leaves what it has written.
PutInput(c) ==
    /\ proc[c].pc = "put"
    /\ OpenInput(proc[c].run)
    /\ Proceed(c, "putEnd")

PutInputEnd(c) ==
    /\ proc[c].pc = "putEnd"
    /\ \/ FinishInput(proc[c].run) /\ Proceed(c, "enqueue")
       \/ UNCHANGED storeVars /\ Proceed(c, "ingestFail")

\* copy_input reads the source while it may still be written.
CopyInput(c) ==
    LET self == proc[c]
    IN  /\ self.pc = "copy"
        /\ IF HasInput(self.source)
           THEN /\ OpenInput(self.run)
                /\ Become(c, [self EXCEPT !.pc = "copyEnd", !.seen = input[self.source]])
           ELSE UNCHANGED storeVars /\ Proceed(c, "ingestFail")

Copied(self) == {self.seen, input[self.source]} \ {"none"}

\* Seeded fault: the digest of the copy is not compared.
CopyUnverified(c) ==
    /\ proc[c].pc = "copyEnd"
    /\ \/ "whole" \in Copied(proc[c]) /\ FinishInput(proc[c].run)
       \/ "partial" \in Copied(proc[c]) /\ UNCHANGED storeVars
    /\ Proceed(c, "enqueue")

\* A digest that does not match removes the copy; a read that raises leaves it.
CopyInputEnd(c) ==
    LET self == proc[c]
    IN  /\ self.pc = "copyEnd"
        /\ \/ "whole" \in Copied(self) /\ FinishInput(self.run) /\ Proceed(c, "enqueue")
           \/ "partial" \in Copied(self) /\ RemoveInput(self.run) /\ Proceed(c, "ingestFail")
           \/ UNCHANGED storeVars /\ Proceed(c, "ingestFail")

Enqueue(c) ==
    /\ proc[c].pc = "enqueue"
    /\ \/ /\ job' = [job EXCEPT ![proc[c].run] = TRUE]
          /\ proc' = [proc EXCEPT ![c] = Idle]
          /\ UNCHANGED <<storeVars, importVars, claims>>
       \/ Read(c, [proc[c] EXCEPT !.pc = "ingestFail"])

\* The handler saves the failure of the run the request created, then raises.
FailIngestion(c) ==
    /\ proc[c].pc = "ingestFail"
    /\ Read(c, Saving(proc[c], With("failed"), "idle", "idle"))

----------------------------------------------------------------------------
(* cancel.                                                                   *)

LoadForCancel(c, r) ==
    /\ "cancel" \in Endpoints
    /\ proc[c].pc = "idle"
    /\ Has(r, {"queued", "running"})
    /\ LET self == [Idle EXCEPT !.run = r]
       IN  Read(c, IF manifest[r].status = "queued"
                   THEN Saving(self, With("cancelled"), "idle", "idle")
                   ELSE [self EXCEPT !.pc = "request"])

\* request_cancellation.
RequestCancellation(c) ==
    LET self == proc[c]
    IN  /\ self.pc = "request"
        /\ Read(c, [self EXCEPT !.pc = IF AcceptsMarker(self.run) THEN "mark" ELSE "idle"])

WriteMarker(c) ==
    /\ proc[c].pc = "mark"
    /\ PutMarker(proc[c].run)
    /\ Proceed(c, "idle")

RequestStep(c) ==
    \/ \E r \in Run : Create(c, r) \/ LoadForCancel(c, r)
    \/ \E r, from \in Run : Reuse(c, from, r)
    \/ WriteManifest(c) \/ PutInput(c) \/ PutInputEnd(c) \/ CopyInput(c) \/ CopyInputEnd(c)
    \/ Enqueue(c) \/ FailIngestion(c) \/ RequestCancellation(c) \/ WriteMarker(c)

----------------------------------------------------------------------------

V1Step ==
    \/ EmptyStore /\ FindSources
    \/ ImportStep
    \/ ~NoImportYet /\ \E a \in Artifact : Edit(a)

Next ==
    \/ \E e \in Executor : ExecutorStep(e)
    \/ \E c \in Request  : RequestStep(c)
    \/ \E p \in Process  : SaveCheck(p) \/ SaveReplace(p)
    \/ V1Step /\ UNCHANGED <<job, claims, proc>>

Spec == Init /\ [][Next]_vars

----------------------------------------------------------------------------
(* Properties.                                                               *)

\* An outcome registers files that are there with the content it recorded, although
\* a second executor may publish into the same namespace (the file is linked once).
OutcomeMatchesFiles ==
    \A r \in Run : Has(r, {"succeeded", "partial"}) =>
        ArtifactsVerified(r, manifest[r].artifacts)

\* A job reaches the queue only when its attempt is readable and its input complete:
\* a copy of an input that is still being written is never executed.
EnqueuedInputIsWhole ==
    \A r \in Run : job[r] => Readable(r) /\ input[r] = "whole"

\* A completed import holds exactly the files whose checksums it recorded, whenever
\* V1 rewrote or removed them.
ImportMatchesSource ==
    LET r == import.run
    IN  import.pc = "done" /\ r # NoRun /\ Has(r, {"succeeded", "partial"}) =>
            manifest[r].artifacts = import.hashes

\* An import that nobody disturbs ends its run: only a source that changed, or a
\* cancellation of the run that was still queued, leaves the process early.
UndisturbedImportEnds ==
    import.pc = "done" /\ edits = 0 => Has(import.run, Ended)

=============================================================================
