---------------------------- MODULE V1CompatPipeline ----------------------------
(***************************************************************************)
(* The V1-compatible pipeline on one worker host: an execution checks the  *)
(* host, fixes its configuration and runs three child processes in a       *)
(* working tree, whose files it finally returns as payloads.  Executions,  *)
(* their children, operators and cancellation requests interleave; a child *)
(* may hang, and may outlive the execution that started it.                *)
(*                                                                         *)
(* A file is reduced to what it was derived from: the video of a run and   *)
(* the weights that were loaded.                                           *)
(***************************************************************************)
EXTENDS Integers, FiniteSets

CONSTANTS
    Video, NoVideo,   \* the runs on this host (each has a video), and none
    EmptyVideo,       \* those with no track left after the V1 filters
    Analyst,          \* worker processes
    Child,            \* bounds the child processes alive
    Private,          \* the input lies in the directory of its run
    MaxAnalyses,      \* bounds the executions
    MaxChanges,       \* bounds the changes an operator makes to the host
    PipelineFaults    \* "die": a worker process dies; "check": a poll of the
                      \* control plane raises

ASSUME VideoAssumption    == NoVideo \notin Video \cup Analyst /\ EmptyVideo \subseteq Video
ASSUME PrivateAssumption  == Private \in BOOLEAN
ASSUME PipelineAssumption == /\ MaxAnalyses \in Nat /\ MaxChanges \in Nat
                             /\ PipelineFaults \subseteq {"die", "check"}

VARIABLES
    host,       \* packages and tools, the configured weights (0 when invalid), MPS
    recorded,   \* run -> weights and device recorded at submission
    stopAsked,  \* runs with a cancellation request
    touched,    \* runs in whose execution the weights were replaced
    file,       \* working tree -> file -> what it was derived from
    child,      \* the child processes
    analysis,   \* the execution of each worker
    begun,      \* executions so far, at most MaxAnalyses
    changes     \* changes of the weights so far, at most MaxChanges

hostVars     == <<host, recorded, stopAsked, touched, changes>>
pipelineVars == <<hostVars, file, child, analysis, begun>>

Weights == 1 .. 2
Device  == {"cpu", "mps"}
Config  == [model : Weights, device : Device]
NoConfig == [model |-> 0, device |-> "cpu"]

\* The scripts in their order, and the file each one writes.
Script == <<"tracking", "stats", "fatigue">>
Files  == {"tracking", "stats", "fatigue"}

\* Contents of a file: absent, unreadable while it is written, or derived.
Derived == [run : Video, model : Weights]
Absent  == [run |-> NoVideo, model |-> 0]
Broken  == [run |-> NoVideo, model |-> 1]

\* Seeded fault: one working tree for all runs.
SharedWorkspace(r) == NoVideo

\* input_path.parent.parent: the directory of the run for the local store, and the
\* temporary directory of the host for a downloaded blob.
WorkspaceOf(r) == IF Private THEN r ELSE NoVideo

NoChild == [state |-> "none", owner |-> NoVideo, step |-> 1, run |-> NoVideo, model |-> 0,
            video |-> TRUE, held |-> Absent]

NoAnalysis == [pc |-> "idle", run |-> NoVideo, config |-> NoConfig, step |-> 1,
               child |-> NoVideo, outcome |-> "none", payload |-> Absent]

Healthy == [packages |-> TRUE, tools |-> TRUE, model |-> 1, mps |-> TRUE, requested |-> "auto"]

\* A host is as it should be, or has one defect; a host without MPS has none.
PipelineInit ==
    /\ host \in {Healthy, [Healthy EXCEPT !.mps = FALSE],
                 [Healthy EXCEPT !.mps = FALSE, !.requested = "mps"],
                 [Healthy EXCEPT !.packages = FALSE], [Healthy EXCEPT !.tools = FALSE]}
    /\ recorded \in [Video -> {[model |-> 1, device |-> IF host.mps THEN "mps" ELSE "cpu"]}
                               \cup IF Private THEN {} ELSE {NoConfig}]
    /\ stopAsked = {}
    /\ touched   = {}
    /\ file      = [d \in Video \cup {NoVideo} |-> [f \in Files |-> Absent]]
    /\ child     = [k \in Child |-> NoChild]
    /\ analysis  = [w \in Analyst |-> NoAnalysis]
    /\ begun     = 0
    /\ changes   = 0

PipelineTypeOK ==
    /\ stopAsked \subseteq Video /\ touched \subseteq Video
    /\ host.model \in 0 .. 2
    /\ file \in [Video \cup {NoVideo} -> [Files -> Derived \cup {Absent, Broken}]]
    /\ \A k \in Child : child[k].state # "none" => child[k].run \in Video
    /\ \A w \in Analyst :
          /\ analysis[w].config \in Config \cup {NoConfig}
          /\ analysis[w].pc \in {"spawn", "poll", "terminate", "kill"} =>
                analysis[w].config \in Config
          /\ analysis[w].pc \in {"poll", "terminate", "kill"} => analysis[w].child \in Child

Unobserved == UNCHANGED <<hostVars, file, child, begun>>

Analyse(w, state) == analysis' = [analysis EXCEPT ![w] = state]

Proceed(w, pc) == Analyse(w, [analysis[w] EXCEPT !.pc = pc])

\* An exception ends the execution; the executor handles it and the worker goes on.
RaiseFailure(w, outcome) == Analyse(w, [NoAnalysis EXCEPT !.pc = "ended", !.outcome = outcome])

----------------------------------------------------------------------------
(* check_v1_compat_readiness and _execution_config.                          *)

\* "auto" takes what is there; an explicit device that is missing is an error.
ResolvedDevice ==
    IF host.requested = "mps" \/ host.mps THEN "mps" ELSE "cpu"

DeviceIsMissing == host.requested = "mps" /\ ~host.mps

\* validate_model_file: name, size and first bytes of the weights.
ModelIsValid == host.model # 0

\* The configuration is built only with the packages, and from valid weights.
CurrentConfig ==
    IF host.packages /\ ModelIsValid /\ ~DeviceIsMissing
    THEN [model |-> host.model, device |-> ResolvedDevice] ELSE NoConfig

ReadinessStatus ==
    CASE ~host.packages                       -> "missing_python_packages"
      [] ModelIsValid /\ DeviceIsMissing      -> "runtime_import_error"
      [] ~host.tools                          -> "missing_system_tools"
      [] ~ModelIsValid                        -> "missing_model_weights"
      [] OTHER                                -> "ready"

BeginAnalysis(w, r) ==
    /\ analysis[w].pc = "idle"
    /\ begun < MaxAnalyses
    /\ begun' = begun + 1
    /\ Analyse(w, [NoAnalysis EXCEPT !.pc = "readiness", !.run = r])
    /\ UNCHANGED <<hostVars, file, child>>

CheckReadiness(w) ==
    /\ analysis[w].pc = "readiness"
    /\ IF ReadinessStatus = "ready" /\ CurrentConfig # NoConfig
       THEN Analyse(w, [analysis[w] EXCEPT !.pc = "config", !.config = CurrentConfig])
       ELSE RaiseFailure(w, "v1_requirements_missing")
    /\ Unobserved

\* A recorded configuration replaces the current one, if the weights are the same.
FixConfig(w) ==
    LET wanted == recorded[analysis[w].run]
    IN  /\ analysis[w].pc = "config"
        /\ IF wanted = NoConfig THEN Proceed(w, "spawn")
           ELSE IF host.model = wanted.model
           THEN Analyse(w, [analysis[w] EXCEPT !.pc = "spawn", !.config = wanted])
           ELSE RaiseFailure(w, "v1_model_changed")
        /\ Unobserved

----------------------------------------------------------------------------
(* _run: start a child and poll it.                                          *)

\* Which of the free names the child gets makes no difference.
Spawn(w) ==
    LET self == analysis[w]
        free == {k \in Child : child[k] = NoChild}
        k    == CHOOSE c \in free : TRUE
    IN  /\ self.pc = "spawn"
        /\ free # {}
        /\ child' = [child EXCEPT ![k] =
              [NoChild EXCEPT !.state = "starting", !.owner = w, !.run = self.run,
                              !.step = self.step]]
        /\ Analyse(w, [self EXCEPT !.pc = "poll", !.child = k])
        /\ UNCHANGED <<hostVars, file, begun>>

Reap(k) == child' = [child EXCEPT ![k] = NoChild]

Exited(w) == child[analysis[w].child].state \in {"succeeded", "failed"}

PollExit(w) ==
    LET self == analysis[w]
        k    == self.child
    IN  /\ self.pc = "poll"
        /\ Exited(w)
        /\ Reap(k)
        /\ IF child[k].state = "failed"
           THEN RaiseFailure(w, IF self.config.device = "mps" THEN "v1_mps_execution_failed"
                                                       ELSE "v1_subprocess_failed")
           ELSE CASE self.step = 1 -> Proceed(w, "summary")
                  [] self.step = 2 -> Analyse(w, [self EXCEPT !.pc = "spawn", !.step = 3])
                  [] OTHER         -> Proceed(w, "collect")
        /\ UNCHANGED <<hostVars, file, begun>>

\* The child may have exited since poll() saw it run: SIGTERM then does nothing.
Terminate(w, outcome) ==
    /\ child' = IF Exited(w) THEN child
                ELSE [child EXCEPT ![analysis[w].child].state = "terminated"]
    /\ Analyse(w, [analysis[w] EXCEPT !.pc = "terminate", !.outcome = outcome])
    /\ UNCHANGED <<hostVars, file, begun>>

PollCancelled(w) ==
    /\ analysis[w].pc = "poll"
    /\ analysis[w].run \in stopAsked
    /\ Terminate(w, "cancelled")

\* Seeded fault: the time limit raises and leaves the child alone.
TimeoutRaises(w) ==
    /\ analysis[w].pc = "poll"
    /\ RaiseFailure(w, "v1_subprocess_timeout")
    /\ Unobserved

PollTimeout(w) ==
    /\ analysis[w].pc = "poll"
    /\ Terminate(w, "v1_subprocess_timeout")

\* wait returns, or runs out after ten seconds and is followed by kill and wait.
WaitEnds(w) ==
    LET self == analysis[w]
    IN  /\ self.pc \in {"terminate", "kill"}
        /\ child[self.child].state = "gone" \/ Exited(w)
        /\ Reap(self.child)
        /\ RaiseFailure(w, self.outcome)
        /\ UNCHANGED <<hostVars, file, begun>>

\* Seeded fault: the wait has no limit.
WaitForever(w) == FALSE

WaitExpires(w) ==
    /\ analysis[w].pc = "terminate"
    /\ child[analysis[w].child].state = "terminated"
    /\ child' = [child EXCEPT ![analysis[w].child].state = "gone"]
    /\ Proceed(w, "kill")
    /\ UNCHANGED <<hostVars, file, begun>>

Abandon(k, video) == child' = [child EXCEPT ![k].owner = NoVideo, ![k].video = video]

\* materialize_input removes what it downloaded, whatever the outcome of the pipeline; the
\* local store lends the file of the run.
InputRemains == Private

\* cancellation_requested raises, in the middle of the poll.
CheckRaises(w) ==
    /\ "check" \in PipelineFaults
    /\ analysis[w].pc = "poll"
    /\ Abandon(analysis[w].child, InputRemains)
    /\ RaiseFailure(w, "execution_failed")
    /\ UNCHANGED <<hostVars, file, begun>>

\* A worker process dies and is started again; its child goes on.
WorkerDies(w) ==
    /\ "die" \in PipelineFaults
    /\ analysis[w].pc = "poll"
    /\ Abandon(analysis[w].child, TRUE)
    /\ Analyse(w, NoAnalysis)
    /\ UNCHANGED <<hostVars, file, begun>>

----------------------------------------------------------------------------
(* The files.                                                                *)

ReadFile(w, f) == file[WorkspaceOf(analysis[w].run)][f]

Readable(content) == content \notin {Absent, Broken}

ReadTrackingSummary(w) ==
    LET tracks == ReadFile(w, "tracking")
    IN  /\ analysis[w].pc = "summary"
        /\ IF ~Readable(tracks) THEN RaiseFailure(w, "v1_tracking_output_invalid")
           ELSE IF tracks.run \in EmptyVideo THEN Proceed(w, "collect")
           ELSE Analyse(w, [analysis[w] EXCEPT !.pc = "spawn", !.step = 2])
        /\ Unobserved

\* The payloads of a video without tracks hold the tracking summary only.
Collect(w) ==
    LET read   == {ReadFile(w, f) : f \in Files}
        tracks == ReadFile(w, "tracking")
        sources == IF tracks.run \in EmptyVideo THEN {tracks} ELSE read
    IN  /\ analysis[w].pc = "collect"
        /\ IF \E content \in sources : ~Readable(content) THEN RaiseFailure(w, "v1_output_invalid")
           ELSE \E content \in sources :
                   Analyse(w, [analysis[w] EXCEPT !.pc = "ended", !.outcome = "payloads",
                                                 !.payload = content])
        /\ Unobserved

EndAnalysis(w) ==
    /\ analysis[w].pc = "ended"
    /\ Analyse(w, NoAnalysis)
    /\ Unobserved

WriteFile(r, f, content) == file' = [file EXCEPT ![WorkspaceOf(r)][f] = content]

ChildBecomes(k, process) == child' = [child EXCEPT ![k] = process]

\* Tracking loads the weights and the video, the others what the script before wrote.
ChildReads(k) ==
    LET self    == child[k]
        content == IF self.step = 1
                   THEN IF self.video THEN [run |-> self.run, model |-> host.model] ELSE Absent
                   ELSE file[WorkspaceOf(self.run)][Script[self.step - 1]]
    IN  /\ self.state = "starting"
        /\ ChildBecomes(k, IF content \in Derived
                           THEN [self EXCEPT !.state = "working", !.held = content]
                           ELSE [self EXCEPT !.state = "failed"])
        /\ UNCHANGED <<hostVars, file, analysis, begun>>

ChildOpens(k) ==
    LET self == child[k]
    IN  /\ self.state = "working"
        /\ WriteFile(self.run, Script[self.step], Broken)
        /\ ChildBecomes(k, [self EXCEPT !.state = "writing"])
        /\ UNCHANGED <<hostVars, analysis, begun>>

ChildWrites(k) ==
    LET self == child[k]
    IN  /\ self.state = "writing"
        /\ WriteFile(self.run, Script[self.step], self.held)
        /\ ChildBecomes(k, [self EXCEPT !.state = "succeeded"])
        /\ UNCHANGED <<hostVars, analysis, begun>>

\* A child ends early: an error of its own, or SIGTERM.
ChildEnds(k) ==
    /\ child[k].state \in {"working", "writing", "terminated"}
    /\ ChildBecomes(k, [child[k] EXCEPT !.state =
                           IF @ = "terminated" THEN "gone" ELSE "failed"])
    /\ UNCHANGED <<hostVars, file, analysis, begun>>

\* Nobody waits for the child of a dead or failed execution.
OrphanEnds(k) ==
    /\ child[k].owner = NoVideo
    /\ child[k].state \in {"succeeded", "failed"}
    /\ Reap(k)
    /\ UNCHANGED <<hostVars, file, analysis, begun>>

----------------------------------------------------------------------------

Alive(r) ==
    \/ \E w \in Analyst : analysis[w].run = r
    \/ \E k \in Child : child[k].run = r

\* External: an operator replaces or removes the weights.
ReplaceWeights ==
    /\ changes < MaxChanges
    /\ changes' = changes + 1
    /\ \E model \in 0 .. 2 : model # host.model /\ host' = [host EXCEPT !.model = model]
    /\ touched' = touched \cup {r \in Video : Alive(r)}
    /\ UNCHANGED <<recorded, stopAsked, file, child, analysis, begun>>

\* External: a user asks to cancel a running attempt.
AskToStop(r) ==
    /\ r \notin stopAsked
    /\ \E w \in Analyst : analysis[w].run = r
    /\ stopAsked' = stopAsked \cup {r}
    /\ UNCHANGED <<host, recorded, touched, changes, file, child, analysis, begun>>

PipelineStep(w) ==
    \/ CheckReadiness(w) \/ FixConfig(w) \/ Spawn(w)
    \/ PollExit(w) \/ PollCancelled(w) \/ PollTimeout(w)
    \/ WaitEnds(w) \/ WaitExpires(w)
    \/ ReadTrackingSummary(w) \/ Collect(w) \/ EndAnalysis(w)

ChildStep(k) ==
    ChildReads(k) \/ ChildOpens(k) \/ ChildWrites(k) \/ ChildEnds(k) \/ OrphanEnds(k)

PipelineNext ==
    \/ \E w \in Analyst :
          \/ PipelineStep(w) \/ CheckRaises(w) \/ WorkerDies(w)
          \/ \E r \in Video : BeginAnalysis(w, r)
    \/ \E k \in Child : ChildStep(k)
    \/ ReplaceWeights
    \/ \E r \in Video : AskToStop(r)

PipelineSpec == PipelineInit /\ [][PipelineNext]_pipelineVars

----------------------------------------------------------------------------
(* Properties.                                                               *)

\* The payloads an execution returns were computed from the video of its run and
\* from the weights whose checksum they report, unless an operator replaced the
\* weights while the run was executed: nothing ties the checksum taken by
\* _execution_config to the file the child loads later.
PayloadsMatchInput ==
    \A w \in Analyst : analysis[w].outcome = "payloads" =>
        /\ analysis[w].payload.run = analysis[w].run
        /\ analysis[w].run \in touched \/ analysis[w].payload.model = analysis[w].config.model

\* However _run is left (exit, cancellation, time limit), its child is no longer
\* there; only a poll that raises and a dying worker leave one behind.
ChildrenStopped ==
    \A k \in Child : child[k].owner \in Analyst =>
        /\ analysis[child[k].owner].child = k
        /\ analysis[child[k].owner].pc \in {"poll", "terminate", "kill"}

\* An execution ends whatever its child does: the time limit and kill see to it.
ExecutionsEnd == \A w \in Analyst : []<>(analysis[w].pc = "idle")

=============================================================================
