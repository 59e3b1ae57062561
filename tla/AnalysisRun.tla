------------------------------ MODULE AnalysisRun ------------------------------
(***************************************************************************)
(* The immutable AnalysisRun contract: the run and stage records, the      *)
(* methods that build a successor of a run, the cross-field validation     *)
(* every constructed run passes, and the transition rules the repository   *)
(* applies to a stored run.  No state: the execution model EXTENDS this.   *)
(*                                                                         *)
(* A run keeps the fields the lifecycle tells apart: status, the status of *)
(* each stage, and the identity that links the attempts of one analysis.   *)
(* Timestamps, messages, metrics and provenance texts are left out; the    *)
(* artifact list of a manifest is non-empty exactly when its status is     *)
(* succeeded or partial, so it is not a field of its own.                  *)
(***************************************************************************)
EXTENDS Integers

CONSTANTS
    RunId,      \* the UUIDs the platform can mint (bounds the attempts created)
    NoRunId,    \* previous_attempt_run_id is null
    NumStages,  \* the number of stages (9 in the code)
    Optional    \* stages created with required = False (v1_compat only)

ASSUME NoRunIdAssumption  == NoRunId \notin RunId
ASSUME StagesAssumption   == NumStages \in Nat \ {0}
ASSUME OptionalAssumption == Optional \subseteq 1 .. NumStages

Stage == 1 .. NumStages

AnalysisRunStatus ==
    {"queued", "running", "succeeded", "partial", "failed", "cancelled"}

TerminalStatus == {"succeeded", "partial", "failed", "cancelled"}

StageStatus ==
    {"queued", "running", "succeeded", "partial", "failed", "cancelled", "skipped"}

Run == [status   : AnalysisRunStatus \cup {"none"},
        stages   : [Stage -> StageStatus],
        logical  : RunId \cup {NoRunId},
        number   : Nat,
        previous : RunId \cup {NoRunId}]

QueuedStages == [s \in Stage |-> "queued"]

\* The repository row of a run id nobody created.
NoRun == [status |-> "none", stages |-> QueuedStages, logical |-> NoRunId,
          number |-> 0, previous |-> NoRunId]

IsTerminal(run) == run.status \in TerminalStatus

(***************************************************************************)
(* Constructors and successors.  A logical analysis is named by the run id *)
(* of its first attempt.                                                   *)
(***************************************************************************)

New(id) == [status |-> "queued", stages |-> QueuedStages, logical |-> id,
            number |-> 1, previous |-> NoRunId]

Retryable(run) == run.status \in {"failed", "partial"}

\* Seeded fault: a retry that links to the first attempt of the analysis.
RetryFromRoot(previousId, previous) ==
    [status |-> "queued", stages |-> QueuedStages, logical |-> previous.logical,
     number |-> previous.number + 1, previous |-> previous.logical]

RetryFrom(previousId, previous) ==
    [status |-> "queued", stages |-> QueuedStages, logical |-> previous.logical,
     number |-> previous.number + 1, previous |-> previousId]

WithStage(run, s, status) == [run EXCEPT !.stages[s] = status]

Start(run) == [run EXCEPT !.status = "running"]

\* succeed, fail and cancel, given the stages to record.
Finish(run, status, stages) == [run EXCEPT !.status = status, !.stages = stages]

\* The status guards of start, succeed, complete_partial, fail and cancel.
MayFinish(run, status) ==
    IF status \in {"succeeded", "partial"}
    THEN run.status = "running"
    ELSE run.status \in {"queued", "running"}

\* Seeded fault: validation that does not look at the stages of a finished run.
QueuedOnlyLifecycle(run) == run.status = "queued" => run.stages = QueuedStages

\* Lifecycle validation, run by the constructor of every run.
ValidLifecycle(run) ==
    LET has(statuses) == \E s \in Stage : run.stages[s] \in statuses
    IN  /\ run.status = "queued" => run.stages = QueuedStages
        /\ run.status \in {"succeeded", "partial"} => ~has({"queued", "running"})
        /\ run.status = "succeeded" =>
             \A s \in Stage \ Optional : run.stages[s] = "succeeded"
        /\ run.status = "partial" =>
             \E s \in Stage \ Optional :
                run.stages[s] \in {"partial", "failed", "cancelled", "skipped"}
        /\ run.status \in {"failed", "cancelled"} => ~has({"running"})

(***************************************************************************)
(* Repository rules: what a stored run may be replaced with.               *)
(***************************************************************************)

\* Seeded fault: a status graph that forgets progress updates of a running attempt.
TransitionsWithoutProgress ==
    [status \in AnalysisRunStatus \cup {"none"} |->
        CASE status = "queued"  -> {"queued", "running", "failed", "cancelled"}
          [] status = "running" -> {"succeeded", "partial", "failed", "cancelled"}
          [] OTHER              -> {}]

AllowedStatusTransitions ==
    [status \in AnalysisRunStatus \cup {"none"} |->
        CASE status = "queued"  -> {"queued", "running", "failed", "cancelled"}
          [] status = "running" -> {"running", "succeeded", "partial", "failed", "cancelled"}
          [] OTHER              -> {}]

SameProvenance(current, updated) ==
    /\ current.logical  = updated.logical
    /\ current.number   = updated.number
    /\ current.previous = updated.previous

\* Seeded fault: a rule that compares provenance but not the stored status.
EnsureProvenanceOnly(current, updated) == SameProvenance(current, updated)

EnsureTransitionAllowed(current, updated) ==
    /\ ~IsTerminal(current)
    /\ updated.status \in AllowedStatusTransitions[current.status]
    /\ SameProvenance(current, updated)

=============================================================================
