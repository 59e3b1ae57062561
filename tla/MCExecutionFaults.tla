--------------------------- MODULE MCExecutionFaults ---------------------------
(* AnalysisExecution for TLC with two history variables: whether any step of a *)
(* try block has raised, and whether two executors ever worked on one attempt. *)
EXTENDS AnalysisExecution

VARIABLES raised, overlapped

historyVars == <<vars, raised, overlapped>>

HistoryInit ==
    /\ Init
    /\ raised = FALSE
    /\ overlapped = FALSE

QuietStep ==
    \/ \E w \in Worker : WorkerStep(w) \/ Crash(w)
    \/ \E c \in Client : ClientStep(c) \/ ClientFault(c)
    \/ \E r \in RunId  : BrokerStep(r)

\* Two worker processes work on deliveries of one attempt, current or stale.
Overlap ==
    \E v, w \in Worker : v # w /\ worker[v].run = worker[w].run /\ worker[v].run # NoRunId

HistoryNext ==
    /\ \/ QuietStep /\ UNCHANGED raised
       \/ (\E w \in Worker : StepRaises(w)) /\ raised' = TRUE
    /\ overlapped' = (overlapped \/ Overlap')

HistorySpec == HistoryInit /\ [][HistoryNext]_historyVars /\ Fairness

\* While nothing has raised, only an execution that had begun to publish can make a
\* later one fail the attempt (AnalysisExecutor.execute, the write-once artifacts):
\* crashes, lost locks and redeliveries before that are harmless.
FailureNeedsPublication ==
    \A r \in RunId :
        row[r].status = "failed" => raised \/ \E a \in Artifact : object[r][a] # 0

\* A cancellation requested before the last stage began is never lost: the attempt
\* does not succeed and does not end partial, whatever crashes, lost locks and
\* overlapping executions come after it (_checkpoint in AnalysisExecutor.execute).
\* Only executors that overlapped before it can defeat it: a stale copy of the
\* stages may have rewound the stored ones.
EarlyCancellationWins ==
    \A r \in RunId :
        []((/\ cancelRequested[r]
            /\ row[r].status = "running"
            /\ row[r].stages[NumStages] = "queued"
            /\ ~overlapped)
             => [](row[r].status \notin {"succeeded", "partial"}))

=============================================================================
