--------------------------- MODULE AttemptLifecycle ---------------------------
(***************************************************************************)
(* What the platform promises about attempts, whoever executes, retries or *)
(* cancels them: an attempt is created queued, moves along the published   *)
(* status graph, never changes once terminal, and is retried at most once, *)
(* by an attempt that links to it and has the next number.                 *)
(* AnalysisExecution is checked to implement this specification.           *)
(***************************************************************************)
EXTENDS AnalysisRun

VARIABLE attempt  \* run id -> [status, logical, number, previous]

View(run) == [status |-> run.status, logical |-> run.logical,
              number |-> run.number, previous |-> run.previous]

LifecycleInit == attempt = [r \in RunId |-> View(NoRun)]

CreateFirst(r) ==
    /\ attempt[r].status = "none"
    /\ attempt' = [attempt EXCEPT ![r] = View(New(r))]

CreateNext(r, p) ==
    /\ attempt[r].status = "none"
    /\ Retryable(attempt[p])
    /\ ~\E q \in RunId : attempt[q].logical = attempt[p].logical
                         /\ attempt[q].number = attempt[p].number + 1
    /\ attempt' = [attempt EXCEPT ![r] = View(RetryFrom(p, attempt[p]))]

Advance(r, status) ==
    /\ status \in AllowedStatusTransitions[attempt[r].status]
    /\ attempt' = [attempt EXCEPT ![r].status = status]

LifecycleNext ==
    \E r \in RunId :
        \/ CreateFirst(r)
        \/ \E p \in RunId : CreateNext(r, p)
        \/ \E status \in AnalysisRunStatus : Advance(r, status)

LifecycleSpec == LifecycleInit /\ [][LifecycleNext]_attempt

=============================================================================
