-------------------------- MODULE PostgresRepository --------------------------
(***************************************************************************)
(* The PostgreSQL control plane.  Each operation is one transaction that   *)
(* locks the attempt row with SELECT ... FOR UPDATE, so it is one atomic   *)
(* step.  The version counter is left out: no caller passes                *)
(* expected_version, so nothing ever reads it.                             *)
(***************************************************************************)
EXTENDS AnalysisRun

VARIABLES
    row,             \* run id -> the stored manifest, NoRun when there is none
    cancelRequested  \* run id -> the cancel_requested column

repositoryVars == <<row, cancelRequested>>

RepositoryTypeOK ==
    /\ row \in [RunId -> Run]
    /\ cancelRequested \in [RunId -> BOOLEAN]

RepositoryInit ==
    /\ row = [r \in RunId |-> NoRun]
    /\ cancelRequested = [r \in RunId |-> FALSE]

Exists(r) == row[r].status # "none"

\* Seeded fault: a control plane without the unique constraint.
NoUniqueConstraint(run) == TRUE

\* uq_attempt_per_logical: one attempt per number in a logical analysis.
UniqueAttempt(run) ==
    \A r \in RunId : ~(row[r].logical = run.logical /\ row[r].number = run.number)

MayCreate(r, run) == ~Exists(r) /\ UniqueAttempt(run)

\* A write of a manifest: the attempt's row, the projections of its stages and artifacts
\* and an audit event are written by one transaction, so a reader finds all or none of them.
Written(r, run) == [row EXCEPT ![r] = run]

\* create: inserts the queued attempt, or raises and leaves the table.
Create(r, run) ==
    /\ row' = IF MayCreate(r, run) THEN Written(r, run) ELSE row
    /\ UNCHANGED cancelRequested

Accepts(r, updated) == EnsureTransitionAllowed(row[r], updated)

\* save: replaces the manifest, or raises and leaves it.
Save(r, updated) ==
    /\ row' = IF Accepts(r, updated) THEN Written(r, updated) ELSE row
    /\ UNCHANGED cancelRequested

\* A terminal attempt is left untouched.
RequestCancellation(r) ==
    /\ cancelRequested' =
         IF IsTerminal(row[r]) THEN cancelRequested ELSE [cancelRequested EXCEPT ![r] = TRUE]
    /\ UNCHANGED row

\* The column of an attempt, FALSE for a run id without a row.
CancellationRequested(r) == cancelRequested[r]

=============================================================================
