---------------------------- MODULE AttemptTimeline ----------------------------
(***************************************************************************)
(* The timestamps and the progress of one attempt that several hosts work  *)
(* on, one after the other: the API host creates it, a worker starts it, a *)
(* worker elsewhere goes on after a crash.  Their clocks differ, and the   *)
(* contract refuses a record whose times run backwards, wherever in the    *)
(* executor that happens.                                                  *)
(***************************************************************************)
EXTENDS Integers, FiniteSets, Functions

CONSTANTS
    Station,     \* the hosts, of the API and of the workers
    Skew,        \* external: how far their clocks are apart
    LastTick,    \* bounds the time
    Weight,      \* stage -> its weight in percent
    OptionalStage,  \* the stages the V1-compatible profile skips
    MaxClaims    \* deliveries of the job

ASSUME TimelineAssumption ==
    /\ Skew \in Nat /\ LastTick \in Nat \ {0} /\ MaxClaims \in Nat \ {0}
    /\ Cardinality(DOMAIN Weight) \in Nat \ {0}
    /\ DOMAIN Weight = 1 .. Cardinality(DOMAIN Weight)
    /\ Weight \in [DOMAIN Weight -> Nat] /\ SumFunction(Weight) = 100
    /\ OptionalStage \subseteq DOMAIN Weight

VARIABLES
    tick,      \* the true time
    offset,    \* host -> how far its clock is ahead
    attempt,   \* the stored manifest of the attempt
    asked,     \* whether a cancellation is requested
    executor,  \* the execution in progress
    claims,    \* deliveries so far
    escapes,   \* exceptions that ended a worker or a request
    faulted    \* whether the work itself raised

timelineVars == <<tick, offset, attempt, asked, executor, claims, escapes, faulted>>

Phase  == DOMAIN Weight
Final  == Cardinality(Phase)
NoTime == 0

Clock(h) == tick + offset[h]

NewPhase(required) == [status |-> "queued", progress |-> 0, required |-> required,
                       started |-> NoTime, finished |-> NoTime]

\* The coordinator marks the stages its profile does not support, the direct upload none.
CoordinatorPhases == [s \in Phase |-> NewPhase(s \notin OptionalStage)]
UploadPhases      == [s \in Phase |-> NewPhase(TRUE)]

AtRest(h) == [pc |-> "rest", host |-> h, index |-> 1]

TimelineInit ==
    /\ tick = 1
    /\ offset \in [Station -> 0 .. Skew]
    /\ \E h \in Station, phases \in {CoordinatorPhases, UploadPhases} :
          /\ attempt = [status |-> "queued", created |-> Clock(h), started |-> NoTime,
                        completed |-> NoTime, phases |-> phases]
          /\ executor = AtRest(h)
    /\ asked   = FALSE
    /\ claims  = 0
    /\ escapes = 0
    /\ faulted = FALSE

Over == attempt.status \in {"succeeded", "partial", "failed", "cancelled"}

Stamp == NoTime .. LastTick + Skew

TimelineTypeOK ==
    /\ tick \in 1 .. LastTick
    /\ attempt.created \in Stamp /\ attempt.started \in Stamp /\ attempt.completed \in Stamp
    /\ attempt.phases \in [Phase ->
          [status : {"queued", "running", "succeeded", "skipped", "partial", "failed",
                     "cancelled"},
           progress : {0, 10, 80, 100}, required : BOOLEAN, started : Stamp, finished : Stamp]]
    /\ claims \in 0 .. MaxClaims
    /\ executor.index \in 1 .. Final + 1
    /\ Over <=> attempt.completed # NoTime

----------------------------------------------------------------------------
(* The contract's checks of times (__post_init__).                           *)

\* Seeded fault: equal times are refused.
NotLater(earlier, later) == earlier # NoTime /\ later # NoTime /\ later <= earlier

Backwards(earlier, later) == earlier # NoTime /\ later # NoTime /\ later < earlier

ValidPhase(p) ==
    /\ ~Backwards(p.started, p.finished)
    /\ p.status = "queued"  => p.started = NoTime /\ p.finished = NoTime
    /\ p.status = "running" => p.started # NoTime /\ p.finished = NoTime
    /\ p.status \notin {"queued", "running"} => p.finished # NoTime
    /\ p.status = "succeeded" => p.progress = 100

\* The times of a run, and the times and stages its status asks for.
ValidAttempt(a) ==
    /\ ~Backwards(a.created, a.started)
    /\ ~Backwards(IF a.started = NoTime THEN a.created ELSE a.started, a.completed)
    /\ a.status = "queued"  => a.started = NoTime
    /\ a.status \in {"running", "succeeded", "partial"} => a.started # NoTime
    /\ a.status \in {"queued", "running"} <=> a.completed = NoTime
    /\ a.completed # NoTime => \A s \in Phase : a.phases[s].status # "running"
    /\ \A s \in Phase : ValidPhase(a.phases[s])

----------------------------------------------------------------------------
(* The steps of an execution on its host.                                    *)

At(pc) == executor' = [executor EXCEPT !.pc = pc]

Reach(pc, s) == executor' = [executor EXCEPT !.pc = pc, !.index = s]

\* An exception that nobody handles: the worker dies, the request answers 500.
Escape(h) ==
    /\ escapes' = escapes + 1
    /\ executor' = AtRest(h)
    /\ UNCHANGED attempt

\* A terminal record is stored, or its refusal escapes the handler it was built in.
EndAs(h, record) ==
    IF ValidAttempt(record)
    THEN attempt' = record /\ executor' = AtRest(h) /\ UNCHANGED escapes
    ELSE Escape(h)

NothingElse == UNCHANGED <<tick, offset, asked, claims, faulted>>

\* A delivery: start is outside the try block.
Begin(h) ==
    /\ executor.pc = "rest" /\ ~Over
    /\ claims < MaxClaims
    /\ claims' = claims + 1
    /\ LET record == IF attempt.status = "running" THEN attempt
                     ELSE [attempt EXCEPT !.status = "running", !.started = Clock(h)]
       IN  IF ValidAttempt(record)
           THEN /\ attempt' = record
                /\ executor' = [pc |-> "phase", host |-> h, index |-> 1]
                /\ UNCHANGED escapes
           ELSE Escape(h)
    /\ UNCHANGED <<tick, offset, asked, faulted>>

Here == Clock(executor.host)

SetPhase(s, phase) == attempt' = [attempt EXCEPT !.phases[s] = phase]

\* The stage begins, or goes on with the start another host recorded.
RunPhase(s) ==
    /\ SetPhase(s, [attempt.phases[s] EXCEPT
                      !.status = "running", !.progress = 10, !.finished = NoTime,
                      !.started = IF @ = NoTime THEN Here ELSE @])
    /\ Reach("work", s)

SkipPhase(s) ==
    /\ SetPhase(s, [attempt.phases[s] EXCEPT !.status = "skipped", !.finished = Here])
    /\ Reach("phase", s + 1)

EnterPhase ==
    LET s == executor.index
    IN  /\ executor.pc = "phase" /\ s \in Phase
        /\ CASE attempt.phases[s].status \in {"succeeded", "skipped"} ->
                    Reach("phase", s + 1) /\ UNCHANGED attempt
             [] attempt.phases[s].status \notin {"succeeded", "skipped"}
                  /\ ~attempt.phases[s].required -> SkipPhase(s)
             [] OTHER -> IF asked THEN At("cancel") /\ UNCHANGED attempt ELSE RunPhase(s)
        /\ UNCHANGED escapes /\ NothingElse

\* The work is done; a finish before the recorded start is an error like any other.
FinishPhase ==
    LET s == executor.index
        phase == [attempt.phases[s] EXCEPT !.status = "succeeded", !.progress = 100,
                                           !.finished = Here]
    IN  /\ executor.pc = "work"
        /\ CASE asked                        -> At("cancel") /\ UNCHANGED attempt
             [] ~asked /\ ValidPhase(phase)  -> SetPhase(s, phase) /\ Reach("phase", s + 1)
             [] ~asked /\ ~ValidPhase(phase) -> At("fail") /\ UNCHANGED attempt
        /\ UNCHANGED escapes /\ NothingElse

\* The work of a stage or the publication raises.
WorkRaises ==
    /\ \/ executor.pc = "work"
       \/ executor.pc = "phase" /\ executor.index \notin Phase
    /\ faulted' = TRUE
    /\ At("fail")
    /\ UNCHANGED <<tick, offset, attempt, asked, claims, escapes>>

\* The outcome is built inside the try block: its refusal is handled as a failure.
Conclude ==
    /\ executor.pc = "phase" /\ executor.index \notin Phase
    /\ \E partial \in BOOLEAN :
          LET record ==
                IF partial
                THEN [attempt EXCEPT !.status = "partial", !.completed = Here,
                                     !.phases[Final].status = "partial",
                                     !.phases[Final].progress = 80]
                ELSE [attempt EXCEPT !.status = "succeeded", !.completed = Here]
          IN  IF ValidAttempt(record)
              THEN attempt' = record /\ executor' = AtRest(executor.host)
              ELSE At("fail") /\ UNCHANGED attempt
    /\ UNCHANGED escapes /\ NothingElse

\* active_index never passes the last stage, and only a running one is stopped.
StoppedPhases(status) ==
    LET s == IF executor.index \in Phase THEN executor.index ELSE Final
    IN  IF attempt.phases[s].status = "running"
        THEN [attempt.phases EXCEPT ![s].status = status, ![s].finished = Here]
        ELSE attempt.phases

HandleStop(pc, status) ==
    /\ executor.pc = pc
    /\ EndAs(executor.host, [attempt EXCEPT !.status = status, !.completed = Here,
                                            !.phases = StoppedPhases(status)])
    /\ NothingElse

HandleFail   == HandleStop("fail", "failed")
HandleCancel == HandleStop("cancel", "cancelled")

WorkerCrashes ==
    /\ executor.pc # "rest"
    /\ executor' = AtRest(executor.host)
    /\ UNCHANGED <<tick, offset, attempt, asked, claims, escapes, faulted>>

----------------------------------------------------------------------------

\* The API: a queued attempt is cancelled at once, a running one is asked to stop.
CancelAttempt(h) ==
    /\ ~Over /\ ~asked
    /\ escapes < MaxClaims
    /\ IF attempt.status = "queued"
       THEN /\ EndAs(h, [attempt EXCEPT !.status = "cancelled", !.completed = Clock(h)])
            /\ UNCHANGED asked
       ELSE asked' = TRUE /\ UNCHANGED <<attempt, executor, escapes>>
    /\ UNCHANGED <<tick, offset, claims, faulted>>

TickPasses ==
    /\ tick < LastTick
    /\ tick' = tick + 1
    /\ UNCHANGED <<offset, attempt, asked, executor, claims, escapes, faulted>>

ExecuteAttempt ==
    EnterPhase \/ FinishPhase \/ Conclude \/ HandleFail \/ HandleCancel

TimelineNext ==
    \/ \E h \in Station : Begin(h) \/ CancelAttempt(h)
    \/ ExecuteAttempt \/ WorkRaises \/ WorkerCrashes
    \/ TickPasses

TimelineSpec == TimelineInit /\ [][TimelineNext]_timelineVars

----------------------------------------------------------------------------
(* What the API shows, and the properties.                                   *)

WeightedProgress(a) ==
    SumFunction([s \in Phase |-> IF a.phases[s].status = "skipped" THEN Weight[s] * 100
                                 ELSE Weight[s] * a.phases[s].progress]) \div 100

\* Seeded fault: a running attempt may show 100 percent.
UncappedProgress(a) == WeightedProgress(a)

overall_progress(a) ==
    IF a.status = "succeeded" \/ WeightedProgress(a) < 99 THEN WeightedProgress(a) ELSE 99

\* The list of runs shows the plain average.
stage_progress_percent(a) ==
    SumFunction([s \in Phase |-> a.phases[s].progress]) \div Final

\* The time of the last change that a reader of the progress is shown.
UpdatedAt(a) ==
    LET touched == {s \in Phase : a.phases[s].started # NoTime \/ a.phases[s].finished # NoTime}
        last    == a.phases[CHOOSE s \in touched : \A t \in touched : t <= s]
    IN  CASE a.completed # NoTime                   -> a.completed
          [] a.completed = NoTime /\ touched = {}   -> a.created
          [] a.completed = NoTime /\ touched # {} ->
                IF last.finished # NoTime THEN last.finished ELSE last.started

ClocksAgree == \A g, h \in Station : offset[g] = offset[h]

\* With clocks that agree, no attempt ever fails without an error of its work, and no
\* exception ends a worker or a request: only clocks that differ make the contract
\* refuse the times the executor records, across crashes and hosts.
ClockFaultsNeedSkew ==
    escapes > 0 \/ (attempt.status = "failed" /\ ~faulted) => ~ClocksAgree

\* The progress a reader sees, of the attempt and in the list, never falls, whatever is
\* executed again after a crash, except in the step that ends the attempt as partial; 100
\* percent means success; and with clocks that agree, the time of the last change never
\* goes back.
ProgressNeverFalls ==
    [][attempt' # attempt =>
         /\ \/ attempt'.status = "partial"
            \/ /\ overall_progress(attempt') >= overall_progress(attempt)
               /\ stage_progress_percent(attempt') >= stage_progress_percent(attempt)
         /\ (overall_progress(attempt') = 100 <=> attempt'.status = "succeeded")
         /\ ClocksAgree => UpdatedAt(attempt') >= UpdatedAt(attempt)]_attempt

=============================================================================
