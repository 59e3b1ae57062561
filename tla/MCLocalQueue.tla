------------------------------ MODULE MCLocalQueue ------------------------------
(* Two scenarios of LocalQueue for TLC.  In "race" two workers and two      *)
(* requests work on one job and nothing fails; in "crash" one worker, which *)
(* dies and may outlast the claim timeout, and one request share two jobs.  *)
EXTENDS LocalQueue

VARIABLE scenario

mcVars == <<vars, scenario>>

SingleWorker == CHOOSE w \in Worker : TRUE
SingleClient == CHOOSE c \in Client : TRUE
SingleJob    == CHOOSE j \in Job : TRUE

ActiveWorker == {w \in Worker : scenario = "race" \/ w = SingleWorker}
ActiveClient == {c \in Client : scenario = "race" \/ c = SingleClient}
ActiveJob    == {j \in Job : scenario = "crash" \/ j = SingleJob}

MCInit ==
    /\ Init
    /\ scenario \in {"race", "crash"}

\* Time passes: in "race" only for claims that no worker holds.
Aging(j) == Age(j) /\ (scenario = "race" => \A w \in Worker : ~Holds(w, j))

MCNext ==
    /\ \/ \E w \in ActiveWorker : WorkerStep(w) \/ (scenario = "crash" /\ Crash(w))
       \/ \E c \in ActiveClient :
             RequestStep(c) \/ \E j \in ActiveJob : Submit(c, j) \/ LoadForCancel(c, j)
       \/ \E j \in ActiveJob : Aging(j)
    /\ UNCHANGED scenario

InRace(step) == scenario = "race" /\ step /\ UNCHANGED scenario

MCFairness ==
    /\ \A w \in Worker : WF_mcVars(InRace(WorkerStep(w)))
    /\ \A c \in Client : WF_mcVars(InRace(RequestStep(c)))
    /\ \A j \in Job : WF_mcVars(InRace(Aging(j)))

MCSpec == MCInit /\ [][MCNext]_mcVars /\ MCFairness

\* A job is held by one worker at a time, as "process-safe" promises: two workers and
\* two requests race for it, none of which dies or outlasts the claim timeout.
RacingClaimsAreExclusive == scenario = "race" => ClaimsAreExclusive

\* In the same race every enqueued job comes to an end, whoever claims or cancels it.
RacingJobsEnd == scenario = "race" => JobsEnd

=============================================================================
