-------------------------- MODULE MCAnalysisExecution --------------------------
(* Two scenarios of AnalysisExecution for TLC.  In "race" two workers and one  *)
(* request at a time work on one attempt with every fault; in "attempts" two   *)
(* requests submit, retry and clone while calls raise, next to a steady worker. *)
EXTENDS AnalysisExecution, FiniteSets, TLC

VARIABLES
    scenario,
    forsaken   \* attempts given up by a request whose write raised

mcVars == <<vars, scenario, forsaken>>

ProcessSymmetry == Permutations(Worker) \cup Permutations(Client) \cup Permutations(RunId)

MCInit ==
    /\ Init
    /\ scenario \in {"race", "attempts"}
    /\ forsaken = {}

UsedRun == {r \in RunId : Exists(r) \/ \E c \in Client : client[c].run = r}
Busy    == {c \in Client : client[c].pc # "idle"}

RaceStep ==
    /\ Next
    /\ Cardinality(UsedRun') <= 1
    /\ Cardinality(Busy') <= 1
    /\ UNCHANGED forsaken

Submission(c) ==
    \/ \E r \in RunId :
          Submit(c, r) \/ \E new \in RunId : LoadForRetry(c, r, new) \/ LoadForClone(c, r, new)
    \/ CreateAttempt(c) \/ StoreInput(c) \/ EnqueueJob(c) \/ FailIngestion(c)
    \/ IngestionRaises(c)
    \/ client[c].pc = "create" /\ StoreRaises(c)

\* A request ends with an exception that leaves the attempt r behind: its create raised
\* once the attempt was stored, or the save of its failure did.
Forsakes(c, r) ==
    \/ CreateRaises(c, r)
    \/ client[c].pc = "ingestFail" /\ client[c].run = r /\ StoreRaises(c)

SteadyWorkerStep(w) ==
    /\ \A v \in Worker \ {w} : worker[v].pc = "idle"
    /\ WorkerStep(w)

AttemptsStep ==
    \/ /\ \/ \E c \in Client : Submission(c)
          \/ \E w \in Worker : SteadyWorkerStep(w)
       /\ UNCHANGED forsaken
    \/ \E c \in Client, r \in RunId :
          Forsakes(c, r) /\ forsaken' = forsaken \cup {r}

MCNext ==
    /\ \/ scenario = "race" /\ RaceStep
       \/ scenario = "attempts" /\ AttemptsStep
    /\ UNCHANGED scenario

MCSpec == MCInit /\ [][MCNext]_mcVars

\* While two requests submit, retry and clone and any of their calls raises, the only
\* attempts left without a request or a job that will bring them on are those whose
\* create raised once they were stored, or the save of whose failure raised: the handler
\* of AnalysisCoordinator.create_analysis fails every other it could not enqueue.
SubmissionsStrandNothing ==
    scenario = "attempts" => \A r \in RunId : Stranded(r) => r \in forsaken

=============================================================================
