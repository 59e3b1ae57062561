------------------------------ MODULE MCWorkerHost ------------------------------
(* The components around one execution, checked one at a time: "focus" says *)
(* which of them takes steps.  The pipeline is checked twice: two executions *)
(* that share a host, and one at a time on a host that changes.            *)
EXTENDS V1CompatPipeline, LockRenewal, AttemptTimeline, TrackStatistics

VARIABLE focus

vars == <<focus, pipelineVars, lockVars, timelineVars, statisticsVars>>

StageWeight == <<40, 20, 40>>

\* The first analyst is the only one when the host changes, and the one that begins
\* otherwise: the analysts are alike.
Single == CHOOSE w \in Analyst : TRUE

\* The consumer that receives first: they are alike.
Early == CHOOSE c \in Consumer : TRUE

\* The host of the API: the hosts are alike.
Home == CHOOSE h \in Station : TRUE

\* Components out of focus start in one state only; directly uploaded attempts are looked
\* at with clocks that agree.
Init ==
    /\ focus \in {"share", "change", "lock", "timeline", "tracks"}
    /\ PipelineInit
    /\ focus # "change" => host = Healthy /\ \A r \in Video : recorded[r] # NoConfig
    /\ LockInit
    /\ TimelineInit
    /\ attempt.phases = CoordinatorPhases \/ (focus = "timeline" /\ ClocksAgree)
    /\ executor.host = Home
    /\ focus # "timeline" => \A h \in Station : offset[h] = 0
    /\ StatisticsInit
    /\ focus # "tracks" => \A t \in Track : tracks[t] = {}

OnlyPipeline == UNCHANGED <<focus, lockVars, timelineVars, statisticsVars>>
OnlyLock     == UNCHANGED <<focus, pipelineVars, timelineVars, statisticsVars>>

HostAnalysis(w) == focus \in {"share", "change"} /\ PipelineStep(w) /\ OnlyPipeline

Next ==
    \/ /\ focus = "share" \/ focus = "change"
       /\ \/ \E w \in Analyst :
                \/ PipelineStep(w) \/ CheckRaises(w) \/ (focus = "change" /\ WorkerDies(w))
                \/ ((focus = "share" /\ begun > 0) \/ w = Single) /\ \E r \in Video : BeginAnalysis(w, r)
          \/ \E k \in Child : ChildStep(k)
          \/ focus = "change" /\ ReplaceWeights
          \/ focus = "share" /\ \E r \in Video : AskToStop(r)
       /\ OnlyPipeline
    \/ /\ focus = "lock" /\ LockNext /\ OnlyLock
       /\ (\A m \in Letter : lock[m].delivery = 0) => consumer'[Early] # Idle
    \/ focus = "timeline" /\ TimelineNext
       /\ UNCHANGED <<focus, pipelineVars, lockVars, statisticsVars>>
    \/ focus = "tracks" /\ StatisticsNext
       /\ UNCHANGED <<focus, pipelineVars, lockVars, timelineVars>>

Fairness ==
    /\ \A w \in Analyst : WF_vars(HostAnalysis(w))
    /\ WF_vars(focus = "lock" /\ TickLocks /\ OnlyLock)
    /\ \A c \in Consumer : WF_vars(focus = "lock" /\ ConsumerStep(c) /\ OnlyLock)
    /\ WF_vars(focus = "lock" /\ OnlyLock /\ \E m \in Letter, d \in Delivery : WakeRenewer(m, d))

FairSpec == Init /\ [][Next]_vars /\ Fairness

\* The types of every component: host, children and files of the pipeline, locks,
\* renewers, the attempt's timestamps, tracks and scores.
TypeOK ==
    PipelineTypeOK /\ LockTypeOK /\ TimelineTypeOK /\ StatisticsTypeOK

\* When the queue is in focus, every message is settled in the end: neither a renewer
\* left behind by a cancellation nor a lock lost before complete_message keeps it.
MessagesSettle == focus = "lock" => LettersSettle

=============================================================================
