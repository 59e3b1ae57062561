---------------------------- MODULE MCLocalPlatform ----------------------------
(* The stores of a deployment for TLC, one at a time: "focus" says which of  *)
(* them is worked on, the local run store, the inputs in Azure, or the      *)
(* readiness of the API, which touches neither.                            *)
EXTENDS LocalPlatform, InputIngestion, CapabilityProbe, TLC

VARIABLE focus

localVars == <<focus, vars, ingestionVars, probeVars>>

\* The second content exceeds the limit.
FootageSize == [v \in Footage \cup {0} |-> v]

LocalInit ==
    /\ focus \in {"store", "ingestion", "probe"}
    /\ Init /\ IngestionInit /\ ProbeInit

LocalNext ==
    \/ focus = "store" /\ Next /\ UNCHANGED <<focus, ingestionVars, probeVars>>
    \/ focus = "ingestion" /\ IngestionNext /\ UNCHANGED <<focus, vars, probeVars>>
    \/ focus = "probe" /\ ProbeNext /\ UNCHANGED <<focus, vars, ingestionVars>>

LocalSpec == LocalInit /\ [][LocalNext]_localVars

\* The types of manifests, files, jobs and processes, and of the probes' caches.
LocalTypeOK == TypeOK /\ ProbeTypeOK

ProcessSymmetry == Permutations(Executor) \cup Permutations(Request)
                   \cup Permutations(Run) \cup Permutations(Asker)

=============================================================================
