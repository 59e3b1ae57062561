\* A worker recovers a dead worker's claim beside another worker.
SPECIFICATION Spec
CONSTANTS
    Job = {1}
    Worker = {w1, w2}
    Client = {c1}
    Faults = {"crash"}
    MaxCrashes = 1
INVARIANTS ClaimsAreExclusive
\* The queue rests when every job is over.
CHECK_DEADLOCK FALSE
