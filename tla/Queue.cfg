\* The filesystem queue: a race of two workers and two requests, and a crashing worker.
SPECIFICATION MCSpec
CONSTANTS
    Job = {1, 2}
    Worker = {w1, w2}
    Client = {c1, c2}
    Faults = {"crash", "slow"}
    MaxCrashes = 2
INVARIANTS TypeOK RacingClaimsAreExclusive UnfinishedJobsAreKept OneLiveRecord RetiredRunsAreOver
PROPERTIES RacingJobsEnd
\* The queue rests when every job is over.
CHECK_DEADLOCK FALSE
