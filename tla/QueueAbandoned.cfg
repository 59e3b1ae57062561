\* A worker dies while it claims a job.
SPECIFICATION Spec
CONSTANTS
    Job = {1}
    Worker = {w1}
    Client = {c1}
    Faults = {"crash"}
    MaxCrashes = 1
INVARIANTS AbandonedClaimsAreRecoverable
