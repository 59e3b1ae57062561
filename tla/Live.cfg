\* Fair workers and lock expiry on one attempt, with crashes, lost locks and failures.
SPECIFICATION HistorySpec
CONSTANTS
    RunId = {r1}
    NoRunId = NoRunId
    NumStages = 2
    Optional = {1}
    MaxDelivery = 2
    Worker = {w1, w2}
    Client = {c1}
    NumArtifacts = 1
    Detection = 2
    Endpoints = {"create", "cancel"}
    Faults = {"crash", "lock", "raise"}
INVARIANTS FailureNeedsPublication
PROPERTIES JobsAreResolved EarlyCancellationWins
