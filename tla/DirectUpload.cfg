\* Direct uploads whose enqueue raises.
SPECIFICATION Spec
CONSTANTS
    RunId = {r1}
    NoRunId = NoRunId
    NumStages = 1
    Optional = {}
    MaxDelivery = 1
    Worker = {w1}
    Client = {c1}
    NumArtifacts = 1
    Detection = 1
    Endpoints = {"finalize"}
    Faults = {"send"}
INVARIANTS NoStrandedAttempt
