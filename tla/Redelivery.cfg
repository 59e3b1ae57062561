\* Worker crashes are the only fault: does a redelivery ever fail the attempt?
SPECIFICATION Spec
CONSTANTS
    RunId = {r1}
    NoRunId = NoRunId
    NumStages = 1
    Optional = {}
    MaxDelivery = 2
    Worker = {w1}
    Client = {c1}
    NumArtifacts = 2
    Detection = 1
    Endpoints = {"create", "cancel"}
    Faults = {"crash"}
INVARIANTS RedeliveryIsIdempotent
