\* Two executors and a request on one attempt; two requests that make attempts.
SPECIFICATION MCSpec
CONSTANTS
    RunId = {r1, r2, r3}
    NoRunId = NoRunId
    NumStages = 2
    Optional = {1}
    MaxDelivery = 2
    Worker = {w1, w2}
    Client = {c1, c2}
    NumArtifacts = 2
    Detection = 2
    Endpoints = {"create", "finalize", "cancel", "retry", "clone"}
    Faults = {"crash", "lock", "raise", "send", "store", "request"}
SYMMETRY ProcessSymmetry
INVARIANTS TypeOK SucceededIsComplete SingleProducer SettledIsTerminal JobHasInput RetryChain SubmissionsStrandNothing
PROPERTIES TerminalImmutable ImplementsLifecycle
\* The platform comes to rest when every attempt is over and every run id is used.
CHECK_DEADLOCK FALSE
