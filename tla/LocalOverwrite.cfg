\* A request that cancels beside the executor of one run.
SPECIFICATION OverwriteSpec
CONSTANTS
    Run = {r1}
    NoRun = NoRun
    NumArtifacts = 1
    Content = {e1, 1}
    Minimum = {1}
    MaxEdits = 0
    Executor = {e1}
    NumOutputs = 1
    MaxClaims = 1
    Request = {c1}
    Endpoints = {"create", "cancel"}
INVARIANTS TerminalManifestsStay
\* The run ends.
CHECK_DEADLOCK FALSE
