\* Two executors, two requests and an import on two runs of the local store; two requests on
\* two inputs in Azure; two requests that ask for readiness.
SPECIFICATION LocalSpec
CONSTANTS
    Run = {r1, r2}
    NoRun = NoRun
    NumArtifacts = 2
    Content = {e1, e2, 1, 2}
    Minimum = {1}
    MaxEdits = 1
    Executor = {e1, e2}
    NumOutputs = 1
    MaxClaims = 2
    Request = {c1, c2}
    Endpoints = {"create", "retry", "clone", "cancel"}
    Footage = {1, 2}
    Size <- FootageSize
    MaxBytes = 1
    MaxUploads = 2
    MaxOrphans = 1
    Asker = {t1, t2}
    NumPlanes = 2
    Trusted = {2}
    Ttl = 1
    Patience = 1
    LastMoment = 4
SYMMETRY ProcessSymmetry
INVARIANTS LocalTypeOK OutcomeMatchesFiles EnqueuedInputIsWhole ImportMatchesSource UndisturbedImportEnds AnswersAreRecent
    IngestionTypeOK EnqueuedInputIsRecorded VerifiedTags OneJobPerAttempt ScratchIsAccounted
\* The store rests when every run id is used and every attempt is over; the ids of the inputs are used up in the end.
CHECK_DEADLOCK FALSE
