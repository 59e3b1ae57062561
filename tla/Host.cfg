\* The components around an execution: pipeline, lock renewal, time, tracks.
SPECIFICATION FairSpec
CONSTANTS
    Video = {v1, v2}
    NoVideo = NoVideo
    EmptyVideo = {v2}
    Analyst = {w1, w2}
    Child = {k1, k2}
    Private = TRUE
    MaxAnalyses = 2
    MaxChanges = 1
    PipelineFaults = {"die", "check"}
    Letter = {m1}
    NoLetter = NoLetter
    Consumer = {w1, w2}
    LockDuration = 5
    RenewInterval = 2
    RenewLifetime = 6
    DeliveryLimit = 3
    Station = {h1, h2}
    Skew = 1
    LastTick = 3
    Weight <- StageWeight
    OptionalStage = {2}
    MaxClaims = 2
    Track = {1, 2, 3}
    Frame = {0, 1, 2, 3}
    NoiseFrames = 2
    MinFrames = 4
    TopTracks = 2
    BlockFrames = 3
    MaxGap = 2
    MinCoverage = 60
INVARIANTS TypeOK PayloadsMatchInput ChildrenStopped LockLossIsExplained ClockFaultsNeedSkew ReportedTracksSurvive
PROPERTIES ExecutionsEnd MessagesSettle ProgressNeverFalls
\* Each component comes to rest when its bounds are used up.
CHECK_DEADLOCK FALSE
