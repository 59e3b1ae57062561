\* Downloaded inputs lie in the temporary directory of the host; one worker process.
SPECIFICATION PipelineSpec
CONSTANTS
    Video = {v1, v2}
    NoVideo = NoVideo
    EmptyVideo = {}
    Analyst = {w1}
    Child = {k1, k2}
    Private = FALSE
    MaxAnalyses = 2
    MaxChanges = 0
    PipelineFaults = {"check"}
INVARIANTS PayloadsMatchInput
\* The bound on executions is used up.
CHECK_DEADLOCK FALSE
