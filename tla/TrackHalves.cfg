\* A video whose middle does not fall between two blocks.
SPECIFICATION StatisticsSpec
CONSTANTS
    Track = {1, 2}
    Frame = {0, 1, 2, 3}
    NoiseFrames = 2
    MinFrames = 4
    TopTracks = 2
    BlockFrames = 3
    MaxGap = 2
    MinCoverage = 60
INVARIANTS SteadyTracksShowNoDrop
\* The scripts run once.
CHECK_DEADLOCK FALSE
