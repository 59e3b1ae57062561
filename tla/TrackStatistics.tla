---------------------------- MODULE TrackStatistics ----------------------------
(***************************************************************************)
(* What the V1 scripts make of the tracks of a video: v1_compat_tracking   *)
(* drops noise and reports whether anything is left, 02_stats joins the    *)
(* tracks of the two halves, drops short ones and aggregates distances in  *)
(* blocks, 03_fatigue compares the halves of the tracks that are left.     *)
(*                                                                         *)
(* A track is the set of its rows, a row being the track id the tracker    *)
(* gave and the frame; it moves at an even pace, one unit of distance for  *)
(* a frame.                                                                *)
(***************************************************************************)
EXTENDS Integers, FiniteSets, FiniteSetsExt

CONSTANTS
    Track,         \* the track ids
    Frame,         \* the frames of the video, from 0
    NoiseFrames,   \* frames a track needs to be recorded (10)
    MinFrames,     \* frames a track needs to be counted (50)
    TopTracks,     \* tracks of a half that are stitched (22)
    BlockFrames,   \* frames in a block (15 minutes)
    MaxGap,        \* frames between two rows that still make a step (3 seconds)
    MinCoverage    \* percent of the blocks a track needs to be scored (5)

ASSUME TrackAssumption == /\ Track # {} /\ IsFiniteSet(Track)
                          /\ IsFiniteSet(Frame) /\ \E n \in 0 .. Cardinality(Frame) : Frame = 0 .. n
                          /\ MinFrames \in Nat /\ NoiseFrames \in Nat
                          /\ BlockFrames \in Nat \ {0} /\ TopTracks \in Nat \ {0}
                          /\ MaxGap \in Nat /\ MinCoverage \in Nat

VARIABLES
    step,      \* the script to run next
    tracks,    \* raw_tracks: track -> its rows
    reported,  \* tracking_summary: whether a track survives the filters
    players,   \* 02_stats: track -> half -> its rows, after stitching
    summary,   \* player_summary: the tracks it holds
    score      \* risk_scores: track -> points for the drop of distance, and flag

statisticsVars == <<step, tracks, reported, players, summary, score>>

Half == {1, 2}
Row  == Track \X Frame

NoScore == [flag |-> "NONE", drop |-> 0]

StatisticsInit ==
    /\ step     = "track"
    /\ \E seen \in [Track -> SUBSET Frame] : tracks = [t \in Track |-> {t} \X seen[t]]
    /\ reported = FALSE
    /\ players  = [t \in Track |-> [h \in Half |-> {}]]
    /\ summary  = {}
    /\ score    = [t \in Track |-> NoScore]

StatisticsTypeOK ==
    /\ tracks \in [Track -> SUBSET Row]
    /\ reported \in BOOLEAN
    /\ players \in [Track -> [Half -> SUBSET Row]]
    /\ summary \subseteq Track
    /\ \A t \in Track : score[t] # NoScore => t \in summary

Seen(t) == Cardinality(tracks[t])

\* value_counts, the noise filter, and the summary of what it leaves.
TrackVideo ==
    /\ step = "track"
    /\ tracks' = [t \in Track |-> IF Seen(t) >= NoiseFrames THEN tracks[t] ELSE {}]
    /\ reported' = \E t \in Track : Seen(t) >= NoiseFrames /\ Seen(t) >= MinFrames
    /\ step' = IF reported' THEN "stitch" ELSE "over"
    /\ UNCHANGED <<players, summary, score>>

----------------------------------------------------------------------------
(* Halves and stitching.                                                     *)

LastFrame == Max({row[2] : row \in UNION {tracks[t] : t \in Track}})

HalfOf(f) == IF 2 * f >= LastFrame THEN 2 ELSE 1

SeenIn(t, h) == {row \in tracks[t] : HalfOf(row[2]) = h}

Active(h) == {t \in Track : SeenIn(t, h) # {}}

NumStitched == Min({TopTracks, Cardinality(Active(1)), Cardinality(Active(2))})

\* The rankings of a half by activity; ties are ordered as it happens.
Ranking(h) ==
    {rank \in [1 .. NumStitched -> Active(h)] :
        /\ \A i, j \in 1 .. NumStitched : i # j => rank[i] # rank[j]
        /\ \A i \in 1 .. NumStitched : \A t \in Active(h) :
              Cardinality(SeenIn(t, h)) > Cardinality(SeenIn(rank[i], h)) =>
                 \E j \in 1 .. i - 1 : rank[j] = t}

\* Seeded fault: the ranking of the second half is used backwards.
StitchedBackwards(first, second, t) ==
    UNION {SeenIn(u, 2) : u \in {v \in Track :
        IF \E i \in DOMAIN second : second[i] = v
        THEN \E i \in DOMAIN second : second[i] = v /\ first[NumStitched + 1 - i] = t
        ELSE v = t}}

\* The rows of the second half that go to track t: those of the track of the same
\* rank, and its own when it is not among the top.
Stitched(first, second, t) ==
    UNION {SeenIn(u, 2) : u \in {v \in Track :
        IF \E i \in DOMAIN second : second[i] = v
        THEN \E i \in DOMAIN second : second[i] = v /\ first[i] = t
        ELSE v = t}}

StitchHalves ==
    /\ step = "stitch"
    /\ \E first \in Ranking(1), second \in Ranking(2) :
          players' = [t \in Track |-> [h \in Half |->
                        IF h = 1 THEN SeenIn(t, 1) ELSE Stitched(first, second, t)]]
    /\ step' = "stats"
    /\ UNCHANGED <<tracks, reported, summary, score>>

----------------------------------------------------------------------------
(* Aggregation.                                                              *)

Frames(t) == {row[2] : row \in players[t][1] \cup players[t][2]}

Observations(t) == Cardinality(players[t][1]) + Cardinality(players[t][2])

\* Without a track of enough frames the script writes nothing and exits with 0.
AggregateTracks ==
    /\ step = "stats"
    /\ summary' = {t \in Track : Observations(t) >= MinFrames}
    /\ step' = IF summary' = {} THEN "over" ELSE "fatigue"
    /\ UNCHANGED <<tracks, reported, players, score>>

\* The distance a frame adds: from the frame before it, none across too long a gap.
Distance(t, f) ==
    LET before == {g \in Frames(t) : g < f}
    IN  IF before = {} \/ f - Max(before) > MaxGap THEN 0 ELSE f - Max(before)

DistanceOver(t, frames) == MapThenSumSet(LAMBDA f : Distance(t, f), frames)

BlockOf(f) == f \div BlockFrames

\* A block belongs to the half of its first frame of the track.
BlockHalf(t, b) == HalfOf(Min({f \in Frames(t) : BlockOf(f) = b}))

DistanceInHalf(t, h) == DistanceOver(t, {f \in Frames(t) : BlockHalf(t, BlockOf(f)) = h})

Blocks(t) == {BlockOf(f) : f \in Frames(t)}

NumBlocks == Max(UNION {Blocks(t) : t \in summary}) + 1

\* In both halves, and in enough of the blocks of the video.
IsScorable(t) ==
    /\ players[t][1] # {} /\ players[t][2] # {}
    /\ Cardinality(Blocks(t)) * 100 >= MinCoverage * NumBlocks

\* A drop of 60 percent, or more, gives 25 points.
DropScore(before, after) ==
    IF before = 0 \/ after >= before THEN 0
    ELSE Min({25, ((before - after) * 2500) \div (before * 60)})

\* Seeded fault: tracks too short for the summary are scored as well.
ScoreEveryTrack ==
    /\ step = "fatigue"
    /\ score' = [t \in Track |-> [flag |-> "INSUFFICIENT", drop |-> 0]]
    /\ step' = "over"
    /\ UNCHANGED <<tracks, reported, players, summary>>

ScoreTracks ==
    /\ step = "fatigue"
    /\ score' = [t \in Track |->
                   IF t \notin summary THEN NoScore
                   ELSE IF ~IsScorable(t) THEN [flag |-> "INSUFFICIENT", drop |-> 0]
                   ELSE [flag |-> "SCORED",
                         drop |-> DropScore(DistanceInHalf(t, 1), DistanceInHalf(t, 2))]]
    /\ step' = "over"
    /\ UNCHANGED <<tracks, reported, players, summary>>

StatisticsNext == TrackVideo \/ StitchHalves \/ AggregateTracks \/ ScoreTracks

StatisticsSpec == StatisticsInit /\ [][StatisticsNext]_statisticsVars

----------------------------------------------------------------------------
(* Properties.                                                               *)

\* When tracking reports that a track survives, 02_stats writes a summary: however
\* stitching mixes the tracks, one with enough frames is left.  Otherwise the pipeline
\* goes on to read the summary of an earlier execution, or none.
ReportedTracksSurvive ==
    step \in {"fatigue", "over"} /\ reported => summary # {}

\* "We therefore only assign a fatigue score to tracks that are present in both
\* halves", so that the comparison of the halves is meaningful: a track that moves as
\* far in the second half as in the first one gets no points for a drop.
SteadyTracksShowNoDrop ==
    \A t \in Track :
        LET moved == [h \in Half |-> DistanceOver(t, {f \in Frames(t) : HalfOf(f) = h})]
        IN  score[t].flag = "SCORED" /\ moved[2] >= moved[1] => score[t].drop = 0

=============================================================================
