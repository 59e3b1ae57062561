------------------------------- MODULE Deployment -------------------------------
(* What the stores of every composition are asked about, and by whom.      *)

CONSTANTS
    Run, NoRun,   \* the run ids in use, and none
    Request       \* concurrent API requests

ASSUME RunAssumption == NoRun \notin Run

=============================================================================
