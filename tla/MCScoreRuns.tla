----------------------------- MODULE MCScoreRuns -----------------------------
(* Model values and symmetry for the runs of ScoreRuns.                     *)
EXTENDS ScoreRuns, TLC

CONSTANTS r1, r2

RunnerSymmetry == Permutations(Runners)
=============================================================================
