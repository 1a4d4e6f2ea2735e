CONSTANTS
  r1 = r1
  r2 = r2
  Runners = {r1, r2}
  Subnets = {1, 2}
  Scores = {1, 2}
  MaxRuns = 2
  AllowDry = TRUE
  AllowOne = TRUE
SPECIFICATION Spec
SYMMETRY RunnerSymmetry
INVARIANTS TypeOK RanksAgree MetadataFollowsScores
