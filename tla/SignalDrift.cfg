SPECIFICATION FairSpec
CONSTANTS
  Tracked = {"fundamental_quality", "mispricing_signal", "fragility_risk", "signal_confidence"}
  Unit = 200
  Grades = 2
  Reliabilities = {0, 1, 2}
  Inputs = {30, 101, 200}
  Bounds = {36, 164, 200}
  Stresses = {60, 200}
  MaxShocks = 2
INVARIANTS TypeOK
PROPERTIES DriftBounded Approaches Settles
