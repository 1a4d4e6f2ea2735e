CONSTANTS
  Tracked = {"mispricing_signal"}
  Unit = 200
  Grades = 2
  Reliabilities = {0, 1, 2}
  Inputs = {1, 101}
  Bounds = {200}
  Stresses = {200}
  MaxShocks = 1
SPECIFICATION Spec
PROPERTIES JumpsLimited
