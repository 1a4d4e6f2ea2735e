SPECIFICATION Spec
CONSTANTS
  NoName = NoName
  Names <- MCNames
  Family <- MCFamily
  Length <- MCLength
  Vague = {"GroundLa"}
  Unnamed = {}
  Rejected = {"Gamma<br>"}
  n1 = n1
  n2 = n2
  Netuids = {n1, n2}
  Workers = {w1, w2}
  Chain <- MCChain
  Page <- MCPage
  Seed <- MCSeed
  Override <- MCOverride
INVARIANTS TypeOK NoSecondBatch
PROPERTIES NamesKept RunsEnd PageNamesReturn ChainOutranksSeed
