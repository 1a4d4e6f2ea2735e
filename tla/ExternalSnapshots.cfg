SPECIFICATION Spec
CONSTANTS
  n1 = n1
  p1 = p1
  p2 = p2
  Refreshers = {r1, r2}
  Netuids = {n1}
  Repos = {p1, p2}
  NoRepo = NoRepo
  Identity <- MCIdentity
  Known <- MCKnown
  MaxVersion = 1
  MaxRuns = 2
INVARIANTS TypeOK EvidenceOfNamedRepo ActiveMeansFetched
PROPERTIES EvidenceNeverOlder NoSilentLoss
SYMMETRY RefresherSymmetry
CHECK_DEADLOCK FALSE
