CONSTANTS
  Ln1p <- MCLn1p
  Peers <- MCPeers
  Observed <- MCConcentrating
  Blank <- MCBlank
  Analysis <- MCAnalysis
  MaxShocks = 1
SPECIFICATION CountedSpec
PROPERTY ConcentrationNeverReducesFragility
