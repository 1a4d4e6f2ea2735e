CONSTANTS
  Ln1p <- MCLn1p
  Peers <- MCPeers
  Observed <- MCObserved
  Blank <- MCBlank
  Analysis <- MCAnalysis
  MaxShocks = 2
SPECIFICATION CountedSpec
INVARIANTS DrainNeverEases HistoryOnlyDelays
PROPERTIES SignalsDrift GapSticks
