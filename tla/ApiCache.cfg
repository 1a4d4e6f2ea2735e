SPECIFICATION Spec
CONSTANTS
  Mixes = {{"list", "detail"}, {"signals", "latest_run"}, {"leaderboard", "history"},
           {"bootstrap"}, {"compare"}, {"distribution"}, {"market"}, {"backtests"}}
  HotTTL = 1
  PageTTL = 2
  StaleTTL = 3
  MaxEntries = 3
  MaxTime = 4
  MaxCommits = 2
INVARIANTS RowsFresh PartsFresh PageUnderItsKey OutageServed CacheBound
CHECK_DEADLOCK FALSE
