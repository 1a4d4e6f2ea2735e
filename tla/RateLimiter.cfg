SPECIFICATION Spec
CONSTANTS
  Clients = {"a", "b"}
  Limit = 2
  Window = 3
  MaxTime = 6
INVARIANTS TypeOK WindowBound
PROPERTIES ImplementsSlidingWindow
CHECK_DEADLOCK FALSE
