CONSTANTS
  Main = Main
  w1 = w1
  w2 = w2
  Worker = {}
  MaxCrashes = 1
SPECIFICATION Spec
INVARIANT AllIsRestored
CHECK_DEADLOCK FALSE
