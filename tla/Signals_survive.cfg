CONSTANTS
  Main = Main
  w1 = w1
  w2 = w2
  Worker = {w1}
  MaxCrashes = 1
SPECIFICATION Spec
INVARIANTS TypeOK SavedIsRestored
PROPERTY ProtectedSurvives
CHECK_DEADLOCK FALSE
