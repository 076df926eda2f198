CONSTANTS
  ONE = 4
  EPS = 2
  WIDE = 16
  BYTE = 4
  Places = 2
  Sixty = 2
  Hours = 3
  Kilo = 10
  Bound = 4
SPECIFICATION Spec
INVARIANT NumbersAgree
INVARIANT SamplesAgree
INVARIANT TimesAgree
INVARIANT ReadBack
CHECK_DEADLOCK FALSE
