CONSTANTS
  PAGE = 4
  MANT = 4
  Sizes = {4, 17}
  Skips = {0, 2}
  Offsets <- FewOffsets
  Pages <- FewPages
SPECIFICATION Spec
INVARIANTS TypeOK InsideMapping SkippedIsTold
PROPERTY HotIsLeft
