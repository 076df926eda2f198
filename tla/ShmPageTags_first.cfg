CONSTANTS
  PAGE = 4
  MANT = 4
  Sizes = {16}
  Skips = {0, 1}
  Offsets <- SomeOffsets
  Pages = {}
SPECIFICATION Spec
PROPERTY FirstIsLeft
