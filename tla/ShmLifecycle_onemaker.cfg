CONSTANTS
  p1 = p1
  p2 = p2
  p3 = p3
  s1 = s1
  s2 = s2
  s3 = s3
  s4 = s4
  NoSeg = NoSeg
  Proc = {p1, p2}
  Maker = {p1}
  Visitor = {p1, p2}
  Either = {p1}
  Seg = {s1, s2, s3}
  Wanted = {0, 3, 9}
  LEAST_ELEMNTS = 2
  MOST_ELEMENTS = 4
  MaxKills = 2
  Scarce = TRUE
  Forks = TRUE
SPECIFICATION Spec
SYMMETRY SegSymm
INVARIANTS TypeOK ReadyIsWhole ReadyIsLaid
PROPERTIES InUseIsKept NothingIsLeft
