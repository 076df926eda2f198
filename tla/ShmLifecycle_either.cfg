CONSTANTS
  p1 = p1
  p2 = p2
  p3 = p3
  s1 = s1
  s2 = s2
  s3 = s3
  s4 = s4
  s5 = s5
  NoSeg = NoSeg
  Proc = {p1, p2}
  Maker = {}
  Visitor = {}
  Either = {p1, p2}
  Seg = {s1, s2, s3}
  Wanted = {1}
  LEAST_ELEMNTS = 2
  MOST_ELEMENTS = 4
  MaxKills = 0
  Scarce = TRUE
  Forks = FALSE
SPECIFICATION Spec
SYMMETRY SegSymm
PROPERTY NeverReplaces
