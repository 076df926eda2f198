CONSTANTS
  p1 = p1
  p2 = p2
  p3 = p3
  a = a
  b = b
  None = None
  Raw = Raw
  Producer = {p1, p2}
  Consumer = {p2, p3}
  Observer = {p1}
  Goods = {a}
  Capa = 2
  Throws = TRUE
  MaxTail = 4
SPECIFICATION LiveSpec
INVARIANTS TypeOK Lifetimes NothingLeaks SizeIsUpper
PROPERTIES RefinesFifo Delivered
CHECK_DEADLOCK FALSE
