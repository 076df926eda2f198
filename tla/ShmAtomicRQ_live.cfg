CONSTANTS
  p1 = p1
  p2 = p2
  p3 = p3
  a = a
  b = b
  None = None
  Producer = {p1, p2}
  Consumer = {p2, p3}
  Observer = {}
  Goods = {a}
  Capa = 2
  WeakCas = FALSE
  MaxTail = 3
  MaxErrs = 0
  Mortal = {p1, p3}
SPECIFICATION LiveSpec
PROPERTIES Delivered CallsReturn
