CONSTANTS
  p1 = p1
  p2 = p2
  p3 = p3
  a = a
  b = b
  None = None
  Producer = {p1, p2}
  Consumer = {p1, p2}
  Observer = {p3}
  Goods = {a, b}
  Capa = 2
  WeakCas = FALSE
  MaxTail = 4
  MaxErrs = 1
SPECIFICATION HSpec
SYMMETRY Symm
INVARIANTS SlotExclusive DeliveredAsSent FullIsFull IInv
PROPERTIES RefinesFifo EnqRefusedWhenBusy DeqRefusedWhenBare
