CONSTANTS
  Name = {"f", "g"}
  Capa = 4
  MaxDepth = 5
  MaxTop = 9
  Jumps = FALSE
SPECIFICATION StackSpec
INVARIANT NeverBlank
