---- MODULE MCShmAtomicRQ ----
EXTENDS ShmAtomicRQ_refusals, TLC
Symm == Permutations(Producer \cap Consumer) \cup Permutations(Goods)
====
