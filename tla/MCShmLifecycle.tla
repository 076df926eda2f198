---- MODULE MCShmLifecycle ----
EXTENDS ShmLifecycle, TLC
SegSymm == Permutations(Seg)
====
