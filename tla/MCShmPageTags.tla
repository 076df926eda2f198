---- MODULE MCShmPageTags ----
EXTENDS ShmPageTags
SomeOffsets == {-1, 0, 3, 4, 11, 16, 29}
FewOffsets == {-1, 7, 16}
FewPages == {-5, -1, 2, 9}
====
