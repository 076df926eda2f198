CONSTANTS
  Parts = {"ring", "stack", "clock", "sheet", "huge", "cpu", "proc", "diff"}
  Goods = {"a", "b"}
  Blank = "blank"
  Word = 16
  Wanted = {0, 3, 5}
  Most = 4
  Name = {"f", "g"}
  Capa = 4
  MaxDepth = 8
  MaxTop = 9
  Jumps = TRUE
  FREQ = 2
  Tries = 2
  Sleep = 9
  MaxLag = 6
  MaxGap = 2
  MaxTsc = 26
  Title = {1, 4}
  Width = {3, 4}
  Number = {6}
  Zero = 1
  MaxRows = 2
  MaxCols = 2
  MaxWide = 8
  PAGE = 3
  Sizes <- MCSizes
  Task = {"main", "thread", "child"}
  Main = "main"
  Online = {0, 1, 2}
  Lists <- MCLists
  Pid = {1, 2, 3}
  MaxWords = 6
  Flags = 4
  Options = 2
  Ahead = 7
  MaxTravel = 3
  MaxRounds = 3
  NewLine = 5
SPECIFICATION Spec
INVARIANT TypeOK
INVARIANTS Contents AnswersTell
INVARIANT ShownIsOpen
INVARIANT Accurate
INVARIANT Aligned
INVARIANT KernelAgrees
INVARIANT SessionTells
PROPERTY KeepImproves
CHECK_DEADLOCK FALSE
