------------------------------ MODULE OneThread ------------------------------
(***************************************************************************)
(* The parts of the library that keep their state to one thread or one     *)
(* process and have nothing to do with each other, each checked by itself: *)
(* the first state chooses the part that moves, and the others stay as     *)
(* they begin.                                                             *)
(***************************************************************************)
EXTENDS RingQueue, CallStack, TscClock

CONSTANTS
  Parts,                                                     \* those to choose from
  Title, Width, Number, Zero, MaxRows, MaxCols, MaxWide,     \* TextSheet
  PAGE, Sizes,                                               \* HugePage
  Task, Main, Online, Lists,                                 \* CpuAffinity
  Pid, MaxWords, Flags, Options,                             \* ProcCtrl
  Ahead, MaxTravel, MaxRounds, NewLine                       \* TimeDiff

VARIABLES
  part,                                                      \* the one chosen
  sheet_name, row_specs, col_specs, sheet_head, sepa, foot,
  all_data, drawn,                                           \* TextSheet
  shm_p, bytes, mapped, wanted,                              \* HugePage
  mask, bound, all,                                          \* CpuAffinity
  proc, known, words,                                        \* ProcCtrl
  clock, warm, asked, served, difs, trans_lag, time_diff, new_line \* TimeDiff

Sheet == INSTANCE TextSheet WITH Name <- Title, head <- sheet_head
Huge == INSTANCE HugePage WITH asked <- wanted
Cpu == INSTANCE CpuAffinity
Proc == INSTANCE ProcCtrl
Diff == INSTANCE TimeDiff WITH MaxLag <- MaxTravel

ASSUME PartsAssumption == Parts # {}
ASSUME ParamsAssumption ==
  /\ RingParams /\ StackParams /\ ClockParams /\ Sheet!Params
  /\ Huge!Params /\ Cpu!Params /\ Proc!Params /\ Diff!Params

sheet_vars == <<sheet_name, row_specs, col_specs, sheet_head, sepa, foot, all_data, drawn>>
huge_vars == <<shm_p, bytes, mapped, wanted>>
cpu_vars == <<mask, bound, all>>
proc_vars == <<proc, known, words>>
diff_vars == <<clock, warm, asked, served, difs, trans_lag, time_diff, new_line>>

vars == <<part, ring_vars, stack_vars, clock_vars, sheet_vars, huge_vars, cpu_vars, proc_vars,
          diff_vars>>

\* A part that stays as it begins begins in one way.
Init ==
  /\ part \in Parts
  /\ RingInit /\ (part # "ring" => capa = CHOOSE c \in Capas : TRUE)
  /\ StackInit /\ ClockInit
  /\ Sheet!Init /\ (part # "sheet" => sheet_name = CHOOSE n \in Title : TRUE)
  /\ Huge!Init /\ Cpu!Init /\ Proc!Init /\ Diff!Init

\* Only the part p moves.
Only(p) ==
  /\ part = p /\ UNCHANGED part
  /\ IF p = "ring" THEN TRUE ELSE UNCHANGED ring_vars
  /\ IF p = "stack" THEN TRUE ELSE UNCHANGED stack_vars
  /\ IF p = "clock" THEN TRUE ELSE UNCHANGED clock_vars
  /\ IF p = "sheet" THEN TRUE ELSE UNCHANGED sheet_vars
  /\ IF p = "huge" THEN TRUE ELSE UNCHANGED huge_vars
  /\ IF p = "cpu" THEN TRUE ELSE UNCHANGED cpu_vars
  /\ IF p = "proc" THEN TRUE ELSE UNCHANGED proc_vars
  /\ IF p = "diff" THEN TRUE ELSE UNCHANGED diff_vars

Next ==
  \/ Only("ring") /\ RingNext
  \/ Only("stack") /\ StackNext
  \/ Only("clock") /\ ClockNext
  \/ Only("sheet") /\ Sheet!Next
  \/ Only("huge") /\ Huge!Next
  \/ Only("cpu") /\ Cpu!Next
  \/ Only("proc") /\ Proc!Next
  \/ Only("diff") /\ Diff!Next

Spec == Init /\ [][Next]_vars

-----------------------------------------------------------------------------
(* The properties are those of the parts, where they are explained.  Those of
   RingQueue, CallStack and TscClock have their names there. *)
TypeOK ==
  /\ RingTypeOK /\ StackTypeOK /\ ClockTypeOK /\ Sheet!TypeOK
  /\ Huge!TypeOK /\ Cpu!TypeOK /\ Proc!TypeOK /\ Diff!TypeOK

\* TextSheet: the lines of a table are all of the same width.
Aligned == Sheet!Aligned

(* HugePage, CpuAffinity and ProcCtrl: what the program believes of its mapping,
   of the processors it is bound to and of its children is what the kernel has,
   and the arguments of a program fit. *)
KernelAgrees ==
  /\ Huge!HeldIsMapped
  /\ Cpu!AllMeansAll /\ Cpu!EarlyBindsAll
  /\ Proc!KnownIsMine /\ Proc!WordsFit

(* TimeDiff: the estimate is off by the latency at most, and the figures shown
   on the way and at the end, which are computed in two ways, are the same. *)
SessionTells == Diff!OffByLatency /\ Diff!SameInTheEnd
=============================================================================
