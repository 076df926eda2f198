------------------------------ MODULE CallStack ------------------------------
(***************************************************************************)
(* Tracer_t (include/leonutils/CallStack.hpp, src/CallStack.cpp): every    *)
(* traced function writes its name into a thread-local ring on entry and   *)
(* takes it out on exit, so that a crash handler can print the calls that  *)
(* were open.  The ring is shorter than a call stack may grow, and a       *)
(* siglongjmp() out of a crash (Signals) skips the exits.                  *)
(***************************************************************************)
EXTENDS Integers, Sequences, SequencesExt

CONSTANTS
  Name,       \* the functions that are traced
  Capa,       \* STACK_CAPA
  MaxDepth,   \* bound on open calls
  MaxTop,     \* bound on s_top
  Jumps       \* may a crash jump out of open calls?

\* What the module takes of its constants.
StackParams ==
  /\ Capa \in Nat \ {0, 1} /\ MaxDepth \in Nat /\ MaxTop \in Nat
  /\ Jumps \in BOOLEAN

VARIABLES
  ring,     \* tl_call_stack
  top,      \* s_top
  btm,      \* s_btm
  open,     \* history: the calls that are open, outermost first, by _name
  cut,      \* history: the calls open at a crash, until the stack is cleared
  whole     \* history: the stack was never cleared under open calls

stack_vars == <<ring, top, btm, open, cut, whole>>

\* What is in a place that no name was written into yet.
NoName == ""

StackInit ==
  /\ ring = [k \in 0 .. Capa - 1 |-> NoName]
  /\ top = 0
  /\ btm = 0
  /\ open = <<>>
  /\ cut = <<>>
  /\ whole = TRUE

\* The code that is jumped to calls ClearCallStack() before any traced function.
Running == cut = <<>>

Lesser(a, b) == IF a < b THEN a ELSE b
Greater(a, b) == IF a > b THEN a ELSE b

\* A slip: the bottom stays where it is when the ring is full.
Enter_BottomStays(f) ==
  /\ Running /\ Len(open) < MaxDepth /\ top < MaxTop
  /\ top' = top + 1
  /\ ring' = [ring EXCEPT ![(top + 1) % Capa] = f]
  /\ open' = Append(open, f)
  /\ UNCHANGED <<btm, cut, whole>>

\* Tracer_t( fn_ )
Enter(f) ==
  /\ Running /\ Len(open) < MaxDepth /\ top < MaxTop
  /\ top' = top + 1
  /\ ring' = [ring EXCEPT ![(top + 1) % Capa] = f]
  /\ btm' = Greater(btm, top + 1 - (Capa - 1))
  /\ open' = Append(open, f)
  /\ UNCHANGED <<cut, whole>>

(* ~Tracer_t(): nothing happens if the name on top is not the one it entered,
   because the ring was cleared, or overrun, or exits were skipped. *)
Exit ==
  /\ Running /\ open # <<>>
  /\ IF top <= 0 \/ ring[top % Capa] # Last(open)
     THEN UNCHANGED <<top, btm>>
     ELSE top' = top - 1 /\ btm' = Lesser(btm, top - 1)
  /\ open' = Front(open)
  /\ UNCHANGED <<ring, cut, whole>>

\* ClearCallStack()
Clear ==
  /\ top' = 0
  /\ btm' = 0
  /\ cut' = <<>>
  /\ whole' = (whole /\ open = <<>>)
  /\ UNCHANGED <<ring, open>>

\* longjmp() to a call n levels up: no destructor runs
Jump(n) ==
  /\ Jumps /\ Running /\ n \in 1 .. Len(open)
  /\ cut' = open
  /\ open' = SubSeq(open, 1, Len(open) - n)
  /\ UNCHANGED <<ring, top, btm, whole>>

StackNext ==
  \/ \E f \in Name : Enter(f)
  \/ Exit
  \/ Clear
  \/ \E n \in 1 .. MaxDepth : Jump(n)

StackSpec == StackInit /\ [][StackNext]_stack_vars

-----------------------------------------------------------------------------
\* What PrintCallStack() prints: a line for each index in (btm, top].
Shown == [i \in 1 .. top - btm |-> ring[(btm + i) % Capa]]

\* The type invariant: the part shown never laps the ring.
StackTypeOK ==
  /\ ring \in [0 .. Capa - 1 -> Name \cup {NoName}]
  /\ top \in 0 .. MaxTop
  /\ btm \in 0 .. top
  /\ top - btm < Capa
  /\ open \in Seq(Name) /\ Len(open) <= MaxDepth
  /\ cut \in Seq(Name)
  /\ whole \in BOOLEAN

(* What is printed is the innermost of the calls that are open (after a crash:
   that were open then), in order and without a gap or a stale name, however
   far calls have overrun the ring and returned again, and wherever inside
   them the stack was cleared; given that the code jumped to clears it. *)
ShownIsOpen == IsSuffix(Shown, IF cut = <<>> THEN open ELSE cut)

(* "A mechanism that can print the call stack when production meets a crash",
   which needs "only the latest N" of it: with calls open there is something
   to print, unless somebody cleared them. *)
NeverBlank == whole /\ open # <<>> => Shown # <<>>
=============================================================================
