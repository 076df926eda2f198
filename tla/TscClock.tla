------------------------------ MODULE TscClock ------------------------------
(***************************************************************************)
(* TscClock_t (include/leonutils/Rdtscp.hpp, src/Rdtscp.cpp): the calendar *)
(* clock is read off the processor's cycle counter, from two anchors that  *)
(* pair a value of one with a value of the other.  A pair is as good as    *)
(* the time that taking it took, and its owner calibrates again and again  *)
(* to find better ones.  Time passes freely between any two readings.      *)
(***************************************************************************)
EXTENDS Integers

CONSTANTS
  FREQ,       \* cycles in a unit of the calendar clock
  Tries,      \* ANCHOR_TRIES
  Sleep,      \* cycles that the first calibration sleeps, at least
  MaxLag,     \* bound on the cycles that one try takes
  MaxGap,     \* bound on the cycles from one try to the next
  MaxTsc      \* bound on the counter

\* What the module takes of its constants.
ClockParams ==
  /\ {FREQ, Tries, MaxLag, MaxGap} \subseteq Nat \ {0} /\ MaxTsc \in Nat
  /\ Sleep \in Nat /\ Sleep > MaxLag + FREQ

VARIABLES
  tsc,        \* the cycle counter when it was last read
  anc0, anc1, \* _anc0, _anc1
  ghz,        \* _ghz, as the two numbers whose quotient it is
  best,       \* result of GetAnchor()
  left,       \* tries GetAnchor() has left
  stage       \* where calibrate( for ) or calibrate() is

clock_vars == <<tsc, anc0, anc1, ghz, best, left, stage>>

INT64_MAX == MaxTsc + MaxLag + 1
Anchor == [tstamp : Nat, cycles : Nat, jitter : Nat]
NoAnchor == [tstamp |-> 0, cycles |-> INT64_MAX, jitter |-> INT64_MAX]

ClockInit ==
  /\ tsc = 0
  /\ anc0 = NoAnchor /\ anc1 = NoAnchor
  /\ ghz = [cycles |-> 0, nanoss |-> 0]
  /\ best = NoAnchor
  /\ left = 0
  /\ stage = "new"

\* A slip: the counter as it was before the calendar clock was read.
Taken_Early(beg, now, end) ==
  [tstamp |-> now \div FREQ, cycles |-> beg, jitter |-> end - beg]

\* The calendar clock is read somewhere between the two readings of the counter.
Taken(beg, now, end) ==
  [tstamp |-> now \div FREQ, cycles |-> (beg + end) \div 2, jitter |-> end - beg]

\* A turn of GetAnchor()'s loop.
Try ==
  /\ left > 0
  /\ \E beg \in tsc + 1 .. tsc + MaxGap, lag \in 1 .. MaxLag :
       /\ beg + lag <= MaxTsc
       /\ \E now \in beg .. beg + lag :
            best' = IF lag < best.jitter THEN Taken(beg, now, beg + lag) ELSE best
       /\ tsc' = beg + lag
  /\ left' = left - 1
  /\ UNCHANGED <<anc0, anc1, ghz, stage>>

Begin(tries, next) ==
  /\ best' = NoAnchor
  /\ left' = tries
  /\ stage' = next

_setup(a, b) ==
  LET first == IF a.cycles > b.cycles THEN b ELSE a
      last == IF a.cycles > b.cycles THEN a ELSE b
  IN  /\ anc0' = first /\ anc1' = last
      /\ ghz' = [cycles |-> last.cycles - first.cycles, nanoss |-> last.tstamp - first.tstamp]

(* calibrate( for ) takes an anchor, sleeps, and takes another. *)
Calibrate ==
  /\ stage \in {"new", "ready"}
  /\ Begin(Tries, "first")
  /\ UNCHANGED <<tsc, anc0, anc1, ghz>>

GotFirst ==
  /\ stage = "first" /\ left = 0
  /\ anc0' = best
  /\ tsc' = tsc + Sleep
  /\ Begin(Tries, "second")
  /\ UNCHANGED <<anc1, ghz>>

GotSecond ==
  /\ stage = "second" /\ left = 0
  /\ _setup(anc0, best)
  /\ stage' = "ready"
  /\ UNCHANGED <<tsc, best, left>>

(* calibrate() takes one anchor and looks if it is better than one of the two. *)
Maintain ==
  /\ stage = "ready"
  /\ Begin(1, "again")
  /\ UNCHANGED <<tsc, anc0, anc1, ghz>>

Gap(a, b) == IF a.cycles > b.cycles THEN a.cycles - b.cycles ELSE b.cycles - a.cycles

\* A slip: it replaces the older anchor although the two come closer.
Keep_Always ==
  CASE best.jitter <= anc1.jitter -> _setup(anc0, best)
    [] best.jitter \in anc1.jitter + 1 .. anc0.jitter -> _setup(best, anc1)
    [] OTHER -> UNCHANGED <<anc0, anc1, ghz>>

Keep ==
  CASE best.jitter <= anc1.jitter -> _setup(anc0, best)
    [] /\ best.jitter \in anc1.jitter + 1 .. anc0.jitter
       /\ Gap(anc1, best) > Gap(anc1, anc0) -> _setup(best, anc1)
    [] OTHER -> UNCHANGED <<anc0, anc1, ghz>>

GotAgain ==
  /\ stage = "again" /\ left = 0
  /\ Keep
  /\ stage' = "ready"
  /\ UNCHANGED <<tsc, best, left>>

ClockNext == Try \/ Calibrate \/ GotFirst \/ GotSecond \/ Maintain \/ GotAgain

ClockSpec == ClockInit /\ [][ClockNext]_clock_vars

-----------------------------------------------------------------------------
(* nowFree() and nowLFence() when the counter is c: the rounded quotient of
   what has passed since the first anchor by _ghz. *)
now(c) ==
  anc0.tstamp + (2 * (c - anc0.cycles) * ghz.nanoss + ghz.cycles) \div (2 * ghz.cycles)

Usable == stage \in {"ready", "again"}

(* The type invariant: a calibrated clock has two anchors, apart by both
   clocks, so that the frequency is a number and time does not stand still. *)
ClockTypeOK ==
  /\ tsc \in Nat /\ left \in 0 .. Tries
  /\ anc0 \in Anchor /\ anc1 \in Anchor /\ best \in Anchor
  /\ stage \in {"new", "first", "second", "ready", "again"}
  /\ Usable => ghz.cycles > 0 /\ ghz.nanoss > 0

Abs(n) == IF n < 0 THEN -n ELSE n

(* From the first anchor on the clock is off by no more than its anchors are,
   each weighed by the distance from the other, and the rounding.  An anchor is
   off by half of the time it took, and less than a unit. *)
Accurate ==
  Usable =>
    \A c \in anc0.cycles .. MaxTsc :
      LET span == anc1.cycles - anc0.cycles
      IN  2 * span * Abs(FREQ * now(c) - c) <=
            (anc0.jitter + 2 * FREQ - 1) * Abs(anc1.cycles - c)
              + (anc1.jitter + 2 * FREQ - 1) * (c - anc0.cycles)
              + span * FREQ

(* "Whichever it replaces, the span only grows": calibrating again brings the
   anchors no closer, and neither the better nor the worse of them gets worse. *)
KeepImproves ==
  [][stage = "again" /\ stage' = "ready" =>
       /\ anc1'.cycles - anc0'.cycles >= anc1.cycles - anc0.cycles
       /\ \/ anc0'.jitter <= anc0.jitter /\ anc1'.jitter <= anc1.jitter
          \/ anc0'.jitter <= anc1.jitter /\ anc1'.jitter <= anc0.jitter]_clock_vars
=============================================================================
