------------------------------- MODULE Totals -------------------------------
(***************************************************************************)
(* The sum of a sequence of numbers, and the numbers in order, as          *)
(* recursive functions that theorems can be proved about.                  *)
(***************************************************************************)
EXTENDS Integers, Sequences, SequencesExt

\* The sums of the first numbers of q, from none on.
SumsOf(q) ==
  LET upTo[n \in 0 .. Len(q)] == IF n = 0 THEN 0 ELSE upTo[n - 1] + q[n]
  IN  upTo

Sum(q) == SumsOf(q)[Len(q)]

\* Numbers in order, with x where it belongs.
Insert(s, x) ==
  LET k == CHOOSE k \in 0 .. Len(s) :
             /\ \A i \in 1 .. k : s[i] <= x
             /\ \A i \in k + 1 .. Len(s) : x <= s[i]
  IN  InsertAt(s, k + 1, x)

\* The first numbers of q in order, from none on.
SortsOf(q) ==
  LET upTo[n \in 0 .. Len(q)] == IF n = 0 THEN <<>> ELSE Insert(upTo[n - 1], q[n])
  IN  upTo

\* sort() from <algorithm>, of numbers
Sorted(q) == SortsOf(q)[Len(q)]
=============================================================================
