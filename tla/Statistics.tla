----------------------------- MODULE Statistics -----------------------------
(***************************************************************************)
(* Statistics (include/leonutils/Statistics.hpp, src/Statistics.cpp):      *)
(* figures of a sequence of samples, kept up sample by sample or computed  *)
(* from all of them.  A quotient is a pair of numbers, and a deviation is  *)
(* its square; the rounding of doubles is left out.                        *)
(***************************************************************************)
EXTENDS FiniteSetsExt, Totals

Lowest == -1000   \* of the numbers the models count with
Highest == 1000

Squares(q) == [i \in DOMAIN q |-> q[i] * q[i]]

\* IncStat_t: as new, and initialize() with an average and a deviation
NewStat == [max |-> Lowest, min |-> Highest, cnt |-> 0, sum |-> 0, sqr |-> 0]

\* A slip: the square of the deviation is multiplied by all of the samples.
initialize_All(cnt, avg, std) ==
  [NewStat EXCEPT !.cnt = cnt, !.sum = avg * cnt,
                  !.sqr = std * std * cnt - avg * avg * cnt + 2 * avg * cnt * avg]

initialize(cnt, avg, std) ==
  [NewStat EXCEPT !.cnt = cnt, !.sum = avg * cnt,
                  !.sqr = std * std * (cnt - 1) - avg * avg * cnt + 2 * avg * cnt * avg]

update(s, d) ==
  [max |-> Max({s.max, d}), min |-> Min({s.min, d}), cnt |-> s.cnt + 1,
   sum |-> s.sum + d, sqr |-> s.sqr + d * d]

\* avg(), times the count; and the square of std(), times cnt * (cnt - 1).
AvgOf(s) == IF s.cnt = 0 THEN 0 ELSE s.sum
VarOf(s) ==
  IF s.cnt <= 1 THEN 0
  ELSE s.cnt * s.sqr - 2 * s.sum * s.sum + s.sum * s.sum

\* A slip: for an even count only the lower of the two in the middle.
Median2_Lower(sorted) == 2 * sorted[(Len(sorted) - 1) \div 2 + 1]

\* Twice the median of sorted samples: of an even count, the mean of two.
Median2(sorted) ==
  LET last == Len(sorted) - 1
      med == last \div 2 + 1
  IN  IF last % 2 = 0 THEN 2 * sorted[med] ELSE sorted[med] + sorted[med + 1]

(* Statistic_t: with the double of the median, and the square of the deviation
   times cnt * cnt * (cnt - 1). *)
Statistic(samps) ==
  LET q == Sorted(samps)
      n == Len(q)
      sum == Sum(q)
  IN  IF n = 0 THEN [cnt |-> 0, sum |-> 0, max |-> 0, min |-> 0, med2 |-> 0, var |-> 0]
      ELSE [cnt |-> n, sum |-> sum, max |-> q[n], min |-> q[1], med2 |-> Median2(q),
            var |-> Sum(Squares([i \in 1 .. n |-> n * q[i] - sum]))]

\* average(), as a pair
average(samps) == IF samps = <<>> THEN <<0, 1>> ELSE <<Sum(samps), Len(samps)>>

(* pearson(): the covariance, and the product of the squared deviations under
   its root, of pairs of numbers, each scaled by the count; 0 by 0 is NaN. *)
pearson(pairs) ==
  LET n == Len(pairs)
      Dev(q) == [i \in 1 .. n |-> n * q[i] - Sum(q)]
      X == Dev([i \in 1 .. n |-> pairs[i].x])
      Y == Dev([i \in 1 .. n |-> pairs[i].y])
      var == Sum(Squares(X)) * Sum(Squares(Y))
  IN  IF n > 0 /\ var = 0 THEN [cov |-> 1, var |-> 1]
      ELSE [cov |-> Sum([i \in 1 .. n |-> X[i] * Y[i]]), var |-> var]

(* sort(): from where it takes each element of what it sorts by some keys; of
   equal keys, in any order. *)
SortOrder(keys) ==
  CHOOSE from \in [1 .. Len(keys) -> 1 .. Len(keys)] :
    /\ IsInjective(from)
    /\ \A i, j \in 1 .. Len(keys) : i < j => keys[from[i]] <= keys[from[j]]

\* A slip: ranks in y are given in the order of x.
Ranked_NotSorted(pairs) == [i \in 1 .. Len(pairs) |-> [x |-> i - 1, y |-> i - 1]]

\* The ranks spearman() puts in the place of x, and then of y.
Ranked(pairs) ==
  LET n == Len(pairs)
      byX == SortOrder([i \in 1 .. n |-> pairs[i].x])
      inX == [i \in 1 .. n |-> [pairs[byX[i]] EXCEPT !.x = i - 1]]
      byY == SortOrder([i \in 1 .. n |-> inX[i].y])
  IN  [i \in 1 .. n |-> [inX[byY[i]] EXCEPT !.y = i - 1]]

spearman(pairs) == pearson(Ranked(pairs))
=============================================================================
