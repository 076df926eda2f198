----------------------------- MODULE Algorithms -----------------------------
(***************************************************************************)
(* Comparisons with a tolerance and a division that never traps            *)
(* (include/leonutils/Algorithms.hpp, src/Algorithms.cpp; arrays:          *)
(* include/leonutils/ArrayUtils.hpp).  A double is a sign and a magnitude  *)
(* in steps; zero keeps its sign.  Rounding is left out.                   *)
(***************************************************************************)
EXTENDS Integers, Sequences, FiniteSetsExt

CONSTANTS
  ONE,    \* steps in 1.0
  EPS,    \* steps in the tolerance of a number up to 1.0
  WIDE    \* 2 to the width of an integer

\* What the module takes of its constants.
Params == {ONE, WIDE} \subseteq Nat \ {0} /\ EPS \in 1 .. ONE

NaN == [kind |-> "nan", sign |-> 1, mag |-> 0]
Inf(s) == [kind |-> "inf", sign |-> s, mag |-> 0]
Fin(s, m) == [kind |-> "fin", sign |-> s, mag |-> m]

Abs(n) == IF n < 0 THEN -n ELSE n
Val(a) == a.sign * a.mag
IsNan(a) == a.kind = "nan"
IsZero(a) == a.kind = "fin" /\ a.mag = 0

\* a < b, and a < b + shift, of the processor
Below(a, b, shift) ==
  /\ ~IsNan(a) /\ ~IsNan(b)
  /\ \/ a.kind = "fin" /\ b.kind = "fin" /\ Val(a) < Val(b) + shift
     \/ a # b /\ (a = Inf(-1) \/ b = Inf(1))
Less(a, b) == Below(a, b, 0)

(* eq( v1, v2 ) of floats and of doubles: the same bits, two NaNs, or the same
   sign and less apart than the tolerance of the first. *)
eq(a, b) ==
  \/ a = b
  \/ IsNan(a) /\ IsNan(b)
  \/ /\ a.kind = "fin" /\ b.kind = "fin" /\ a.sign = b.sign
     /\ Abs(a.mag - b.mag) * ONE < Max({a.mag * EPS, EPS * ONE})

\* A slip: the signs must be the same, as without an epsilon.
eqE_Signs(a, b, e) ==
  \/ a = b
  \/ IsNan(a) /\ IsNan(b)
  \/ a.kind = "fin" /\ b.kind = "fin" /\ a.sign = b.sign /\ Abs(a.mag - b.mag) < e

\* eq( v1, v2, epsilon ), which looks at no sign
eqE(a, b, e) ==
  \/ a = b
  \/ IsNan(a) /\ IsNan(b)
  \/ a.kind = "fin" /\ b.kind = "fin" /\ Abs(Val(a) - Val(b)) < e

\* A slip: the numbers change places.
lt_Swapped(a, b) == Less(a, b) /\ ~eq(b, a)

lt(a, b) == Less(a, b) /\ ~eq(a, b)
gt(a, b) == Less(b, a) /\ ~eq(a, b)
le(a, b) == Less(a, b) \/ eq(a, b)
ge(a, b) == Less(b, a) \/ eq(a, b)

ltE(a, b, e) == Below(a, b, -e)
gtE(a, b, e) == Below(b, a, -e)

leE(a, b, e) == ~gtE(a, b, e)
geE(a, b, e) == ~ltE(a, b, e)

\* A slip: the sign of the integer is not looked at.
eqMixed_Cast(i, u) == i % WIDE = u

\* eq() of a signed and an unsigned integer of one width
eqMixed(i, u) == i >= 0 /\ i % WIDE = u

\* eq() of arrays with an epsilon
eqArrayE(p, q, e) == \A i \in DOMAIN p : eqE(p[i], q[i], e)

(* safe_div(): the answer is a double, or the two finite ones whose quotient it
   is.  1 is the sign of both zeros. *)
Coe(a) == IF Less(a, Fin(1, 0)) THEN -1 ELSE 1
NearZero(a) == eq(a, Fin(1, 0))
Quotient(a, b) == [kind |-> "div", sign |-> a.sign * b.sign, by |-> <<a.mag, b.mag>>]

\* A slip: the sign of the divisor is not looked at if one of the two is infinite.
safe_div_Inf(n, d) ==
  CASE IsNan(n) \/ IsNan(d) -> NaN
    [] n.kind = "inf" /\ d.kind = "inf" -> Fin(Coe(n), ONE)
    [] n.kind # "inf" /\ d.kind = "inf" -> Fin(1, 0)
    [] n.kind = "inf" /\ d.kind = "fin" -> n
    [] n.kind = "fin" /\ d.kind = "fin" -> Quotient(n, d)

safe_div(n, d) ==
  LET sign == Coe(n) * Coe(d)
      finite == n.kind = "fin" /\ d.kind = "fin"
  IN  CASE IsNan(n) \/ IsNan(d) -> NaN
        [] n.kind = "inf" /\ d.kind = "inf" -> Fin(sign, ONE)
        [] n.kind = "fin" /\ d.kind = "inf" -> Fin(1, 0)
        [] n.kind = "inf" /\ d.kind = "fin" -> Inf(sign)
        [] finite /\ NearZero(n) /\ NearZero(d) -> NaN
        [] finite /\ NearZero(n) /\ ~NearZero(d) -> Fin(1, 0)
        [] finite /\ ~NearZero(n) /\ NearZero(d) -> Inf(sign)
        [] finite /\ ~NearZero(n) /\ ~NearZero(d) -> Quotient(n, d)
=============================================================================
