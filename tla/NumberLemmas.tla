---------------------------- MODULE NumberLemmas ----------------------------
(***************************************************************************)
(* What the proofs need of numbers: the arithmetic of a ring of N nodes in *)
(* which index i lives in node i % N, so that two indices share a node     *)
(* exactly when they are whole laps apart; induction, for sets of numbers; *)
(* sums of sequences; the largest of a set; and suffixes.                  *)
(***************************************************************************)
EXTENDS Totals, FiniteSetsExt, FiniteSetTheorems, SequenceTheorems, WellFoundedInduction, TLAPS

-----------------------------------------------------------------------------
(* Remainders *)

(* The node of an index is one of the N. *)
LEMMA ModInRange ==
  ASSUME NEW N \in Nat \ {0}, NEW i \in Int
  PROVE  i % N \in 0 .. N - 1
OBVIOUS

(* An index that is itself the number of a node lives there. *)
LEMMA ModOfSmall ==
  ASSUME NEW N \in Nat \ {0}, NEW i \in 0 .. N - 1
  PROVE  i % N = i
OBVIOUS

(* An index is its lap times N plus its node. *)
LEMMA DivMod ==
  ASSUME NEW N \in Nat \ {0}, NEW i \in Int
  PROVE  i \div N \in Int /\ i = N * (i \div N) + (i % N)
OBVIOUS

(* A multiple of N strictly between -N and N is zero. *)
LEMMA SmallMultiple ==
  ASSUME NEW N \in Nat \ {0}, NEW a \in Int, -N < N * a, N * a < N
  PROVE  a = 0
<1>1. CASE a >= 1
  <2>1. N * a = N * (a - 1) + N
    BY <1>1
  <2>2. N * (a - 1) >= 0
    BY <1>1
  <2>3. QED
    BY <2>1, <2>2
<1>2. CASE a <= -1
  <2>1. N * a = -(N * (-1 - a)) - N
    BY <1>2
  <2>2. N * (-1 - a) >= 0
    BY <1>2
  <2>3. QED
    BY <2>1, <2>2
<1>3. QED
  BY <1>1, <1>2

(* Two indices of one node that are less than a lap apart are the same. *)
LEMMA SameNode ==
  ASSUME NEW N \in Nat \ {0}, NEW i \in Int, NEW j \in Int,
         i % N = j % N, -N < j - i, j - i < N
  PROVE  i = j
<1> DEFINE qi == i \div N
           qj == j \div N
           ri == i % N
           rj == j % N
<1>1. qi \in Int /\ i = N * qi + ri
  BY DivMod
<1>2. qj \in Int /\ j = N * qj + rj
  BY DivMod
<1>3. ri \in 0 .. N - 1 /\ ri = rj
  BY ModInRange
<1> HIDE DEF qi, qj, ri, rj
<1>4. N * (qj - qi) = N * qj - N * qi
  BY <1>1, <1>2
<1>5. N * qj \in Int /\ N * qi \in Int
  BY <1>1, <1>2
<1>6. N * (qj - qi) = j - i
  BY <1>1, <1>2, <1>3, <1>4, <1>5
<1>7. qj - qi = 0
  BY <1>1, <1>2, <1>6, SmallMultiple
<1>8. QED
  BY <1>6, <1>7

(* The indices a lap before and a lap after i share its node. *)
LEMMA NextLap ==
  ASSUME NEW N \in Nat \ {0}, NEW i \in Int
  PROVE  (i + N) % N = i % N
<1> DEFINE j == i + N
           qi == i \div N
           qj == j \div N
           ri == i % N
           rj == j % N
<1>1. qi \in Int /\ i = N * qi + ri
  BY DivMod
<1>2. qj \in Int /\ j = N * qj + rj
  BY DivMod
<1>3. ri \in 0 .. N - 1 /\ rj \in 0 .. N - 1
  BY ModInRange
<1>4. j = i + N
  OBVIOUS
<1> HIDE DEF qi, qj, ri, rj, j
<1>5. N * (qj - qi - 1) = N * qj - N * qi - N
  BY <1>1, <1>2
<1>6. N * qj \in Int /\ N * qi \in Int
  BY <1>1, <1>2
<1>7. N * (qj - qi - 1) = ri - rj
  BY <1>1, <1>2, <1>3, <1>4, <1>5, <1>6
<1>8. qj - qi - 1 = 0
  BY <1>1, <1>2, <1>3, <1>7, SmallMultiple
<1>9. ri = rj
  BY <1>3, <1>7, <1>8
<1>10. QED
  BY <1>9 DEF j, ri, rj

(* So do the indices any number of laps away. *)
LEMMA ModShift ==
  ASSUME NEW N \in Nat \ {0}, NEW i \in Int, NEW k \in Int
  PROVE  (i + N * k) % N = i % N
<1> DEFINE j == i + N * k
           qi == i \div N
           qj == j \div N
           ri == i % N
           rj == j % N
<1>1. N * k \in Int /\ j \in Int
  OBVIOUS
<1>2. qi \in Int /\ i = N * qi + ri
  BY DivMod
<1>3. qj \in Int /\ j = N * qj + rj
  BY <1>1, DivMod
<1>4. ri \in 0 .. N - 1 /\ rj \in 0 .. N - 1
  BY <1>1, ModInRange
<1>5. j = i + N * k
  OBVIOUS
<1> HIDE DEF qi, qj, ri, rj, j
<1>6. N * (qj - qi - k) = N * qj - N * qi - N * k
  BY <1>2, <1>3
<1>7. N * qj \in Int /\ N * qi \in Int
  BY <1>2, <1>3
<1>8. N * (qj - qi - k) = ri - rj
  BY <1>1, <1>2, <1>3, <1>4, <1>5, <1>6, <1>7
<1>9. qj - qi - k = 0
  BY <1>2, <1>3, <1>4, <1>8, SmallMultiple
<1>10. ri = rj
  BY <1>4, <1>8, <1>9
<1>11. QED
  BY <1>10 DEF j, ri, rj

(* Adding to an index that was wrapped around at W, a number of laps of N each,
   gives the node that adding to the index itself gives. *)
LEMMA WrapThenNode ==
  ASSUME NEW N \in Nat \ {0}, NEW W \in Nat \ {0}, W % N = 0, NEW i \in Int, NEW d \in Int
  PROVE  ((i % W) + d) % N = (i + d) % N
<1> DEFINE q == i \div W
           m == W \div N
           r == i % W
<1>1. q \in Int /\ i = W * q + r /\ r \in Int
  BY DivMod, ModInRange
<1>2. m \in Int /\ W = N * m
  BY DivMod
<1> HIDE DEF q, m, r
<1> DEFINE k == m * q
           s == r + d
<1>3. W * q = N * k /\ k \in Int
  BY <1>1, <1>2
<1>4. s \in Int /\ i + d = s + N * k
  BY <1>1, <1>3
<1> HIDE DEF k, s
<1>5. (s + N * k) % N = s % N
  BY <1>3, <1>4, ModShift
<1>6. QED
  BY <1>4, <1>5 DEF r, s

(* Wrapping around before and after is wrapping around after. *)
LEMMA WrapThenWrap ==
  ASSUME NEW W \in Nat \ {0}, NEW i \in Int, NEW d \in Int
  PROVE  ((i % W) + d) % W = (i + d) % W
<1>1. W % W = 0
  BY NextLap, ModOfSmall, 0 + W = W
<1>2. QED
  BY <1>1, WrapThenNode

-----------------------------------------------------------------------------
(* Induction, and sums *)

(* Induction: a set of numbers that has 0, and with each its successor. *)
LEMMA Induct ==
  ASSUME NEW T, 0 \in T, \A n \in Nat : n \in T => n + 1 \in T
  PROVE  Nat \subseteq T
<1> SUFFICES ASSUME NEW m \in Nat, m \notin T PROVE FALSE
  OBVIOUS
<1> DEFINE R == OpToRel(<, Nat)
           U == Nat \ T
<1>1. PICK x \in U : \A y \in U : ~ (<<y, x>> \in R)
  <2>1. IsWellFoundedOn(R, Nat)
    BY NatLessThanWellFounded
  <2>2. U # {} /\ U \subseteq Nat
    OBVIOUS
  <2> HIDE DEF R, U
  <2>3. QED
    BY <2>1, <2>2, WFMin
<1>2. x - 1 \in U
  <2>1. x \in Nat /\ x \notin T /\ x # 0
    OBVIOUS
  <2>2. x - 1 \in Nat /\ (x - 1) + 1 = x
    BY <2>1
  <2>3. QED
    BY <2>1, <2>2
<1>3. <<x - 1, x>> \in R
  BY <1>1, <1>2 DEF OpToRel
<1>4. QED
  BY <1>1, <1>2, <1>3

(* There are such sums, for as long a prefix as one likes. *)
LEMMA SumsExist ==
  ASSUME NEW q, NEW m \in Nat
  PROVE  \E f : f = [n \in 0 .. m |-> IF n = 0 THEN 0 ELSE f[n - 1] + q[n]]
<1> DEFINE Good(f, k) == f = [n \in 0 .. k |-> IF n = 0 THEN 0 ELSE f[n - 1] + q[n]]
           T == {k \in Nat : \E f : Good(f, k)}
<1>1. 0 \in T
  <2> DEFINE f == [n \in 0 .. 0 |-> 0]
  <2>1. Good(f, 0)
    OBVIOUS
  <2>2. QED
    BY <2>1
<1>2. ASSUME NEW k \in Nat, k \in T PROVE k + 1 \in T
  <2>1. PICK f : Good(f, k)
    BY <1>2
  <2> DEFINE g == [n \in 0 .. k + 1 |-> IF n = k + 1 THEN f[k] + q[k + 1] ELSE f[n]]
  <2>2. \A n \in 0 .. k : f[n] = IF n = 0 THEN 0 ELSE f[n - 1] + q[n]
    BY <2>1
  <2>3. \A n \in 0 .. k + 1 : g[n] = IF n = 0 THEN 0 ELSE g[n - 1] + q[n]
    BY <2>2
  <2>4. Good(g, k + 1)
    BY <2>3
  <2> HIDE DEF Good, g
  <2>5. QED
    BY <2>4
<1> HIDE DEF T
<1>3. Nat \subseteq T
  BY <1>1, <1>2, Induct
<1>4. QED
  BY <1>3 DEF T

LEMMA SumsStep ==
  ASSUME NEW q, Len(q) \in Nat
  PROVE  /\ SumsOf(q)[0] = 0
         /\ \A n \in 1 .. Len(q) : SumsOf(q)[n] = SumsOf(q)[n - 1] + q[n]
<1>1. SumsOf(q) = [n \in 0 .. Len(q) |-> IF n = 0 THEN 0 ELSE SumsOf(q)[n - 1] + q[n]]
  BY SumsExist DEF SumsOf
<1> DEFINE S == SumsOf(q)
<1>2. S = [n \in 0 .. Len(q) |-> IF n = 0 THEN 0 ELSE S[n - 1] + q[n]]
  BY <1>1
<1> HIDE DEF S
<1>3. /\ S[0] = 0
      /\ \A n \in 1 .. Len(q) : S[n] = S[n - 1] + q[n]
  BY <1>2
<1>4. QED
  BY <1>3 DEF S

(* The sums of numbers are numbers; of natural numbers, natural numbers. *)
LEMMA SumsType ==
  ASSUME NEW N, N = Int \/ N = Nat, NEW q, Len(q) \in Nat,
         \A i \in 1 .. Len(q) : q[i] \in N
  PROVE  \A n \in 0 .. Len(q) : SumsOf(q)[n] \in N
<1> DEFINE T == {n \in Nat : n <= Len(q) => SumsOf(q)[n] \in N}
<1>1. 0 \in T
  BY SumsStep
<1>2. ASSUME NEW n \in Nat, n \in T PROVE n + 1 \in T
  <2>1. SUFFICES ASSUME n + 1 <= Len(q) PROVE SumsOf(q)[n + 1] \in N
    OBVIOUS
  <2>2. n + 1 \in 1 .. Len(q) /\ (n + 1) - 1 = n
    BY <2>1
  <2>3. SumsOf(q)[n + 1] = SumsOf(q)[n] + q[n + 1]
    BY <2>2, SumsStep
  <2>4. SumsOf(q)[n] \in N /\ q[n + 1] \in N
    BY <1>2, <2>1, <2>2
  <2>5. QED
    BY <2>3, <2>4
<1> HIDE DEF T
<1>3. Nat \subseteq T
  BY <1>1, <1>2, Induct
<1>4. QED
  BY <1>3 DEF T

(* Sums depend on no more of a sequence than what they sum up. *)
LEMMA SamePrefix ==
  ASSUME NEW p, NEW q, Len(p) \in Nat, Len(q) \in Nat,
         NEW m \in Nat, m <= Len(p), m <= Len(q), \A i \in 1 .. m : p[i] = q[i]
  PROVE  SumsOf(p)[m] = SumsOf(q)[m]
<1> DEFINE T == {n \in Nat : n <= m => SumsOf(p)[n] = SumsOf(q)[n]}
<1>1. 0 \in T
  BY SumsStep
<1>2. ASSUME NEW n \in Nat, n \in T PROVE n + 1 \in T
  <2>1. SUFFICES ASSUME n + 1 <= m PROVE SumsOf(p)[n + 1] = SumsOf(q)[n + 1]
    OBVIOUS
  <2>2. /\ n + 1 \in 1 .. m /\ n + 1 \in 1 .. Len(p) /\ n + 1 \in 1 .. Len(q)
        /\ (n + 1) - 1 = n /\ n <= m
    BY <2>1
  <2>3. /\ SumsOf(p)[n + 1] = SumsOf(p)[n] + p[n + 1]
        /\ SumsOf(q)[n + 1] = SumsOf(q)[n] + q[n + 1]
    BY <2>2, SumsStep
  <2>4. QED
    BY <1>2, <2>2, <2>3
<1> HIDE DEF T
<1>3. Nat \subseteq T
  BY <1>1, <1>2, Induct
<1>4. QED
  BY <1>3 DEF T

LEMMA SumInt ==
  ASSUME NEW q \in Seq(Int)
  PROVE  Sum(q) \in Int
<1>1. Len(q) \in Nat /\ \A i \in 1 .. Len(q) : q[i] \in Int
  OBVIOUS
<1>2. QED
  BY <1>1, SumsType DEF Sum

LEMMA SumNat ==
  ASSUME NEW q \in Seq(Nat)
  PROVE  Sum(q) \in Nat
<1>1. Len(q) \in Nat /\ \A i \in 1 .. Len(q) : q[i] \in Nat
  OBVIOUS
<1>2. \A n \in 0 .. Len(q) : SumsOf(q)[n] \in Nat
  BY <1>1, SumsType, Zenon
<1>3. QED
  BY <1>1, <1>2 DEF Sum

LEMMA SumEmpty == Sum(<<>>) = 0
BY SumsStep DEF Sum

LEMMA SumAppend ==
  ASSUME NEW q \in Seq(Int), NEW x \in Int
  PROVE  Sum(Append(q, x)) = Sum(q) + x
<1> DEFINE p == Append(q, x)
<1>1. /\ Len(q) \in Nat /\ Len(p) = Len(q) + 1 /\ p[Len(q) + 1] = x
      /\ \A i \in 1 .. Len(q) : p[i] = q[i]
  OBVIOUS
<1> HIDE DEF p
<1>2. SumsOf(p)[Len(q)] = SumsOf(q)[Len(q)]
  BY <1>1, SamePrefix, SMTT(30)
<1>3. SumsOf(p)[Len(q) + 1] = SumsOf(p)[(Len(q) + 1) - 1] + p[Len(q) + 1]
  BY <1>1, SumsStep, SMTT(30)
<1>4. QED
  BY <1>1, <1>2, <1>3 DEF Sum, p

(* Numbers none of which is further from a than its bound and one: their sum is
   no further from that many times a than the bounds together and that many. *)
LEMMA SumWithin ==
  ASSUME NEW x \in Seq(Int), NEW l \in Seq(Int), Len(x) = Len(l), NEW a \in Int,
         \A i \in 1 .. Len(x) : x[i] - a <= l[i] + 1 /\ a - x[i] <= l[i] + 1
  PROVE  /\ Sum(x) - Len(x) * a <= Sum(l) + Len(x)
         /\ Len(x) * a - Sum(x) <= Sum(l) + Len(x)
<1> DEFINE Near(n) == /\ SumsOf(x)[n] - n * a <= SumsOf(l)[n] + n
                      /\ n * a - SumsOf(x)[n] <= SumsOf(l)[n] + n
           T == {n \in Nat : n <= Len(x) => Near(n)}
<1>1. Len(x) \in Nat /\ \A i \in 1 .. Len(x) : x[i] \in Int /\ l[i] \in Int
  OBVIOUS
<1>2. 0 \in T
  <2>1. SumsOf(x)[0] = 0 /\ SumsOf(l)[0] = 0
    BY <1>1, SumsStep
  <2>2. 0 * a = 0
    OBVIOUS
  <2>3. QED
    BY <2>1, <2>2
<1>3. ASSUME NEW n \in Nat, n \in T PROVE n + 1 \in T
  <2>1. SUFFICES ASSUME n + 1 <= Len(x) PROVE Near(n + 1)
    OBVIOUS
  <2>2. n + 1 \in 1 .. Len(x) /\ (n + 1) - 1 = n /\ n \in 0 .. Len(x) /\ Near(n)
    BY <2>1, <1>3
  <2>3. /\ SumsOf(x)[n + 1] = SumsOf(x)[n] + x[n + 1]
        /\ SumsOf(l)[n + 1] = SumsOf(l)[n] + l[n + 1]
    BY <1>1, <2>2, SumsStep
  <2>4. SumsOf(x)[n] \in Int /\ SumsOf(l)[n] \in Int
    BY <1>1, <2>2, SumsType
  <2>5. (n + 1) * a = n * a + a /\ n * a \in Int
    OBVIOUS
  <2>6. /\ x[n + 1] - a <= l[n + 1] + 1 /\ a - x[n + 1] <= l[n + 1] + 1
        /\ x[n + 1] \in Int /\ l[n + 1] \in Int
    BY <1>1, <2>2
  <2> DEFINE na == n * a
             s == SumsOf(x)[n]
             t == SumsOf(l)[n]
             u == x[n + 1]
             v == l[n + 1]
  <2>7. /\ na \in Int /\ s \in Int /\ t \in Int /\ u \in Int /\ v \in Int
        /\ s - na <= t + n /\ na - s <= t + n /\ u - a <= v + 1 /\ a - u <= v + 1
    BY <2>2, <2>4, <2>5, <2>6
  <2>8. Near(n + 1) <=> /\ (s + u) - (na + a) <= t + v + (n + 1)
                        /\ (na + a) - (s + u) <= t + v + (n + 1)
    BY <2>3, <2>5
  <2> HIDE DEF na, s, t, u, v, Near
  <2>9. QED
    BY <2>7, <2>8
<1> HIDE DEF T
<1>4. Nat \subseteq T
  BY <1>2, <1>3, Induct
<1>5. QED
  BY <1>1, <1>4 DEF T, Sum

(* A number between the first k of s and the others adds to the sum. *)
LEMMA SumInserted ==
  ASSUME NEW s \in Seq(Int), NEW p \in Seq(Int), NEW x \in Int, NEW k \in 0 .. Len(s),
         Len(p) = Len(s) + 1, p[k + 1] = x,
         \A i \in 1 .. k : p[i] = s[i],
         \A i \in k + 1 .. Len(s) : p[i + 1] = s[i]
  PROVE  Sum(p) = Sum(s) + x
<1> DEFINE Moved(n) == SumsOf(p)[n + 1] = SumsOf(s)[n] + x
           T == {n \in Nat : n >= k /\ n <= Len(s) => Moved(n)}
<1>1. /\ Len(s) \in Nat /\ Len(p) \in Nat
      /\ \A i \in 1 .. Len(s) : s[i] \in Int
  OBVIOUS
<1>2. Moved(k)
  <2>1. SumsOf(p)[k] = SumsOf(s)[k]
    BY <1>1, SamePrefix, SMTT(30)
  <2>2. k + 1 \in 1 .. Len(p) /\ (k + 1) - 1 = k
    BY <1>1
  <2>3. SumsOf(p)[k + 1] = SumsOf(p)[k] + x
    BY <1>1, <2>2, SumsStep, ZenonT(60)
  <2>4. QED
    BY <2>1, <2>3
<1>3. 0 \in T
  BY <1>2
<1>4. ASSUME NEW n \in Nat, n \in T PROVE n + 1 \in T
  <2>1. SUFFICES ASSUME n + 1 >= k, n + 1 <= Len(s) PROVE Moved(n + 1)
    OBVIOUS
  <2>2. CASE n + 1 = k
    BY <1>2, <2>2
  <2>3. CASE n >= k
    <3>1. /\ n + 1 \in k + 1 .. Len(s) /\ n + 1 \in 1 .. Len(s) /\ n \in 0 .. Len(s)
          /\ (n + 1) + 1 \in 1 .. Len(p)
          /\ (n + 1) - 1 = n /\ ((n + 1) + 1) - 1 = n + 1
      BY <1>1, <2>1, <2>3, SMTT(30)
    <3>2. /\ SumsOf(s)[n + 1] = SumsOf(s)[n] + s[n + 1]
          /\ SumsOf(p)[(n + 1) + 1] = SumsOf(p)[n + 1] + p[(n + 1) + 1]
      BY <1>1, <3>1, SumsStep, ZenonT(60)
    <3>3. p[(n + 1) + 1] = s[n + 1] /\ s[n + 1] \in Int
      BY <1>1, <3>1
    <3>4. SumsOf(s)[n] \in Int
      BY <1>1, <3>1, SumsType
    <3>5. Moved(n)
      BY <1>4, <2>1, <2>3
    <3>6. QED
      BY <3>2, <3>3, <3>4, <3>5, SMTT(30)
  <2>4. QED
    BY <2>1, <2>2, <2>3
<1> HIDE DEF T
<1>5. Nat \subseteq T
  BY <1>3, <1>4, Induct
<1>6. QED
  BY <1>1, <1>5 DEF T, Sum

(* A finite set of numbers that has one has a largest. *)
LEMMA MaxExists ==
  ASSUME NEW S \in SUBSET Int, IsFiniteSet(S), S # {}
  PROVE  Max(S) \in S /\ \A y \in S : Max(S) >= y
<1> DEFINE Topped(k) == \A U \in SUBSET S : Cardinality(U) = k /\ U # {} =>
                          \E x \in U : \A y \in U : x >= y
           T == {k \in Nat : Topped(k)}
<1>1. 0 \in T
  BY FS_EmptySet, FS_Subset
<1>2. ASSUME NEW k \in Nat, k \in T PROVE k + 1 \in T
  <2>1. SUFFICES ASSUME NEW U \in SUBSET S, Cardinality(U) = k + 1, U # {}
                 PROVE  \E x \in U : \A y \in U : x >= y
    OBVIOUS
  <2>2. PICK u \in U : TRUE
    BY <2>1
  <2>3. CASE U = {u}
    BY <2>3
  <2>4. CASE U # {u}
    <3> DEFINE V == U \ {u}
    <3>1. V \in SUBSET S /\ V # {} /\ U = V \cup {u}
      BY <2>1, <2>2, <2>4
    <3>2. IsFiniteSet(U)
      BY FS_Subset
    <3>3. Cardinality(V) = k
      <4>1. Cardinality(V) = Cardinality(U) - 1
        BY <3>2, <2>2, FS_RemoveElement
      <4>2. QED
        BY <4>1, <2>1
    <3>4. PICK x \in V : \A y \in V : x >= y
      BY <3>1, <3>3, <1>2
    <3>5. x \in Int /\ u \in Int /\ V \subseteq Int
      BY <3>1
    <3>6. CASE x >= u
      BY <3>1, <3>4, <3>5, <3>6
    <3>7. CASE u >= x
      BY <3>1, <3>4, <3>5, <3>7
    <3>8. QED
      BY <3>5, <3>6, <3>7
  <2>5. QED
    BY <2>3, <2>4
<1> HIDE DEF T
<1>3. Nat \subseteq T
  BY <1>1, <1>2, Induct
<1>4. Cardinality(S) \in Nat
  BY FS_CardinalityType
<1>5. \E x \in S : \A y \in S : x >= y
  BY <1>3, <1>4 DEF T
<1>6. QED
  BY <1>5 DEF Max

LEMMA MaxOfTwo ==
  ASSUME NEW x \in Int, NEW y \in Int
  PROVE  Max({x, y}) = IF x >= y THEN x ELSE y
BY DEF Max

LEMMA MinOfTwo ==
  ASSUME NEW x \in Int, NEW y \in Int
  PROVE  Min({x, y}) = IF x <= y THEN x ELSE y
BY DEF Min

-----------------------------------------------------------------------------
(* Numbers in order *)

Ascending(s) == \A i, j \in 1 .. Len(s) : i <= j => s[i] <= s[j]

(* p is s with x behind the first k. *)
HasBehind(p, s, x, k) ==
  /\ Len(p) = Len(s) + 1 /\ p[k + 1] = x
  /\ \A i \in 1 .. k : p[i] = s[i]
  /\ \A i \in k + 1 .. Len(s) : p[i + 1] = s[i]

LEMMA Joined ==
  ASSUME NEW a \in Seq(Int), NEW b \in Seq(Int), NEW x \in Int
  PROVE  /\ (a \o <<x>>) \o b \in Seq(Int)
         /\ Len((a \o <<x>>) \o b) = Len(a) + 1 + Len(b)
         /\ \A i \in 1 .. Len(a) : ((a \o <<x>>) \o b)[i] = a[i]
         /\ ((a \o <<x>>) \o b)[Len(a) + 1] = x
         /\ \A i \in 1 .. Len(b) : ((a \o <<x>>) \o b)[Len(a) + 1 + i] = b[i]
<1> DEFINE c == a \o <<x>>
<1>1. /\ c \in Seq(Int) /\ Len(c) = Len(a) + 1 /\ Len(a) \in Nat /\ Len(b) \in Nat
      /\ \A i \in 1 .. Len(a) : c[i] = a[i]
      /\ c[Len(a) + 1] = x
  OBVIOUS
<1> HIDE DEF c
<1>2. /\ c \o b \in Seq(Int) /\ Len(c \o b) = Len(c) + Len(b)
      /\ \A i \in 1 .. Len(c) + Len(b) : (c \o b)[i] = IF i <= Len(c) THEN c[i] ELSE b[i - Len(c)]
  BY <1>1, ConcatProperties, Zenon
<1>3. \A i \in 1 .. Len(b) : (c \o b)[Len(a) + 1 + i] = b[i]
  <2> SUFFICES ASSUME NEW i \in 1 .. Len(b) PROVE (c \o b)[Len(a) + 1 + i] = b[i]
    OBVIOUS
  <2>1. /\ Len(a) + 1 + i \in 1 .. Len(c) + Len(b) /\ ~ (Len(a) + 1 + i <= Len(c))
        /\ (Len(a) + 1 + i) - Len(c) = i
    BY <1>1
  <2>2. QED
    BY <1>2, <2>1
<1>4. \A i \in 1 .. Len(a) + 1 : (c \o b)[i] = c[i]
  BY <1>1, <1>2
<1>5. QED
  BY <1>1, <1>2, <1>3, <1>4 DEF c

LEMMA InsertedAt ==
  ASSUME NEW s \in Seq(Int), NEW x \in Int, NEW k \in 0 .. Len(s)
  PROVE  InsertAt(s, k + 1, x) \in Seq(Int) /\ HasBehind(InsertAt(s, k + 1, x), s, x, k)
<1> DEFINE a == SubSeq(s, 1, k)
           b == SubSeq(s, k + 1, Len(s))
           p == (a \o <<x>>) \o b
<1>1. /\ a \in Seq(Int) /\ Len(a) = k
      /\ \A i \in 1 .. k : a[i] = s[i]
      /\ b \in Seq(Int) /\ Len(b) = Len(s) - k
      /\ \A i \in 1 .. Len(b) : b[i] = s[k + i]
      /\ Len(s) \in Nat /\ (k + 1) - 1 = k
  <2>1. /\ Len(s) \in Nat /\ Len(s) \in Int /\ k \in Int /\ k + 1 \in Int /\ (k + 1) - 1 = k
        /\ \A i \in 1 .. k : s[i] \in Int
        /\ \A i \in k + 1 .. Len(s) : s[i] \in Int
    OBVIOUS
  <2>2. a \in Seq(Int) /\ Len(a) = k /\ \A i \in 1 .. k : a[i] = s[i]
    OBVIOUS
  <2>3. /\ b \in Seq(Int) /\ Len(b) = IF k + 1 <= Len(s) THEN Len(s) - (k + 1) + 1 ELSE 0
        /\ \A i \in 1 .. Len(s) - (k + 1) + 1 : b[i] = s[(k + 1) + i - 1]
    BY <2>1, SubSeqProperties
  <2> HIDE DEF b
  <2>4. Len(b) = Len(s) - k /\ Len(s) - (k + 1) + 1 = Len(s) - k
    BY <2>1, <2>3
  <2>5. ASSUME NEW i \in 1 .. Len(b) PROVE b[i] = s[k + i]
    <3>1. (k + 1) + i - 1 = k + i /\ i \in 1 .. Len(s) - (k + 1) + 1
      BY <2>1, <2>4
    <3>2. QED
      BY <2>3, <3>1
  <2>6. QED
    BY <2>1, <2>2, <2>3, <2>4, <2>5
<1>2. InsertAt(s, k + 1, x) = p
  BY <1>1 DEF InsertAt
<1> HIDE DEF a, b
<1>3. /\ p \in Seq(Int) /\ Len(p) = k + 1 + Len(b)
      /\ \A i \in 1 .. k : p[i] = a[i]
      /\ p[k + 1] = x
      /\ \A i \in 1 .. Len(b) : p[k + 1 + i] = b[i]
  <2>1. a \in Seq(Int) /\ b \in Seq(Int) /\ Len(a) = k
    BY <1>1
  <2>2. QED
    BY <2>1, Joined, ZenonT(60)
<1> HIDE DEF p
<1>4. ASSUME NEW i \in k + 1 .. Len(s) PROVE p[i + 1] = s[i]
  <2>1. i - k \in 1 .. Len(b) /\ k + 1 + (i - k) = i + 1 /\ k + (i - k) = i
    BY <1>1
  <2>2. p[k + 1 + (i - k)] = b[i - k] /\ b[i - k] = s[k + (i - k)]
    BY <1>1, <1>3, <2>1
  <2>3. QED
    BY <2>1, <2>2
<1>5. Len(p) = Len(s) + 1 /\ \A i \in 1 .. k : p[i] = s[i]
  <2>1. Len(p) = Len(s) + 1
    <3>1. Len(p) = k + 1 + (Len(s) - k)
      BY <1>1, <1>3, Zenon
    <3>2. QED
      BY <1>1, <3>1
  <2>2. QED
    BY <1>1, <1>3, <2>1, Zenon
<1>6. HasBehind(p, s, x, k)
  BY <1>3, <1>4, <1>5 DEF HasBehind
<1>7. QED
  BY <1>2, <1>3, <1>6

(* Sorted numbers have a place for every other, and stay sorted with it. *)
LEMMA Inserted ==
  ASSUME NEW s \in Seq(Int), Ascending(s), NEW x \in Int
  PROVE  /\ Insert(s, x) \in Seq(Int) /\ Ascending(Insert(s, x))
         /\ \E k \in 0 .. Len(s) : HasBehind(Insert(s, x), s, x, k)
<1> DEFINE Place(k) == /\ \A i \in 1 .. k : s[i] <= x
                       /\ \A i \in k + 1 .. Len(s) : x <= s[i]
           S == {k \in 0 .. Len(s) : \A i \in 1 .. k : s[i] <= x}
<1>1. Len(s) \in Nat /\ \A i \in 1 .. Len(s) : s[i] \in Int
  OBVIOUS
<1>2. \E k \in 0 .. Len(s) : Place(k)
  <2>1. IsFiniteSet(S)
    <3>1. IsFiniteSet(0 .. Len(s)) /\ S \subseteq 0 .. Len(s)
      BY <1>1, FS_Interval
    <3>2. QED
      BY <3>1, FS_Subset
  <2>2. S \in SUBSET Int /\ S # {}
    <3>1. 0 \in S
      BY <1>1
    <3>2. QED
      BY <3>1
  <2>3. PICK k \in S : \A j \in S : k >= j
    <3> HIDE DEF S
    <3>1. QED
      BY <2>1, <2>2, MaxExists
  <2>4. ASSUME NEW i \in k + 1 .. Len(s) PROVE x <= s[i]
    <3>1. SUFFICES ASSUME s[i] < x PROVE FALSE
      BY <1>1
    <3>2. i \in S
      BY <1>1, <3>1 DEF Ascending
    <3>3. QED
      BY <2>3, <3>2
  <2>5. Place(k)
    BY <2>4
  <2>6. QED
    BY <2>5
<1>3. PICK k \in 0 .. Len(s) : Place(k) /\ Insert(s, x) = InsertAt(s, k + 1, x)
  BY <1>2 DEF Insert
<1> DEFINE p == Insert(s, x)
<1>4. p \in Seq(Int) /\ HasBehind(p, s, x, k)
  BY <1>3, InsertedAt
<1>5. Ascending(p)
  <2> SUFFICES ASSUME NEW i \in 1 .. Len(p), NEW j \in 1 .. Len(p), i <= j
               PROVE  p[i] <= p[j]
    BY DEF Ascending
  <2> HIDE DEF p
  <2>1. /\ Len(p) = Len(s) + 1 /\ p[k + 1] = x
        /\ \A n \in 1 .. k : p[n] = s[n]
        /\ \A n \in k + 1 .. Len(s) : p[n + 1] = s[n]
    BY <1>4 DEF HasBehind
  <2>2. \A n \in k + 2 .. Len(s) + 1 : n - 1 \in k + 1 .. Len(s) /\ p[n] = s[n - 1]
    <3> SUFFICES ASSUME NEW n \in k + 2 .. Len(s) + 1
                 PROVE  n - 1 \in k + 1 .. Len(s) /\ p[n] = s[n - 1]
      OBVIOUS
    <3>1. n - 1 \in k + 1 .. Len(s) /\ (n - 1) + 1 = n
      BY <1>1
    <3>2. QED
      BY <2>1, <3>1
  <2>3. \A m, n \in 1 .. Len(s) : m <= n => s[m] <= s[n]
    BY DEF Ascending
  <2>4. CASE i <= k /\ j <= k
    BY <1>1, <2>1, <2>3, <2>4, SMTT(30)
  <2>5. CASE i <= k /\ j = k + 1
    BY <1>1, <1>3, <2>1, <2>5, SMTT(30)
  <2>6. CASE i <= k /\ j > k + 1
    <3>1. p[i] = s[i] /\ p[j] = s[j - 1] /\ i \in 1 .. Len(s) /\ j - 1 \in 1 .. Len(s) /\ i <= j - 1
      BY <1>1, <2>1, <2>2, <2>6, SMTT(30)
    <3>2. QED
      BY <2>3, <3>1
  <2>7. CASE i = k + 1 /\ j = k + 1
    BY <2>1, <2>7
  <2>8. CASE i = k + 1 /\ j > k + 1
    <3>1. p[i] = x /\ p[j] = s[j - 1] /\ j - 1 \in k + 1 .. Len(s)
      BY <1>1, <2>1, <2>2, <2>8
    <3>2. QED
      BY <1>3, <3>1
  <2>9. CASE i > k + 1
    <3>1. /\ p[i] = s[i - 1] /\ p[j] = s[j - 1]
          /\ i - 1 \in 1 .. Len(s) /\ j - 1 \in 1 .. Len(s) /\ i - 1 <= j - 1
      BY <1>1, <2>1, <2>2, <2>9, SMTT(30)
    <3>2. QED
      BY <2>3, <3>1
  <2>10. QED
    BY <1>1, <2>1, <2>4, <2>5, <2>6, <2>7, <2>8, <2>9
<1>6. QED
  BY <1>4, <1>5

(* The first numbers of a sequence in order, for as long as one likes. *)
LEMMA SortsExist ==
  ASSUME NEW q, NEW m \in Nat
  PROVE  \E f : f = [n \in 0 .. m |-> IF n = 0 THEN <<>> ELSE Insert(f[n - 1], q[n])]
<1> DEFINE Good(f, k) == f = [n \in 0 .. k |-> IF n = 0 THEN <<>> ELSE Insert(f[n - 1], q[n])]
           T == {k \in Nat : \E f : Good(f, k)}
<1>1. 0 \in T
  <2> DEFINE f == [n \in 0 .. 0 |-> <<>>]
  <2>1. Good(f, 0)
    OBVIOUS
  <2>2. QED
    BY <2>1
<1>2. ASSUME NEW k \in Nat, k \in T PROVE k + 1 \in T
  <2>1. PICK f : Good(f, k)
    BY <1>2
  <2> DEFINE g == [n \in 0 .. k + 1 |-> IF n = k + 1 THEN Insert(f[k], q[k + 1]) ELSE f[n]]
  <2>2. \A n \in 0 .. k : f[n] = IF n = 0 THEN <<>> ELSE Insert(f[n - 1], q[n])
    BY <2>1
  <2>3. \A n \in 0 .. k + 1 : g[n] = IF n = 0 THEN <<>> ELSE Insert(g[n - 1], q[n])
    BY <2>2
  <2>4. Good(g, k + 1)
    BY <2>3
  <2> HIDE DEF Good, g
  <2>5. QED
    BY <2>4
<1> HIDE DEF T
<1>3. Nat \subseteq T
  BY <1>1, <1>2, Induct
<1>4. QED
  BY <1>3 DEF T

LEMMA SortsStep ==
  ASSUME NEW q, Len(q) \in Nat
  PROVE  /\ SortsOf(q)[0] = <<>>
         /\ \A n \in 1 .. Len(q) : SortsOf(q)[n] = Insert(SortsOf(q)[n - 1], q[n])
<1>1. SortsOf(q) = [n \in 0 .. Len(q) |-> IF n = 0 THEN <<>> ELSE Insert(SortsOf(q)[n - 1], q[n])]
  BY SortsExist DEF SortsOf
<1> DEFINE S == SortsOf(q)
<1>2. S = [n \in 0 .. Len(q) |-> IF n = 0 THEN <<>> ELSE Insert(S[n - 1], q[n])]
  BY <1>1
<1> HIDE DEF S
<1>3. /\ S[0] = <<>>
      /\ \A n \in 1 .. Len(q) : S[n] = Insert(S[n - 1], q[n])
  BY <1>2
<1>4. QED
  BY <1>3 DEF S

\* The values of a function of numbers
ValuesOf(f, q) == [i \in 1 .. Len(q) |-> f[q[i]]]

(* s has the first n numbers of q in order, and as often as q has them: the
   values of any function of them have the same sum. *)
InOrder(s, q, n) ==
  /\ s \in Seq(Int) /\ Len(s) = n /\ Ascending(s)
  /\ \A i \in 1 .. n : \E j \in 1 .. n : s[i] = q[j]
  /\ \A j \in 1 .. n : \E i \in 1 .. n : s[i] = q[j]
  /\ \A f \in [Int -> Int] : Sum(ValuesOf(f, s)) = SumsOf(ValuesOf(f, q))[n]

LEMMA InOrderStep ==
  ASSUME NEW q \in Seq(Int), NEW n \in Nat, n + 1 <= Len(q), NEW s, InOrder(s, q, n)
  PROVE  InOrder(Insert(s, q[n + 1]), q, n + 1)
<1> DEFINE x == q[n + 1]
           p == Insert(s, x)
<1>1. /\ Len(q) \in Nat /\ \A i \in 1 .. Len(q) : q[i] \in Int
      /\ n + 1 \in 1 .. Len(q) /\ x \in Int /\ (n + 1) - 1 = n
      /\ s \in Seq(Int) /\ Len(s) = n /\ Ascending(s)
      /\ \A i \in 1 .. n : s[i] \in Int
  BY DEF InOrder
<1>2. /\ p \in Seq(Int) /\ Ascending(p)
      /\ \E k \in 0 .. Len(s) : HasBehind(p, s, x, k)
  BY <1>1, Inserted
<1>3. PICK k \in 0 .. n : HasBehind(p, s, x, k)
  BY <1>1, <1>2
<1> HIDE DEF x, p
<1>4. /\ Len(p) = n + 1 /\ p[k + 1] = x
      /\ \A i \in 1 .. k : p[i] = s[i]
      /\ \A i \in k + 1 .. n : p[i + 1] = s[i]
  BY <1>1, <1>3 DEF HasBehind
<1>5. ASSUME NEW i \in 1 .. n + 1 PROVE \E j \in 1 .. n + 1 : p[i] = q[j]
  <2>1. CASE i <= k
    <3>1. i \in 1 .. n /\ p[i] = s[i]
      BY <1>4, <2>1
    <3>2. PICK j \in 1 .. n : s[i] = q[j]
      BY <3>1 DEF InOrder
    <3>3. QED
      BY <3>1, <3>2
  <2>2. CASE i = k + 1
    BY <1>4, <2>2, SMTT(30) DEF x
  <2>3. CASE i > k + 1
    <3>1. i - 1 \in k + 1 .. n /\ i - 1 \in 1 .. n /\ (i - 1) + 1 = i
      BY <2>3
    <3>2. p[i] = s[i - 1]
      BY <1>4, <3>1
    <3>3. PICK j \in 1 .. n : s[i - 1] = q[j]
      BY <3>1 DEF InOrder
    <3>4. QED
      BY <3>2, <3>3
  <2>4. QED
    BY <2>1, <2>2, <2>3
<1>6. ASSUME NEW j \in 1 .. n + 1 PROVE \E i \in 1 .. n + 1 : p[i] = q[j]
  <2>1. CASE j = n + 1
    BY <1>4, <2>1 DEF x
  <2>2. CASE j \in 1 .. n
    <3>1. PICK i \in 1 .. n : s[i] = q[j]
      BY <2>2 DEF InOrder
    <3>2. CASE i <= k
      BY <1>4, <3>1, <3>2
    <3>3. CASE i \in k + 1 .. n
      BY <1>4, <3>1, <3>3
    <3>4. QED
      BY <3>2, <3>3
  <2>3. QED
    BY <2>1, <2>2, SMTT(30)
<1>7. ASSUME NEW f \in [Int -> Int]
      PROVE  Sum(ValuesOf(f, p)) = SumsOf(ValuesOf(f, q))[n + 1]
  <2> DEFINE P == ValuesOf(f, p)
             S == ValuesOf(f, s)
             Q == ValuesOf(f, q)
  <2>1. /\ P \in Seq(Int) /\ Len(P) = n + 1 /\ \A i \in 1 .. n + 1 : P[i] = f[p[i]]
    BY <1>2, <1>4, SMTT(30) DEF ValuesOf
  <2>2. /\ S \in Seq(Int) /\ Len(S) = n /\ \A i \in 1 .. n : S[i] = f[s[i]]
    BY <1>1 DEF ValuesOf
  <2>3. /\ Len(Q) = Len(q) /\ \A i \in 1 .. Len(q) : Q[i] = f[q[i]]
    BY <1>1 DEF ValuesOf
  <2>4. Sum(S) = SumsOf(Q)[n]
    BY DEF InOrder
  <2> HIDE DEF P, S, Q
  <2>5. f[x] \in Int
    BY <1>1
  <2>6. /\ P[k + 1] = f[x]
        /\ \A i \in 1 .. k : P[i] = S[i]
        /\ \A i \in k + 1 .. n : P[i + 1] = S[i]
    <3>1. \A i \in 1 .. k : P[i] = S[i]
      <4> SUFFICES ASSUME NEW i \in 1 .. k PROVE P[i] = S[i]
        OBVIOUS
      <4>1. i \in 1 .. n /\ i \in 1 .. n + 1
        OBVIOUS
      <4>2. P[i] = f[p[i]] /\ S[i] = f[s[i]] /\ p[i] = s[i]
        BY <1>4, <2>1, <2>2, <4>1, Zenon
      <4>3. QED
        BY <4>2
    <3>2. \A i \in k + 1 .. n : P[i + 1] = S[i]
      <4> SUFFICES ASSUME NEW i \in k + 1 .. n PROVE P[i + 1] = S[i]
        OBVIOUS
      <4>1. i \in 1 .. n /\ i + 1 \in 1 .. n + 1
        OBVIOUS
      <4>2. P[i + 1] = f[p[i + 1]] /\ S[i] = f[s[i]] /\ p[i + 1] = s[i]
        BY <1>4, <2>1, <2>2, <4>1, Zenon
      <4>3. QED
        BY <4>2
    <3>3. k + 1 \in 1 .. n + 1
      OBVIOUS
    <3>4. QED
      BY <1>4, <2>1, <3>1, <3>2, <3>3
  <2>7. Sum(P) = Sum(S) + f[x]
    <3>1. Len(P) = Len(S) + 1 /\ k \in 0 .. Len(S)
      BY <2>1, <2>2
    <3>2. QED
      BY <2>1, <2>2, <2>5, <2>6, <3>1, SumInserted
  <2>8. SumsOf(Q)[n + 1] = SumsOf(Q)[n] + Q[n + 1]
    <3>1. Len(Q) \in Nat /\ n + 1 \in 1 .. Len(Q) /\ (n + 1) - 1 = n
      BY <1>1, <2>3
    <3>2. QED
      BY <3>1, SumsStep
  <2>9. Q[n + 1] = f[x]
    BY <1>1, <2>3 DEF x
  <2>10. QED
    BY <2>4, <2>7, <2>8, <2>9 DEF P, S, Q
<1>8. InOrder(p, q, n + 1)
  BY <1>2, <1>4, <1>5, <1>6, <1>7 DEF InOrder
<1>9. QED
  BY <1>8 DEF p, x

(* A sorted sequence has the numbers of the sequence in order. *)
LEMMA SortedInOrder ==
  ASSUME NEW q \in Seq(Int)
  PROVE  InOrder(Sorted(q), q, Len(q))
<1> DEFINE T == {n \in Nat : n <= Len(q) => InOrder(SortsOf(q)[n], q, n)}
<1>1. Len(q) \in Nat
  OBVIOUS
<1>2. 0 \in T
  <2>1. SortsOf(q)[0] = <<>>
    BY <1>1, SortsStep
  <2>2. <<>> \in Seq(Int) /\ Len(<<>>) = 0 /\ Ascending(<<>>)
    BY DEF Ascending
  <2>3. ASSUME NEW f \in [Int -> Int] PROVE Sum(ValuesOf(f, <<>>)) = SumsOf(ValuesOf(f, q))[0]
    <3>1. ValuesOf(f, <<>>) = <<>>
      BY DEF ValuesOf
    <3>2. Len(ValuesOf(f, q)) \in Nat
      BY DEF ValuesOf
    <3>3. QED
      BY <3>1, <3>2, SumEmpty, SumsStep
  <2>4. InOrder(<<>>, q, 0)
    BY <2>2, <2>3 DEF InOrder
  <2>5. QED
    BY <2>1, <2>4
<1>3. ASSUME NEW n \in Nat, n \in T PROVE n + 1 \in T
  <2>1. SUFFICES ASSUME n + 1 <= Len(q) PROVE InOrder(SortsOf(q)[n + 1], q, n + 1)
    OBVIOUS
  <2>2. n + 1 \in 1 .. Len(q) /\ (n + 1) - 1 = n /\ n <= Len(q)
    BY <1>1, <2>1
  <2>3. SortsOf(q)[n + 1] = Insert(SortsOf(q)[n], q[n + 1])
    BY <1>1, <2>2, SortsStep
  <2>4. InOrder(SortsOf(q)[n], q, n)
    BY <1>3, <2>2
  <2>5. QED
    BY <2>1, <2>3, <2>4, InOrderStep
<1> HIDE DEF T
<1>4. Nat \subseteq T
  BY <1>2, <1>3, Induct
<1>5. QED
  BY <1>1, <1>4 DEF T, Sorted

(* Numbers summed up from the last on *)
LEMMA SumReversed ==
  ASSUME NEW c, Len(c) \in Nat, \A i \in 1 .. Len(c) : c[i] \in Int
  PROVE  Sum([i \in 1 .. Len(c) |-> c[Len(c) + 1 - i]]) = Sum(c)
<1> DEFINE n == Len(c)
           r == [i \in 1 .. n |-> c[n + 1 - i]]
           T == {k \in Nat : k <= n => SumsOf(r)[k] + SumsOf(c)[n - k] = Sum(c)}
<1>1. n \in Nat /\ Len(r) = n /\ \A i \in 1 .. n : r[i] = c[n + 1 - i] /\ r[i] \in Int
  OBVIOUS
<1>2. /\ SumsOf(r)[0] = 0 /\ \A k \in 1 .. n : SumsOf(r)[k] = SumsOf(r)[k - 1] + r[k]
      /\ SumsOf(c)[0] = 0 /\ \A k \in 1 .. n : SumsOf(c)[k] = SumsOf(c)[k - 1] + c[k]
  <2> HIDE DEF r
  <2>1. QED
    BY <1>1, SumsStep
<1>3. \A k \in 0 .. n : SumsOf(r)[k] \in Int /\ SumsOf(c)[k] \in Int
  <2> HIDE DEF r
  <2>1. QED
    BY <1>1, SumsType
<1>4. Sum(c) = SumsOf(c)[n] /\ Sum(r) = SumsOf(r)[n]
  BY <1>1 DEF Sum
<1> HIDE DEF n, r
<1>5. 0 \in T
  BY <1>1, <1>2, <1>3, <1>4
<1>6. ASSUME NEW k \in Nat, k \in T PROVE k + 1 \in T
  <2>1. SUFFICES ASSUME k + 1 <= n PROVE SumsOf(r)[k + 1] + SumsOf(c)[n - (k + 1)] = Sum(c)
    OBVIOUS
  <2>2. /\ k + 1 \in 1 .. n /\ (k + 1) - 1 = k /\ n + 1 - (k + 1) = n - k
        /\ n - k \in 1 .. n /\ (n - k) - 1 = n - (k + 1) /\ k \in 0 .. n /\ n - (k + 1) \in 0 .. n
    BY <1>1, <2>1
  <2>3. SumsOf(r)[k + 1] = SumsOf(r)[k] + r[k + 1] /\ r[k + 1] = c[n - k] /\ r[k + 1] \in Int
    BY <1>1, <1>2, <2>2
  <2>4. SumsOf(c)[n - k] = SumsOf(c)[n - (k + 1)] + c[n - k]
    BY <1>2, <2>2
  <2>5. SumsOf(r)[k] + SumsOf(c)[n - k] = Sum(c)
    <3>1. k <= n
      BY <2>2
    <3>2. k <= n => SumsOf(r)[k] + SumsOf(c)[n - k] = Sum(c)
      BY <1>6, Zenon
    <3>3. QED
      BY <3>1, <3>2
  <2>6. SumsOf(r)[k] \in Int /\ SumsOf(c)[n - (k + 1)] \in Int
    BY <1>3, <2>2
  <2>7. QED
    BY <2>3, <2>4, <2>5, <2>6
<1> HIDE DEF T
<1>7. Nat \subseteq T
  BY <1>5, <1>6, Induct
<1>8. n \in T
  BY <1>1, <1>7
<1>9. SumsOf(r)[n] + SumsOf(c)[n - n] = Sum(c)
  BY <1>1, <1>8 DEF T
<1>10. n - n = 0 /\ SumsOf(r)[n] \in Int
  BY <1>1, <1>3
<1>11. Sum(r) = Sum(c)
  BY <1>2, <1>4, <1>9, <1>10
<1>12. QED
  BY <1>11 DEF n, r

(* The sum of numbers whose signs are changed *)
LEMMA SumNegated ==
  ASSUME NEW c, Len(c) \in Nat, \A i \in 1 .. Len(c) : c[i] \in Int
  PROVE  Sum([i \in 1 .. Len(c) |-> -c[i]]) = -Sum(c)
<1> DEFINE m == [i \in 1 .. Len(c) |-> -c[i]]
           T == {k \in Nat : k <= Len(c) => SumsOf(m)[k] = -SumsOf(c)[k]}
<1>1. Len(m) = Len(c) /\ \A i \in 1 .. Len(c) : m[i] = -c[i]
  OBVIOUS
<1> HIDE DEF m
<1>2. /\ SumsOf(m)[0] = 0 /\ \A k \in 1 .. Len(c) : SumsOf(m)[k] = SumsOf(m)[k - 1] + m[k]
      /\ SumsOf(c)[0] = 0 /\ \A k \in 1 .. Len(c) : SumsOf(c)[k] = SumsOf(c)[k - 1] + c[k]
  BY <1>1, SumsStep
<1>3. \A k \in 0 .. Len(c) : SumsOf(c)[k] \in Int
  BY SumsType
<1>4. 0 \in T
  BY <1>2
<1>5. ASSUME NEW k \in Nat, k \in T PROVE k + 1 \in T
  <2>1. SUFFICES ASSUME k + 1 <= Len(c) PROVE SumsOf(m)[k + 1] = -SumsOf(c)[k + 1]
    OBVIOUS
  <2>2. k + 1 \in 1 .. Len(c) /\ (k + 1) - 1 = k /\ k \in 0 .. Len(c)
    BY <2>1
  <2>3. SumsOf(m)[k] = -SumsOf(c)[k] /\ SumsOf(c)[k] \in Int
    BY <1>3, <1>5, <2>2
  <2>4. SumsOf(m)[k + 1] = SumsOf(m)[k] + m[k + 1] /\ SumsOf(c)[k + 1] = SumsOf(c)[k] + c[k + 1]
    BY <1>2, <2>2
  <2>5. QED
    BY <1>1, <2>2, <2>3, <2>4
<1> HIDE DEF T
<1>6. Nat \subseteq T
  BY <1>4, <1>5, Induct
<1>7. Len(c) \in T
  BY <1>6
<1>8. SumsOf(m)[Len(c)] = -SumsOf(c)[Len(c)]
  BY <1>7 DEF T
<1>9. Sum(m) = -Sum(c)
  BY <1>1, <1>8 DEF Sum
<1>10. QED
  BY <1>9 DEF m

(* How many of the numbers are 1, if the others are 0: at least those before a
   place if they all are, and at most those if the others are not. *)
LEMMA CountOnes ==
  ASSUME NEW c, Len(c) \in Nat, \A j \in 1 .. Len(c) : c[j] \in 0 .. 1, NEW i \in 0 .. Len(c)
  PROVE  /\ (\A j \in 1 .. i : c[j] = 1) => Sum(c) >= i
         /\ (\A j \in i + 1 .. Len(c) : c[j] = 0) => Sum(c) <= i
<1> DEFINE Full == \A j \in 1 .. i : c[j] = 1
           Rest == \A j \in i + 1 .. Len(c) : c[j] = 0
           T == {k \in Nat : k <= Len(c) =>
                   /\ SumsOf(c)[k] \in 0 .. k
                   /\ Full => SumsOf(c)[k] >= IF k <= i THEN k ELSE i
                   /\ Rest => SumsOf(c)[k] <= i}
<1>1. SumsOf(c)[0] = 0 /\ \A k \in 1 .. Len(c) : SumsOf(c)[k] = SumsOf(c)[k - 1] + c[k]
  BY SumsStep
<1>2. 0 \in T
  BY <1>1
<1>3. ASSUME NEW k \in Nat, k \in T PROVE k + 1 \in T
  <2>1. SUFFICES ASSUME k + 1 <= Len(c)
                 PROVE  /\ SumsOf(c)[k + 1] \in 0 .. k + 1
                        /\ Full => SumsOf(c)[k + 1] >= IF k + 1 <= i THEN k + 1 ELSE i
                        /\ Rest => SumsOf(c)[k + 1] <= i
    OBVIOUS
  <2>2. k + 1 \in 1 .. Len(c) /\ (k + 1) - 1 = k
    BY <2>1
  <2>3. SumsOf(c)[k + 1] = SumsOf(c)[k] + c[k + 1] /\ c[k + 1] \in 0 .. 1
    BY <1>1, <2>2
  <2>4. /\ SumsOf(c)[k] \in 0 .. k
        /\ Full => SumsOf(c)[k] >= IF k <= i THEN k ELSE i
        /\ Rest => SumsOf(c)[k] <= i
    BY <1>3, <2>1
  <2>5. Full /\ k + 1 <= i => c[k + 1] = 1
    BY <2>2
  <2>6. Rest /\ k + 1 > i => c[k + 1] = 0
    BY <2>2
  <2> HIDE DEF Full, Rest
  <2>7. QED
    BY <2>3, <2>4, <2>5, <2>6
<1> HIDE DEF T
<1>4. Nat \subseteq T
  BY <1>2, <1>3, Induct
<1>5. Len(c) \in T
  BY <1>4
<1>6. /\ Full => SumsOf(c)[Len(c)] >= IF Len(c) <= i THEN Len(c) ELSE i
      /\ Rest => SumsOf(c)[Len(c)] <= i
  BY <1>5 DEF T
<1>7. QED
  BY <1>6 DEF Sum

LEMMA NotBelow ==
  ASSUME NEW s \in Seq(Int), NEW t \in Seq(Int), Len(s) = Len(t), Ascending(s), Ascending(t),
         \A f \in [Int -> Int] : Sum(ValuesOf(f, s)) = Sum(ValuesOf(f, t)),
         NEW i \in 1 .. Len(s)
  PROVE  ~ (s[i] < t[i])
<1> SUFFICES ASSUME s[i] < t[i] PROVE FALSE
  OBVIOUS
<1> DEFINE f == [x \in Int |-> IF x <= s[i] THEN 1 ELSE 0]
           c == ValuesOf(f, s)
           d == ValuesOf(f, t)
<1>1. /\ Len(s) \in Nat /\ i \in 1 .. Len(t)
      /\ \A j \in 1 .. Len(s) : s[j] \in Int /\ t[j] \in Int
  OBVIOUS
<1>2. Len(c) = Len(s) /\ \A j \in 1 .. Len(s) : c[j] = IF s[j] <= s[i] THEN 1 ELSE 0
  BY <1>1 DEF ValuesOf
<1>3. Len(d) = Len(s) /\ \A j \in 1 .. Len(s) : d[j] = IF t[j] <= s[i] THEN 1 ELSE 0
  BY <1>1 DEF ValuesOf
<1>4. Sum(c) = Sum(d)
  <2>1. f \in [Int -> Int]
    OBVIOUS
  <2> HIDE DEF f
  <2>2. QED
    BY <2>1
<1> HIDE DEF c, d
<1>5. Sum(c) \in Int
  <2>1. \A j \in 1 .. Len(c) : c[j] \in Int
    BY <1>1, <1>2
  <2>2. QED
    BY <1>1, <1>2, <2>1, SumsType DEF Sum
<1>6. Sum(c) >= i
  <2>1. \A j \in 1 .. i : c[j] = 1
    <3> SUFFICES ASSUME NEW j \in 1 .. i PROVE c[j] = 1
      OBVIOUS
    <3>1. j \in 1 .. Len(s) /\ j <= i
      BY <1>1
    <3>2. s[j] <= s[i]
      BY <3>1 DEF Ascending
    <3>3. QED
      BY <1>2, <3>1, <3>2
  <2>2. \A j \in 1 .. Len(c) : c[j] \in 0 .. 1
    BY <1>2
  <2>3. QED
    BY <1>1, <1>2, <2>1, <2>2, CountOnes
<1>7. Sum(d) <= i - 1
  <2>1. \A j \in (i - 1) + 1 .. Len(d) : d[j] = 0
    <3> SUFFICES ASSUME NEW j \in (i - 1) + 1 .. Len(d) PROVE d[j] = 0
      OBVIOUS
    <3>1. j \in 1 .. Len(t) /\ i <= j
      BY <1>1, <1>3
    <3>2. t[i] <= t[j]
      BY <1>1, <3>1 DEF Ascending
    <3>3. QED
      BY <1>1, <1>3, <3>1, <3>2
  <2>2. \A j \in 1 .. Len(d) : d[j] \in 0 .. 1
    BY <1>3
  <2>3. i - 1 \in 0 .. Len(d) /\ Len(d) \in Nat
    BY <1>1, <1>3
  <2>4. QED
    BY <2>1, <2>2, <2>3, CountOnes
<1>8. QED
  BY <1>4, <1>5, <1>6, <1>7

(* There is only one way to put numbers in order. *)
LEMMA OneOrder ==
  ASSUME NEW s \in Seq(Int), NEW t \in Seq(Int), Len(s) = Len(t), Ascending(s), Ascending(t),
         \A f \in [Int -> Int] : Sum(ValuesOf(f, s)) = Sum(ValuesOf(f, t))
  PROVE  s = t
<1>1. \A i \in 1 .. Len(s) : ~ (s[i] < t[i])
  BY NotBelow
<1>2. \A i \in 1 .. Len(s) : ~ (t[i] < s[i])
  <2>1. \A f \in [Int -> Int] : Sum(ValuesOf(f, t)) = Sum(ValuesOf(f, s))
    OBVIOUS
  <2>2. QED
    BY <2>1, NotBelow
<1>3. \A i \in 1 .. Len(s) : s[i] = t[i]
  BY <1>1, <1>2
<1>4. /\ s = [i \in 1 .. Len(s) |-> s[i]]
      /\ t = [i \in 1 .. Len(s) |-> t[i]]
  OBVIOUS
<1>5. QED
  BY <1>3, <1>4, Zenon

(* Numbers of the other sign are in the opposite order. *)
LEMMA SortedMirrored ==
  ASSUME NEW q \in Seq(Int)
  PROVE  Sorted([i \in 1 .. Len(q) |-> -q[i]])
           = [i \in 1 .. Len(q) |-> -Sorted(q)[Len(q) + 1 - i]]
<1> DEFINE n == Len(q)
           m == [i \in 1 .. n |-> -q[i]]
           s == Sorted(q)
           u == Sorted(m)
           t == [i \in 1 .. n |-> -s[n + 1 - i]]
<1>1. n \in Nat /\ \A i \in 1 .. n : q[i] \in Int
  OBVIOUS
<1>2. m \in Seq(Int) /\ Len(m) = n /\ \A i \in 1 .. n : m[i] = -q[i]
  BY <1>1
<1>3. InOrder(s, q, n) /\ InOrder(u, m, n)
  <2> HIDE DEF m
  <2>1. QED
    BY <1>1, <1>2, SortedInOrder
<1> HIDE DEF s, u, m
<1>4. /\ s \in Seq(Int) /\ Len(s) = n /\ Ascending(s)
      /\ u \in Seq(Int) /\ Len(u) = n /\ Ascending(u)
      /\ \A f \in [Int -> Int] : /\ Sum(ValuesOf(f, s)) = SumsOf(ValuesOf(f, q))[n]
                                /\ Sum(ValuesOf(f, u)) = SumsOf(ValuesOf(f, m))[n]
  BY <1>3 DEF InOrder
<1>5. \A i \in 1 .. n : n + 1 - i \in 1 .. n /\ s[i] \in Int
  BY <1>1, <1>4
<1>6. t \in Seq(Int) /\ Len(t) = n /\ \A i \in 1 .. n : t[i] = -s[n + 1 - i]
  BY <1>1, <1>5
<1> HIDE DEF t
<1>7. Ascending(t)
  <2> SUFFICES ASSUME NEW i \in 1 .. n, NEW j \in 1 .. n, i <= j PROVE t[i] <= t[j]
    BY <1>6 DEF Ascending
  <2>1. n + 1 - j \in 1 .. n /\ n + 1 - i \in 1 .. n /\ n + 1 - j <= n + 1 - i
    BY <1>1
  <2>2. s[n + 1 - j] <= s[n + 1 - i]
    BY <1>4, <2>1 DEF Ascending
  <2>3. t[i] = -s[n + 1 - i] /\ t[j] = -s[n + 1 - j]
    BY <1>6
  <2>4. s[n + 1 - i] \in Int /\ s[n + 1 - j] \in Int
    BY <1>5, <2>1
  <2>5. QED
    BY <2>2, <2>3, <2>4
<1>8. ASSUME NEW f \in [Int -> Int] PROVE Sum(ValuesOf(f, t)) = Sum(ValuesOf(f, u))
  <2> DEFINE g == [x \in Int |-> f[-x]]
             c == ValuesOf(g, s)
  <2>1. g \in [Int -> Int]
    OBVIOUS
  <2>2. Len(c) = n /\ \A i \in 1 .. n : c[i] = f[-s[i]] /\ c[i] \in Int
    <3>1. \A x \in Int : g[x] = f[-x] /\ f[-x] \in Int
      OBVIOUS
    <3> HIDE DEF g
    <3>2. c = [i \in 1 .. n |-> g[s[i]]]
      BY <1>4 DEF ValuesOf
    <3> HIDE DEF c
    <3>3. \A i \in 1 .. n : c[i] = f[-s[i]] /\ c[i] \in Int
      BY <1>5, <3>1, <3>2
    <3>4. QED
      BY <1>1, <3>2, <3>3
  <2>3. ValuesOf(f, t) = [i \in 1 .. Len(c) |-> c[Len(c) + 1 - i]]
    BY <1>5, <1>6, <2>2 DEF ValuesOf
  <2>4. ValuesOf(g, q) = ValuesOf(f, m)
    BY <1>1, <1>2 DEF ValuesOf
  <2>5. Sum(c) = SumsOf(ValuesOf(g, q))[n]
    <3> HIDE DEF g
    <3>1. QED
      BY <1>4, <2>1
  <2> HIDE DEF c, g
  <2>6. Sum(ValuesOf(f, t)) = Sum(c)
    BY <1>1, <2>2, <2>3, SumReversed
  <2>7. QED
    BY <1>4, <2>4, <2>5, <2>6
<1>9. u = t
  BY <1>4, <1>6, <1>7, <1>8, OneOrder
<1>10. QED
  BY <1>9 DEF u, t, m, s

-----------------------------------------------------------------------------
(* Sequences *)

(* What it is to be a suffix, element by element. *)
LEMMA SuffixByElement ==
  ASSUME NEW S, NEW n \in Nat, NEW f, NEW s, s = [i \in 1 .. n |-> f[i]],
         NEW t \in Seq(S), n <= Len(t),
         \A i \in 1 .. n : f[i] = t[Len(t) - n + i]
  PROVE  IsSuffix(s, t)
<1> DEFINE m == Len(t)
           r == [i \in 1 .. n |-> s[n - i + 1]]
           q == [i \in 1 .. m |-> t[m - i + 1]]
<1>1. m \in Nat /\ n <= m
  OBVIOUS
<1>2. \A i \in 1 .. n : f[i] \in S
  <2> SUFFICES ASSUME NEW i \in 1 .. n PROVE f[i] \in S
    OBVIOUS
  <2>1. m - n + i \in 1 .. m
    BY <1>1
  <2>2. QED
    BY <2>1, ElementOfSeq
<1>3. s \in Seq(S) /\ Len(s) = n
  BY <1>2, IsASeq
<1>4. r \in Seq(S) /\ Len(r) = n
  <2>1. \A i \in 1 .. n : s[n - i + 1] \in S
    BY <1>2
  <2>2. QED
    BY <2>1, IsASeq
<1>5. q \in Seq(S) /\ Len(q) = m
  <2>1. \A i \in 1 .. m : t[m - i + 1] \in S
    BY <1>1, ElementOfSeq
  <2>2. QED
    BY <1>1, <2>1, IsASeq
<1>6. \A i \in 1 .. n : r[i] = q[i]
  <2> SUFFICES ASSUME NEW i \in 1 .. n PROVE r[i] = q[i]
    OBVIOUS
  <2>1. n - i + 1 \in 1 .. n /\ i \in 1 .. m /\ m - n + (n - i + 1) = m - i + 1
    BY <1>1
  <2>2. f[n - i + 1] = t[m - n + (n - i + 1)]
    BY <2>1
  <2>3. QED
    BY <2>1, <2>2
<1>7. Reverse(s) = r /\ Reverse(t) = q
  BY <1>1, <1>3 DEF Reverse
<1> HIDE DEF r, q, m
<1>8. SubSeq(r, 1, n) = SubSeq(q, 1, n)
  BY <1>1, <1>4, <1>5, <1>6
<1>9. QED
  BY <1>1, <1>4, <1>5, <1>7, <1>8 DEF IsSuffix, IsPrefix

-----------------------------------------------------------------------------
(* Squares *)

LEMMA SquareOfDeviation ==
  ASSUME NEW a \in Int, NEW b \in Int, NEW x \in Int
  PROVE  (a * x - b) * (a * x - b) = (a * a) * (x * x) - (2 * a * b) * x + b * b
<1> DEFINE y == a * x
<1>1. y \in Int /\ y * y = (a * a) * (x * x) /\ y * b = (a * b) * x
  OBVIOUS
<1> HIDE DEF y
<1>2. (y - b) * (y - b) = y * y - 2 * (y * b) + b * b
  BY <1>1
<1>3. 2 * ((a * b) * x) = (2 * a * b) * x
  OBVIOUS
<1>4. QED
  BY <1>1, <1>2, <1>3 DEF y

(* The squares of the distances from b of a times the numbers of q *)
LEMMA Deviations ==
  ASSUME NEW q \in Seq(Int), NEW a \in Int, NEW b \in Int
  PROVE  Sum([i \in 1 .. Len(q) |-> (a * q[i] - b) * (a * q[i] - b)])
           = (a * a) * Sum([i \in 1 .. Len(q) |-> q[i] * q[i]])
               - (2 * a * b) * Sum(q) + Len(q) * (b * b)
<1> DEFINE D == [i \in 1 .. Len(q) |-> (a * q[i] - b) * (a * q[i] - b)]
           Q == [i \in 1 .. Len(q) |-> q[i] * q[i]]
           A == a * a
           B == 2 * a * b
           C == b * b
           Even(n) == SumsOf(D)[n] = A * SumsOf(Q)[n] - B * SumsOf(q)[n] + n * C
           T == {n \in Nat : n <= Len(q) => Even(n)}
<1>1. /\ Len(q) \in Nat /\ \A i \in 1 .. Len(q) : q[i] \in Int
      /\ A \in Int /\ B \in Int /\ C \in Int
      /\ Len(D) = Len(q) /\ Len(Q) = Len(q)
  OBVIOUS
<1>2. \A i \in 1 .. Len(q) : D[i] = A * Q[i] - B * q[i] + C /\ Q[i] \in Int
  BY <1>1, SquareOfDeviation, SMTT(30)
<1> HIDE DEF A, B, C, D, Q
<1>3. 0 \in T
  <2>1. SumsOf(D)[0] = 0 /\ SumsOf(Q)[0] = 0 /\ SumsOf(q)[0] = 0
    BY <1>1, SumsStep
  <2>2. A * 0 = 0 /\ B * 0 = 0 /\ 0 * C = 0
    BY <1>1
  <2>3. QED
    BY <2>1, <2>2
<1>4. ASSUME NEW n \in Nat, n \in T PROVE n + 1 \in T
  <2>1. SUFFICES ASSUME n + 1 <= Len(q) PROVE Even(n + 1)
    OBVIOUS
  <2>2. n + 1 \in 1 .. Len(q) /\ n \in 0 .. Len(q) /\ (n + 1) - 1 = n /\ Even(n)
    BY <1>1, <1>4, <2>1
  <2> DEFINE x == q[n + 1]
             xx == Q[n + 1]
             s == SumsOf(q)[n]
             ss == SumsOf(Q)[n]
             d == SumsOf(D)[n]
  <2>3. /\ SumsOf(q)[n + 1] = s + x
        /\ SumsOf(Q)[n + 1] = ss + xx
        /\ SumsOf(D)[n + 1] = d + D[n + 1]
    BY <1>1, <2>2, SumsStep
  <2>4. D[n + 1] = A * xx - B * x + C /\ x \in Int /\ xx \in Int
    BY <1>1, <1>2, <2>2
  <2>5. s \in Int /\ ss \in Int
    <3>1. \A i \in 1 .. Len(Q) : Q[i] \in Int
      BY <1>1, <1>2
    <3>2. QED
      BY <1>1, <2>2, <3>1, SumsType
  <2>6. d = A * ss - B * s + n * C
    BY <2>2
  <2> HIDE DEF x, xx, s, ss, d
  <2>7. A * (ss + xx) = A * ss + A * xx /\ B * (s + x) = B * s + B * x /\ (n + 1) * C = n * C + C
    BY <1>1, <2>4, <2>5
  <2>8. A * ss \in Int /\ A * xx \in Int /\ B * s \in Int /\ B * x \in Int /\ n * C \in Int
    BY <1>1, <2>4, <2>5
  <2>9. d + D[n + 1] = A * (ss + xx) - B * (s + x) + (n + 1) * C
    BY <1>1, <2>4, <2>6, <2>7, <2>8, SMTT(30)
  <2>10. QED
    BY <2>3, <2>9
<1> HIDE DEF T
<1>5. Nat \subseteq T
  BY <1>3, <1>4, Induct
<1>6. Even(Len(q))
  <2>1. Len(q) \in T
    BY <1>1, <1>5
  <2>2. Len(q) <= Len(q) => Even(Len(q))
    BY <2>1, Zenon DEF T
  <2>3. QED
    BY <1>1, <2>2
<1>7. Sum(D) = A * Sum(Q) - B * Sum(q) + Len(q) * C
  BY <1>1, <1>6 DEF Sum
<1>8. QED
  BY <1>7, Zenon DEF A, B, C, D, Q
-----------------------------------------------------------------------------
(* Sums in another order, of several sequences, and of the first numbers *)

(* Places in strict order are all of them, each where it is. *)
LEMMA StrictlyAscending ==
  ASSUME NEW n \in Nat, NEW s, \A i \in 1 .. n : s[i] \in 1 .. n,
         \A i, j \in 1 .. n : i < j => s[i] < s[j]
  PROVE  \A i \in 1 .. n : s[i] = i
<1> DEFINE T == {k \in Nat : k \in 1 .. n => s[k] >= k}
           U == {k \in Nat : k < n => s[n - k] <= n - k}
<1>1. Nat \subseteq T
  <2>1. 0 \in T
    OBVIOUS
  <2>2. ASSUME NEW k \in Nat, k \in T PROVE k + 1 \in T
    <3>1. SUFFICES ASSUME k + 1 \in 1 .. n PROVE s[k + 1] >= k + 1
      OBVIOUS
    <3>2. CASE k = 0
      BY <3>1, <3>2
    <3>3. CASE k # 0
      <4>1. k \in 1 .. n /\ k < k + 1
        BY <3>1, <3>3
      <4>2. s[k] >= k /\ s[k] < s[k + 1]
        BY <2>2, <3>1, <4>1
      <4>3. s[k] \in 1 .. n /\ s[k + 1] \in 1 .. n
        BY <3>1, <4>1
      <4>4. QED
        BY <4>2, <4>3
    <3>4. QED
      BY <3>2, <3>3
  <2> HIDE DEF T
  <2>3. QED
    BY <2>1, <2>2, Induct
<1>2. Nat \subseteq U
  <2>1. 0 \in U
    <3>1. 0 < n => n - 0 = n /\ n \in 1 .. n
      OBVIOUS
    <3>2. QED
      BY <3>1
  <2>2. ASSUME NEW k \in Nat, k \in U PROVE k + 1 \in U
    <3>1. SUFFICES ASSUME k + 1 < n PROVE s[n - (k + 1)] <= n - (k + 1)
      OBVIOUS
    <3>2. n - (k + 1) \in 1 .. n /\ n - k \in 1 .. n /\ n - (k + 1) < n - k
      BY <3>1
    <3>3. s[n - (k + 1)] < s[n - k] /\ s[n - k] <= n - k
      BY <2>2, <3>1, <3>2
    <3>4. s[n - (k + 1)] \in 1 .. n /\ s[n - k] \in 1 .. n
      BY <3>2
    <3>5. QED
      BY <3>3, <3>4
  <2> HIDE DEF U
  <2>3. QED
    BY <2>1, <2>2, Induct
<1>3. ASSUME NEW i \in 1 .. n PROVE s[i] = i
  <2>1. i \in T /\ n - i \in U /\ n - (n - i) = i /\ n - i < n
    BY <1>1, <1>2
  <2>2. s[i] >= i /\ s[i] <= i
    BY <2>1
  <2>3. s[i] \in 1 .. n
    OBVIOUS
  <2>4. QED
    BY <2>2, <2>3
<1>4. QED
  BY <1>3

(* One to one, places are sent to all places. *)
LEMMA OneToOneIsOnto ==
  ASSUME NEW n \in Nat, NEW p \in [1 .. n -> 1 .. n], IsInjective(p)
  PROVE  \A j \in 1 .. n : \E i \in 1 .. n : p[i] = j
<1>1. p \in Injection(1 .. n, 1 .. n)
  BY DEF Injection
<1>2. IsFiniteSet(1 .. n)
  BY FS_Interval
<1>3. p \in Surjection(1 .. n, 1 .. n)
  BY <1>1, <1>2, FS_Injection
<1>4. QED
  BY <1>3 DEF Surjection

(* A sum does not depend on the order. *)
LEMMA SumShuffled ==
  ASSUME NEW n \in Nat, NEW p \in [1 .. n -> 1 .. n], IsInjective(p),
         NEW f, \A i \in 1 .. n : f[i] \in Int
  PROVE  Sum([i \in 1 .. n |-> f[p[i]]]) = Sum([i \in 1 .. n |-> f[i]])
<1> DEFINE s == Sorted(p)
           g == [x \in Int |-> IF x \in 1 .. n THEN f[x] ELSE 0]
<1>1. p \in Seq(Int) /\ Len(p) = n /\ \A i \in 1 .. n : p[i] \in 1 .. n
  OBVIOUS
<1>2. InOrder(s, p, n)
  BY <1>1, SortedInOrder
<1> HIDE DEF s
<1>3. /\ s \in Seq(Int) /\ Len(s) = n /\ Ascending(s)
      /\ \A i \in 1 .. n : \E j \in 1 .. n : s[i] = p[j]
      /\ \A j \in 1 .. n : \E i \in 1 .. n : s[i] = p[j]
      /\ \A h \in [Int -> Int] : Sum(ValuesOf(h, s)) = SumsOf(ValuesOf(h, p))[n]
  BY <1>2 DEF InOrder
<1>4. \A i \in 1 .. n : s[i] \in 1 .. n
  BY <1>1, <1>3
<1>5. s \in Surjection(1 .. n, 1 .. n)
  <2>1. s \in [1 .. n -> 1 .. n]
    <3>1. s = [i \in 1 .. n |-> s[i]]
      BY <1>3
    <3>2. [i \in 1 .. n |-> s[i]] \in [1 .. n -> 1 .. n]
      BY <1>4
    <3>3. QED
      BY <3>1, <3>2
  <2>2. ASSUME NEW t \in 1 .. n PROVE \E i \in 1 .. n : s[i] = t
    <3>1. PICK j \in 1 .. n : p[j] = t
      BY OneToOneIsOnto
    <3>2. QED
      BY <1>3, <3>1
  <2>3. QED
    BY <2>1, <2>2 DEF Surjection
<1>6. s \in Injection(1 .. n, 1 .. n)
  <2>1. IsFiniteSet(1 .. n)
    BY FS_Interval
  <2>2. QED
    BY <1>5, <2>1, FS_SurjSameCardinalityImpliesInj
<1>7. \A i, j \in 1 .. n : i < j => s[i] < s[j]
  <2> SUFFICES ASSUME NEW i \in 1 .. n, NEW j \in 1 .. n, i < j PROVE s[i] < s[j]
    OBVIOUS
  <2>1. s[i] <= s[j]
    BY <1>3 DEF Ascending
  <2>2. s[i] # s[j]
    <3>1. DOMAIN s = 1 .. n
      BY <1>3
    <3>2. i # j
      OBVIOUS
    <3>3. QED
      BY <1>6, <3>1, <3>2 DEF Injection, IsInjective
  <2>3. QED
    BY <1>4, <2>1, <2>2
<1>8. \A i \in 1 .. n : s[i] = i
  BY <1>4, <1>7, StrictlyAscending
<1>9. g \in [Int -> Int] /\ \A i \in 1 .. n : g[i] = f[i]
  OBVIOUS
<1> HIDE DEF g
<1>10. ValuesOf(g, s) = [i \in 1 .. n |-> f[i]]
  <2>1. ValuesOf(g, s) = [i \in 1 .. n |-> g[s[i]]]
    BY <1>3 DEF ValuesOf
  <2>2. \A i \in 1 .. n : g[s[i]] = f[i]
    BY <1>8, <1>9
  <2>3. QED
    BY <2>1, <2>2
<1>11. ValuesOf(g, p) = [i \in 1 .. n |-> f[p[i]]]
  BY <1>1, <1>9 DEF ValuesOf
<1>12. Len([i \in 1 .. n |-> f[p[i]]]) = n
  OBVIOUS
<1>13. Sum(ValuesOf(g, s)) = SumsOf(ValuesOf(g, p))[n]
  BY <1>3, <1>9
<1>14. SumsOf(ValuesOf(g, p))[n] = Sum([i \in 1 .. n |-> f[p[i]]])
  BY <1>11, <1>12, Zenon DEF Sum
<1>15. QED
  BY <1>10, <1>13, <1>14

(* The numbers from 0 on, and their squares *)
LEMMA SumOfPlaces ==
  ASSUME NEW n \in Nat
  PROVE  /\ 2 * Sum([i \in 1 .. n |-> i - 1]) = n * (n - 1)
         /\ 6 * Sum([i \in 1 .. n |-> (i - 1) * (i - 1)]) = (n - 1) * n * (2 * n - 1)
<1> DEFINE A == [i \in 1 .. n |-> i - 1]
           B == [i \in 1 .. n |-> (i - 1) * (i - 1)]
           Known(k) == /\ 2 * SumsOf(A)[k] = k * (k - 1)
                       /\ 6 * SumsOf(B)[k] = (k - 1) * k * (2 * k - 1)
           T == {k \in Nat : k <= n => Known(k)}
<1>1. /\ Len(A) = n /\ \A i \in 1 .. n : A[i] = i - 1 /\ A[i] \in Int
      /\ Len(B) = n /\ \A i \in 1 .. n : B[i] = (i - 1) * (i - 1) /\ B[i] \in Int
  OBVIOUS
<1> HIDE DEF A, B
<1>2. /\ SumsOf(A)[0] = 0 /\ \A k \in 1 .. n : SumsOf(A)[k] = SumsOf(A)[k - 1] + A[k]
      /\ SumsOf(B)[0] = 0 /\ \A k \in 1 .. n : SumsOf(B)[k] = SumsOf(B)[k - 1] + B[k]
  BY <1>1, SumsStep
<1>3. \A k \in 0 .. n : SumsOf(A)[k] \in Int /\ SumsOf(B)[k] \in Int
  BY <1>1, SumsType
<1>4. 0 \in T
  <2>1. 0 * (0 - 1) = 0 /\ (0 - 1) * 0 * (2 * 0 - 1) = 0
    OBVIOUS
  <2>2. QED
    BY <1>2, <2>1
<1>5. ASSUME NEW k \in Nat, k \in T PROVE k + 1 \in T
  <2>1. SUFFICES ASSUME k + 1 <= n PROVE Known(k + 1)
    OBVIOUS
  <2>2. k + 1 \in 1 .. n /\ (k + 1) - 1 = k /\ k \in 0 .. n
    BY <2>1
  <2>3. Known(k)
    BY <1>5, <2>1
  <2>4. SumsOf(A)[k + 1] = SumsOf(A)[k] + k /\ SumsOf(B)[k + 1] = SumsOf(B)[k] + k * k
    BY <1>1, <1>2, <2>2
  <2>5. SumsOf(A)[k] \in Int /\ SumsOf(B)[k] \in Int
    BY <1>3, <2>2
  <2>6. /\ k * (k - 1) + 2 * k = (k + 1) * k
        /\ (k - 1) * k * (2 * k - 1) + 6 * (k * k) = k * (k + 1) * (2 * (k + 1) - 1)
    BY SMTT(30)
  <2>7. 2 * SumsOf(A)[k + 1] = (k + 1) * ((k + 1) - 1)
    <3>1. 2 * (SumsOf(A)[k] + k) = 2 * SumsOf(A)[k] + 2 * k
      BY <2>5
    <3>2. QED
      BY <2>2, <2>3, <2>4, <2>6, <3>1
  <2>8. 6 * SumsOf(B)[k + 1] = ((k + 1) - 1) * (k + 1) * (2 * (k + 1) - 1)
    <3>1. 6 * (SumsOf(B)[k] + k * k) = 6 * SumsOf(B)[k] + 6 * (k * k)
      BY <2>5
    <3>2. QED
      BY <2>2, <2>3, <2>4, <2>6, <3>1
  <2>9. QED
    BY <2>7, <2>8
<1> HIDE DEF T
<1>6. Nat \subseteq T
  BY <1>4, <1>5, Induct
<1>7. Known(n)
  <2>1. n \in T
    BY <1>6
  <2>2. n <= n => Known(n)
    BY <2>1, Zenon DEF T
  <2>3. QED
    BY <2>2
<1>8. QED
  BY <1>1, <1>7 DEF Sum, A, B

\* r has, at each of its n places, a multiple of three sequences and a constant.
Combines(r, u, v, w, n, A, B, C, D) ==
  /\ n \in Nat /\ A \in Int /\ B \in Int /\ C \in Int /\ D \in Int
  /\ Len(u) = n /\ Len(v) = n /\ Len(w) = n /\ Len(r) = n
  /\ \A i \in 1 .. n : /\ u[i] \in Int /\ v[i] \in Int /\ w[i] \in Int
                       /\ r[i] = A * u[i] + B * v[i] + C * w[i] + D

(* The sum of multiples of three sequences, and of a constant *)
LEMMA SumCombined ==
  ASSUME NEW n, NEW A, NEW B, NEW C, NEW D, NEW u, NEW v, NEW w, NEW r,
         Combines(r, u, v, w, n, A, B, C, D)
  PROVE  /\ Sum(r) = A * Sum(u) + B * Sum(v) + C * Sum(w) + n * D
         /\ Sum(u) \in Int /\ Sum(v) \in Int /\ Sum(w) \in Int
<1> USE DEF Combines
<1> DEFINE Even(k) == SumsOf(r)[k] = A * SumsOf(u)[k] + B * SumsOf(v)[k] + C * SumsOf(w)[k] + k * D
           T == {k \in Nat : k <= n => Even(k)}
<1>1. /\ SumsOf(u)[0] = 0 /\ \A k \in 1 .. n : SumsOf(u)[k] = SumsOf(u)[k - 1] + u[k]
      /\ SumsOf(v)[0] = 0 /\ \A k \in 1 .. n : SumsOf(v)[k] = SumsOf(v)[k - 1] + v[k]
      /\ SumsOf(w)[0] = 0 /\ \A k \in 1 .. n : SumsOf(w)[k] = SumsOf(w)[k - 1] + w[k]
      /\ SumsOf(r)[0] = 0 /\ \A k \in 1 .. n : SumsOf(r)[k] = SumsOf(r)[k - 1] + r[k]
  BY SumsStep
<1>2. \A k \in 0 .. n : SumsOf(u)[k] \in Int /\ SumsOf(v)[k] \in Int /\ SumsOf(w)[k] \in Int
  BY SumsType
<1>3. 0 \in T
  <2>1. A * 0 = 0 /\ B * 0 = 0 /\ C * 0 = 0 /\ 0 * D = 0
    OBVIOUS
  <2>2. QED
    BY <1>1, <2>1
<1>4. ASSUME NEW k \in Nat, k \in T PROVE k + 1 \in T
  <2>1. SUFFICES ASSUME k + 1 <= n PROVE Even(k + 1)
    OBVIOUS
  <2>2. k + 1 \in 1 .. n /\ (k + 1) - 1 = k /\ k \in 0 .. n
    BY <2>1
  <2> DEFINE a == SumsOf(u)[k]
             b == SumsOf(v)[k]
             c == SumsOf(w)[k]
             x == u[k + 1]
             y == v[k + 1]
             z == w[k + 1]
             d == SumsOf(r)[k]
  <2>3. d = A * a + B * b + C * c + k * D
    BY <1>4, <2>1
  <2>4. /\ SumsOf(u)[k + 1] = a + x /\ SumsOf(v)[k + 1] = b + y /\ SumsOf(w)[k + 1] = c + z
        /\ SumsOf(r)[k + 1] = d + r[k + 1]
    BY <1>1, <2>2
  <2>5. /\ a \in Int /\ b \in Int /\ c \in Int /\ x \in Int /\ y \in Int /\ z \in Int
        /\ r[k + 1] = A * x + B * y + C * z + D
    BY <1>2, <2>2
  <2> HIDE DEF a, b, c, d, x, y, z
  <2>6. /\ A * (a + x) = A * a + A * x /\ B * (b + y) = B * b + B * y
        /\ C * (c + z) = C * c + C * z /\ (k + 1) * D = k * D + D
    BY <2>5
  <2>7. /\ A * a \in Int /\ A * x \in Int /\ B * b \in Int /\ B * y \in Int
        /\ C * c \in Int /\ C * z \in Int /\ k * D \in Int
    BY <2>5
  <2>8. d + r[k + 1] = A * (a + x) + B * (b + y) + C * (c + z) + (k + 1) * D
    BY <2>3, <2>5, <2>6, <2>7
  <2>9. QED
    BY <2>4, <2>8
<1> HIDE DEF T
<1>5. Nat \subseteq T
  BY <1>3, <1>4, Induct
<1>6. Even(n)
  <2>1. n \in T
    BY <1>5
  <2>2. n <= n => Even(n)
    BY <2>1, Zenon DEF T
  <2>3. QED
    BY <2>2
<1>7. SumsOf(u)[n] \in Int /\ SumsOf(v)[n] \in Int /\ SumsOf(w)[n] \in Int
  BY <1>2
<1>8. QED
  BY <1>6, <1>7 DEF Sum

\* The products of two sequences of numbers, their differences, and the
\* distances of n times the numbers from s
Products(a, b) == [i \in 1 .. Len(a) |-> a[i] * b[i]]
Differences(a, b) == [i \in 1 .. Len(a) |-> a[i] - b[i]]
Deviation(a, n, s) == [i \in 1 .. Len(a) |-> n * a[i] - s]

LEMMA ProductsType ==
  ASSUME NEW a \in Seq(Int), NEW b \in Seq(Int), Len(a) = Len(b)
  PROVE  /\ Products(a, b) \in Seq(Int) /\ Len(Products(a, b)) = Len(a)
         /\ \A i \in 1 .. Len(a) : Products(a, b)[i] = a[i] * b[i] /\ a[i] * b[i] \in Int
<1>1. Len(a) \in Nat /\ \A i \in 1 .. Len(a) : a[i] * b[i] \in Int
  <2>1. \A i \in 1 .. Len(a) : a[i] \in Int /\ b[i] \in Int
    OBVIOUS
  <2>2. QED
    BY <2>1
<1>2. QED
  BY <1>1 DEF Products

(* The squares of differences, by the binomial formula *)
LEMMA SquaredDifferences ==
  ASSUME NEW a \in Seq(Int), NEW b \in Seq(Int), Len(a) = Len(b)
  PROVE  Sum(Products(Differences(a, b), Differences(a, b)))
           = Sum(Products(a, a)) + Sum(Products(b, b)) - 2 * Sum(Products(a, b))
<1> DEFINE n == Len(a)
           u == Products(a, a)
           v == Products(b, b)
           w == Products(a, b)
           r == Products(Differences(a, b), Differences(a, b))
<1>1. n \in Nat /\ \A i \in 1 .. n : a[i] \in Int /\ b[i] \in Int
  OBVIOUS
<1>2. /\ Len(u) = n /\ Len(v) = n /\ Len(w) = n
      /\ \A i \in 1 .. n : /\ u[i] = a[i] * a[i] /\ v[i] = b[i] * b[i] /\ w[i] = a[i] * b[i]
                           /\ u[i] \in Int /\ v[i] \in Int /\ w[i] \in Int
  BY ProductsType, SMTT(30)
<1>3. Len(r) = n /\ \A i \in 1 .. n : r[i] = (a[i] - b[i]) * (a[i] - b[i])
  BY <1>1 DEF Products, Differences
<1> HIDE DEF n, u, v, w, r
<1>4. \A x, y \in Int : (x - y) * (x - y) = x * x + y * y - 2 * (x * y)
  OBVIOUS
<1>5. \A i \in 1 .. n : r[i] = 1 * u[i] + 1 * v[i] + (-2) * w[i] + 0
  <2> SUFFICES ASSUME NEW i \in 1 .. n PROVE r[i] = 1 * u[i] + 1 * v[i] + (-2) * w[i] + 0
    OBVIOUS
  <2>1. (a[i] - b[i]) * (a[i] - b[i]) = a[i] * a[i] + b[i] * b[i] - 2 * (a[i] * b[i])
    BY <1>1, <1>4
  <2>2. r[i] = u[i] + v[i] - 2 * w[i] /\ u[i] \in Int /\ v[i] \in Int /\ w[i] \in Int
    BY <1>2, <1>3, <2>1
  <2>3. QED
    BY <2>2, SMTT(30)
<1>6. /\ Sum(r) = 1 * Sum(u) + 1 * Sum(v) + (-2) * Sum(w) + n * 0
      /\ Sum(u) \in Int /\ Sum(v) \in Int /\ Sum(w) \in Int
  <2>1. \A i \in 1 .. n : /\ u[i] \in Int /\ v[i] \in Int /\ w[i] \in Int
                          /\ r[i] = 1 * u[i] + 1 * v[i] + (-2) * w[i] + 0
    BY <1>2, <1>5
  <2>2. Combines(r, u, v, w, n, 1, 1, -2, 0)
    BY <1>1, <1>2, <1>3, <2>1 DEF Combines
  <2>3. QED
    BY <2>2, SumCombined
<1>7. Sum(r) = Sum(u) + Sum(v) - 2 * Sum(w)
  BY <1>1, <1>6
<1>8. QED
  BY <1>7 DEF r, u, v, w

(* The sum of the products of deviations, when s is the sum of either sequence *)
LEMMA ProductsOfDeviations ==
  ASSUME NEW a \in Seq(Int), NEW b \in Seq(Int), Len(a) = Len(b),
         NEW n \in Int, NEW s \in Int, Sum(a) = s, Sum(b) = s
  PROVE  Sum(Products(Deviation(a, n, s), Deviation(b, n, s)))
           = (n * n) * Sum(Products(a, b)) - 2 * (n * (s * s)) + Len(a) * (s * s)
<1> DEFINE m == Len(a)
           w == Products(a, b)
           r == Products(Deviation(a, n, s), Deviation(b, n, s))
           A == n * n
           B == -(n * s)
           D == s * s
<1>1. m \in Nat /\ Len(b) = m /\ \A i \in 1 .. m : a[i] \in Int /\ b[i] \in Int
  OBVIOUS
<1>2. Len(w) = m /\ \A i \in 1 .. m : w[i] = a[i] * b[i] /\ w[i] \in Int
  BY ProductsType
<1>3. Len(r) = m /\ \A i \in 1 .. m : r[i] = (n * a[i] - s) * (n * b[i] - s)
  BY <1>1 DEF Products, Deviation
<1>4. A \in Int /\ B \in Int /\ D \in Int
  OBVIOUS
<1>5. \A x, y \in Int : (n * x - s) * (n * y - s) = A * (x * y) + B * x + B * y + D
  BY SMTT(30)
<1>6. B * s = -(n * D) /\ n * D \in Int
  OBVIOUS
<1> HIDE DEF m, w, r, A, B, D
<1>7. \A i \in 1 .. m : r[i] = A * w[i] + B * a[i] + B * b[i] + D
  <2> SUFFICES ASSUME NEW i \in 1 .. m PROVE r[i] = A * w[i] + B * a[i] + B * b[i] + D
    OBVIOUS
  <2>1. a[i] \in Int /\ b[i] \in Int
    BY <1>1
  <2>2. (n * a[i] - s) * (n * b[i] - s) = A * (a[i] * b[i]) + B * a[i] + B * b[i] + D
    BY <1>5, <2>1
  <2>3. QED
    BY <1>2, <1>3, <2>2
<1>8. Sum(r) = A * Sum(w) + B * Sum(a) + B * Sum(b) + m * D /\ Sum(w) \in Int
  <2>1. \A i \in 1 .. m : /\ w[i] \in Int /\ a[i] \in Int /\ b[i] \in Int
                          /\ r[i] = A * w[i] + B * a[i] + B * b[i] + D
    BY <1>1, <1>2, <1>7
  <2>2. Len(a) = m
    BY DEF m
  <2>3. Combines(r, w, a, b, m, A, B, B, D)
    BY <1>1, <1>2, <1>3, <1>4, <2>1, <2>2 DEF Combines
  <2>4. QED
    BY <2>3, SumCombined
<1>9. Sum(r) = A * Sum(w) - 2 * (n * D) + m * D
  <2>1. A * Sum(w) \in Int /\ m * D \in Int
    BY <1>1, <1>4, <1>8
  <2>2. Sum(r) = A * Sum(w) + (-(n * D)) + (-(n * D)) + m * D
    BY <1>6, <1>8
  <2>3. QED
    BY <1>6, <2>1, <2>2
<1>10. QED
  BY <1>9 DEF r, A, w, D, m

-----------------------------------------------------------------------------
(* Digits *)

\* w are the weights of n digits of base B, from that of the first on.
Weights(w, B, n) ==
  /\ n \in Nat /\ B \in Nat /\ B > 1
  /\ w[0] = 1
  /\ \A k \in 0 .. n : w[k] \in Nat /\ w[k] > 0
  /\ \A k \in 1 .. n : w[k] = B * w[k - 1]

\* What the digits d are worth; they may be negative, or too large.
Worth(d, w) == [i \in 1 .. Len(d) |-> d[i] * w[i - 1]]

Numeral(d, w, B, n) ==
  /\ Weights(w, B, n)
  /\ Len(d) = n /\ \A i \in 1 .. n : d[i] \in Int

(* The sums of what digits are worth, one by one *)
LEMMA WorthStep ==
  ASSUME NEW d, NEW w, NEW B, NEW n, Numeral(d, w, B, n)
  PROVE  /\ SumsOf(Worth(d, w))[0] = 0
         /\ \A k \in 1 .. n : SumsOf(Worth(d, w))[k] = SumsOf(Worth(d, w))[k - 1] + d[k] * w[k - 1]
         /\ \A k \in 0 .. n : SumsOf(Worth(d, w))[k] \in Int
         /\ Sum(Worth(d, w)) = SumsOf(Worth(d, w))[n]
<1> DEFINE W == Worth(d, w)
<1>1. n \in Nat /\ Len(d) = n /\ \A i \in 1 .. n : d[i] \in Int /\ w[i - 1] \in Int
  BY DEF Numeral, Weights
<1>2. Len(W) = n /\ \A i \in 1 .. n : W[i] = d[i] * w[i - 1]
  BY <1>1 DEF Worth
<1>3. \A i \in 1 .. n : W[i] \in Int
  <2>1. \A x, y \in Int : x * y \in Int
    OBVIOUS
  <2>2. QED
    BY <1>1, <1>2, <2>1
<1> HIDE DEF W
<1>4. SumsOf(W)[0] = 0 /\ \A k \in 1 .. n : SumsOf(W)[k] = SumsOf(W)[k - 1] + W[k]
  BY <1>1, <1>2, SumsStep
<1>5. \A k \in 0 .. n : SumsOf(W)[k] \in Int
  BY <1>1, <1>2, <1>3, SumsType
<1>6. Sum(W) = SumsOf(W)[n]
  BY <1>2 DEF Sum
<1>7. QED
  BY <1>2, <1>4, <1>5, <1>6 DEF W

(* The first digits are worth less than the one behind them. *)
LEMMA DigitsBelow ==
  ASSUME NEW d, NEW w, NEW B, NEW n, Numeral(d, w, B, n),
         NEW m \in 0 .. n, \A i \in 1 .. m : d[i] \in 0 .. B - 1
  PROVE  SumsOf(Worth(d, w))[m] \in 0 .. w[m] - 1
<1> DEFINE S == SumsOf(Worth(d, w))
           T == {k \in Nat : k <= m => S[k] \in 0 .. w[k] - 1}
<1>1. /\ n \in Nat /\ B \in Nat /\ B > 1 /\ w[0] = 1
      /\ \A k \in 0 .. n : w[k] \in Nat /\ w[k] > 0
      /\ \A k \in 1 .. n : w[k] = B * w[k - 1]
  BY DEF Numeral, Weights
<1>2. /\ S[0] = 0 /\ \A k \in 1 .. n : S[k] = S[k - 1] + d[k] * w[k - 1]
      /\ \A k \in 0 .. n : S[k] \in Int
  BY WorthStep
<1> HIDE DEF S
<1>3. 0 \in T
  BY <1>1, <1>2
<1>4. ASSUME NEW k \in Nat, k \in T PROVE k + 1 \in T
  <2>1. SUFFICES ASSUME k + 1 <= m PROVE S[k + 1] \in 0 .. w[k + 1] - 1
    OBVIOUS
  <2>2. k + 1 \in 1 .. n /\ k + 1 \in 1 .. m /\ (k + 1) - 1 = k /\ k \in 0 .. n
    BY <1>1, <2>1
  <2> DEFINE s == S[k]
             v == w[k]
             x == d[k + 1]
  <2>3. s \in 0 .. v - 1 /\ v \in Nat /\ v > 0 /\ x \in 0 .. B - 1
    BY <1>1, <1>4, <2>1, <2>2
  <2>4. S[k + 1] = s + x * v /\ w[k + 1] = B * v
    BY <1>1, <1>2, <2>2
  <2> HIDE DEF s, v, x
  <2>5. x * v >= 0 /\ x * v \in Int /\ B * v \in Int
    BY <1>1, <2>3
  <2>6. x * v <= (B - 1) * v
    BY <1>1, <2>3
  <2>7. (B - 1) * v = B * v - v
    BY <1>1, <2>3
  <2>8. QED
    BY <2>3, <2>4, <2>5, <2>6, <2>7
<1> HIDE DEF T
<1>5. Nat \subseteq T
  BY <1>3, <1>4, Induct
<1>6. m \in T
  BY <1>1, <1>5
<1>7. S[m] \in 0 .. w[m] - 1
  BY <1>6 DEF T
<1>8. QED
  BY <1>7 DEF S

(* The digits from one on are worth a multiple of its weight, and so is one more
   digit than there are. *)
LEMMA DigitsAbove ==
  ASSUME NEW d, NEW w, NEW B, NEW n, Numeral(d, w, B, n), NEW k \in 0 .. n
  PROVE  /\ \E Z \in Int : SumsOf(Worth(d, w))[n] = SumsOf(Worth(d, w))[k] + w[k] * Z
         /\ \E Q \in Int : w[n] = w[k] * Q
<1> DEFINE S == SumsOf(Worth(d, w))
           Multiple(m) == /\ \E Z \in Int : S[m] = S[k] + w[k] * Z
                          /\ \E Q \in Int : w[m] = w[k] * Q
           T == {j \in Nat : k + j <= n => Multiple(k + j)}
<1>1. /\ n \in Nat /\ B \in Nat /\ k \in Nat
      /\ \A i \in 0 .. n : w[i] \in Int
      /\ \A i \in 1 .. n : w[i] = B * w[i - 1] /\ d[i] \in Int
  BY DEF Numeral, Weights
<1>2. /\ \A i \in 1 .. n : S[i] = S[i - 1] + d[i] * w[i - 1]
      /\ \A i \in 0 .. n : S[i] \in Int
  BY WorthStep
<1> HIDE DEF S
<1>3. 0 \in T
  <2>1. k + 0 = k /\ S[k] = S[k] + w[k] * 0 /\ w[k] = w[k] * 1
    BY <1>1, <1>2
  <2>2. Multiple(k)
    BY <2>1
  <2> HIDE DEF Multiple
  <2>3. QED
    BY <2>1, <2>2
<1>4. ASSUME NEW j \in Nat, j \in T PROVE j + 1 \in T
  <2>1. SUFFICES ASSUME k + (j + 1) <= n PROVE Multiple(k + (j + 1))
    OBVIOUS
  <2> DEFINE m == k + j
             x == d[m + 1]
  <2>2. k + (j + 1) = m + 1 /\ m \in 0 .. n /\ m + 1 \in 1 .. n /\ (m + 1) - 1 = m
    BY <1>1, <2>1
  <2>3. Multiple(m)
    BY <1>1, <1>4, <2>1
  <2>4. PICK Z \in Int : S[m] = S[k] + w[k] * Z
    BY <2>3
  <2>5. PICK Q \in Int : w[m] = w[k] * Q
    BY <2>3
  <2>6. S[m + 1] = S[m] + x * w[m] /\ w[m + 1] = B * w[m] /\ x \in Int
    BY <1>1, <1>2, <2>2
  <2>7. w[k] \in Int /\ S[k] \in Int
    BY <1>1, <1>2
  <2> HIDE DEF m, x, Multiple
  <2>8. x * (w[k] * Q) = w[k] * (x * Q) /\ B * (w[k] * Q) = w[k] * (B * Q)
    BY <1>1, <2>6, <2>7
  <2>9. w[k] * (Z + x * Q) = w[k] * Z + w[k] * (x * Q)
    BY <2>6, <2>7
  <2>10. S[m + 1] = S[k] + w[k] * (Z + x * Q) /\ Z + x * Q \in Int
    <3>1. w[k] * Z \in Int /\ w[k] * (x * Q) \in Int
      BY <2>6, <2>7
    <3>2. QED
      BY <2>4, <2>5, <2>6, <2>7, <2>8, <2>9, <3>1
  <2>11. w[m + 1] = w[k] * (B * Q) /\ B * Q \in Int
    BY <1>1, <2>5, <2>6, <2>8
  <2>12. QED
    BY <2>2, <2>10, <2>11 DEF Multiple
<1> HIDE DEF T
<1>5. Nat \subseteq T
  BY <1>3, <1>4, Induct
<1>6. Multiple(n)
  <2>1. n - k \in Nat /\ k + (n - k) = n
    BY <1>1
  <2>2. n - k \in T
    BY <1>5, <2>1
  <2> HIDE DEF Multiple
  <2>3. QED
    BY <1>1, <2>1, <2>2 DEF T
<1>7. QED
  BY <1>6 DEF S

(* Where the digits before digit i are in order, it is found again by dividing,
   even if the number was too large, or below zero, and has wrapped around. *)
LEMMA DigitFound ==
  ASSUME NEW d, NEW w, NEW B, NEW n, Numeral(d, w, B, n),
         NEW i \in 1 .. n, \A j \in 1 .. i - 1 : d[j] \in 0 .. B - 1
  PROVE  ((Sum(Worth(d, w)) % w[n]) \div w[i - 1]) % B = d[i] % B
<1> DEFINE S == SumsOf(Worth(d, w))
           P == S[i - 1]
           v == w[i - 1]
           x == d[i]
           u == w[n]
<1>1. /\ n \in Nat /\ B \in Nat \ {0} /\ v \in Nat \ {0} /\ u \in Nat \ {0} /\ x \in Int
      /\ w[i] = B * v /\ i - 1 \in 0 .. n /\ i \in 0 .. n
  BY DEF Numeral, Weights
<1>2. S[i] = P + x * v /\ S[n] \in Int /\ S[i] \in Int /\ Sum(Worth(d, w)) = S[n]
  BY <1>1, WorthStep
<1>3. P \in 0 .. v - 1
  BY <1>1, DigitsBelow
<1>4. PICK Z \in Int, Q \in Int : S[n] = S[i] + w[i] * Z /\ u = w[i] * Q
  BY <1>1, DigitsAbove
<1> DEFINE q == S[n] \div u
           X == S[n] % u
           R == x + B * (Z - Q * q)
<1>5. q \in Int /\ S[n] = u * q + X /\ X \in Int
  <2> HIDE DEF S, u
  <2>1. S[n] \in Int /\ u \in Nat \ {0}
    BY <1>1, <1>2
  <2> DEFINE s == S[n]
  <2> HIDE DEF s
  <2>2. s \in Int /\ u \in Nat \ {0}
    BY <2>1 DEF s
  <2>3. s \div u \in Int /\ s = u * (s \div u) + (s % u) /\ s % u \in 0 .. u - 1
    BY <2>2, DivMod, ModInRange
  <2>4. s % u \in Int
    BY <2>2, <2>3
  <2>5. QED
    BY <2>3, <2>4 DEF s
<1> HIDE DEF S, P, v, x, u, q, X
<1>6. X = P + v * R /\ R \in Int
  <2>1. /\ B * v * Z = v * (B * Z) /\ B * v * Q * q = v * (B * (Q * q))
        /\ v * (B * Z) \in Int /\ v * (B * (Q * q)) \in Int
    BY <1>1, <1>5
  <2>2. v * R = v * x + v * (B * Z) - v * (B * (Q * q))
    BY <1>1, <1>5
  <2>3. x * v = v * x /\ v * x \in Int /\ P \in Int /\ R \in Int
    BY <1>1, <1>3, <1>5
  <2>4. X = (P + x * v) + B * v * Z - B * v * Q * q
    BY <1>1, <1>2, <1>4, <1>5
  <2> HIDE DEF R
  <2>5. QED
    BY <2>1, <2>2, <2>3, <2>4
<1>7. X \div v = R
  <2>1. X = v * R + P
    BY <1>1, <1>3, <1>6
  <2> HIDE DEF R
  <2>2. QED
    BY <1>1, <1>3, <1>6, <2>1
<1>8. R % B = x % B
  <2> DEFINE m == Z - Q * q
  <2>1. m \in Int
    BY <1>5
  <2>2. R = x + B * m
    BY <1>1, <2>1
  <2> HIDE DEF m, R
  <2>3. QED
    BY <1>1, <2>1, <2>2, ModShift
<1>9. QED
  BY <1>2, <1>7, <1>8 DEF X, v, u, x

Differ(x, d, e, n) == \A i \in 1 .. n : x[i] = d[i] - e[i]

(* The sum of what differences of digits are worth is the difference. *)
LEMMA WorthOfDifference ==
  ASSUME NEW d, NEW e, NEW x, NEW w, NEW B, NEW n,
         Numeral(d, w, B, n), Numeral(e, w, B, n), Numeral(x, w, B, n),
         Differ(x, d, e, n)
  PROVE  Sum(Worth(x, w)) = Sum(Worth(d, w)) - Sum(Worth(e, w))
<1> DEFINE D == Worth(d, w)
           E == Worth(e, w)
           X == Worth(x, w)
<1>1. /\ n \in Nat /\ Len(d) = n /\ Len(e) = n /\ Len(x) = n
      /\ \A i \in 1 .. n : d[i] \in Int /\ e[i] \in Int /\ x[i] \in Int /\ w[i - 1] \in Int
  BY DEF Numeral, Weights
<1>2. /\ Len(D) = n /\ Len(E) = n /\ Len(X) = n
      /\ \A i \in 1 .. n : D[i] = d[i] * w[i - 1] /\ E[i] = e[i] * w[i - 1] /\ X[i] = x[i] * w[i - 1]
  BY <1>1 DEF Worth
<1> HIDE DEF D, E, X
<1>3. ASSUME NEW i \in 1 .. n
      PROVE  D[i] \in Int /\ E[i] \in Int /\ X[i] = 1 * D[i] + (-1) * E[i] + 0 * D[i] + 0
  <2> DEFINE a == d[i]
             b == e[i]
             v == w[i - 1]
  <2>1. a \in Int /\ b \in Int /\ v \in Int
    BY <1>1
  <2>2. D[i] = a * v /\ E[i] = b * v /\ X[i] = (a - b) * v
    BY <1>2 DEF Differ
  <2> HIDE DEF a, b, v
  <2>3. (a - b) * v = a * v - b * v /\ a * v \in Int /\ b * v \in Int
    BY <2>1
  <2>4. QED
    BY <2>2, <2>3
<1>4. Combines(X, D, E, D, n, 1, -1, 0, 0)
  BY <1>1, <1>2, <1>3 DEF Combines
<1>5. /\ Sum(X) = 1 * Sum(D) + (-1) * Sum(E) + 0 * Sum(D) + n * 0
      /\ Sum(D) \in Int /\ Sum(E) \in Int
  BY <1>4, SumCombined
<1>6. Sum(X) = Sum(D) - Sum(E)
  BY <1>1, <1>5
<1>7. QED
  BY <1>6 DEF D, E, X

(* Of two numbers the digits are the same if the numbers are. *)
LEMMA SameDigits ==
  ASSUME NEW d, NEW e, NEW w, NEW B, NEW n, Numeral(d, w, B, n), Numeral(e, w, B, n),
         \A i \in 1 .. n : d[i] \in 0 .. B - 1 /\ e[i] \in 0 .. B - 1,
         Sum(Worth(d, w)) = Sum(Worth(e, w))
  PROVE  \A i \in 1 .. n : d[i] = e[i]
<1> SUFFICES ASSUME NEW i \in 1 .. n PROVE d[i] = e[i]
  OBVIOUS
<1>1. n \in Nat /\ B \in Nat \ {0}
  BY DEF Numeral, Weights
<1>2. \A j \in 1 .. i - 1 : d[j] \in 0 .. B - 1 /\ e[j] \in 0 .. B - 1
  BY <1>1
<1>3. /\ ((Sum(Worth(d, w)) % w[n]) \div w[i - 1]) % B = d[i] % B
      /\ ((Sum(Worth(e, w)) % w[n]) \div w[i - 1]) % B = e[i] % B
  BY <1>2, DigitFound
<1>4. d[i] % B = e[i] % B
  BY <1>3
<1>5. d[i] % B = d[i] /\ e[i] % B = e[i]
  BY <1>1, ModOfSmall
<1>6. QED
  BY <1>4, <1>5

(* Of some of the numbers up to n one is the least. *)
LEMMA LeastOf ==
  ASSUME NEW n \in Nat, NEW P, P \subseteq 1 .. n, P # {}
  PROVE  \E i \in P : \A j \in P : i <= j
<1> DEFINE T == {k \in Nat : (\E i \in P : i <= k) => \E i \in P : \A j \in P : i <= j}
<1>1. 0 \in T
  OBVIOUS
<1>2. ASSUME NEW k \in Nat, k \in T PROVE k + 1 \in T
  <2> SUFFICES ASSUME NEW i \in P, i <= k + 1 PROVE \E h \in P : \A j \in P : h <= j
    OBVIOUS
  <2>1. CASE \E j \in P : j <= k
    BY <1>2, <2>1
  <2>2. CASE ~ \E j \in P : j <= k
    BY <2>2
  <2>3. QED
    BY <2>1, <2>2
<1> HIDE DEF T
<1>3. Nat \subseteq T
  BY <1>1, <1>2, Induct
<1>4. n \in T
  BY <1>3
<1>5. \E i \in P : i <= n
  <2>1. PICK i : i \in P
    OBVIOUS
  <2>2. i <= n
    BY <2>1
  <2>3. QED
    BY <2>1, <2>2
<1>6. QED
  BY <1>4, <1>5 DEF T
=============================================================================
