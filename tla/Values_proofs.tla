---------------------------- MODULE Values_proofs ----------------------------
(***************************************************************************)
(* Proofs about the functions without a state, for all values of the       *)
(* constants: the arithmetic of times, the comparisons and divisions of    *)
(* numbers, short texts in integers, and the statistics of samples of any  *)
(* number and size.                                                        *)
(***************************************************************************)
EXTENDS Values, NumberLemmas

-----------------------------------------------------------------------------
(* The machine *)

(* An input of each kind is one that was picked so. *)
LEMMA Picked ==
  ASSUME Next
  PROVE  /\ probe'.kind = "specs" => PickSpecs
         /\ probe'.kind = "stamp" => PickStamp
         /\ probe'.kind = "day" => PickDay
         /\ probe'.kind = "duration" => PickDuration
         /\ probe'.kind = "doubles" => PickDoubles
         /\ probe'.kind = "integers" => PickIntegers
         /\ probe'.kind = "text" => PickText
         /\ probe'.kind = "texts" => PickTexts
         /\ probe'.kind = "samples" => PickSamples
         /\ probe'.kind = "pairs" => PickPairs
<1>1. \/ PickDoubles /\ probe'.kind = "doubles"
      \/ PickIntegers /\ probe'.kind = "integers"
      \/ PickText /\ probe'.kind = "text"
      \/ PickTexts /\ probe'.kind = "texts"
      \/ probe'.kind \in {"time", "date", "argument", "set", "list"}
      \/ PickSpecs /\ probe'.kind = "specs"
      \/ PickStamp /\ probe'.kind = "stamp"
      \/ PickDay /\ probe'.kind = "day"
      \/ PickDuration /\ probe'.kind = "duration"
      \/ PickSamples /\ probe'.kind = "samples"
      \/ PickPairs /\ probe'.kind = "pairs"
  <2>1. PickDoubles => probe'.kind = "doubles"
    BY DEF PickDoubles
  <2>2. PickIntegers => probe'.kind = "integers"
    BY DEF PickIntegers
  <2>3. PickText => probe'.kind = "text"
    BY DEF PickText
  <2>4. PickTexts => probe'.kind = "texts"
    BY DEF PickTexts
  <2>5. PickSpecs => probe'.kind = "specs"
    BY DEF PickSpecs
  <2>6. PickStamp => probe'.kind = "stamp"
    BY DEF PickStamp
  <2>7. PickDay => probe'.kind = "day"
    BY DEF PickDay
  <2>8. PickDuration => probe'.kind = "duration"
    BY DEF PickDuration
  <2>9. PickTime => probe'.kind = "time"
    BY DEF PickTime
  <2>10. PickDate => probe'.kind = "date"
    BY DEF PickDate
  <2>11. PickSamples => probe'.kind = "samples"
    BY DEF PickSamples
  <2>12. PickPairs => probe'.kind = "pairs"
    BY DEF PickPairs
  <2>13. PickArgument => probe'.kind = "argument"
    BY DEF PickArgument
  <2>14. PickSet => probe'.kind = "set"
    BY DEF PickSet
  <2>15. PickList => probe'.kind = "list"
    BY DEF PickList
  <2>16. QED
    BY <2>1, <2>2, <2>3, <2>4, <2>5, <2>6, <2>7, <2>8, <2>9, <2>10, <2>11, <2>12, <2>13, <2>14, <2>15
       DEF Next
<1>2. QED
  BY <1>1

-----------------------------------------------------------------------------
(* Quotients that round towards zero *)

(* A number is its quotient times N and its remainder; both have its sign. *)
LEMMA QuotRem ==
  ASSUME NEW N \in Nat \ {0}, NEW a \in Int
  PROVE  /\ Time!Quot(a, N) \in Int /\ Time!Rem(a, N) \in Int
         /\ a = N * Time!Quot(a, N) + Time!Rem(a, N)
         /\ a >= 0 => Time!Quot(a, N) >= 0 /\ Time!Rem(a, N) \in 0 .. N - 1
         /\ a < 0 => Time!Quot(a, N) <= 0 /\ Time!Rem(a, N) \in 1 - N .. 0
<1>1. CASE a >= 0
  <2> DEFINE q == a \div N
             r == a % N
  <2>1. q \in Int /\ a = N * q + r /\ r \in 0 .. N - 1
    BY DivMod, ModInRange
  <2>2. q >= 0
    BY <1>1
  <2>3. Time!Quot(a, N) = q
    BY <1>1 DEF Time!Quot
  <2> HIDE DEF q, r
  <2>4. N * q \in Int /\ Time!Rem(a, N) = a - N * q
    BY <2>1, <2>3 DEF Time!Rem
  <2>5. QED
    BY <1>1, <2>1, <2>2, <2>3, <2>4
<1>2. CASE a < 0
  <2> DEFINE q == (-a) \div N
             r == (-a) % N
  <2>1. q \in Int /\ -a = N * q + r /\ r \in 0 .. N - 1
    BY DivMod, ModInRange, SMTT(30)
  <2>2. q >= 0
    BY <1>2
  <2>3. Time!Quot(a, N) = -q
    BY <1>2 DEF Time!Quot
  <2> HIDE DEF q, r
  <2>4. N * q \in Int /\ N * (-q) = -(N * q) /\ Time!Rem(a, N) = a - N * (-q)
    BY <2>1, <2>3 DEF Time!Rem
  <2>5. QED
    BY <1>2, <2>1, <2>2, <2>3, <2>4
<1>3. QED
  BY <1>1, <1>2

(* A remainder is nearer to zero than the divisor. *)
LEMMA RemWithin ==
  ASSUME NEW N \in Nat \ {0}, NEW a \in Int
  PROVE  /\ Time!Quot(a, N) \in Int /\ Time!Rem(a, N) \in 1 - N .. N - 1
         /\ a = N * Time!Quot(a, N) + Time!Rem(a, N)
<1>1. CASE a >= 0
  BY <1>1, QuotRem
<1>2. CASE a < 0
  BY <1>2, QuotRem
<1>3. QED
  BY <1>1, <1>2

(* Of two numbers, the one with the smaller quotient or, if they are the same,
   the smaller remainder, is the smaller. *)
LEMMA InLexicalOrder ==
  ASSUME NEW N \in Nat \ {0}, NEW q \in Int, NEW p \in Int, NEW r \in 0 .. N - 1, NEW s \in 0 .. N - 1
  PROVE  (q < p \/ (q = p /\ r < s)) <=> N * q + r < N * p + s
<1>1. N * q \in Int /\ N * p \in Int
  OBVIOUS
<1>2. CASE q < p
  <2>1. N * p = N * q + N + N * (p - q - 1)
    OBVIOUS
  <2>2. N * (p - q - 1) >= 0
    BY <1>2
  <2>3. QED
    BY <1>1, <1>2, <2>1, <2>2
<1>3. CASE q = p
  BY <1>1, <1>3
<1>4. CASE p < q
  <2>1. N * q = N * p + N + N * (q - p - 1)
    OBVIOUS
  <2>2. N * (q - p - 1) >= 0
    BY <1>4
  <2>3. QED
    BY <1>1, <1>4, <2>1, <2>2
<1>5. QED
  BY <1>2, <1>3, <1>4

(* Quotient and remainder are determined. *)
LEMMA OneQuotient ==
  ASSUME NEW N \in Nat \ {0}, NEW q \in Int, NEW p \in Int, NEW r \in 0 .. N - 1, NEW s \in 0 .. N - 1,
         N * q + r = N * p + s
  PROVE  q = p /\ r = s
<1>1. N * q \in Int /\ N * p \in Int
  OBVIOUS
<1>2. ~ (N * q + r < N * p + s) /\ ~ (N * p + s < N * q + r)
  BY <1>1
<1>3. ~ (q < p \/ (q = p /\ r < s)) /\ ~ (p < q \/ (p = q /\ s < r))
  BY <1>2, InLexicalOrder
<1>4. QED
  BY <1>3

-----------------------------------------------------------------------------
(* timespec *)

Timespec == [sec : Int, nsec : Int]
Tidy(ts) == ts \in Timespec /\ ts.nsec \in 0 .. Second - 1

LEMMA SecondIsPositive == ASSUME Time!Params PROVE Second \in Nat \ {0} /\ Time!NS_IN_1_SEC = Second
BY DEF Time!Params, Second, Time!NS_IN_1_SEC

(* A sum is in order and that many nanoseconds later, whatever the sign of either. *)
THEOREM SumIsExact ==
  ASSUME Time!Params, NEW ts \in Timespec, NEW ns \in Int
  PROVE  Tidy(Time!Plus(ts, ns)) /\ Time!Span(Time!Plus(ts, ns)) = Time!Span(ts) + ns
<1> DEFINE N == Second
           qn == Time!Quot(ns, N)
           rn == Time!Rem(ns, N)
           qt == Time!Quot(ts.nsec, N)
           rt == Time!Rem(ts.nsec, N)
           qs == Time!Quot(rn + rt, N)
           rest == Time!Rem(rn + rt, N)
           qr == Time!Quot(rest + N, N)
           nsec == Time!Rem(rest + N, N)
           qb == Time!Quot(rest - nsec, N)
           rb == Time!Rem(rest - nsec, N)
           sum == Time!Plus(ts, ns)
<1>1. N \in Nat \ {0} /\ Time!NS_IN_1_SEC = N
  BY SecondIsPositive
<1>2. ts.sec \in Int /\ ts.nsec \in Int
  BY DEF Timespec
<1>3. sum = [sec |-> ts.sec + qt + qn + qs + qb, nsec |-> nsec]
  BY <1>1 DEF Time!Plus
<1> HIDE DEF N
<1>4. qn \in Int /\ rn \in Int /\ ns = N * qn + rn
  BY <1>1, QuotRem
<1>5. qt \in Int /\ rt \in Int /\ ts.nsec = N * qt + rt
  BY <1>1, <1>2, QuotRem
<1>6. qs \in Int /\ rest \in 1 - N .. N - 1 /\ rn + rt = N * qs + rest
  <2> HIDE DEF rn, rt
  <2>1. rn + rt \in Int
    BY <1>4, <1>5
  <2>2. QED
    BY <1>1, <2>1, RemWithin
<1>7. qr \in Int /\ nsec \in 0 .. N - 1 /\ rest + N = N * qr + nsec
  <2> HIDE DEF rest
  <2>1. rest + N \in Int /\ rest + N >= 0
    BY <1>1, <1>6
  <2>2. QED
    BY <1>1, <2>1, QuotRem
<1>8. qb \in Int /\ rest - nsec = N * qb
  <2>1. qb \in Int /\ rb \in 1 - N .. N - 1 /\ rest - nsec = N * qb + rb
    <3> HIDE DEF rest, nsec
    <3>1. rest - nsec \in Int
      BY <1>1, <1>6, <1>7
    <3>2. QED
      BY <1>1, <3>1, RemWithin
  <2> HIDE DEF rest, nsec, qb, rb, qr
  <2>2. rb = N * (qr - 1 - qb)
    <3>1. N * (qr - 1 - qb) = N * qr - N - N * qb /\ N * qr \in Int /\ N * qb \in Int
      BY <1>1, <1>7, <2>1
    <3>2. QED
      BY <1>1, <1>6, <1>7, <2>1, <3>1
  <2>3. qr - 1 - qb = 0
    <3> DEFINE d == qr - 1 - qb
    <3>1. d \in Int /\ -N < N * d /\ N * d < N
      BY <1>1, <1>7, <2>1, <2>2
    <3> HIDE DEF d
    <3>2. d = 0
      BY <1>1, <3>1, SmallMultiple
    <3>3. QED
      BY <3>2 DEF d
  <2>4. rb = 0
    BY <1>1, <2>2, <2>3
  <2>5. N * qb \in Int
    BY <1>1, <2>1
  <2>6. QED
    BY <2>1, <2>4, <2>5
<1> HIDE DEF qn, rn, qt, rt, qs, rest, nsec, qb, sum
<1>9. Tidy(sum)
  BY <1>1, <1>2, <1>3, <1>4, <1>5, <1>6, <1>7, <1>8 DEF Tidy, Timespec, N
<1>10. Time!Span(sum) = Time!Span(ts) + ns
  <2>1. sum.sec = ts.sec + qt + qn + qs + qb /\ sum.nsec = nsec
    BY <1>3
  <2>2. /\ (ts.sec + qt + qn + qs + qb) * N = ts.sec * N + N * qt + N * qn + N * qs + N * qb
        /\ ts.sec * N \in Int /\ N * qt \in Int /\ N * qn \in Int /\ N * qs \in Int /\ N * qb \in Int
    BY <1>1, <1>2, <1>4, <1>5, <1>6, <1>8
  <2>3. Time!Span(sum) = sum.sec * N + sum.nsec /\ Time!Span(ts) = ts.sec * N + ts.nsec
    BY <1>1 DEF Time!Span
  <2>4. rest \in Int /\ nsec \in Int
    BY <1>1, <1>6, <1>7
  <2>5. QED
    BY <1>2, <1>4, <1>5, <1>6, <1>8, <2>1, <2>2, <2>3, <2>4
<1>11. QED
  BY <1>9, <1>10 DEF sum

(* What is in order is determined by how long it is. *)
LEMMA TidyIsUnique ==
  ASSUME Time!Params, NEW a, NEW b, Tidy(a), Tidy(b), Time!Span(a) = Time!Span(b)
  PROVE  a = b
<1>1. /\ Second \in Nat \ {0}
      /\ a \in Timespec /\ a.sec \in Int /\ a.nsec \in 0 .. Second - 1
      /\ b \in Timespec /\ b.sec \in Int /\ b.nsec \in 0 .. Second - 1
  BY SecondIsPositive DEF Tidy, Timespec
<1>2. Second * a.sec + a.nsec = Second * b.sec + b.nsec
  BY <1>1, SecondIsPositive DEF Time!Span
<1>3. a.sec = b.sec /\ a.nsec = b.nsec
  BY <1>1, <1>2, OneQuotient
<1>4. QED
  BY <1>1, <1>3 DEF Timespec

LEMMA SpanType ==
  ASSUME Time!Params, NEW ts \in Timespec
  PROVE  Time!Span(ts) \in Int
BY SecondIsPositive DEF Time!Span, Timespec

(* Of what is in order, the comparisons tell which is longer. *)
LEMMA LessIsShorter ==
  ASSUME Time!Params, NEW a, NEW b, Tidy(a), Tidy(b)
  PROVE  /\ Time!Less(a, b) <=> Time!Span(a) < Time!Span(b)
         /\ Time!Greater(a, b) <=> Time!Span(a) > Time!Span(b)
         /\ Time!Since(a, b) = Time!Span(a) - Time!Span(b)
<1>1. /\ Second \in Nat \ {0}
      /\ a.sec \in Int /\ a.nsec \in 0 .. Second - 1
      /\ b.sec \in Int /\ b.nsec \in 0 .. Second - 1
  BY SecondIsPositive DEF Tidy, Timespec
<1>2. /\ Time!Span(a) = Second * a.sec + a.nsec
      /\ Time!Span(b) = Second * b.sec + b.nsec
  BY <1>1, SecondIsPositive DEF Time!Span
<1>3. Time!Less(a, b) <=> Time!Span(a) < Time!Span(b)
  <2>1. (a.sec < b.sec \/ (a.sec = b.sec /\ a.nsec < b.nsec))
          <=> Second * a.sec + a.nsec < Second * b.sec + b.nsec
    BY <1>1, InLexicalOrder, Zenon
  <2>2. QED
    BY <1>2, <2>1 DEF Time!Less
<1>4. Time!Greater(a, b) <=> Time!Span(a) > Time!Span(b)
  <2>1. (b.sec < a.sec \/ (b.sec = a.sec /\ b.nsec < a.nsec))
          <=> Second * b.sec + b.nsec < Second * a.sec + a.nsec
    BY <1>1, InLexicalOrder, Zenon
  <2>2. Time!Span(a) \in Int /\ Time!Span(b) \in Int
    BY <1>1, <1>2
  <2>3. QED
    BY <1>1, <1>2, <2>1, <2>2 DEF Time!Greater
<1>5. Time!Since(a, b) = Time!Span(a) - Time!Span(b)
  <2>1. /\ (a.sec - b.sec) * Second = Second * a.sec - Second * b.sec
        /\ Second * a.sec \in Int /\ Second * b.sec \in Int
    BY <1>1
  <2>2. Time!Since(a, b) = (a.sec - b.sec) * Second + a.nsec - b.nsec
    BY SecondIsPositive DEF Time!Since
  <2>3. QED
    BY <1>1, <1>2, <2>1, <2>2
<1>6. QED
  BY <1>3, <1>4, <1>5

LEMMA SpecTypes ==
  ASSUME Time!Params
  PROVE  Specs \subseteq Timespec /\ Nanoseconds \subseteq Int
<1>1. Nanoseconds \subseteq Int
  BY SecondIsPositive DEF Nanoseconds
<1>2. QED
  BY <1>1 DEF Specs, Timespec

LEMMA PlusIsExactHolds == ASSUME Next PROVE PlusIsExact'
<1> SUFFICES ASSUME probe'.kind = "specs" PROVE PlusIsExact'
  BY DEF PlusIsExact, Kind
<1>1. PICK ts \in Specs, us \in Specs, ns \in Nanoseconds :
        probe' = [kind |-> "specs", ts |-> ts, us |-> us, ns |-> ns]
  BY Picked, Zenon DEF PickSpecs
<1> DEFINE sum == Time!Plus(ts, ns)
<1>2. Time!Params
  BY ParamsAssumption
<1>3. ts \in Timespec /\ ns \in Int /\ -ns \in Int
  BY <1>2, SpecTypes
<1>4. Tidy(sum) /\ Time!Span(sum) = Time!Span(ts) + ns
  BY <1>2, <1>3, SumIsExact
<1>5. Time!Minus(sum, ns) = Time!Plus(ts, 0)
  <2> DEFINE back == Time!Plus(sum, -ns)
             same == Time!Plus(ts, 0)
  <2> HIDE DEF sum
  <2>1. sum \in Timespec
    BY <1>4 DEF Tidy
  <2>2. Tidy(back) /\ Time!Span(back) = Time!Span(sum) + (-ns)
    BY <1>2, <1>3, <2>1, SumIsExact
  <2>3. Tidy(same) /\ Time!Span(same) = Time!Span(ts) + 0
    BY <1>2, <1>3, SumIsExact
  <2>4. Time!Span(ts) \in Int
    BY <1>2, <1>3, SpanType
  <2> HIDE DEF back, same
  <2>5. Time!Span(back) = Time!Span(same)
    BY <1>3, <1>4, <2>2, <2>3, <2>4
  <2>6. back = same
    BY <1>2, <2>2, <2>3, <2>5, TidyIsUnique
  <2>7. QED
    BY <2>6 DEF Time!Minus, back, same
<1>6. probe'.ts = ts /\ probe'.ns = ns
  BY <1>1
<1>7. QED
  BY <1>4, <1>5, <1>6 DEF PlusIsExact, Tidy

LEMMA OrderAgreesHolds == ASSUME Next PROVE OrderAgrees'
<1> SUFFICES ASSUME probe'.kind = "specs" PROVE OrderAgrees'
  BY DEF OrderAgrees, Kind
<1>1. PICK ts \in Specs, us \in Specs, ns \in Nanoseconds :
        probe' = [kind |-> "specs", ts |-> ts, us |-> us, ns |-> ns]
  BY Picked, Zenon DEF PickSpecs
<1>2. Time!Params
  BY ParamsAssumption
<1>3. ts \in Timespec /\ us \in Timespec /\ ns \in Int
  BY <1>2, SpecTypes
<1> DEFINE a == Time!Plus(ts, 0)
           b == Time!Plus(us, 0)
           x == Time!Plus(a, ns)
           y == Time!Plus(b, ns)
<1>4. Tidy(a) /\ Tidy(b)
  BY <1>2, <1>3, SumIsExact
<1> HIDE DEF a, b
<1>5. a \in Timespec /\ b \in Timespec
  BY <1>4 DEF Tidy
<1>6. Tidy(x) /\ Tidy(y) /\ Time!Span(x) = Time!Span(a) + ns /\ Time!Span(y) = Time!Span(b) + ns
  BY <1>2, <1>3, <1>5, SumIsExact
<1> HIDE DEF x, y
<1>7. Time!Span(a) \in Int /\ Time!Span(b) \in Int
  BY <1>2, <1>5, SpanType
<1>8. /\ Time!Less(a, b) <=> Time!Span(a) < Time!Span(b)
      /\ Time!Greater(a, b) <=> Time!Span(a) > Time!Span(b)
      /\ Time!Since(a, b) = Time!Span(a) - Time!Span(b)
      /\ Time!Less(x, y) <=> Time!Span(x) < Time!Span(y)
  BY <1>2, <1>4, <1>6, LessIsShorter
<1>9. a = b <=> Time!Span(a) = Time!Span(b)
  BY <1>2, <1>4, TidyIsUnique
<1>10. /\ Time!Less(a, b) <=> Time!Since(a, b) < 0
       /\ Time!Greater(a, b) <=> Time!Since(a, b) > 0
       /\ Time!Less(a, b) <=> Time!Less(x, y)
       /\ Time!AtMost(a, b) <=> ~Time!Greater(a, b)
       /\ Time!AtLeast(a, b) <=> ~Time!Less(a, b)
  BY <1>3, <1>6, <1>7, <1>8, <1>9 DEF Time!AtMost, Time!AtLeast
<1>11. probe'.ts = ts /\ probe'.us = us /\ probe'.ns = ns
  BY <1>1
<1>12. QED
  BY <1>10, <1>11 DEF OrderAgrees, a, b, x, y

-----------------------------------------------------------------------------
(* Stamps, days and durations *)

(* Three numbers make up a time, each within its unit and all of its sign. *)
THEOREM StampIsExact ==
  ASSUME Time!Params, NEW all \in Int
  PROVE  LET p == Time!SsUsNs(all)
         IN  /\ p.ss * Second + p.us * Kilo + p.ns = all
             /\ Num!Abs(p.us) * Kilo < Second /\ Num!Abs(p.ns) < Kilo
             /\ all < 0 => p.ss <= 0 /\ p.us <= 0 /\ p.ns <= 0
<1> DEFINE p == Time!SsUsNs(all)
           ss == Time!Quot(all, Second)
           rest == Time!Rem(all, Second)
           us == Time!Quot(rest, Kilo)
           n == Time!Rem(rest, Kilo)
<1>1. Second \in Nat \ {0} /\ Kilo \in Nat \ {0}
  BY SecondIsPositive DEF Time!Params
<1>2. p = [ss |-> ss, us |-> us, ns |-> n]
  BY SecondIsPositive DEF Time!SsUsNs
<1>3. /\ ss \in Int /\ rest \in Int /\ all = Second * ss + rest
      /\ all >= 0 => rest \in 0 .. Second - 1
      /\ all < 0 => ss <= 0 /\ rest \in 1 - Second .. 0
  BY <1>1, QuotRem
<1> HIDE DEF rest
<1>4. /\ us \in Int /\ n \in Int /\ rest = Kilo * us + n
      /\ rest >= 0 => us >= 0 /\ n \in 0 .. Kilo - 1
      /\ rest < 0 => us <= 0 /\ n \in 1 - Kilo .. 0
  BY <1>1, <1>3, QuotRem
<1> HIDE DEF ss, us, n, p
<1>5. ss * Second + us * Kilo + n = all
  BY <1>1, <1>3, <1>4
<1>6. Num!Abs(us) * Kilo < Second /\ Num!Abs(n) < Kilo
  <2>1. Kilo * us \in Int /\ (-us) * Kilo = -(Kilo * us) /\ us * Kilo = Kilo * us
    BY <1>1, <1>4
  <2>2. CASE rest >= 0
    BY <1>1, <1>3, <1>4, <2>1, <2>2 DEF Num!Abs
  <2>3. CASE rest < 0
    <3>1. us = 0 \/ us < 0
      BY <1>4, <2>3
    <3>2. us = 0 => us * Kilo = 0
      BY <1>1
    <3>3. QED
      BY <1>1, <1>3, <1>4, <2>1, <2>3, <3>1, <3>2 DEF Num!Abs
  <2>4. QED
    BY <1>3, <2>2, <2>3
<1>7. all < 0 => ss <= 0 /\ us <= 0 /\ n <= 0
  <2> SUFFICES ASSUME all < 0 PROVE us <= 0 /\ n <= 0
    BY <1>3
  <2>1. CASE rest < 0
    BY <1>4, <2>1
  <2>2. CASE rest = 0
    <3>1. 0 = Kilo * us + n /\ n \in 0 .. Kilo - 1 /\ us >= 0
      BY <1>4, <2>2
    <3>2. us = 0 /\ n = 0
      <4>1. Kilo * 0 + 0 = Kilo * us + n /\ 0 \in 0 .. Kilo - 1
        BY <1>1, <3>1
      <4>2. QED
        BY <1>1, <1>4, <3>1, <4>1, OneQuotient
    <3>3. QED
      BY <3>2
  <2>3. QED
    BY <1>3, <2>1, <2>2
<1>8. QED
  BY <1>2, <1>5, <1>6, <1>7 DEF p

LEMMA StampSplitsHolds == ASSUME Next PROVE StampSplits'
<1> SUFFICES ASSUME probe'.kind = "stamp" PROVE StampSplits'
  BY DEF StampSplits, Kind
<1>1. PICK all \in -2 * Second .. 2 * Second : probe' = [kind |-> "stamp", all |-> all]
  BY Picked, Zenon DEF PickStamp
<1>2. Time!Params
  BY ParamsAssumption
<1>3. all \in Int
  BY <1>2, SecondIsPositive
<1>4. probe'.all = all
  BY <1>1
<1>5. QED
  BY <1>2, <1>3, <1>4, StampIsExact DEF StampSplits

Zone == [before : Int, after : Int, at : Int]

LEMMA DayIsPositive ==
  ASSUME Time!Params
  PROVE  /\ Sixty \in Nat \ {0} /\ Sixty * Sixty \in Nat \ {0} /\ Hours \in Nat \ {0}
         /\ Time!DAY = (Sixty * Sixty) * Hours /\ Time!DAY \in Nat \ {0}
<1>1. Sixty \in Nat \ {0} /\ Hours \in Nat \ {0}
  BY DEF Time!Params
<1> DEFINE h == Sixty * Sixty
<1>2. h \in Nat \ {0}
  BY <1>1
<1>3. Time!DAY = h * Hours
  BY <1>1 DEF Time!DAY
<1> HIDE DEF h
<1>4. h * Hours \in Nat \ {0}
  BY <1>1, <1>2
<1>5. QED
  BY <1>1, <1>2, <1>3, <1>4 DEF h

(* floor() is the last midnight of a zone with any offsets, unless the zone has
   switched between the two. *)
THEOREM FloorIsExact ==
  ASSUME Time!Params, NEW zone \in Zone, NEW t \in Int,
         zone.at \notin Time!floor(zone, t) + 1 .. t
  PROVE  /\ Time!Local(zone, Time!floor(zone, t)) % Time!DAY = 0
         /\ t - Time!floor(zone, t) \in 0 .. Time!DAY - 1
<1> DEFINE D == Time!DAY
           h == Time!Ahead(zone, t)
           l == t + h
           q == l \div D
           r == l % D
           start == Time!floor(zone, t)
<1>1. D \in Nat \ {0}
  BY DayIsPositive
<1>2. zone.before \in Int /\ zone.after \in Int /\ zone.at \in Int /\ h \in Int /\ l \in Int
  BY DEF Zone, Time!Ahead
<1>3. start = q * D - h
  BY DEF Time!floor, Time!Local
<1> HIDE DEF h, D
<1>4. q \in Int /\ l = D * q + r /\ r \in 0 .. D - 1
  BY <1>1, <1>2, DivMod, ModInRange
<1> HIDE DEF q, r, start
<1>5. D * q \in Int /\ q * D = D * q
  BY <1>1, <1>4
<1>6. t - start = r /\ start \in Int
  BY <1>2, <1>3, <1>4, <1>5
<1>7. Time!Ahead(zone, start) = h
  <2>1. start <= t
    BY <1>4, <1>6
  <2>2. t < zone.at \/ zone.at <= start
    BY <1>2, <1>6, <2>1 DEF start
  <2>3. QED
    BY <1>2, <1>6, <2>1, <2>2 DEF h, Time!Ahead
<1>8. Time!Local(zone, start) = D * q
  BY <1>2, <1>3, <1>5, <1>6, <1>7 DEF Time!Local
<1>9. (D * q) % D = 0
  <2>1. (0 + D * q) % D = 0 % D
    BY <1>1, <1>4, ModShift, SMTT(30)
  <2>2. 0 % D = 0
    BY <1>1, ModOfSmall
  <2>3. QED
    BY <1>5, <2>1, <2>2
<1>10. QED
  BY <1>4, <1>6, <1>8, <1>9 DEF D, start

LEMMA FloorIsMidnightHolds == ASSUME Next PROVE FloorIsMidnight'
<1> SUFFICES ASSUME probe'.kind = "day" PROVE FloorIsMidnight'
  BY DEF FloorIsMidnight, Kind
<1>1. PICK x \in -1 .. 2, y \in -1 .. 2,
           at \in -Time!DAY .. 2 * Time!DAY, t \in -Time!DAY .. 2 * Time!DAY :
        probe' = [kind |-> "day", t |-> t,
                  zone |-> [before |-> x * (Sixty * Sixty), after |-> y * (Sixty * Sixty), at |-> at]]
  BY Picked, Zenon DEF PickDay
<1> DEFINE zone == [before |-> x * (Sixty * Sixty), after |-> y * (Sixty * Sixty), at |-> at]
<1>2. Time!Params
  BY ParamsAssumption
<1>3. zone \in Zone /\ t \in Int
  <2>1. x * (Sixty * Sixty) \in Int /\ y * (Sixty * Sixty) \in Int /\ at \in Int /\ t \in Int
    BY <1>2, DayIsPositive
  <2>2. QED
    BY <2>1 DEF Zone
<1>4. probe'.zone = zone /\ probe'.t = t
  BY <1>1
<1> HIDE DEF zone
<1>5. QED
  BY <1>2, <1>3, <1>4, FloorIsExact DEF FloorIsMidnight

(* The instance of the statistics has the same operators. *)
LEMMA StatsSum == ASSUME NEW q PROVE Stats!Sum(q) = Sum(q)
BY DEF Stats!Sum, Sum, Stats!SumsOf, SumsOf

(* Sums of up to four numbers *)
LEMMA SumOfFew ==
  ASSUME NEW q, Len(q) \in 1 .. 4, \A i \in 1 .. Len(q) : q[i] \in Int
  PROVE  /\ Len(q) = 1 => Sum(q) = q[1]
         /\ Len(q) = 2 => Sum(q) = q[1] + q[2]
         /\ Len(q) = 3 => Sum(q) = q[1] + q[2] + q[3]
         /\ Len(q) = 4 => Sum(q) = q[1] + q[2] + q[3] + q[4]
<1> DEFINE S == SumsOf(q)
<1>1. S[0] = 0 /\ \A n \in 1 .. Len(q) : S[n] = S[n - 1] + q[n]
  BY SumsStep
<1> HIDE DEF S
<1>2. S[1] = q[1]
  BY <1>1
<1>3. Len(q) >= 2 => S[2] = q[1] + q[2]
  BY <1>1, <1>2
<1>4. Len(q) >= 3 => S[3] = q[1] + q[2] + q[3]
  BY <1>1, <1>3
<1>5. Len(q) >= 4 => S[4] = q[1] + q[2] + q[3] + q[4]
  BY <1>1, <1>4
<1>6. Sum(q) = S[Len(q)]
  BY DEF Sum, S
<1>7. CASE Len(q) = 1
  BY <1>2, <1>6, <1>7
<1>8. CASE Len(q) = 2
  BY <1>3, <1>6, <1>8
<1>9. CASE Len(q) = 3
  BY <1>4, <1>6, <1>9
<1>10. CASE Len(q) = 4
  BY <1>5, <1>6, <1>10
<1>11. QED
  BY <1>7, <1>8, <1>9, <1>10

(* The days, hours, minutes and seconds of a duration make it up. *)
LEMMA PartsMakeUp ==
  ASSUME Time!Params, NEW ss \in Nat
  PROVE  \E dd, hh, mm, s \in Nat :
           /\ Time!PartsOf(ss) = <<<<"D", dd>>, <<"H", hh>>, <<"M", mm>>, <<"S", s>>>>
           /\ dd * Time!DAY + hh * (Sixty * Sixty) + mm * Sixty + s = ss
<1> DEFINE H == Sixty * Sixty
           dd == Time!Quot(ss, Time!DAY)
           inDay == Time!Rem(ss, Time!DAY)
           hh == Time!Quot(inDay, H)
           inHour == Time!Rem(inDay, H)
           mm == Time!Quot(inHour, Sixty)
           s == Time!Rem(inHour, Sixty)
<1>1. Sixty \in Nat \ {0} /\ H \in Nat \ {0} /\ Time!DAY \in Nat \ {0}
  BY DayIsPositive
<1>2. Time!PartsOf(ss) = <<<<"D", dd>>, <<"H", hh>>, <<"M", mm>>, <<"S", s>>>>
  BY DEF Time!PartsOf
<1> HIDE DEF H
<1>3. dd \in Nat /\ inDay \in Nat /\ ss = Time!DAY * dd + inDay
  BY <1>1, QuotRem
<1> HIDE DEF inDay
<1>4. hh \in Nat /\ inHour \in Nat /\ inDay = H * hh + inHour
  BY <1>1, <1>3, QuotRem
<1> HIDE DEF inHour
<1>5. mm \in Nat /\ s \in Nat /\ inHour = Sixty * mm + s
  BY <1>1, <1>4, QuotRem
<1> HIDE DEF dd, hh, mm, s
<1>6. dd * Time!DAY + hh * H + mm * Sixty + s = ss
  <2>1. /\ dd * Time!DAY = Time!DAY * dd /\ Time!DAY * dd \in Int
        /\ hh * H = H * hh /\ H * hh \in Int
        /\ mm * Sixty = Sixty * mm /\ Sixty * mm \in Int
    BY <1>1, <1>3, <1>4, <1>5
  <2>2. QED
    BY <1>3, <1>4, <1>5, <2>1
<1>7. QED
  BY <1>2, <1>3, <1>4, <1>5, <1>6, ZenonT(60) DEF H

(* The parts of any duration that are printed add up to it, without a gap. *)
THEOREM DurationIsExact ==
  ASSUME Time!Params, NEW ss \in Nat
  PROVE  LET parts == Time!fmt_dura(ss)
             Unit == [D |-> Time!DAY, H |-> Sixty * Sixty, M |-> Sixty, S |-> 1]
         IN  /\ Stats!Sum([i \in DOMAIN parts |-> parts[i][2] * Unit[parts[i][1]]]) = ss
             /\ IsSuffix([i \in DOMAIN parts |-> parts[i][1]], <<"D", "H", "M", "S">>)
             /\ Len(parts) > 1 => parts[1][2] > 0
<1> DEFINE all == Time!PartsOf(ss)
           parts == Time!fmt_dura(ss)
           Unit == [D |-> Time!DAY, H |-> Sixty * Sixty, M |-> Sixty, S |-> 1]
           worth == [i \in DOMAIN parts |-> parts[i][2] * Unit[parts[i][1]]]
           names == [i \in DOMAIN parts |-> parts[i][1]]
           Units == <<"D", "H", "M", "S">>
<1>1. PICK dd \in Nat, hh \in Nat, mm \in Nat, s \in Nat :
        /\ all = <<<<"D", dd>>, <<"H", hh>>, <<"M", mm>>, <<"S", s>>>>
        /\ dd * Time!DAY + hh * (Sixty * Sixty) + mm * Sixty + s = ss
  BY PartsMakeUp
<1> DEFINE d == dd * Time!DAY
           h == hh * (Sixty * Sixty)
           m == mm * Sixty
<1>2. /\ d \in Int /\ h \in Int /\ m \in Int /\ d + h + m + s = ss
      /\ (dd = 0 => d = 0) /\ (hh = 0 => h = 0) /\ (mm = 0 => m = 0)
  BY <1>1, DayIsPositive
<1>3. /\ Len(all) = 4
      /\ all[1][1] = "D" /\ all[1][2] = dd /\ all[2][1] = "H" /\ all[2][2] = hh
      /\ all[3][1] = "M" /\ all[3][2] = mm /\ all[4][1] = "S" /\ all[4][2] = s
  BY <1>1
<1>4. /\ Unit["D"] = Time!DAY /\ Unit["H"] = Sixty * Sixty /\ Unit["M"] = Sixty
      /\ Unit["S"] = 1
  OBVIOUS
<1> DEFINE Shown == {i \in 1 .. 4 : i = 4 \/ all[i][2] > 0}
           k == Min(Shown)
<1>5. parts = SubSeq(all, k, 4)
  BY DEF Time!fmt_dura, Time!Min, Min
<1> HIDE DEF all, Unit, parts
<1>6. k \in Shown /\ \A i \in Shown : k <= i
  <2>1. \E j \in Shown : \A i \in Shown : j <= i
    <3>1. CASE all[1][2] > 0
      BY <3>1
    <3>2. CASE ~(all[1][2] > 0) /\ all[2][2] > 0
      BY <3>2
    <3>3. CASE ~(all[1][2] > 0) /\ ~(all[2][2] > 0) /\ all[3][2] > 0
      BY <3>3
    <3>4. CASE ~(all[1][2] > 0) /\ ~(all[2][2] > 0) /\ ~(all[3][2] > 0)
      BY <3>4
    <3>5. QED
      BY <3>1, <3>2, <3>3, <3>4
  <2> HIDE DEF Shown
  <2>2. QED
    BY <2>1 DEF Min
<1>7. /\ k \in 1 .. 4 /\ (k = 4 \/ all[k][2] > 0)
      /\ k > 1 => dd = 0
      /\ k > 2 => hh = 0
      /\ k > 3 => mm = 0
  BY <1>3, <1>6
<1> HIDE DEF k
<1>8. /\ parts \in Seq({all[1], all[2], all[3], all[4]}) /\ Len(parts) = 5 - k
      /\ \A i \in 1 .. 5 - k : parts[i] = all[k + i - 1]
  <2>1. \A i \in k .. 4 : all[i] \in {all[1], all[2], all[3], all[4]}
    BY <1>7
  <2>2. QED
    BY <1>5, <1>7, <2>1, SubSeqProperties
<1>9. DOMAIN parts = 1 .. 5 - k
  BY <1>8
<1>10. Sum(worth) = ss
  <2>1. Len(worth) = 5 - k /\ \A i \in 1 .. 5 - k : worth[i] = all[k + i - 1][2] * Unit[all[k + i - 1][1]]
    BY <1>7, <1>8, <1>9
  <2> HIDE DEF worth
  <2>2. /\ all[1][2] * Unit[all[1][1]] = d /\ all[2][2] * Unit[all[2][1]] = h
        /\ all[3][2] * Unit[all[3][1]] = m /\ all[4][2] * Unit[all[4][1]] = s
    BY <1>3, <1>4
  <2> HIDE DEF d, h, m
  <2>3. CASE k = 1
    <3>1. Len(worth) = 4 /\ worth[1] = d /\ worth[2] = h /\ worth[3] = m /\ worth[4] = s
      BY <2>1, <2>2, <2>3
    <3>2. QED
      BY <1>2, <3>1, SumOfFew
  <2>4. CASE k = 2
    <3>1. Len(worth) = 3 /\ worth[1] = h /\ worth[2] = m /\ worth[3] = s
      BY <2>1, <2>2, <2>4
    <3>2. QED
      BY <1>2, <1>7, <2>4, <3>1, SumOfFew
  <2>5. CASE k = 3
    <3>1. Len(worth) = 2 /\ worth[1] = m /\ worth[2] = s
      BY <2>1, <2>2, <2>5
    <3>2. QED
      BY <1>2, <1>7, <2>5, <3>1, SumOfFew
  <2>6. CASE k = 4
    <3>1. Len(worth) = 1 /\ worth[1] = s
      BY <2>1, <2>2, <2>6
    <3>2. QED
      BY <1>2, <1>7, <2>6, <3>1, SumOfFew
  <2>7. QED
    BY <1>7, <2>3, <2>4, <2>5, <2>6
<1>11. IsSuffix(names, Units)
  <2> DEFINE n == 5 - k
  <2>1. Units \in Seq({"D", "H", "M", "S"}) /\ Len(Units) = 4
    OBVIOUS
  <2>2. \A i \in 1 .. 4 : all[i][1] = Units[i]
    BY <1>3
  <2>3. \A i \in 1 .. n : names[i] = Units[Len(Units) - n + i]
    <3> SUFFICES ASSUME NEW i \in 1 .. n PROVE names[i] = Units[Len(Units) - n + i]
      OBVIOUS
    <3>1. names[i] = all[k + i - 1][1] /\ k + i - 1 \in 1 .. 4 /\ Len(Units) - n + i = k + i - 1
      BY <1>7, <1>8, <1>9, <2>1
    <3>2. QED
      BY <2>2, <3>1
  <2>4. n \in Nat /\ n <= Len(Units) /\ names = [i \in 1 .. n |-> names[i]]
    BY <1>7, <1>9, <2>1
  <2> HIDE DEF n, names, Units
  <2>5. QED
    BY <2>1, <2>3, <2>4, SuffixByElement, Zenon
<1>12. Len(parts) > 1 => parts[1][2] > 0
  BY <1>7, <1>8
<1>13. Stats!Sum(worth) = Sum(worth)
  BY StatsSum
<1>14. QED
  BY <1>10, <1>11, <1>12, <1>13, Zenon DEF parts, Unit, Units

LEMMA DurationAddsUpHolds == ASSUME Next PROVE DurationAddsUp'
<1> SUFFICES ASSUME probe'.kind = "duration" PROVE DurationAddsUp'
  BY DEF DurationAddsUp, Kind
<1>1. PICK ss \in 0 .. 3 * Time!DAY : probe' = [kind |-> "duration", ss |-> ss]
  BY Picked, Zenon DEF PickDuration
<1>2. Time!Params
  BY ParamsAssumption
<1>3. ss \in Nat
  BY <1>2, DayIsPositive
<1>4. probe'.ss = ss
  BY <1>1
<1>5. QED
  BY <1>2, <1>3, <1>4, DurationIsExact, Zenon DEF DurationAddsUp

(* The arithmetic of times is exact on both sides of the epoch: of timespec,
   stamps, local days and the parts of a duration. *)
THEOREM TimesExact == Spec => []TimesAgree
<1>1. Init => TimesAgree
  BY DEF Init, TimesAgree, PlusIsExact, OrderAgrees, StampSplits, FloorIsMidnight, DurationAddsUp, Kind
<1>2. TimesAgree /\ [Next]_vars => TimesAgree'
  <2>1. Next => TimesAgree'
    BY PlusIsExactHolds, OrderAgreesHolds, StampSplitsHolds, FloorIsMidnightHolds, DurationAddsUpHolds
       DEF TimesAgree
  <2>2. TimesAgree /\ UNCHANGED vars => TimesAgree'
    BY DEF vars, TimesAgree, PlusIsExact, OrderAgrees, StampSplits, FloorIsMidnight,
           DurationAddsUp, Kind
  <2>3. QED
    BY <2>1, <2>2
<1>3. QED
  BY <1>1, <1>2, PTL DEF Spec

-----------------------------------------------------------------------------
(* Doubles *)

Fins == {Num!Fin(s, m) : s \in {-1, 1}, m \in Nat}
Double == {Num!NaN, Num!Inf(1), Num!Inf(-1)} \cup Fins

LEMMA DoubleFields ==
  ASSUME NEW a \in Double
  PROVE  /\ a = [kind |-> a.kind, sign |-> a.sign, mag |-> a.mag]
         /\ a.sign \in {-1, 1} /\ a.mag \in Nat
         /\ \/ a.kind = "nan" /\ a = Num!NaN
            \/ a.kind = "inf" /\ a.mag = 0 /\ (a = Num!Inf(1) \/ a = Num!Inf(-1))
            \/ a.kind = "fin" /\ a = Num!Fin(a.sign, a.mag)
BY DEF Double, Fins, Num!NaN, Num!Inf, Num!Fin

LEMMA SameDouble ==
  ASSUME NEW a \in Double, NEW b \in Double
  PROVE  a = b <=> a.kind = b.kind /\ a.sign = b.sign /\ a.mag = b.mag
BY DoubleFields

LEMMA ValOf ==
  ASSUME NEW a \in Double
  PROVE  Num!Val(a) = (IF a.sign = 1 THEN a.mag ELSE -a.mag) /\ Num!Val(a) \in Int
BY DoubleFields DEF Num!Val

(* The processor's order of two numbers: by class, and then by value. *)
LEMMA LessOf ==
  ASSUME NEW a \in Double, NEW b \in Double
  PROVE  Num!Less(a, b) <=>
           /\ a.kind # "nan" /\ b.kind # "nan"
           /\ \/ a.kind = "fin" /\ b.kind = "fin" /\ Num!Val(a) < Num!Val(b)
              \/ a.kind = "inf" /\ a.sign = -1 /\ (b.kind = "fin" \/ b.sign = 1)
              \/ b.kind = "inf" /\ b.sign = 1 /\ (a.kind = "fin" \/ a.sign = -1)
<1>1. a = Num!Inf(-1) <=> a.kind = "inf" /\ a.sign = -1
  BY DoubleFields DEF Num!Inf
<1>2. b = Num!Inf(1) <=> b.kind = "inf" /\ b.sign = 1
  BY DoubleFields DEF Num!Inf
<1>3. Num!Val(b) + 0 = Num!Val(b)
  BY ValOf
<1>4. Num!Less(a, b) <=>
        /\ a.kind # "nan" /\ b.kind # "nan"
        /\ \/ a.kind = "fin" /\ b.kind = "fin" /\ Num!Val(a) < Num!Val(b)
           \/ a # b /\ (a = Num!Inf(-1) \/ b = Num!Inf(1))
  BY <1>3 DEF Num!Less, Num!Below, Num!IsNan
<1>5. /\ a.kind \in {"nan", "inf", "fin"} /\ b.kind \in {"nan", "inf", "fin"}
      /\ a.sign \in {-1, 1} /\ b.sign \in {-1, 1}
      /\ a.kind # "fin" => a.mag = 0
      /\ b.kind # "fin" => b.mag = 0
  BY DoubleFields DEF Num!NaN
<1>6. QED
  BY <1>1, <1>2, <1>4, <1>5, SameDouble

Tolerance(m) == IF m * EPS >= EPS * ONE THEN m * EPS ELSE EPS * ONE
Near(m, n) == Num!Abs(m - n) * ONE < Tolerance(m)

LEMMA EqOf ==
  ASSUME Num!Params, NEW a \in Double, NEW b \in Double
  PROVE  Num!eq(a, b) <=>
           \/ a = b
           \/ a.kind = "fin" /\ b.kind = "fin" /\ a.sign = b.sign /\ Near(a.mag, b.mag)
<1>1. a.mag * EPS \in Int /\ EPS * ONE \in Int
  BY DoubleFields DEF Num!Params
<1>2. Num!Max({a.mag * EPS, EPS * ONE}) = Tolerance(a.mag)
  <2>1. Max({a.mag * EPS, EPS * ONE}) = Tolerance(a.mag)
    BY <1>1, MaxOfTwo DEF Tolerance
  <2>2. QED
    BY <2>1 DEF Num!Max, Max
<1>3. a.kind = "nan" /\ b.kind = "nan" => a = b
  BY DoubleFields
<1>4. QED
  BY <1>2, <1>3 DEF Num!eq, Num!IsNan, Near

(* A tolerance is above zero; it is that of 1.0 up to there. *)
LEMMA ToleranceOf ==
  ASSUME Num!Params, NEW m \in Nat
  PROVE  /\ Tolerance(m) \in Nat \ {0}
         /\ m <= ONE => Tolerance(m) = EPS * ONE
         /\ m >= ONE => Tolerance(m) = m * EPS
<1>1. EPS \in Nat \ {0} /\ ONE \in Nat \ {0} /\ m * EPS \in Nat /\ EPS * ONE \in Nat \ {0}
  BY DEF Num!Params
<1>2. ONE * EPS = EPS * ONE
  BY <1>1
<1>3. m <= ONE => m * EPS <= ONE * EPS
  BY <1>1
<1>4. m >= ONE => m * EPS >= ONE * EPS
  BY <1>1
<1>5. QED
  BY <1>1, <1>2, <1>3, <1>4 DEF Tolerance

(* Nearer to m than what is near to it. *)
LEMMA NearerIsNear ==
  ASSUME Num!Params, NEW m \in Nat, NEW n \in Nat, NEW o \in Nat,
         Num!Abs(m - n) <= Num!Abs(m - o), Near(m, o)
  PROVE  Near(m, n)
<1>1. Num!Abs(m - n) * ONE <= Num!Abs(m - o) * ONE
  <2> DEFINE x == Num!Abs(m - n)
             y == Num!Abs(m - o)
  <2>1. x \in Int /\ y \in Int /\ x <= y /\ ONE \in Nat
    BY DEF Num!Abs, Num!Params
  <2> HIDE DEF x, y
  <2>2. x * ONE <= y * ONE
    BY <2>1
  <2>3. QED
    BY <2>2 DEF x, y
<1>2. Num!Abs(m - n) * ONE \in Int /\ Num!Abs(m - o) * ONE \in Int /\ Tolerance(m) \in Int
  BY ToleranceOf DEF Num!Abs, Num!Params
<1>3. QED
  BY <1>1, <1>2 DEF Near

(* Between two that are near to each other, though its own tolerance is less. *)
LEMMA BetweenIsNear ==
  ASSUME Num!Params, NEW m \in Nat, NEW n \in Nat, NEW o \in Nat, Near(m, o),
         (m < n /\ n < o) \/ (o < n /\ n < m)
  PROVE  Near(n, o)
<1>1. EPS \in Nat /\ ONE \in Nat /\ EPS <= ONE
  BY DEF Num!Params
<1>2. Tolerance(m) \in Int /\ Tolerance(n) \in Int
  BY ToleranceOf
<1>3. /\ m * EPS \in Int /\ n * EPS \in Int /\ EPS * ONE \in Int
      /\ m * ONE \in Int /\ n * ONE \in Int /\ o * ONE \in Int
  BY <1>1
<1>4. CASE m < n /\ n < o
  <2>1. (o - m) * ONE < Tolerance(m)
    BY <1>4 DEF Near, Num!Abs
  <2>2. (o - m) * ONE = o * ONE - m * ONE /\ (o - n) * ONE = o * ONE - n * ONE
    BY <1>1
  <2>3. m * ONE <= n * ONE /\ m * EPS <= n * EPS
    BY <1>1, <1>4
  <2>4. Tolerance(m) <= Tolerance(n)
    BY <1>3, <2>3 DEF Tolerance
  <2>5. (o - n) * ONE < Tolerance(n)
    BY <1>2, <1>3, <2>1, <2>2, <2>3, <2>4
  <2>6. Num!Abs(n - o) = o - n
    BY <1>4 DEF Num!Abs
  <2>7. QED
    BY <2>5, <2>6 DEF Near
<1>5. CASE o < n /\ n < m
  <2>1. (m - o) * ONE < Tolerance(m)
    BY <1>5 DEF Near, Num!Abs
  <2>2. (m - o) * ONE = m * ONE - o * ONE /\ (n - o) * ONE = n * ONE - o * ONE
    BY <1>1
  <2>3. n * ONE <= m * ONE
    BY <1>1, <1>5
  <2>4. m * EPS - n * EPS <= m * ONE - n * ONE
    <3>1. (m - n) * EPS <= (m - n) * ONE
      BY <1>1, <1>5
    <3>2. (m - n) * EPS = m * EPS - n * EPS /\ (m - n) * ONE = m * ONE - n * ONE
      BY <1>1
    <3>3. QED
      BY <3>1, <3>2
  <2>5. Tolerance(n) >= EPS * ONE /\ Tolerance(n) >= n * EPS
    BY <1>3 DEF Tolerance
  <2>6. Tolerance(m) = EPS * ONE \/ Tolerance(m) = m * EPS
    BY DEF Tolerance
  <2>7. (n - o) * ONE < Tolerance(n)
    BY <1>2, <1>3, <2>1, <2>2, <2>3, <2>4, <2>5, <2>6
  <2>8. Num!Abs(n - o) = n - o
    BY <1>5 DEF Num!Abs
  <2>9. QED
    BY <2>7, <2>8 DEF Near
<1>6. QED
  BY <1>4, <1>5

(* A finite number between two others of one sign has that sign too. *)
LEMMA BetweenHasSign ==
  ASSUME NEW a \in Double, NEW b \in Double, NEW c \in Double,
         a.kind = "fin", c.kind = "fin", a.sign = c.sign, Num!Less(a, b), Num!Less(b, c)
  PROVE  /\ b.kind = "fin" /\ b.sign = a.sign
         /\ \/ a.mag < b.mag /\ b.mag < c.mag
            \/ c.mag < b.mag /\ b.mag < a.mag
<1>1. b.kind = "fin" /\ Num!Val(a) < Num!Val(b) /\ Num!Val(b) < Num!Val(c)
  BY LessOf
<1>2. /\ a.sign \in {-1, 1} /\ b.sign \in {-1, 1} /\ a.mag \in Nat /\ b.mag \in Nat /\ c.mag \in Nat
      /\ Num!Val(a) = (IF a.sign = 1 THEN a.mag ELSE -a.mag)
      /\ Num!Val(b) = (IF b.sign = 1 THEN b.mag ELSE -b.mag)
      /\ Num!Val(c) = (IF c.sign = 1 THEN c.mag ELSE -c.mag)
  BY DoubleFields, ValOf
<1>3. QED
  BY <1>1, <1>2

(* lt() of doubles is transitive, whatever the tolerance. *)
LEMMA LessIsTransitive ==
  ASSUME NEW a \in Double, NEW b \in Double, NEW c \in Double, Num!Less(a, b), Num!Less(b, c)
  PROVE  Num!Less(a, c) /\ a # c
<1>1. /\ a.kind \in {"nan", "inf", "fin"} /\ b.kind \in {"nan", "inf", "fin"}
      /\ c.kind \in {"nan", "inf", "fin"}
      /\ a.sign \in {-1, 1} /\ b.sign \in {-1, 1} /\ c.sign \in {-1, 1}
      /\ Num!Val(a) \in Int /\ Num!Val(b) \in Int /\ Num!Val(c) \in Int
  BY DoubleFields, ValOf DEF Num!NaN
<1>2. Num!Less(a, c)
  BY <1>1, LessOf
<1>3. a # c
  <2>1. ~ Num!Less(a, a)
    BY <1>1, LessOf
  <2>2. QED
    BY <1>2, <2>1
<1>4. QED
  BY <1>2, <1>3

(* Numbers other than two zeros are the same or in order, and never both ways. *)
LEMMA LessIsTotal ==
  ASSUME NEW a \in Double, NEW b \in Double, ~Num!IsNan(a), ~Num!IsNan(b)
  PROVE  /\ ~ (Num!Less(a, b) /\ Num!Less(b, a))
         /\ a = b => ~Num!Less(a, b) /\ ~Num!Less(b, a)
         /\ Num!IsZero(a) /\ Num!IsZero(b) => ~Num!Less(a, b) /\ ~Num!Less(b, a)
         /\ a # b /\ ~ (Num!IsZero(a) /\ Num!IsZero(b)) => Num!Less(a, b) \/ Num!Less(b, a)
<1>1. /\ a.kind \in {"inf", "fin"} /\ b.kind \in {"inf", "fin"}
      /\ a.kind = "inf" => a.mag = 0
      /\ b.kind = "inf" => b.mag = 0
      /\ a.sign \in {-1, 1} /\ b.sign \in {-1, 1} /\ a.mag \in Nat /\ b.mag \in Nat
      /\ Num!Val(a) = (IF a.sign = 1 THEN a.mag ELSE -a.mag)
      /\ Num!Val(b) = (IF b.sign = 1 THEN b.mag ELSE -b.mag)
  BY DoubleFields, ValOf DEF Num!IsNan
<1>2. a = b <=> a.kind = b.kind /\ a.sign = b.sign /\ a.mag = b.mag
  BY SameDouble
<1>3. CASE a.kind = "fin" /\ b.kind = "fin"
  <2>1. /\ Num!Less(a, b) <=> Num!Val(a) < Num!Val(b)
        /\ Num!Less(b, a) <=> Num!Val(b) < Num!Val(a)
    BY <1>3, LessOf
  <2>2. QED
    BY <1>1, <1>2, <1>3, <2>1 DEF Num!IsZero
<1>4. CASE ~ (a.kind = "fin" /\ b.kind = "fin")
  <2>1. /\ Num!Less(a, b) <=>
             \/ a.kind = "inf" /\ a.sign = -1 /\ (b.kind = "fin" \/ b.sign = 1)
             \/ b.kind = "inf" /\ b.sign = 1 /\ (a.kind = "fin" \/ a.sign = -1)
        /\ Num!Less(b, a) <=>
             \/ b.kind = "inf" /\ b.sign = -1 /\ (a.kind = "fin" \/ a.sign = 1)
             \/ a.kind = "inf" /\ a.sign = 1 /\ (b.kind = "fin" \/ b.sign = -1)
    BY <1>1, <1>4, LessOf
  <2>2. ~ (Num!IsZero(a) /\ Num!IsZero(b))
    BY <1>4 DEF Num!IsZero
  <2>3. QED
    BY <1>1, <1>2, <1>4, <2>1, <2>2
<1>5. QED
  BY <1>3, <1>4

(* Of three statements, one that excludes the other two and follows when they are
   false is the only one that is true. *)
LEMMA JustOne ==
  ASSUME NEW p \in BOOLEAN, NEW q \in BOOLEAN, NEW r \in BOOLEAN, NEW z \in BOOLEAN,
         ~(p /\ q), ~(p /\ r), ~(q /\ r), z <=> ~p /\ ~q /\ ~r
  PROVE  Cardinality({x \in {"lt", "eq", "gt"} :
                        (x = "lt" /\ p) \/ (x = "eq" /\ q) \/ (x = "gt" /\ r)}) = IF z THEN 0 ELSE 1
<1> DEFINE S == {x \in {"lt", "eq", "gt"} : (x = "lt" /\ p) \/ (x = "eq" /\ q) \/ (x = "gt" /\ r)}
<1>1. CASE p
  <2>1. S = {"lt"}
    BY <1>1
  <2> HIDE DEF S
  <2>2. QED
    BY <1>1, <2>1, FS_Singleton
<1>2. CASE q
  <2>1. S = {"eq"}
    BY <1>2
  <2> HIDE DEF S
  <2>2. QED
    BY <1>2, <2>1, FS_Singleton, ZenonT(60)
<1>3. CASE r
  <2>1. S = {"gt"}
    BY <1>3
  <2> HIDE DEF S
  <2>2. QED
    BY <1>3, <2>1, FS_Singleton
<1>4. CASE ~p /\ ~q /\ ~r
  <2>1. S = {}
    BY <1>4
  <2> HIDE DEF S
  <2>2. QED
    BY <1>4, <2>1, FS_EmptySet
<1>5. QED
  BY <1>1, <1>2, <1>3, <1>4

(* The laws of the order, for all doubles and every tolerance of up to 1.0. *)
THEOREM DoublesAreOrdered ==
  ASSUME Num!Params, NEW a \in Double, NEW b \in Double, NEW c \in Double
  PROVE  /\ Num!lt(a, b) /\ Num!lt(b, c) => Num!lt(a, c)
         /\ ~Num!IsNan(a) /\ ~Num!IsNan(b) =>
              Cardinality({x \in {"lt", "eq", "gt"} :
                             \/ x = "lt" /\ Num!lt(a, b)
                             \/ x = "eq" /\ Num!eq(a, b)
                             \/ x = "gt" /\ Num!gt(a, b)})
                = IF Num!IsZero(a) /\ Num!IsZero(b) /\ a # b THEN 0 ELSE 1
         /\ ~Num!IsNan(a) /\ ~Num!IsNan(b) /\ ~(Num!IsZero(a) /\ Num!IsZero(b)) =>
              /\ Num!le(a, b) <=> ~Num!gt(a, b)
              /\ Num!ge(a, b) <=> ~Num!lt(a, b)
         /\ Num!eq(a, c) /\ Num!Less(a, b) /\ Num!Less(b, c) => Num!eq(a, b) /\ Num!eq(b, c)
<1>1. Num!lt(a, b) /\ Num!lt(b, c) => Num!lt(a, c)
  <2> SUFFICES ASSUME Num!lt(a, b), Num!lt(b, c), Num!eq(a, c) PROVE FALSE
    BY LessIsTransitive DEF Num!lt
  <2>1. Num!Less(a, b) /\ Num!Less(b, c) /\ ~Num!eq(a, b)
    BY DEF Num!lt
  <2>2. a.kind = "fin" /\ c.kind = "fin" /\ a.sign = c.sign /\ Near(a.mag, c.mag)
    BY <2>1, LessIsTransitive, EqOf
  <2>3. /\ b.kind = "fin" /\ b.sign = a.sign
        /\ \/ a.mag < b.mag /\ b.mag < c.mag
           \/ c.mag < b.mag /\ b.mag < a.mag
    BY <2>1, <2>2, BetweenHasSign
  <2>4. a.mag \in Nat /\ b.mag \in Nat /\ c.mag \in Nat
    BY DoubleFields
  <2>5. Num!Abs(a.mag - b.mag) <= Num!Abs(a.mag - c.mag)
    BY <2>3, <2>4 DEF Num!Abs
  <2>6. Near(a.mag, b.mag)
    BY <2>2, <2>4, <2>5, NearerIsNear
  <2>7. Num!eq(a, b)
    BY <2>2, <2>3, <2>6, EqOf
  <2>8. QED
    BY <2>1, <2>7
<1>2. ASSUME ~Num!IsNan(a), ~Num!IsNan(b), Num!IsZero(a), Num!IsZero(b), a # b
      PROVE  ~Num!eq(a, b)
  <2>1. a.sign # b.sign
    BY <1>2, SameDouble DEF Num!IsZero
  <2>2. QED
    BY <1>2, <2>1, EqOf
<1>3. a = b => Num!eq(a, b)
  BY EqOf
<1>4. ASSUME ~Num!IsNan(a), ~Num!IsNan(b)
      PROVE  Cardinality({x \in {"lt", "eq", "gt"} :
                            \/ x = "lt" /\ Num!lt(a, b)
                            \/ x = "eq" /\ Num!eq(a, b)
                            \/ x = "gt" /\ Num!gt(a, b)})
               = IF Num!IsZero(a) /\ Num!IsZero(b) /\ a # b THEN 0 ELSE 1
  <2> DEFINE p == Num!lt(a, b)
             q == Num!eq(a, b)
             r == Num!gt(a, b)
             z == Num!IsZero(a) /\ Num!IsZero(b) /\ a # b
  <2>1. p \in BOOLEAN /\ q \in BOOLEAN /\ r \in BOOLEAN /\ z \in BOOLEAN
    BY DEF Num!lt, Num!gt, Num!eq, Num!IsZero
  <2>2. ~(p /\ q) /\ ~(q /\ r)
    BY DEF Num!lt, Num!gt
  <2>3. ~(p /\ r)
    BY <1>4, LessIsTotal DEF Num!lt, Num!gt
  <2>4. z <=> ~p /\ ~q /\ ~r
    BY <1>2, <1>3, <1>4, LessIsTotal DEF Num!lt, Num!gt
  <2> HIDE DEF p, q, r, z
  <2>5. Cardinality({x \in {"lt", "eq", "gt"} :
                       (x = "lt" /\ p) \/ (x = "eq" /\ q) \/ (x = "gt" /\ r)}) = IF z THEN 0 ELSE 1
    BY <2>1, <2>2, <2>3, <2>4, JustOne
  <2>6. QED
    BY <2>5 DEF p, q, r, z
<1>5. ~Num!IsNan(a) /\ ~Num!IsNan(b) /\ ~(Num!IsZero(a) /\ Num!IsZero(b)) =>
        /\ Num!le(a, b) <=> ~Num!gt(a, b)
        /\ Num!ge(a, b) <=> ~Num!lt(a, b)
  BY <1>3, LessIsTotal DEF Num!le, Num!ge, Num!lt, Num!gt
<1>6. Num!eq(a, c) /\ Num!Less(a, b) /\ Num!Less(b, c) => Num!eq(a, b) /\ Num!eq(b, c)
  <2> SUFFICES ASSUME Num!eq(a, c), Num!Less(a, b), Num!Less(b, c)
               PROVE  Num!eq(a, b) /\ Num!eq(b, c)
    OBVIOUS
  <2>1. a.kind = "fin" /\ c.kind = "fin" /\ a.sign = c.sign /\ Near(a.mag, c.mag)
    BY LessIsTransitive, EqOf
  <2>2. /\ b.kind = "fin" /\ b.sign = a.sign
        /\ \/ a.mag < b.mag /\ b.mag < c.mag
           \/ c.mag < b.mag /\ b.mag < a.mag
    BY <2>1, BetweenHasSign
  <2>3. a.mag \in Nat /\ b.mag \in Nat /\ c.mag \in Nat
    BY DoubleFields
  <2>4. Num!Abs(a.mag - b.mag) <= Num!Abs(a.mag - c.mag)
    BY <2>2, <2>3 DEF Num!Abs
  <2>5. Near(a.mag, b.mag) /\ Near(b.mag, c.mag)
    BY <2>1, <2>2, <2>3, <2>4, NearerIsNear, BetweenIsNear
  <2>6. QED
    BY <2>1, <2>2, <2>5, EqOf
<1>7. QED
  BY <1>1, <1>4, <1>5, <1>6

(* With any epsilon, and for the array of two. *)
THEOREM EqualWithin ==
  ASSUME NEW a \in Double, NEW b \in Double, NEW e \in Nat \ {0}
  PROVE  /\ ~Num!IsNan(a) /\ ~Num!IsNan(b) =>
              (Num!leE(a, b, e) /\ Num!geE(a, b, e) <=>
                 \/ Num!eqE(a, b, e)
                 \/ a.kind = "fin" /\ b.kind = "fin" /\ Num!Abs(Num!Val(a) - Num!Val(b)) = e)
         /\ Num!eqArrayE(<<a, b>>, <<b, a>>, e) <=> Num!eqE(a, b, e)
<1>1. /\ a.kind \in {"nan", "inf", "fin"} /\ b.kind \in {"nan", "inf", "fin"}
      /\ Num!Val(a) \in Int /\ Num!Val(b) \in Int
      /\ a.kind = "inf" <=> a = Num!Inf(1) \/ a = Num!Inf(-1)
      /\ b.kind = "inf" <=> b = Num!Inf(1) \/ b = Num!Inf(-1)
      /\ a = b => a.kind = b.kind /\ Num!Val(a) = Num!Val(b)
  BY DoubleFields, ValOf DEF Num!NaN, Num!Inf
<1>2. Num!eqE(a, b, e) <=> Num!eqE(b, a, e)
  BY <1>1 DEF Num!eqE, Num!Abs
<1>3. ASSUME ~Num!IsNan(a), ~Num!IsNan(b)
      PROVE  (Num!leE(a, b, e) /\ Num!geE(a, b, e) <=>
                 \/ Num!eqE(a, b, e)
                 \/ a.kind = "fin" /\ b.kind = "fin" /\ Num!Abs(Num!Val(a) - Num!Val(b)) = e)
  <2>1. CASE a.kind = "fin" /\ b.kind = "fin"
    <3>1. /\ a # Num!Inf(1) /\ a # Num!Inf(-1) /\ b # Num!Inf(1) /\ b # Num!Inf(-1)
      BY <1>1, <2>1
    <3>2. /\ Num!leE(a, b, e) <=> ~ (Num!Val(b) < Num!Val(a) + (-e))
          /\ Num!geE(a, b, e) <=> ~ (Num!Val(a) < Num!Val(b) + (-e))
      BY <1>3, <2>1, <3>1 DEF Num!leE, Num!geE, Num!gtE, Num!ltE, Num!Below
    <3>3. Num!eqE(a, b, e) <=> Num!Abs(Num!Val(a) - Num!Val(b)) < e
      BY <1>1, <1>3, <2>1 DEF Num!eqE, Num!IsNan, Num!Abs
    <3>4. QED
      BY <1>1, <2>1, <3>2, <3>3 DEF Num!Abs
  <2>2. CASE ~ (a.kind = "fin" /\ b.kind = "fin")
    <3>1. /\ Num!leE(a, b, e) <=> ~ (a # b /\ (b = Num!Inf(-1) \/ a = Num!Inf(1)))
          /\ Num!geE(a, b, e) <=> ~ (a # b /\ (a = Num!Inf(-1) \/ b = Num!Inf(1)))
      BY <1>3, <2>2 DEF Num!leE, Num!geE, Num!gtE, Num!ltE, Num!Below
    <3>2. Num!eqE(a, b, e) <=> a = b
      BY <1>3, <2>2 DEF Num!eqE, Num!IsNan
    <3>3. a.kind = "inf" \/ b.kind = "inf"
      BY <1>1, <1>3, <2>2 DEF Num!IsNan
    <3>4. QED
      BY <1>1, <2>2, <3>1, <3>2, <3>3
  <2>3. QED
    BY <2>1, <2>2
<1>4. Num!eqArrayE(<<a, b>>, <<b, a>>, e) <=> Num!eqE(a, b, e)
  <2>1. DOMAIN <<a, b>> = {1, 2}
    OBVIOUS
  <2>2. Num!eqArrayE(<<a, b>>, <<b, a>>, e) <=> Num!eqE(a, b, e) /\ Num!eqE(b, a, e)
    BY <2>1 DEF Num!eqArrayE
  <2>3. QED
    BY <1>2, <2>2
<1>5. QED
  BY <1>3, <1>4

(* What the division goes by: numbers of either sign at which it does not stop. *)
Away(x) == ~Num!NearZero([x EXCEPT !.sign = 1]) /\ ~Num!IsNan(x)
Other(x) == [x EXCEPT !.sign = -@]

LEMMA NearZeroOf ==
  ASSUME Num!Params, NEW a \in Double
  PROVE  Num!NearZero(a) <=> a.kind = "fin" /\ a.sign = 1 /\ Near(a.mag, 0)
<1>1. Num!Fin(1, 0) \in Double
  BY DEF Double, Fins
<1>2. Num!Fin(1, 0).kind = "fin" /\ Num!Fin(1, 0).sign = 1 /\ Num!Fin(1, 0).mag = 0
  BY DEF Num!Fin
<1>3. a = Num!Fin(1, 0) => Near(a.mag, 0)
  <2>1. Near(0, 0)
    BY ToleranceOf DEF Near, Num!Abs, Num!Params
  <2>2. QED
    BY <1>2, <2>1
<1>4. QED
  BY <1>1, <1>2, <1>3, EqOf DEF Num!NearZero

LEMMA ZeroIsNearZero == ASSUME Num!Params PROVE Num!NearZero(Num!Fin(1, 0))
BY DEF Num!NearZero, Num!eq

LEMMA AwayOf ==
  ASSUME Num!Params, NEW a \in Double, Away(a)
  PROVE  /\ a.kind \in {"inf", "fin"} /\ (a.kind = "fin" => a.mag # 0)
         /\ ~Num!NearZero(a) /\ Num!Coe(a) = a.sign
         /\ Other(a) \in Double /\ Away(Other(a))
         /\ Other(a).kind = a.kind /\ Other(a).sign = -a.sign /\ Other(a).mag = a.mag
<1> DEFINE up == [a EXCEPT !.sign = 1]
<1>1. /\ a = [kind |-> a.kind, sign |-> a.sign, mag |-> a.mag]
      /\ a.kind \in {"inf", "fin"} /\ a.sign \in {-1, 1} /\ a.mag \in Nat
      /\ a.kind = "inf" => a.mag = 0
  BY DoubleFields DEF Away, Num!IsNan
<1>2. up = [kind |-> a.kind, sign |-> 1, mag |-> a.mag]
  BY <1>1
<1>3. Other(a) = [kind |-> a.kind, sign |-> -a.sign, mag |-> a.mag]
  BY <1>1 DEF Other
<1>4. \A s \in {-1, 1} : [kind |-> a.kind, sign |-> s, mag |-> a.mag] \in Double
  BY <1>1 DEF Double, Fins, Num!Inf, Num!Fin
<1>5. up \in Double /\ Other(a) \in Double
  BY <1>1, <1>2, <1>3, <1>4
<1>6. ~Num!NearZero(up)
  BY DEF Away
<1>7. a.kind = "fin" => ~Near(a.mag, 0)
  BY <1>2, <1>5, <1>6, NearZeroOf
<1>8. a.kind = "fin" => a.mag # 0
  <2>1. Near(0, 0)
    BY ToleranceOf DEF Near, Num!Abs, Num!Params
  <2>2. QED
    BY <1>7, <2>1
<1>9. ~Num!NearZero(a)
  BY <1>7, NearZeroOf
<1>10. Num!Coe(a) = a.sign
  <2>1. Num!Fin(1, 0) \in Double
    BY DEF Double, Fins
  <2>2. Num!Fin(1, 0).kind = "fin" /\ Num!Fin(1, 0).sign = 1 /\ Num!Val(Num!Fin(1, 0)) = 0
    BY DEF Num!Fin, Num!Val
  <2>3. Num!Less(a, Num!Fin(1, 0)) <=> a.sign = -1
    BY <1>1, <1>8, <2>1, <2>2, LessOf, ValOf
  <2>4. QED
    BY <1>1, <2>3 DEF Num!Coe
<1>11. [Other(a) EXCEPT !.sign = 1] = up /\ Other(a).kind = a.kind
  BY <1>2, <1>3
<1>12. Away(Other(a))
  BY <1>1, <1>6, <1>11 DEF Away, Num!IsNan
<1>13. QED
  BY <1>1, <1>3, <1>5, <1>8, <1>9, <1>10, <1>12

(* The branches of the division for numbers away from zero, or by zero. *)
LEMMA DivOf ==
  ASSUME Num!Params, NEW n \in Double, NEW d \in Double, Away(n), Away(d) \/ d = Num!Fin(1, 0)
  PROVE  LET sign == n.sign * d.sign
         IN  Num!safe_div(n, d) = IF d.kind = "inf"
                                  THEN IF n.kind = "inf" THEN Num!Fin(sign, ONE) ELSE Num!Fin(1, 0)
                                  ELSE IF n.kind = "inf" \/ d.mag = 0 THEN Num!Inf(sign)
                                  ELSE Num!Quotient(n, d)
<1> DEFINE sign == n.sign * d.sign
<1>1. /\ n.kind \in {"inf", "fin"} /\ ~Num!NearZero(n) /\ Num!Coe(n) = n.sign
      /\ ~Num!IsNan(n)
  BY AwayOf DEF Away
<1>2. CASE Away(d)
  <2>1. /\ d.kind \in {"inf", "fin"} /\ (d.kind = "fin" => d.mag # 0) /\ ~Num!NearZero(d)
        /\ Num!Coe(d) = d.sign /\ ~Num!IsNan(d)
    BY <1>2, AwayOf DEF Away
  <2>2. CASE n.kind = "inf" /\ d.kind = "inf"
    BY <1>1, <2>1, <2>2 DEF Num!safe_div
  <2>3. CASE n.kind = "fin" /\ d.kind = "inf"
    BY <1>1, <2>1, <2>3 DEF Num!safe_div
  <2>4. CASE n.kind = "inf" /\ d.kind = "fin"
    BY <1>1, <2>1, <2>4 DEF Num!safe_div
  <2>5. CASE n.kind = "fin" /\ d.kind = "fin"
    BY <1>1, <2>1, <2>5 DEF Num!safe_div
  <2>6. QED
    BY <1>1, <2>1, <2>2, <2>3, <2>4, <2>5
<1>3. CASE d = Num!Fin(1, 0)
  <2>1. /\ d.kind = "fin" /\ d.sign = 1 /\ d.mag = 0 /\ Num!NearZero(d) /\ ~Num!IsNan(d)
    BY <1>3, ZeroIsNearZero DEF Num!Fin, Num!IsNan
  <2>2. Num!Coe(d) = 1
    <3>1. ~ Num!Less(d, Num!Fin(1, 0))
      BY <1>3, <2>1, LessOf, ValOf
    <3>2. QED
      BY <3>1 DEF Num!Coe
  <2>3. CASE n.kind = "inf"
    BY <1>1, <2>1, <2>2, <2>3 DEF Num!safe_div
  <2>4. CASE n.kind = "fin"
    BY <1>1, <2>1, <2>2, <2>4 DEF Num!safe_div
  <2>5. QED
    BY <1>1, <2>3, <2>4
<1>4. QED
  BY <1>2, <1>3

(* The division of numbers away from zero, or by zero, is odd in either; it never
   divides by zero but for a negative one. *)
THEOREM DivisionIsOdd ==
  ASSUME Num!Params, NEW n \in Double, NEW d \in Double
  PROVE  LET r == Num!safe_div(n, d)
             Opposite(q) == (q = Other(r)) \/ (Num!IsZero(q) /\ Num!IsZero(r))
         IN  /\ Away(n) /\ (Away(d) \/ d = Num!Fin(1, 0)) => Opposite(Num!safe_div(Other(n), d))
             /\ Away(n) /\ Away(d) => Opposite(Num!safe_div(n, Other(d)))
             /\ r.kind = "div" /\ r.by[2] = 0 => d = Num!Fin(-1, 0)
<1> DEFINE r == Num!safe_div(n, d)
           Opposite(q) == (q = Other(r)) \/ (Num!IsZero(q) /\ Num!IsZero(r))
<1>1. n.sign \in {-1, 1} /\ d.sign \in {-1, 1}
  BY DoubleFields
<1>2. /\ (-n.sign) * d.sign = -(n.sign * d.sign) /\ n.sign * (-d.sign) = -(n.sign * d.sign)
  BY <1>1
<1>3. \A s \in Int, m \in Int :
        /\ Other(Num!Inf(s)) = Num!Inf(-s) /\ Other(Num!Fin(s, m)) = Num!Fin(-s, m)
  BY DEF Other, Num!Inf, Num!Fin
<1>4. Num!IsZero(Num!Fin(1, 0))
  BY DEF Num!IsZero, Num!Fin
<1>5. n.sign * d.sign \in Int /\ ONE \in Int
  BY <1>1 DEF Num!Params
<1>6. ASSUME Away(n), Away(d) \/ d = Num!Fin(1, 0) PROVE Opposite(Num!safe_div(Other(n), d))
  <2> DEFINE q == Num!safe_div(Other(n), d)
  <2>1. /\ Other(n) \in Double /\ Away(Other(n))
        /\ Other(n).kind = n.kind /\ Other(n).sign = -n.sign /\ Other(n).mag = n.mag
    BY <1>6, AwayOf
  <2>2. Other(Num!Quotient(n, d)) = Num!Quotient(Other(n), d)
    BY <1>2, <2>1 DEF Num!Quotient, Other
  <2>3. /\ r = IF d.kind = "inf"
                THEN IF n.kind = "inf" THEN Num!Fin(n.sign * d.sign, ONE) ELSE Num!Fin(1, 0)
                ELSE IF n.kind = "inf" \/ d.mag = 0 THEN Num!Inf(n.sign * d.sign)
                ELSE Num!Quotient(n, d)
        /\ q = IF d.kind = "inf"
                THEN IF n.kind = "inf" THEN Num!Fin(-(n.sign * d.sign), ONE) ELSE Num!Fin(1, 0)
                ELSE IF n.kind = "inf" \/ d.mag = 0 THEN Num!Inf(-(n.sign * d.sign))
                ELSE Num!Quotient(Other(n), d)
    BY <1>2, <1>6, <2>1, DivOf
  <2> HIDE DEF r, q
  <2>4. QED
    BY <1>3, <1>4, <1>5, <2>2, <2>3 DEF q
<1>7. ASSUME Away(n), Away(d) PROVE Opposite(Num!safe_div(n, Other(d)))
  <2> DEFINE q == Num!safe_div(n, Other(d))
  <2>1. /\ Other(d) \in Double /\ Away(Other(d))
        /\ Other(d).kind = d.kind /\ Other(d).sign = -d.sign /\ Other(d).mag = d.mag
    BY <1>7, AwayOf
  <2>2. Other(Num!Quotient(n, d)) = Num!Quotient(n, Other(d))
    BY <1>2, <2>1 DEF Num!Quotient, Other
  <2>3. /\ r = IF d.kind = "inf"
                THEN IF n.kind = "inf" THEN Num!Fin(n.sign * d.sign, ONE) ELSE Num!Fin(1, 0)
                ELSE IF n.kind = "inf" \/ d.mag = 0 THEN Num!Inf(n.sign * d.sign)
                ELSE Num!Quotient(n, d)
        /\ q = IF d.kind = "inf"
                THEN IF n.kind = "inf" THEN Num!Fin(-(n.sign * d.sign), ONE) ELSE Num!Fin(1, 0)
                ELSE IF n.kind = "inf" \/ d.mag = 0 THEN Num!Inf(-(n.sign * d.sign))
                ELSE Num!Quotient(n, Other(d))
    BY <1>2, <1>7, <2>1, DivOf
  <2> HIDE DEF r, q
  <2>4. QED
    BY <1>3, <1>4, <1>5, <2>2, <2>3 DEF q
<1>8. ASSUME r.kind = "div", r.by[2] = 0 PROVE d = Num!Fin(-1, 0)
  <2>1. /\ n.kind = "fin" /\ d.kind = "fin" /\ ~Num!NearZero(d) /\ r = Num!Quotient(n, d)
    BY <1>8, DoubleFields DEF Num!safe_div, Num!IsNan, Num!NaN, Num!Inf, Num!Fin
  <2>2. d.mag = 0
    BY <1>8, <2>1 DEF Num!Quotient
  <2>3. d.sign # 1
    BY <2>1, <2>2, DoubleFields, ZeroIsNearZero
  <2>4. QED
    BY <1>1, <2>1, <2>2, <2>3, DoubleFields
<1>9. QED
  BY <1>6, <1>7, <1>8

(* The doubles of an input are doubles. *)
LEMMA DoublesPicked ==
  ASSUME Next, probe'.kind = "doubles"
  PROVE  probe'.a \in Double /\ probe'.b \in Double /\ probe'.c \in Double
<1>1. PICK a \in Doubles, b \in Doubles, c \in Doubles :
        probe' = [kind |-> "doubles", a |-> a, b |-> b, c |-> c]
  BY Picked, Zenon DEF PickDoubles
<1>2. Doubles \subseteq Double
  BY ParamsAssumption DEF Doubles, Double, Fins
<1>3. QED
  BY <1>1, <1>2

LEMMA MixedIsExactHolds == ASSUME Next PROVE MixedIsExact'
<1> SUFFICES ASSUME probe'.kind = "integers" PROVE MixedIsExact'
  BY DEF MixedIsExact, Kind
<1>1. PICK i \in -(WIDE \div 2) .. WIDE \div 2 - 1, u \in 0 .. WIDE - 1 :
        probe' = [kind |-> "integers", i |-> i, u |-> u]
  BY Picked, Zenon DEF PickIntegers
<1>2. WIDE \in Nat \ {0}
  BY ParamsAssumption DEF Num!Params
<1>3. i \in Int /\ u \in 0 .. WIDE - 1 /\ (i >= 0 => i \in 0 .. WIDE - 1)
  BY <1>2
<1>4. i >= 0 => i % WIDE = i
  BY <1>2, <1>3, ModOfSmall
<1>5. probe'.i = i /\ probe'.u = u
  BY <1>1
<1>6. Num!eqMixed(i, u) <=> i = u
  BY <1>3, <1>4 DEF Num!eqMixed
<1>7. QED
  BY <1>5, <1>6 DEF MixedIsExact

LEMMA DoubleLawsHold == ASSUME Next, probe'.kind = "doubles" PROVE (OrderHolds /\ EqualIsBoth /\ DivIsOdd)'
<1>1. probe'.a \in Double /\ probe'.b \in Double /\ probe'.c \in Double
  BY DoublesPicked
<1>2. Num!Params
  BY ParamsAssumption
<1>3. OrderHolds'
  BY <1>1, <1>2, DoublesAreOrdered, Zenon DEF OrderHolds
<1>4. EqualIsBoth'
  <2>1. 1 .. 3 \subseteq Nat \ {0}
    OBVIOUS
  <2>2. QED
    BY <1>1, <2>1, EqualWithin, Zenon DEF EqualIsBoth
<1>5. DivIsOdd'
  BY <1>1, <1>2, DivisionIsOdd, Zenon DEF DivIsOdd, Away, Other
<1>6. QED
  BY <1>3, <1>4, <1>5

-----------------------------------------------------------------------------
(* Texts in integers *)

LEMMA BitsSum == ASSUME NEW q PROVE Bits!Sum(q) = Sum(q)
BY DEF Bits!Sum, Sum, Bits!SumsOf, SumsOf

\* The weights of n bytes
Powers(n) == [k \in 0 .. n |-> BYTE ^ k]

\* A number of bytes that a union may have, and bytes of it
Bytes(b, n) == n \in 1 .. 8 /\ b \in [1 .. n -> 0 .. BYTE - 1]

(* The number that bytes are, as its digits are worth *)
LEMMA AsNumeral ==
  ASSUME Bits!Params, NEW n \in 1 .. 8, NEW b, b \in [1 .. n -> Int]
  PROVE  /\ Numeral(b, Powers(n), BYTE, n)
         /\ Bits!asU(b) = Sum(Worth(b, Powers(n)))
         /\ Powers(n)[n] = BYTE ^ n
         /\ \A i \in 1 .. n : Powers(n)[i - 1] = BYTE ^ (i - 1)
<1> DEFINE w == Powers(n)
<1>1. /\ BYTE \in Nat /\ BYTE > 1 /\ BYTE ^ 0 = 1
      /\ \A k \in 0 .. 8 : BYTE ^ k \in Nat \ {0}
      /\ \A k \in 1 .. 8 : BYTE ^ k = BYTE * BYTE ^ (k - 1)
  BY DEF Bits!Params
<1>2. \A k \in 0 .. n : w[k] = BYTE ^ k /\ k \in 0 .. 8
  BY DEF Powers
<1>3. \A k \in 1 .. n : k \in 1 .. 8 /\ k - 1 \in 0 .. n
  OBVIOUS
<1>4. n \in Nat /\ Len(b) = n /\ DOMAIN b = 1 .. n /\ \A i \in 1 .. n : b[i] \in Int
  OBVIOUS
<1>5. n \in 0 .. n /\ 0 \in 0 .. n
  OBVIOUS
<1> HIDE DEF w
<1>6. Weights(w, BYTE, n)
  <2>1. w[0] = 1
    BY <1>1, <1>2, <1>5
  <2>2. \A k \in 0 .. n : w[k] \in Nat /\ w[k] > 0
    <3> SUFFICES ASSUME NEW k \in 0 .. n PROVE w[k] \in Nat /\ w[k] > 0
      OBVIOUS
    <3> DEFINE p == BYTE ^ k
    <3>1. w[k] = p /\ p \in Nat \ {0}
      BY <1>1, <1>2
    <3> HIDE DEF p
    <3>2. QED
      BY <3>1
  <2>3. \A k \in 1 .. n : w[k] = BYTE * w[k - 1]
    <3> SUFFICES ASSUME NEW k \in 1 .. n PROVE w[k] = BYTE * w[k - 1]
      OBVIOUS
    <3>1. k \in 0 .. n /\ k - 1 \in 0 .. n /\ k \in 1 .. 8
      OBVIOUS
    <3>2. w[k] = BYTE ^ k /\ w[k - 1] = BYTE ^ (k - 1) /\ BYTE ^ k = BYTE * BYTE ^ (k - 1)
      BY <1>1, <1>2, <3>1
    <3>3. QED
      BY <3>2
  <2>4. QED
    BY <1>1, <1>4, <2>1, <2>2, <2>3 DEF Weights
<1>7. Numeral(b, w, BYTE, n)
  BY <1>4, <1>6 DEF Numeral
<1>8. \A i \in 1 .. n : w[i - 1] = BYTE ^ (i - 1)
  BY <1>2, <1>3
<1>9. Worth(b, w) = [i \in DOMAIN b |-> b[i] * BYTE ^ (i - 1)]
  BY <1>4, <1>8 DEF Worth
<1>10. Bits!asU(b) = Sum(Worth(b, w))
  BY <1>9, BitsSum, Zenon DEF Bits!asU
<1>11. w[n] = BYTE ^ n
  BY <1>2, <1>5
<1>12. QED
  BY <1>7, <1>8, <1>10, <1>11 DEF w

(* What is left of the bytes when 1 is taken from each, and the number wraps around *)
LEMMA OnesTaken ==
  ASSUME Bits!Params, NEW n, NEW b, Bytes(b, n),
         NEW i \in 1 .. n, \A j \in 1 .. i - 1 : b[j] # 0
  PROVE  Bits!ByteOf((Bits!asU(b) - Bits!asU([k \in 1 .. n |-> 1])) % BYTE ^ n, i) = (b[i] - 1) % BYTE
<1> DEFINE ones == [k \in 1 .. n |-> 1]
           x == [k \in 1 .. n |-> b[k] - 1]
           w == Powers(n)
<1>1. /\ n \in 1 .. 8 /\ BYTE \in Nat /\ BYTE > 1
      /\ \A k \in 1 .. n : b[k] \in 0 .. BYTE - 1 /\ b[k] \in Int
      /\ b \in [1 .. n -> Int]
  <2>1. BYTE \in Nat /\ BYTE > 1
    BY DEF Bits!Params
  <2>2. n \in 1 .. 8 /\ b \in [1 .. n -> 0 .. BYTE - 1]
    BY DEF Bytes
  <2>3. \A k \in 1 .. n : b[k] \in 0 .. BYTE - 1 /\ b[k] \in Int
    BY <2>1, <2>2
  <2>4. QED
    BY <2>1, <2>2, <2>3
<1>2. ones \in [1 .. n -> Int] /\ x \in [1 .. n -> Int] /\ \A k \in 1 .. n : x[k] = b[k] - ones[k]
  BY <1>1
<1>3. /\ Numeral(b, w, BYTE, n) /\ Bits!asU(b) = Sum(Worth(b, w))
      /\ Powers(n)[n] = BYTE ^ n /\ Powers(n)[i - 1] = BYTE ^ (i - 1)
  BY <1>1, AsNumeral
<1>4. Numeral(ones, w, BYTE, n) /\ Bits!asU(ones) = Sum(Worth(ones, w))
  <2> HIDE DEF ones
  <2>1. QED
    BY <1>1, <1>2, AsNumeral
<1>5. Numeral(x, w, BYTE, n)
  <2> HIDE DEF x
  <2>1. QED
    BY <1>1, <1>2, AsNumeral
<1>6. \A j \in 1 .. i - 1 : x[j] \in 0 .. BYTE - 1
  <2> SUFFICES ASSUME NEW j \in 1 .. i - 1 PROVE x[j] \in 0 .. BYTE - 1
    OBVIOUS
  <2>1. j \in 1 .. n /\ b[j] # 0
    BY <1>1
  <2>2. b[j] \in 0 .. BYTE - 1 /\ x[j] = b[j] - 1
    BY <1>1, <2>1
  <2>3. QED
    BY <1>1, <2>1, <2>2
<1>7. x[i] = b[i] - 1
  OBVIOUS
<1> HIDE DEF ones, x, w
<1>8. Sum(Worth(x, w)) = Sum(Worth(b, w)) - Sum(Worth(ones, w))
  <2>1. Differ(x, b, ones, n)
    BY <1>2 DEF Differ
  <2>2. QED
    BY <1>3, <1>4, <1>5, <2>1, WorthOfDifference
<1>9. ((Sum(Worth(x, w)) % w[n]) \div w[i - 1]) % BYTE = x[i] % BYTE
  BY <1>5, <1>6, DigitFound
<1>10. Bits!ByteOf((Bits!asU(b) - Bits!asU(ones)) % BYTE ^ n, i)
         = ((Sum(Worth(x, w)) % w[n]) \div w[i - 1]) % BYTE
  BY <1>3, <1>4, <1>8, Zenon DEF Bits!ByteOf, w
<1>11. QED
  BY <1>7, <1>9, <1>10 DEF ones

(* str() of U32_u and U64_u: the subtraction that is to find a byte that is 0 finds
   one just if there is one, for bytes of any even number of values, and up to eight
   of them. *)
THEOREM ZeroIsFound ==
  ASSUME Bits!Params, NEW n, NEW b, Bytes(b, n)
  PROVE  Bits!HasZero(b) <=> \E i \in 1 .. n : b[i] = 0
<1> DEFINE less == (Bits!asU(b) - Bits!asU([k \in 1 .. n |-> 1])) % BYTE ^ n
           half == BYTE \div 2
<1>1. /\ n \in Nat /\ BYTE \in Nat /\ BYTE > 1
      /\ Len(b) = n /\ \A k \in 1 .. n : b[k] \in 0 .. BYTE - 1
  <2>1. BYTE \in Nat /\ BYTE > 1
    BY DEF Bits!Params
  <2>2. n \in 1 .. 8 /\ b \in [1 .. n -> 0 .. BYTE - 1]
    BY DEF Bytes
  <2>3. QED
    BY <2>1, <2>2
<1>2. half \in Nat /\ half > 0 /\ BYTE = 2 * half
  <2>1. BYTE % 2 = 0
    BY DEF Bits!Params
  <2>2. QED
    BY <1>1, <2>1
<1>3. Bits!HasZero(b) <=> \E i \in 1 .. n : Bits!ByteOf(less, i) >= half /\ b[i] < half
  BY <1>1 DEF Bits!HasZero
<1>4. \A i \in 1 .. n : (\A j \in 1 .. i - 1 : b[j] # 0) => Bits!ByteOf(less, i) = (b[i] - 1) % BYTE
  BY OnesTaken
<1> HIDE DEF less, half
<1>5. ASSUME NEW i \in 1 .. n, Bits!ByteOf(less, i) >= half, b[i] < half,
             \A j \in 1 .. n : b[j] # 0
      PROVE  FALSE
  <2>1. Bits!ByteOf(less, i) = (b[i] - 1) % BYTE
    BY <1>1, <1>4, <1>5
  <2>2. b[i] - 1 \in 0 .. BYTE - 1
    BY <1>1, <1>5
  <2>3. (b[i] - 1) % BYTE = b[i] - 1
    BY <1>1, <2>2, ModOfSmall
  <2>4. QED
    BY <1>1, <1>2, <1>5, <2>1, <2>2, <2>3
<1>6. ASSUME NEW k \in 1 .. n, b[k] = 0
      PROVE  \E i \in 1 .. n : Bits!ByteOf(less, i) >= half /\ b[i] < half
  <2> DEFINE P == {i \in 1 .. n : b[i] = 0}
  <2>1. P \subseteq 1 .. n /\ k \in P
    BY <1>6
  <2>2. PICK i \in P : \A j \in P : i <= j
    <3> HIDE DEF P
    <3>1. QED
      BY <1>1, <2>1, LeastOf
  <2>3. i \in 1 .. n /\ b[i] = 0 /\ \A j \in 1 .. i - 1 : b[j] # 0
    BY <1>1, <2>2
  <2>4. Bits!ByteOf(less, i) = (b[i] - 1) % BYTE
    BY <1>4, <2>3
  <2>5. (b[i] - 1) % BYTE = BYTE - 1
    <3> DEFINE m == BYTE - 1
    <3>1. /\ b[i] - 1 = m + BYTE * (-1) /\ m \in 0 .. BYTE - 1 /\ m \in Int
          /\ BYTE \in Nat \ {0} /\ -1 \in Int
      BY <1>1, <2>3
    <3> HIDE DEF m
    <3>2. (m + BYTE * (-1)) % BYTE = m % BYTE
      BY <3>1, ModShift
    <3>3. m % BYTE = m
      BY <3>1, ModOfSmall
    <3>4. QED
      BY <3>1, <3>2, <3>3 DEF m
  <2>6. BYTE - 1 >= half /\ b[i] < half
    BY <1>1, <1>2, <2>3
  <2>7. QED
    BY <2>3, <2>4, <2>5, <2>6
<1>7. QED
  BY <1>3, <1>5, <1>6

(* In memory a text ends before the first byte that is 0. *)
LEMMA UpToFirstZero ==
  ASSUME NEW mem, Len(mem) \in Nat, NEW p \in 1 .. Len(mem), mem[p] = 0,
         \A j \in 1 .. p - 1 : mem[j] # 0
  PROVE  Bits!UpToZero(mem) = SubSeq(mem, 1, p - 1)
<1> DEFINE Z == {i \in 1 .. Len(mem) : mem[i] = 0}
<1>1. p \in Z /\ \A i \in Z : i \in 1 .. Len(mem) /\ p <= i
  <2>1. ASSUME NEW i \in Z PROVE p <= i
    BY <2>1
  <2>2. QED
    BY <2>1
<1> HIDE DEF Z
<1>2. \A x \in Z : (\A y \in Z : x <= y) => x = p
  BY <1>1
<1>3. Bits!Min(Z) = p
  BY <1>1, <1>2, Zenon DEF Bits!Min
<1>4. QED
  BY <1>3, Zenon DEF Bits!UpToZero, Z

LEMMA FunctionIsSequence ==
  ASSUME NEW S, NEW n \in Nat, NEW b \in [1 .. n -> S]
  PROVE  b \in Seq(S) /\ Len(b) = n
OBVIOUS

LEMMA ByteSequence ==
  ASSUME Bits!Params, NEW n \in Nat, NEW b \in [1 .. n -> 0 .. BYTE - 1]
  PROVE  b \in Seq(0 .. BYTE - 1) /\ b \in Seq(Int) /\ Len(b) = n
<1>1. 0 .. BYTE - 1 \subseteq Int
  BY DEF Bits!Params
<1>2. b \in [1 .. n -> Int]
  BY <1>1
<1>3. QED
  BY <1>2, FunctionIsSequence, Zenon

LEMMA EndOfText ==
  ASSUME Bits!Params
  PROVE  <<0>> \in Seq(0 .. BYTE - 1) /\ <<0>> \in Seq(Int) /\ Len(<<0>>) = 1 /\ <<0>>[1] = 0
<1>1. 0 \in 0 .. BYTE - 1
  BY DEF Bits!Params
<1>2. QED
  BY <1>1

\* Texts of any length
Strings == Seq(1 .. BYTE - 1)

\* The n bytes b begin with the text t, as far as they go, and its 0.
Begins(b, t, n) ==
  /\ Bytes(b, n)
  /\ \A j \in 1 .. n : j <= Len(t) => b[j] = t[j]
  /\ Len(t) < n => b[Len(t) + 1] = 0

LEMMA FilledBegins ==
  ASSUME Bits!Params, NEW t \in Strings, NEW n \in 1 .. 8
  PROVE  Begins(Bits!Filled(t, n), t, n) /\ (Len(t) < n => Bits!Filled(t, n)[n] = 0)
<1> DEFINE b == Bits!Filled(t, n)
<1>1. BYTE \in Nat /\ BYTE > 1
  BY DEF Bits!Params
<1>2. b = [i \in 1 .. n |-> IF i <= Len(t) THEN t[i] ELSE 0]
  BY DEF Bits!Filled
<1>3. Len(t) \in Nat /\ \A i \in 1 .. Len(t) : t[i] \in 0 .. BYTE - 1
  BY <1>1 DEF Strings
<1> HIDE DEF b
<1>4. b \in [1 .. n -> 0 .. BYTE - 1]
  BY <1>1, <1>2, <1>3
<1>5. QED
  BY <1>2, <1>3, <1>4 DEF b, Begins, Bytes

LEMMA CopiedBegins ==
  ASSUME Bits!Params, NEW t \in Strings, NEW m \in [1 .. 4 -> 0 .. BYTE - 1], NEW n \in 1 .. 5
  PROVE  Begins(Bits!Copied(t, m, n), t, n)
<1> DEFINE b == Bits!Copied(t, m, n)
           z == t \o <<0>>
           q == z \o m
<1>1. BYTE \in Nat /\ BYTE > 1
  BY DEF Bits!Params
<1>2. t \in Seq(0 .. BYTE - 1) /\ <<0>> \in Seq(0 .. BYTE - 1) /\ m \in Seq(0 .. BYTE - 1)
        /\ Len(<<0>>) = 1 /\ <<0>>[1] = 0 /\ Len(m) = 4 /\ Len(t) \in Nat
  <2>1. t \in Seq(0 .. BYTE - 1) /\ Len(t) \in Nat
    BY <1>1 DEF Strings
  <2>2. m \in Seq(0 .. BYTE - 1) /\ Len(m) = 4
    BY ByteSequence
  <2>3. QED
    BY <2>1, <2>2, EndOfText
<1>3. /\ z \in Seq(0 .. BYTE - 1) /\ Len(z) = Len(t) + 1
      /\ \A i \in 1 .. Len(t) + 1 : z[i] = IF i <= Len(t) THEN t[i] ELSE <<0>>[i - Len(t)]
  BY <1>2, ConcatProperties
<1> HIDE DEF z
<1>4. /\ q \in Seq(0 .. BYTE - 1) /\ Len(q) = Len(z) + 4
      /\ \A i \in 1 .. Len(z) + 4 : q[i] = IF i <= Len(z) THEN z[i] ELSE m[i - Len(z)]
  <2>1. z \in Seq(0 .. BYTE - 1) /\ m \in Seq(0 .. BYTE - 1) /\ Len(m) = 4
    BY <1>2, <1>3
  <2>2. /\ z \o m \in Seq(0 .. BYTE - 1) /\ Len(z \o m) = Len(z) + Len(m)
        /\ \A i \in 1 .. Len(z) + Len(m) : (z \o m)[i] = IF i <= Len(z) THEN z[i] ELSE m[i - Len(z)]
    BY <2>1, ConcatProperties, Zenon
  <2>3. QED
    BY <2>1, <2>2, Zenon
<1>5. b = [i \in 1 .. n |-> q[i]]
  BY DEF Bits!Copied, z
<1> HIDE DEF b, q
<1>6. \A i \in 1 .. n : i \in 1 .. Len(q) /\ q[i] \in 0 .. BYTE - 1
  <2>1. Len(q) >= 5 /\ Len(q) \in Nat
    BY <1>2, <1>3, <1>4
  <2>2. ASSUME NEW i \in 1 .. n PROVE i \in 1 .. Len(q)
    BY <2>1
  <2>3. ASSUME NEW i \in 1 .. Len(q) PROVE q[i] \in 0 .. BYTE - 1
    BY <1>4, ElementOfSeq
  <2>4. QED
    BY <2>2, <2>3
<1>7. \A i \in 1 .. Len(t) : q[i] = t[i]
  BY <1>2, <1>3, <1>4, SMTT(30)
<1>8. q[Len(t) + 1] = 0
  BY <1>2, <1>3, <1>4, SMTT(30)
<1>9. b \in [1 .. n -> 0 .. BYTE - 1] /\ n \in 1 .. 8
  BY <1>5, <1>6
<1>10. QED
  BY <1>2, <1>5, <1>7, <1>8, <1>9 DEF b, Begins, Bytes

(* The bytes of a text before its 0, or all of them *)
LEMMA FirstBytes ==
  ASSUME Bits!Params, NEW t \in Strings, NEW n, NEW b, Begins(b, t, n), NEW l \in Nat,
         l = (IF Len(t) < n THEN Len(t) ELSE n)
  PROVE  /\ SubSeq(b, 1, l) = FirstOf(t, n) /\ b \in Seq(Int) /\ Len(b) = n /\ l <= n
         /\ \A j \in 1 .. l : b[j] # 0
         /\ l < n => b[l + 1] = 0
<1>1. /\ BYTE \in Nat /\ BYTE > 1 /\ n \in 1 .. 8 /\ b \in [1 .. n -> 0 .. BYTE - 1]
      /\ t \in Seq(1 .. BYTE - 1)
  BY DEF Bits!Params, Begins, Bytes, Strings
<1>2. Len(t) \in Nat /\ \A j \in 1 .. Len(t) : t[j] \in 1 .. BYTE - 1 /\ t[j] \in Int /\ t[j] # 0
  BY <1>1, SMTT(30)
<1>3. \A j \in 1 .. l : j \in 1 .. Len(t) /\ j \in 1 .. n /\ b[j] = t[j]
  BY <1>1, <1>2 DEF Begins
<1>4. b \in Seq(Int) /\ Len(b) = n
  BY <1>1
<1>5. FirstOf(t, n) = SubSeq(t, 1, l)
  BY DEF FirstOf
<1>6. /\ SubSeq(b, 1, l) \in Seq(Int) /\ Len(SubSeq(b, 1, l)) = l
      /\ \A i \in 1 .. l : SubSeq(b, 1, l)[i] = b[i]
  <2>1. \A i \in 1 .. l : b[i] \in Int
    BY <1>2, <1>3
  <2>2. QED
    BY <2>1, SubSeqProperties
<1>7. /\ SubSeq(t, 1, l) \in Seq(Int) /\ Len(SubSeq(t, 1, l)) = l
      /\ \A i \in 1 .. l : SubSeq(t, 1, l)[i] = t[i]
  <2>1. \A i \in 1 .. l : t[i] \in Int
    BY <1>2, <1>3
  <2>2. QED
    BY <2>1, SubSeqProperties
<1>8. SubSeq(b, 1, l) = SubSeq(t, 1, l)
  BY <1>3, <1>6, <1>7, SeqEqual
<1>9. l < n => b[l + 1] = 0
  BY <1>1, <1>2 DEF Begins
<1>10. QED
  BY <1>1, <1>2, <1>3, <1>4, <1>5, <1>8, <1>9, SMTT(30)

(* U64_u, U32_u and their like: the text, or the first bytes of it if it is longer,
   comes back from up to eight bytes that begin with it, whatever is behind its 0
   and whatever follows in memory. *)
THEOREM TextIsBack ==
  ASSUME Bits!Params, NEW t \in Strings, NEW n, NEW b, Begins(b, t, n),
         NEW m \in [1 .. 4 -> 0 .. BYTE - 1]
  PROVE  Bits!str(b, m) = FirstOf(t, n)
<1> DEFINE l == IF Len(t) < n THEN Len(t) ELSE n
           z == b \o m
           q == z \o <<0>>
<1>1. Bytes(b, n) /\ n \in 1 .. 8
  BY DEF Begins, Bytes
<1>2. l \in Nat
  BY <1>1 DEF Strings
<1>3. /\ SubSeq(b, 1, l) = FirstOf(t, n) /\ b \in Seq(Int) /\ Len(b) = n /\ l <= n
      /\ \A j \in 1 .. l : b[j] # 0
      /\ l < n => b[l + 1] = 0
  BY <1>2, FirstBytes, SMTT(30)
<1>4. Bits!HasZero(b) <=> \E i \in 1 .. n : b[i] = 0
  BY <1>1, ZeroIsFound
<1> HIDE DEF l
<1>5. CASE l = n
  <2>1. ~Bits!HasZero(b)
    BY <1>3, <1>4, <1>5
  <2>2. SubSeq(b, 1, Len(b)) = b
    BY <1>3
  <2>3. QED
    BY <1>3, <1>5, <2>1, <2>2 DEF Bits!str
<1>6. CASE l < n
  <2>1. Bits!HasZero(b)
    BY <1>1, <1>2, <1>3, <1>4, <1>6
  <2>2. m \in Seq(Int) /\ Len(m) = 4 /\ <<0>> \in Seq(Int) /\ Len(<<0>>) = 1
    BY ByteSequence, EndOfText
  <2>3. /\ z \in Seq(Int) /\ Len(z) = n + 4
        /\ \A i \in 1 .. n + 4 : z[i] = IF i <= n THEN b[i] ELSE m[i - n]
    <3>1. b \in Seq(Int) /\ m \in Seq(Int) /\ Len(b) = n /\ Len(m) = 4
      BY <1>3, <2>2
    <3>2. /\ z \in Seq(Int) /\ Len(z) = Len(b) + Len(m)
          /\ \A i \in 1 .. Len(b) + Len(m) : z[i] = IF i <= Len(b) THEN b[i] ELSE m[i - Len(b)]
      BY <3>1, ConcatProperties, Zenon
    <3>3. QED
      BY <3>1, <3>2, Zenon
  <2> HIDE DEF z
  <2>4. /\ q \in Seq(Int) /\ Len(q) = Len(z) + 1
        /\ \A i \in 1 .. Len(z) + 1 : q[i] = IF i <= Len(z) THEN z[i] ELSE <<0>>[i - Len(z)]
    BY <2>2, <2>3, ConcatProperties, SMTT(30)
  <2> HIDE DEF q
  <2>5. \A i \in 1 .. n : q[i] = b[i] /\ b[i] \in Int
    <3> SUFFICES ASSUME NEW i \in 1 .. n PROVE q[i] = b[i] /\ b[i] \in Int
      OBVIOUS
    <3>1. i \in 1 .. n + 4 /\ i \in 1 .. Len(z) + 1 /\ i <= Len(z) /\ i <= n /\ i \in 1 .. Len(b)
      BY <1>1, <1>3, <2>3
    <3>2. q[i] = z[i] /\ z[i] = b[i]
      BY <2>3, <2>4, <3>1
    <3>3. b[i] \in Int
      BY <1>3, <3>1, ElementOfSeq
    <3>4. QED
      BY <3>2, <3>3
  <2>6. l + 1 \in 1 .. n /\ q[l + 1] = 0 /\ \A j \in 1 .. l : j \in 1 .. n /\ q[j] # 0
    BY <1>1, <1>2, <1>3, <1>6, <2>5, SMTT(30)
  <2>7. Bits!UpToZero(q) = SubSeq(q, 1, l)
    <3>1. Len(q) \in Nat /\ l + 1 \in 1 .. Len(q) /\ (l + 1) - 1 = l
      BY <1>1, <1>2, <2>3, <2>4, <2>6
    <3>2. Bits!UpToZero(q) = SubSeq(q, 1, (l + 1) - 1)
      BY <2>6, <3>1, UpToFirstZero
    <3>3. QED
      BY <3>1, <3>2
  <2>8. SubSeq(q, 1, l) = SubSeq(b, 1, l)
    <3>1. \A i \in 1 .. l : q[i] = b[i] /\ b[i] \in Int /\ q[i] \in Int
      BY <2>5, <2>6
    <3>2. /\ SubSeq(q, 1, l) \in Seq(Int) /\ Len(SubSeq(q, 1, l)) = (IF 1 <= l THEN l ELSE 0)
          /\ \A i \in 1 .. l : SubSeq(q, 1, l)[i] = q[i]
      BY <1>2, <3>1, SubSeqProperties
    <3>3. /\ SubSeq(b, 1, l) \in Seq(Int) /\ Len(SubSeq(b, 1, l)) = (IF 1 <= l THEN l ELSE 0)
          /\ \A i \in 1 .. l : SubSeq(b, 1, l)[i] = b[i]
      BY <1>2, <3>1, SubSeqProperties
    <3>4. QED
      BY <1>2, <3>1, <3>2, <3>3, SeqEqual
  <2>9. QED
    BY <1>3, <2>1, <2>7, <2>8, Zenon DEF Bits!str, q, z
<1>7. QED
  BY <1>2, <1>3, <1>5, <1>6, <1>1

(* U16_u: so it does from its two bytes, though only the second one is looked at. *)
LEMMA TextIsBack16 ==
  ASSUME Bits!Params, NEW t \in Strings, NEW b, Begins(b, t, 2), Len(t) < 2 => b[2] = 0
  PROVE  Bits!str16(b) = FirstOf(t, 2)
<1> DEFINE l == IF Len(t) < 2 THEN Len(t) ELSE 2
<1>1. l \in Nat /\ Len(t) \in Nat
  BY DEF Strings
<1>2. /\ SubSeq(b, 1, l) = FirstOf(t, 2) /\ b \in Seq(Int) /\ Len(b) = 2 /\ l <= 2
      /\ \A j \in 1 .. l : b[j] # 0
      /\ l < 2 => b[l + 1] = 0
  <2> DEFINE n == 2
  <2> HIDE DEF l, n
  <2>1. l = (IF Len(t) < n THEN Len(t) ELSE n)
    BY DEF l, n
  <2>2. Begins(b, t, n)
    BY DEF n
  <2>3. /\ SubSeq(b, 1, l) = FirstOf(t, n) /\ b \in Seq(Int) /\ Len(b) = n /\ l <= n
        /\ \A j \in 1 .. l : b[j] # 0
        /\ l < n => b[l + 1] = 0
    BY <1>1, <2>1, <2>2, FirstBytes
  <2>4. QED
    BY <2>3 DEF n
<1>3. l < 2 => b[2] = 0
  BY <1>1
<1> HIDE DEF l
<1>4. CASE l = 2
  <2>1. b[2] # 0 /\ SubSeq(b, 1, 2) = b
    BY <1>2, <1>4
  <2>2. QED
    BY <1>2, <1>4, <2>1 DEF Bits!str16
<1>5. CASE l < 2
  <2>1. l + 1 \in 1 .. Len(b) /\ Len(b) \in Nat /\ (l + 1) - 1 = l
    BY <1>1, <1>2, <1>5
  <2>2. Bits!UpToZero(b) = SubSeq(b, 1, (l + 1) - 1)
    BY <1>2, <1>5, <2>1, UpToFirstZero
  <2>3. QED
    BY <1>2, <1>3, <1>5, <2>1, <2>2 DEF Bits!str16
<1>6. QED
  BY <1>1, <1>2, <1>4, <1>5

(* Bytes that are neither less than each other are the same. *)
LEMMA SameBytes ==
  ASSUME Bits!Params, NEW n, NEW p, NEW q, Bytes(p, n), Bytes(q, n)
  PROVE  ~Bits!LessU(p, q) /\ ~Bits!LessU(q, p) <=> p = q
<1> DEFINE w == Powers(n)
<1>1. n \in 1 .. 8 /\ p \in [1 .. n -> 0 .. BYTE - 1] /\ q \in [1 .. n -> 0 .. BYTE - 1]
  BY DEF Bytes
<1>2. BYTE \in Nat
  BY DEF Bits!Params
<1>3. p \in [1 .. n -> Int] /\ q \in [1 .. n -> Int]
  BY <1>1, <1>2
<1>4. Numeral(p, w, BYTE, n) /\ Bits!asU(p) = Sum(Worth(p, w))
  BY <1>1, <1>3, AsNumeral
<1>5. Numeral(q, w, BYTE, n) /\ Bits!asU(q) = Sum(Worth(q, w))
  BY <1>1, <1>3, AsNumeral
<1> HIDE DEF w
<1>6. Sum(Worth(p, w)) \in Int /\ Sum(Worth(q, w)) \in Int
  <2>1. n \in 0 .. n
    BY <1>1
  <2>2. QED
    BY <1>4, <1>5, <2>1, WorthStep
<1>7. Sum(Worth(p, w)) = Sum(Worth(q, w)) => p = q
  <2> SUFFICES ASSUME Sum(Worth(p, w)) = Sum(Worth(q, w)) PROVE p = q
    OBVIOUS
  <2>1. \A i \in 1 .. n : p[i] \in 0 .. BYTE - 1 /\ q[i] \in 0 .. BYTE - 1
    BY <1>1
  <2>2. \A i \in 1 .. n : p[i] = q[i]
    BY <1>4, <1>5, <2>1, SameDigits
  <2>3. QED
    BY <1>1, <2>2
<1>8. QED
  BY <1>4, <1>5, <1>6, <1>7 DEF Bits!LessU

(* Two unions that are filled with texts of any length are neither less than the
   other just if the texts, as far as they fit, are the same; and so are two that
   are copied from memory, if the texts are at most one byte short. *)
THEOREM SameTextsSameBytes ==
  ASSUME Bits!Params, NEW t \in Strings, NEW u \in Strings
  PROVE  /\ \A n \in 1 .. 8 :
              ~Bits!LessU(Bits!Filled(t, n), Bits!Filled(u, n))
              /\ ~Bits!LessU(Bits!Filled(u, n), Bits!Filled(t, n))
                <=> FirstOf(t, n) = FirstOf(u, n)
         /\ \A m, k \in [1 .. 4 -> 0 .. BYTE - 1] :
              Len(t) >= 3 /\ Len(u) >= 3 =>
                (~Bits!LessU(Bits!Copied(t, m, 4), Bits!Copied(u, k, 4))
                 /\ ~Bits!LessU(Bits!Copied(u, k, 4), Bits!Copied(t, m, 4))
                   <=> FirstOf(t, 4) = FirstOf(u, 4))
<1> DEFINE any == [i \in 1 .. 4 |-> 0]
<1>1. any \in [1 .. 4 -> 0 .. BYTE - 1]
  BY DEF Bits!Params
<1> HIDE DEF any
<1>2. Len(t) \in Nat /\ Len(u) \in Nat /\ t \in Seq(1 .. BYTE - 1) /\ u \in Seq(1 .. BYTE - 1)
  BY DEF Strings
<1>3. ASSUME NEW n, NEW p, NEW q, Begins(p, t, n), Begins(q, u, n),
             \A i \in 1 .. n : i > Len(t) /\ i > Len(u) => p[i] = q[i]
      PROVE  ~Bits!LessU(p, q) /\ ~Bits!LessU(q, p) <=> FirstOf(t, n) = FirstOf(u, n)
  <2>1. Bytes(p, n) /\ Bytes(q, n)
    BY <1>3 DEF Begins
  <2>2. n \in 1 .. 8 /\ p \in [1 .. n -> 0 .. BYTE - 1] /\ q \in [1 .. n -> 0 .. BYTE - 1]
    BY <2>1 DEF Bytes
  <2>3. ~Bits!LessU(p, q) /\ ~Bits!LessU(q, p) <=> p = q
    BY <2>1, SameBytes
  <2>4. Bits!str(p, any) = FirstOf(t, n) /\ Bits!str(q, any) = FirstOf(u, n)
    BY <1>1, <1>3, TextIsBack
  <2>5. FirstOf(t, n) = FirstOf(u, n) => p = q
    <3> SUFFICES ASSUME FirstOf(t, n) = FirstOf(u, n) PROVE p = q
      OBVIOUS
    <3> DEFINE l == IF Len(t) < n THEN Len(t) ELSE n
               k == IF Len(u) < n THEN Len(u) ELSE n
    <3>1. l \in Nat /\ k \in Nat /\ l <= n /\ k <= n
      BY <1>2, <2>2
    <3>2. SubSeq(p, 1, l) = FirstOf(t, n) /\ SubSeq(q, 1, k) = FirstOf(u, n)
      BY <1>3, <3>1, FirstBytes, SMTT(30)
    <3>3. \A i \in 1 .. n : p[i] \in Int /\ q[i] \in Int
      BY <2>2, SMTT(30) DEF Bits!Params
    <3>4. (l < n => l = Len(t)) /\ (k < n => k = Len(u)) /\ l <= Len(t) /\ k <= Len(u)
      BY <1>2, <2>2
    <3> HIDE DEF l, k
    <3>5. Len(SubSeq(p, 1, l)) = l /\ \A i \in 1 .. l : SubSeq(p, 1, l)[i] = p[i]
      <4>1. \A i \in 1 .. l : p[i] \in Int
        BY <2>2, <3>1, <3>3
      <4>2. QED
        BY <3>1, <4>1, SubSeqProperties
    <3>6. Len(SubSeq(q, 1, k)) = k /\ \A i \in 1 .. k : SubSeq(q, 1, k)[i] = q[i]
      <4>1. \A i \in 1 .. k : q[i] \in Int
        BY <2>2, <3>1, <3>3
      <4>2. QED
        BY <3>1, <4>1, SubSeqProperties
    <3>7. l = k /\ \A i \in 1 .. l : p[i] = q[i]
      BY <3>2, <3>5, <3>6
    <3>8. \A i \in 1 .. n : p[i] = q[i]
      <4> SUFFICES ASSUME NEW i \in 1 .. n PROVE p[i] = q[i]
        OBVIOUS
      <4>1. CASE i <= l
        <5>1. i \in 1 .. l
          BY <2>2, <3>1, <4>1
        <5>2. QED
          BY <3>7, <5>1
      <4>2. CASE i > l
        <5>1. l < n /\ k = l /\ k < n
          BY <2>2, <3>1, <3>7, <4>2
        <5>2. i > Len(t) /\ i > Len(u)
          BY <3>4, <4>2, <5>1
        <5>3. QED
          BY <1>3, <5>2
      <4>3. QED
        BY <2>2, <3>1, <4>1, <4>2
    <3>9. QED
      BY <2>2, <3>8
  <2>6. QED
    BY <2>3, <2>4, <2>5
<1>4. ASSUME NEW n \in 1 .. 8
      PROVE  ~Bits!LessU(Bits!Filled(t, n), Bits!Filled(u, n))
              /\ ~Bits!LessU(Bits!Filled(u, n), Bits!Filled(t, n))
                <=> FirstOf(t, n) = FirstOf(u, n)
  <2>1. Begins(Bits!Filled(t, n), t, n) /\ Begins(Bits!Filled(u, n), u, n)
    BY FilledBegins
  <2>2. \A i \in 1 .. n : i > Len(t) /\ i > Len(u) => Bits!Filled(t, n)[i] = Bits!Filled(u, n)[i]
    BY <1>2 DEF Bits!Filled
  <2>3. QED
    BY <1>3, <2>1, <2>2, Zenon
<1>5. ASSUME NEW m \in [1 .. 4 -> 0 .. BYTE - 1], NEW k \in [1 .. 4 -> 0 .. BYTE - 1],
             Len(t) >= 3, Len(u) >= 3
      PROVE  ~Bits!LessU(Bits!Copied(t, m, 4), Bits!Copied(u, k, 4))
              /\ ~Bits!LessU(Bits!Copied(u, k, 4), Bits!Copied(t, m, 4))
                <=> FirstOf(t, 4) = FirstOf(u, 4)
  <2>1. Begins(Bits!Copied(t, m, 4), t, 4) /\ Begins(Bits!Copied(u, k, 4), u, 4)
    BY CopiedBegins
  <2> DEFINE p == Bits!Copied(t, m, 4)
             q == Bits!Copied(u, k, 4)
  <2> HIDE DEF p, q
  <2>2. \A i \in 1 .. 4 : i > Len(t) /\ i > Len(u) => p[i] = q[i]
    <3> SUFFICES ASSUME NEW i \in 1 .. 4, i > Len(t), i > Len(u) PROVE p[i] = q[i]
      OBVIOUS
    <3>1. i = Len(t) + 1 /\ i = Len(u) + 1 /\ Len(t) < 4 /\ Len(u) < 4
      BY <1>2, <1>5, SMTT(30)
    <3>2. QED
      BY <2>1, <3>1 DEF Begins, p, q
  <2>3. QED
    BY <1>3, <2>1, <2>2, ZenonT(60) DEF p, q
<1>6. QED
  BY <1>4, <1>5

(* The texts of an input, and the memory behind them *)
LEMMA TextPicked ==
  ASSUME Next, probe'.kind = "text"
  PROVE  probe'.t \in Strings /\ probe'.m \in [1 .. 4 -> 0 .. BYTE - 1]
<1>1. PICK t \in Texts, m \in Behind : probe' = [kind |-> "text", t |-> t, m |-> m]
  BY Picked, Zenon DEF PickText
<1>2. BYTE \in Nat /\ BYTE > 1
  BY ParamsAssumption DEF Bits!Params
<1>3. {0, BYTE - 1} \subseteq 0 .. BYTE - 1 /\ {1, BYTE - 1} \subseteq 1 .. BYTE - 1
  BY <1>2
<1>4. m \in [1 .. 4 -> 0 .. BYTE - 1]
  BY <1>3 DEF Behind
<1>5. t \in Strings
  <2>1. ASSUME NEW n \in 0 .. 4, NEW s \in [1 .. n -> 1 .. BYTE - 1] PROVE s \in Strings
    <3>1. n \in Nat
      OBVIOUS
    <3>2. QED
      BY <2>1, <3>1, FunctionIsSequence, Zenon DEF Strings
  <2>2. ASSUME NEW s \in [1 .. 8 -> {1, BYTE - 1}] PROVE s \in Strings
    <3>1. s \in [1 .. 8 -> 1 .. BYTE - 1] /\ 8 \in Nat
      BY <1>3, <2>2
    <3>2. QED
      BY <3>1, FunctionIsSequence, Zenon DEF Strings
  <2>3. CASE t \in UNION {[1 .. n -> 1 .. BYTE - 1] : n \in 0 .. 4}
    <3>1. PICK n \in 0 .. 4 : t \in [1 .. n -> 1 .. BYTE - 1]
      BY <2>3
    <3>2. QED
      BY <2>1, <3>1
  <2>4. CASE t \in [1 .. 8 -> {1, BYTE - 1}]
    BY <2>2, <2>4
  <2>5. QED
    BY <2>3, <2>4 DEF Texts
<1>6. QED
  BY <1>1, <1>4, <1>5

LEMMA TextsPicked ==
  ASSUME Next, probe'.kind = "texts"
  PROVE  /\ probe'.t \in Strings /\ probe'.m \in [1 .. 4 -> 0 .. BYTE - 1] /\ Len(probe'.t) <= 4
         /\ probe'.u \in Strings /\ probe'.k \in [1 .. 4 -> 0 .. BYTE - 1] /\ Len(probe'.u) <= 4
<1>1. PICK t \in Shorter, u \in Shorter, m \in Behind, k \in Behind :
        probe' = [kind |-> "texts", t |-> t, m |-> m, u |-> u, k |-> k]
  BY Picked, Zenon DEF PickTexts
<1>2. BYTE \in Nat /\ BYTE > 1
  BY ParamsAssumption DEF Bits!Params
<1>3. {0, BYTE - 1} \subseteq 0 .. BYTE - 1 /\ {1, BYTE - 1} \subseteq 1 .. BYTE - 1
  BY <1>2
<1>4. m \in [1 .. 4 -> 0 .. BYTE - 1] /\ k \in [1 .. 4 -> 0 .. BYTE - 1]
  BY <1>3 DEF Behind
<1>5. ASSUME NEW s \in Shorter PROVE s \in Strings /\ Len(s) <= 4
  <2>1. PICK n \in 0 .. 4 : s \in [1 .. n -> {1, BYTE - 1}]
    BY DEF Shorter
  <2>2. n \in Nat /\ n <= 4 /\ s \in [1 .. n -> 1 .. BYTE - 1]
    BY <1>3, <2>1
  <2>3. s \in Seq(1 .. BYTE - 1) /\ Len(s) = n
    BY <2>2, FunctionIsSequence, Zenon
  <2>4. QED
    BY <2>2, <2>3 DEF Strings
<1>6. QED
  BY <1>1, <1>4, <1>5

LEMMA TextSurvivesHolds == ASSUME Next, probe'.kind = "text" PROVE TextSurvives'
<1> DEFINE t == probe'.t
           m == probe'.m
<1>1. Bits!Params /\ t \in Strings /\ m \in [1 .. 4 -> 0 .. BYTE - 1]
  BY ParamsAssumption, TextPicked
<1> HIDE DEF t, m
<1>2. Bits!str(Bits!Filled(t, 8), m) = FirstOf(t, 8)
  <2>1. Begins(Bits!Filled(t, 8), t, 8)
    BY <1>1, FilledBegins
  <2>2. QED
    BY <1>1, <2>1, TextIsBack, Zenon
<1>3. Bits!str(Bits!Copied(t, m, 4), m) = FirstOf(t, 4)
  <2>1. Begins(Bits!Copied(t, m, 4), t, 4)
    BY <1>1, CopiedBegins
  <2>2. QED
    BY <1>1, <2>1, TextIsBack, Zenon
<1>4. Bits!str16(Bits!Filled(t, 2)) = FirstOf(t, 2)
  <2>1. Begins(Bits!Filled(t, 2), t, 2) /\ (Len(t) < 2 => Bits!Filled(t, 2)[2] = 0)
    BY <1>1, FilledBegins
  <2>2. QED
    BY <1>1, <2>1, TextIsBack16, Zenon
<1>5. t # <<>> => Bits!str16(Bits!Copied(t, m, 2)) = FirstOf(t, 2)
  <2> SUFFICES ASSUME t # <<>> PROVE Bits!str16(Bits!Copied(t, m, 2)) = FirstOf(t, 2)
    OBVIOUS
  <2>1. Begins(Bits!Copied(t, m, 2), t, 2)
    BY <1>1, CopiedBegins
  <2>2. Len(t) < 2 => Bits!Copied(t, m, 2)[2] = 0
    <3>1. Len(t) \in Nat \ {0}
      BY <1>1, EmptySeq, Zenon DEF Strings
    <3>2. Len(t) < 2 => Len(t) + 1 = 2
      BY <3>1
    <3>3. QED
      BY <2>1, <3>2 DEF Begins
  <2>3. QED
    BY <1>1, <2>1, <2>2, TextIsBack16, Zenon
<1>6. QED
  BY <1>2, <1>3, <1>4, <1>5, Zenon DEF TextSurvives, t, m

LEMMA SameTextHolds == ASSUME Next, probe'.kind = "texts" PROVE SameTextSameBits'
<1> DEFINE t == probe'.t
           u == probe'.u
           m == probe'.m
           k == probe'.k
           Same(p, q) == ~Bits!LessU(p, q) /\ ~Bits!LessU(q, p)
<1>1. /\ Bits!Params
      /\ t \in Strings /\ m \in [1 .. 4 -> 0 .. BYTE - 1] /\ Len(t) <= 4
      /\ u \in Strings /\ k \in [1 .. 4 -> 0 .. BYTE - 1] /\ Len(u) <= 4
  BY ParamsAssumption, TextsPicked
<1> HIDE DEF t, u, m, k
<1>2. \A n \in {2, 8} :
        Same(Bits!Filled(t, n), Bits!Filled(u, n)) <=> FirstOf(t, n) = FirstOf(u, n)
  <2>1. \A n \in {2, 8} : n \in 1 .. 8
    OBVIOUS
  <2>2. QED
    BY <1>1, <2>1, SameTextsSameBytes, ZenonT(60)
<1>3. Len(t) >= 3 /\ Len(u) >= 3 =>
        (Same(Bits!Copied(t, m, 4), Bits!Copied(u, k, 4)) <=> FirstOf(t, 4) = FirstOf(u, 4))
  BY <1>1, SameTextsSameBytes, Zenon
<1>4. FirstOf(t, 4) = t /\ FirstOf(u, 4) = u
  <2>1. ASSUME NEW s \in Strings, Len(s) <= 4 PROVE FirstOf(s, 4) = s
    <3>1. s \in Seq(1 .. BYTE - 1) /\ Len(s) \in Nat
      BY DEF Strings
    <3>2. FirstOf(s, 4) = SubSeq(s, 1, Len(s))
      <4> DEFINE n == Len(s)
      <4> HIDE DEF n
      <4>1. n \in Nat /\ n <= 4
        BY <2>1, <3>1 DEF n
      <4>2. (IF n < 4 THEN n ELSE 4) = n
        BY <4>1
      <4>3. (IF Len(s) < 4 THEN Len(s) ELSE 4) = Len(s)
        BY <4>2, Zenon DEF n
      <4>4. QED
        BY <4>3, Zenon DEF FirstOf
    <3>3. QED
      BY <3>1, <3>2
  <2>2. QED
    BY <1>1, <2>1
<1>5. QED
  BY <1>2, <1>3, <1>4, Zenon DEF SameTextSameBits, t, u, m, k

(* Comparisons, divisions and mixed comparisons agree with each other for doubles
   and integers of any size and any tolerance, and the texts in integers come back
   whatever the number of values of a byte. *)
THEOREM NumbersExact == Spec => []NumbersAgree
<1>1. Init => NumbersAgree
  BY DEF Init, NumbersAgree, OrderHolds, EqualIsBoth, MixedIsExact, DivIsOdd, TextSurvives,
         SameTextSameBits, Kind
<1>2. NumbersAgree /\ [Next]_vars => NumbersAgree'
  <2>1. Next => NumbersAgree'
    <3> SUFFICES ASSUME Next PROVE NumbersAgree'
      OBVIOUS
    <3>1. (OrderHolds /\ EqualIsBoth /\ DivIsOdd)'
      <4>1. CASE probe'.kind = "doubles"
        BY <4>1, DoubleLawsHold
      <4>2. CASE probe'.kind # "doubles"
        BY <4>2 DEF OrderHolds, EqualIsBoth, DivIsOdd, Kind
      <4>3. QED
        BY <4>1, <4>2
    <3>2. TextSurvives'
      <4>1. CASE probe'.kind = "text"
        BY <4>1, TextSurvivesHolds
      <4>2. CASE probe'.kind # "text"
        BY <4>2 DEF TextSurvives, Kind
      <4>3. QED
        BY <4>1, <4>2
    <3>3. SameTextSameBits'
      <4>1. CASE probe'.kind = "texts"
        BY <4>1, SameTextHolds
      <4>2. CASE probe'.kind # "texts"
        BY <4>2 DEF SameTextSameBits, Kind
      <4>3. QED
        BY <4>1, <4>2
    <3>4. QED
      BY <3>1, <3>2, <3>3, MixedIsExactHolds DEF NumbersAgree
  <2>2. NumbersAgree /\ UNCHANGED vars => NumbersAgree'
    BY DEF vars, NumbersAgree, OrderHolds, EqualIsBoth, MixedIsExact, DivIsOdd, TextSurvives,
           SameTextSameBits, FirstOf, Kind
  <2>3. QED
    BY <2>1, <2>2
<1>3. QED
  BY <1>1, <1>2, PTL DEF Spec

-----------------------------------------------------------------------------
(* Statistics *)

LEMMA StatsSorted == ASSUME NEW q PROVE Stats!Sorted(q) = Sorted(q)
BY DEF Stats!Sorted, Sorted, Stats!SortsOf, SortsOf, Stats!Insert, Insert, Stats!InsertAt, InsertAt

(* The figures of any samples and those of their opposites are mirror images. *)
THEOREM FiguresMirrored ==
  ASSUME NEW q \in Seq(Int), q # <<>>
  PROVE  LET s == Stats!Statistic(q)
             m == Stats!Statistic([i \in DOMAIN q |-> -q[i]])
         IN  <<m.max, m.min, m.med2, m.sum, m.var>> = <<-s.min, -s.max, -s.med2, -s.sum, s.var>>
<1> DEFINE n == Len(q)
           opp == [i \in DOMAIN q |-> -q[i]]
           S == Sorted(q)
           U == Sorted(opp)
           s == Stats!Statistic(q)
           m == Stats!Statistic(opp)
           E == [i \in 1 .. n |-> (n * S[i] - Sum(S)) * (n * S[i] - Sum(S))]
           F == [i \in 1 .. n |-> (n * U[i] - Sum(U)) * (n * U[i] - Sum(U))]
<1>1. n \in Nat \ {0} /\ DOMAIN q = 1 .. n /\ \A i \in 1 .. n : q[i] \in Int
  OBVIOUS
<1>2. opp = [i \in 1 .. n |-> -q[i]] /\ opp \in Seq(Int) /\ Len(opp) = n
  BY <1>1
<1>3. S \in Seq(Int) /\ Len(S) = n
  BY <1>1, SortedInOrder DEF InOrder
<1>4. U = [i \in 1 .. n |-> -S[n + 1 - i]]
  BY <1>2, SortedMirrored
<1>5. \A i \in 1 .. n : S[i] \in Int /\ n + 1 - i \in 1 .. n
  BY <1>1, <1>3
<1>6. Len(U) = n /\ \A i \in 1 .. n : U[i] = -S[n + 1 - i] /\ U[i] \in Int
  <2> HIDE DEF n, S, U
  <2>1. \A i \in 1 .. n : -S[n + 1 - i] \in Int
    BY <1>5
  <2>2. QED
    BY <1>1, <1>4, <2>1
<1>7. /\ s = [cnt |-> n, sum |-> Sum(S), max |-> S[n], min |-> S[1], med2 |-> Stats!Median2(S), var |-> Sum(E)]
      /\ m = [cnt |-> n, sum |-> Sum(U), max |-> U[n], min |-> U[1], med2 |-> Stats!Median2(U), var |-> Sum(F)]
  <2> HIDE DEF S, U, opp
  <2>1. /\ Stats!Sorted(q) = S /\ Stats!Sum(S) = Sum(S)
        /\ Stats!Sorted(opp) = U /\ Stats!Sum(U) = Sum(U)
    BY StatsSorted, StatsSum DEF S, U
  <2>2. /\ Stats!Squares([i \in 1 .. n |-> n * S[i] - Sum(S)]) = E
        /\ Stats!Squares([i \in 1 .. n |-> n * U[i] - Sum(U)]) = F
    BY DEF Stats!Squares
  <2>3. Stats!Sum(E) = Sum(E) /\ Stats!Sum(F) = Sum(F)
    BY StatsSum
  <2> HIDE DEF E, F, n
  <2>4. s = [cnt |-> n, sum |-> Sum(S), max |-> S[n], min |-> S[1], med2 |-> Stats!Median2(S), var |-> Sum(E)]
    BY <1>1, <1>3, <2>1, <2>2, <2>3 DEF Stats!Statistic
  <2>5. m = [cnt |-> n, sum |-> Sum(U), max |-> U[n], min |-> U[1], med2 |-> Stats!Median2(U), var |-> Sum(F)]
    BY <1>1, <1>6, <2>1, <2>2, <2>3 DEF Stats!Statistic
  <2>6. QED
    BY <2>4, <2>5
<1> HIDE DEF S, U, s, m
<1>8. Sum(S) \in Int
  BY <1>3, SumInt
<1>9. Sum(U) = -Sum(S)
  <2> DEFINE c == [i \in 1 .. n |-> -S[i]]
  <2>1. Len(c) = n /\ \A i \in 1 .. n : c[i] = -S[i] /\ c[i] \in Int
    BY <1>1, <1>5
  <2>2. Sum(c) = -Sum(S)
    BY <1>1, <1>3, <1>5, SumNegated
  <2> HIDE DEF c
  <2>3. U = [i \in 1 .. Len(c) |-> c[Len(c) + 1 - i]]
    BY <1>4, <1>5, <2>1
  <2>4. Sum(U) = Sum(c)
    BY <1>1, <2>1, <2>3, SumReversed
  <2>5. QED
    BY <2>2, <2>4
<1>10. Sum(F) = Sum(E)
  <2>1. Len(E) = n /\ \A i \in 1 .. n : E[i] \in Int
    BY <1>1, <1>5, <1>8
  <2>2. F = [i \in 1 .. Len(E) |-> E[Len(E) + 1 - i]]
    <3> SUFFICES ASSUME NEW i \in 1 .. n
                 PROVE  (n * U[i] - Sum(U)) * (n * U[i] - Sum(U)) = E[n + 1 - i]
      BY <2>1
    <3> DEFINE x == S[n + 1 - i]
               y == n * x - Sum(S)
    <3>1. x \in Int /\ y \in Int /\ E[n + 1 - i] = y * y
      BY <1>1, <1>5, <1>8
    <3>2. n * U[i] - Sum(U) = -y
      <4>1. U[i] = -x
        BY <1>6
      <4>2. n * (-x) = -(n * x) /\ n * x \in Int
        BY <1>1, <3>1
      <4>3. QED
        BY <1>8, <1>9, <4>1, <4>2
    <3> HIDE DEF y
    <3>3. QED
      BY <3>1, <3>2
  <2> HIDE DEF E, F
  <2>3. QED
    BY <1>1, <2>1, <2>2, SumReversed
<1>11. Stats!Median2(U) = -Stats!Median2(S)
  <2> HIDE DEF n
  <2> DEFINE k == (n - 1) \div 2
  <2>1. k \in Nat /\ n - 1 = 2 * k + ((n - 1) % 2) /\ (n - 1) % 2 \in 0 .. 1
    BY <1>1
  <2> HIDE DEF k
  <2>2. CASE (n - 1) % 2 = 0
    <3>1. k + 1 \in 1 .. n /\ n + 1 - (k + 1) = k + 1
      BY <1>1, <2>1, <2>2
    <3>2. U[k + 1] = -S[k + 1] /\ S[k + 1] \in Int
      BY <1>5, <1>6, <3>1
    <3>3. Stats!Median2(U) = 2 * U[k + 1] /\ Stats!Median2(S) = 2 * S[k + 1]
      BY <1>3, <1>6, <2>2 DEF Stats!Median2, k
    <3>4. QED
      BY <3>2, <3>3
  <2>3. CASE (n - 1) % 2 = 1
    <3>0. n = 2 * k + 2
      BY <1>1, <2>1, <2>3
    <3>1. /\ k + 1 \in 1 .. n /\ n + 1 - (k + 1) = k + 2
          /\ k + 2 \in 1 .. n /\ n + 1 - (k + 2) = k + 1 /\ (k + 1) + 1 = k + 2
      BY <2>1, <3>0
    <3>2. U[k + 1] = -S[k + 2] /\ U[k + 2] = -S[k + 1] /\ S[k + 1] \in Int /\ S[k + 2] \in Int
      BY <1>5, <1>6, <3>1
    <3>3. /\ Stats!Median2(U) = U[k + 1] + U[(k + 1) + 1]
          /\ Stats!Median2(S) = S[k + 1] + S[(k + 1) + 1]
      BY <1>3, <1>6, <2>3 DEF Stats!Median2, k
    <3>4. QED
      BY <3>1, <3>2, <3>3
  <2>4. QED
    BY <2>1, <2>2, <2>3
<1>12. U[n] = -S[1] /\ U[1] = -S[n]
  BY <1>1, <1>6
<1>13. QED
  BY <1>7, <1>9, <1>10, <1>11, <1>12 DEF s, m

(* Statistics that are kept up sample by sample, for as long as one likes. *)
LEMMA FoldsExist ==
  ASSUME NEW q, NEW m \in Nat
  PROVE  \E f : f = [n \in 0 .. m |-> IF n = 0 THEN Stats!NewStat ELSE Stats!update(f[n - 1], q[n])]
<1> DEFINE Good(f, k) ==
             f = [n \in 0 .. k |-> IF n = 0 THEN Stats!NewStat ELSE Stats!update(f[n - 1], q[n])]
           T == {k \in Nat : \E f : Good(f, k)}
<1>1. 0 \in T
  <2> DEFINE f == [n \in 0 .. 0 |-> Stats!NewStat]
  <2>1. Good(f, 0)
    OBVIOUS
  <2>2. QED
    BY <2>1
<1>2. ASSUME NEW k \in Nat, k \in T PROVE k + 1 \in T
  <2>1. PICK f : Good(f, k)
    BY <1>2
  <2> DEFINE g == [n \in 0 .. k + 1 |-> IF n = k + 1 THEN Stats!update(f[k], q[k + 1]) ELSE f[n]]
  <2>2. \A n \in 0 .. k : f[n] = IF n = 0 THEN Stats!NewStat ELSE Stats!update(f[n - 1], q[n])
    BY <2>1
  <2>3. \A n \in 0 .. k + 1 : g[n] = IF n = 0 THEN Stats!NewStat ELSE Stats!update(g[n - 1], q[n])
    BY <2>2
  <2>4. Good(g, k + 1)
    BY <2>3
  <2> HIDE DEF Good, g
  <2>5. QED
    BY <2>4
<1> HIDE DEF T
<1>3. Nat \subseteq T
  BY <1>1, <1>2, Induct
<1>4. QED
  BY <1>3 DEF T

(* One more sample of those that are kept up *)
LEMMA FoldsStep ==
  ASSUME NEW q, Len(q) \in Nat
  PROVE  /\ FoldsOf(q)[0] = Stats!NewStat
         /\ \A n \in 1 .. Len(q) : FoldsOf(q)[n] = Stats!update(FoldsOf(q)[n - 1], q[n])
<1>1. FoldsOf(q)
        = [n \in 0 .. Len(q) |->
             IF n = 0 THEN Stats!NewStat ELSE Stats!update(FoldsOf(q)[n - 1], q[n])]
  BY FoldsExist DEF FoldsOf
<1> DEFINE S == FoldsOf(q)
<1>2. S = [n \in 0 .. Len(q) |-> IF n = 0 THEN Stats!NewStat ELSE Stats!update(S[n - 1], q[n])]
  BY <1>1
<1> HIDE DEF S
<1>3. /\ S[0] = Stats!NewStat
      /\ \A n \in 1 .. Len(q) : S[n] = Stats!update(S[n - 1], q[n])
  BY <1>2
<1>4. QED
  BY <1>3 DEF S

(* They count the samples, and sum them and their squares up. *)
LEMMA FoldsCount ==
  ASSUME NEW q \in Seq(Int), NEW n \in 0 .. Len(q)
  PROVE  /\ FoldsOf(q)[n].cnt = n
         /\ FoldsOf(q)[n].sum = SumsOf(q)[n]
         /\ FoldsOf(q)[n].sqr = SumsOf([i \in 1 .. Len(q) |-> q[i] * q[i]])[n]
<1> DEFINE Q == [i \in 1 .. Len(q) |-> q[i] * q[i]]
           Counts(k) == /\ FoldsOf(q)[k].cnt = k
                        /\ FoldsOf(q)[k].sum = SumsOf(q)[k]
                        /\ FoldsOf(q)[k].sqr = SumsOf(Q)[k]
           T == {k \in Nat : k <= Len(q) => Counts(k)}
<1>1. Len(q) \in Nat /\ Len(Q) = Len(q) /\ \A i \in 1 .. Len(q) : Q[i] = q[i] * q[i]
  OBVIOUS
<1> HIDE DEF Q
<1>2. /\ SumsOf(q)[0] = 0 /\ \A k \in 1 .. Len(q) : SumsOf(q)[k] = SumsOf(q)[k - 1] + q[k]
      /\ SumsOf(Q)[0] = 0 /\ \A k \in 1 .. Len(q) : SumsOf(Q)[k] = SumsOf(Q)[k - 1] + Q[k]
  BY <1>1, SumsStep
<1>3. /\ FoldsOf(q)[0] = Stats!NewStat
      /\ \A k \in 1 .. Len(q) : FoldsOf(q)[k] = Stats!update(FoldsOf(q)[k - 1], q[k])
  BY <1>1, FoldsStep
<1>4. 0 \in T
  BY <1>2, <1>3 DEF Stats!NewStat
<1>5. ASSUME NEW k \in Nat, k \in T PROVE k + 1 \in T
  <2>1. SUFFICES ASSUME k + 1 <= Len(q) PROVE Counts(k + 1)
    OBVIOUS
  <2>2. k + 1 \in 1 .. Len(q) /\ (k + 1) - 1 = k
    BY <1>1, <2>1
  <2>3. Counts(k)
    BY <1>1, <1>5, <2>1
  <2>4. FoldsOf(q)[k + 1] = Stats!update(FoldsOf(q)[k], q[k + 1])
    BY <1>3, <2>2
  <2>5. /\ SumsOf(q)[k + 1] = SumsOf(q)[k] + q[k + 1]
        /\ SumsOf(Q)[k + 1] = SumsOf(Q)[k] + q[k + 1] * q[k + 1]
    BY <1>1, <1>2, <2>2
  <2>6. \A f, d : LET u == Stats!update(f, d)
                 IN  u.cnt = f.cnt + 1 /\ u.sum = f.sum + d /\ u.sqr = f.sqr + d * d
    BY DEF Stats!update
  <2>7. QED
    BY <2>3, <2>4, <2>5, <2>6
<1> HIDE DEF T
<1>6. Nat \subseteq T
  BY <1>4, <1>5, Induct
<1>7. n \in T /\ n <= Len(q)
  BY <1>1, <1>6
<1>8. QED
  BY <1>7 DEF T, Q

(* An average and a deviation tell the sum of the squares of the samples. *)
LEMMA SquaresTold ==
  ASSUME NEW n \in Nat, n > 1, NEW avg \in Int, NEW std \in Int, NEW S \in Int, NEW R \in Int,
         avg * n = S, std * std * n * (n - 1) = n * R - 2 * S * S + S * S
  PROVE  std * std * (n - 1) - avg * avg * n + 2 * avg * n * avg = R
<1> DEFINE d == std * std
           v == d * (n - 1)
           w == avg * S
<1>1. d \in Int /\ v \in Int /\ w \in Int
  OBVIOUS
<1>2. d * n * (n - 1) = n * v
  <2> HIDE DEF d
  <2>1. QED
    BY <1>1
<1>3. S * S = n * w
  <2>1. S * S = (avg * n) * S
    OBVIOUS
  <2>2. (avg * n) * S = n * (avg * S)
    OBVIOUS
  <2>3. QED
    BY <2>1, <2>2
<1>4. avg * avg * n = w /\ 2 * avg * n * avg = 2 * w
  <2>1. avg * avg * n = avg * (avg * n) /\ 2 * avg * n * avg = 2 * (avg * (avg * n))
    OBVIOUS
  <2>2. QED
    BY <2>1
<1>5. n * v = n * R - n * w
  <2>1. 2 * S * S = 2 * (S * S) /\ S * S \in Int /\ n * R \in Int
    OBVIOUS
  <2> HIDE DEF v, w, d
  <2>2. n * v = n * R - 2 * (S * S) + S * S
    BY <1>2, <2>1 DEF d
  <2>3. QED
    BY <1>3, <2>1, <2>2
<1> HIDE DEF v, w
<1>6. v + w = R
  <2>1. n * (v + w - R) = 0
    BY <1>1, <1>5
  <2>2. QED
    BY <1>1, <2>1
<1>7. QED
  BY <1>1, <1>4, <1>6 DEF v, d

(* Statistics that go on from the average and the deviation of all samples but
   the last have the sums of all of them. *)
THEOREM ResumedFromFigures ==
  ASSUME NEW q \in Seq(Int), q # <<>>, NEW avg \in Int, NEW std \in Int
  PROVE  LET old == Fold(Front(q))
             n == old.cnt
             all == Stats!update(Stats!initialize(n, avg, std), Last(q))
         IN  n > 1 /\ avg * n = old.sum /\ std * std * n * (n - 1) = Stats!VarOf(old) =>
               /\ <<Stats!AvgOf(all), n + 1>> = Stats!average(q)
               /\ Stats!VarOf(all) = Stats!VarOf(Fold(q))
<1> DEFINE p == Front(q)
           n == Len(q) - 1
           x == q[n + 1]
           Q == [i \in 1 .. Len(q) |-> q[i] * q[i]]
           P == [i \in 1 .. n |-> p[i] * p[i]]
           old == FoldsOf(p)[n]
           new == FoldsOf(q)[n + 1]
           S == SumsOf(q)[n]
           R == SumsOf(Q)[n]
           all == Stats!update(Stats!initialize(n, avg, std), x)
<1>1. /\ n \in Nat /\ Len(q) = n + 1 /\ n \in 0 .. Len(q) /\ n + 1 \in 1 .. Len(q)
      /\ n + 1 \in 0 .. Len(q) /\ (n + 1) - 1 = n
      /\ x \in Int /\ Last(q) = x
  BY DEF Last
<1>2. p \in Seq(Int) /\ Len(p) = n /\ \A i \in 1 .. n : p[i] = q[i]
  BY <1>1 DEF Front
<1>3. /\ Len(Q) = n + 1 /\ \A i \in 1 .. n + 1 : Q[i] = q[i] * q[i] /\ Q[i] \in Int
      /\ Len(P) = n /\ \A i \in 1 .. n : P[i] = Q[i]
  BY <1>1, <1>2, SMTT(30)
<1> HIDE DEF n, p, P, Q
<1>4. SumsOf(p)[n] = S /\ SumsOf(P)[n] = R
  <2>1. Len(p) \in Nat /\ n \in 0 .. Len(p) /\ \A i \in 1 .. n : q[i] = p[i]
    BY <1>1, <1>2
  <2>2. SumsOf(q)[n] = SumsOf(p)[n]
    BY <1>1, <2>1, SamePrefix
  <2>3. /\ Len(P) \in Nat /\ Len(Q) \in Nat /\ n \in Nat /\ n <= Len(P) /\ n <= Len(Q)
        /\ \A i \in 1 .. n : P[i] = Q[i]
    BY <1>1, <1>3
  <2>4. SumsOf(P)[n] = SumsOf(Q)[n]
    BY <2>3, SamePrefix, Zenon
  <2>5. QED
    BY <2>2, <2>4
<1>5. S \in Int /\ R \in Int
  <2>1. Len(q) \in Nat /\ Len(Q) \in Nat /\ n \in 0 .. Len(Q)
    BY <1>1, <1>3
  <2>2. /\ \A i \in 1 .. Len(q) : q[i] \in Int
        /\ \A i \in 1 .. Len(Q) : Q[i] \in Int
    BY <1>3
  <2>3. /\ \A i \in 0 .. Len(q) : SumsOf(q)[i] \in Int
        /\ \A i \in 0 .. Len(Q) : SumsOf(Q)[i] \in Int
    BY <2>1, <2>2, SumsType
  <2>4. QED
    BY <1>1, <2>1, <2>3
<1>6. old.cnt = n /\ old.sum = S /\ old.sqr = R
  <2>1. P = [i \in 1 .. Len(p) |-> p[i] * p[i]] /\ n \in 0 .. Len(p)
    BY <1>1, <1>2 DEF P
  <2>2. QED
    BY <1>2, <1>4, <2>1, FoldsCount
<1>7. new.cnt = n + 1 /\ new.sum = S + x /\ new.sqr = R + x * x
  <2>1. new.cnt = n + 1 /\ new.sum = SumsOf(q)[n + 1] /\ new.sqr = SumsOf(Q)[n + 1]
    BY <1>1, FoldsCount DEF Q
  <2>2. SumsOf(q)[n + 1] = S + x /\ SumsOf(Q)[n + 1] = R + Q[n + 1]
    <3>1. Len(q) \in Nat /\ Len(Q) \in Nat /\ n + 1 \in 1 .. Len(Q)
      BY <1>1, <1>3
    <3>2. /\ \A k \in 1 .. Len(q) : SumsOf(q)[k] = SumsOf(q)[k - 1] + q[k]
          /\ \A k \in 1 .. Len(Q) : SumsOf(Q)[k] = SumsOf(Q)[k - 1] + Q[k]
      BY <3>1, SumsStep
    <3>3. QED
      BY <1>1, <3>1, <3>2
  <2>3. QED
    BY <1>1, <1>3, <2>1, <2>2
<1>8. Fold(p) = old /\ Fold(q) = new
  BY <1>1, <1>2 DEF Fold
<1>9. Stats!average(q) = <<S + x, n + 1>>
  <2>1. Stats!Sum(q) = SumsOf(q)[n + 1]
    BY <1>1, StatsSum DEF Sum
  <2>2. SumsOf(q)[n + 1] = S + x
    <3>1. \A k \in 1 .. Len(q) : SumsOf(q)[k] = SumsOf(q)[k - 1] + q[k]
      BY SumsStep
    <3>2. QED
      BY <1>1, <3>1
  <2>3. QED
    BY <1>1, <2>1, <2>2 DEF Stats!average
<1> HIDE DEF S, R, old, new, x
<1>10. SUFFICES ASSUME n > 1, avg * n = S, std * std * n * (n - 1) = n * R - 2 * S * S + S * S
                PROVE  <<Stats!AvgOf(all), n + 1>> = <<S + x, n + 1>> /\ Stats!VarOf(all) = Stats!VarOf(new)
  <2>1. n > 1 => Stats!VarOf(old) = n * R - 2 * S * S + S * S
    BY <1>1, <1>6 DEF Stats!VarOf
  <2>2. QED
    BY <1>1, <1>6, <1>8, <1>9, <2>1 DEF p
<1>11. std * std * (n - 1) - avg * avg * n + 2 * avg * n * avg = R
  BY <1>1, <1>5, <1>10, SquaresTold
<1>12. all.cnt = n + 1 /\ all.sum = S + x /\ all.sqr = R + x * x
  BY <1>10, <1>11 DEF Stats!update, Stats!initialize, Stats!NewStat
<1>13. Stats!AvgOf(all) = S + x
  BY <1>1, <1>12 DEF Stats!AvgOf
<1>14. Stats!VarOf(all) = Stats!VarOf(new)
  BY <1>7, <1>12 DEF Stats!VarOf
<1>15. QED
  BY <1>13, <1>14

\* How many of n keys are below a number
Lesser(v, n, y) == Cardinality({k \in 1 .. n : v[k] < y})

(* Of two keys, the lesser one has fewer below it. *)
LEMMA RanksAscend ==
  ASSUME NEW n \in Nat, NEW v, \A i \in 1 .. n : v[i] \in Int
  PROVE  /\ \A i \in 1 .. n : Lesser(v, n, v[i]) + 1 \in 1 .. n
         /\ \A i, j \in 1 .. n : v[i] < v[j] => Lesser(v, n, v[i]) + 1 < Lesser(v, n, v[j]) + 1
<1> DEFINE Below(i) == {k \in 1 .. n : v[k] < v[i]}
<1>1. IsFiniteSet(1 .. n) /\ Cardinality(1 .. n) = n
  BY FS_Interval
<1>2. ASSUME NEW i \in 1 .. n
      PROVE  IsFiniteSet(Below(i)) /\ Cardinality(Below(i)) \in 0 .. n - 1
  <2>1. Below(i) \subseteq 1 .. n /\ i \notin Below(i)
    OBVIOUS
  <2> HIDE DEF Below
  <2>2. /\ IsFiniteSet(Below(i)) /\ Cardinality(Below(i)) <= Cardinality(1 .. n)
        /\ Cardinality(Below(i)) = Cardinality(1 .. n) => 1 .. n = Below(i)
    BY <1>1, <2>1, FS_Subset
  <2>3. Cardinality(Below(i)) \in Nat
    BY <2>2, FS_CardinalityType
  <2>4. QED
    BY <1>1, <2>1, <2>2, <2>3
<1>3. ASSUME NEW i \in 1 .. n, NEW j \in 1 .. n, v[i] < v[j]
      PROVE  Cardinality(Below(i)) < Cardinality(Below(j))
  <2>1. Below(i) \subseteq Below(j) /\ i \in Below(j) /\ i \notin Below(i)
    BY <1>3
  <2> HIDE DEF Below
  <2>2. /\ Cardinality(Below(i)) <= Cardinality(Below(j))
        /\ Cardinality(Below(i)) = Cardinality(Below(j)) => Below(j) = Below(i)
    BY <1>2, <2>1, FS_Subset
  <2>3. Cardinality(Below(i)) \in Int /\ Cardinality(Below(j)) \in Int
    BY <1>2
  <2>4. QED
    BY <2>1, <2>2, <2>3
<1> HIDE DEF Below
<1>4. /\ \A i \in 1 .. n : Cardinality(Below(i)) + 1 \in 1 .. n
      /\ \A i, j \in 1 .. n : v[i] < v[j] => Cardinality(Below(i)) + 1 < Cardinality(Below(j)) + 1
  <2>1. ASSUME NEW i \in 1 .. n PROVE Cardinality(Below(i)) + 1 \in 1 .. n
    BY <1>2
  <2>2. ASSUME NEW i \in 1 .. n, NEW j \in 1 .. n, v[i] < v[j]
        PROVE  Cardinality(Below(i)) + 1 < Cardinality(Below(j)) + 1
    <3>1. Cardinality(Below(i)) \in 0 .. n - 1 /\ Cardinality(Below(j)) \in 0 .. n - 1
      BY <1>2
    <3>2. QED
      BY <1>3, <2>2, <3>1
  <2>3. QED
    BY <2>1, <2>2
<1>5. QED
  BY <1>4 DEF Below, Lesser

(* Keys without ties can be sorted, and each has as many below it as come before. *)
LEMMA SortOrderFound ==
  ASSUME NEW n \in Nat, NEW v, Len(v) = n, \A i \in 1 .. n : v[i] \in Int,
         \A i, j \in 1 .. n : v[i] = v[j] => i = j
  PROVE  LET p == Stats!SortOrder(v)
         IN  /\ p \in [1 .. n -> 1 .. n] /\ IsInjective(p)
             /\ \A j \in 1 .. n : Lesser(v, n, v[p[j]]) = j - 1
<1> DEFINE Rank(i) == Lesser(v, n, v[i]) + 1
           rank == [i \in 1 .. n |-> Rank(i)]
           q == [j \in 1 .. n |-> CHOOSE i \in 1 .. n : rank[i] = j]
           Sorts(p) == /\ Stats!IsInjective(p)
                       /\ \A i, j \in 1 .. n : i < j => v[p[i]] <= v[p[j]]
           p == Stats!SortOrder(v)
<1>1. /\ \A i \in 1 .. n : Rank(i) \in 1 .. n
      /\ \A i, j \in 1 .. n : v[i] < v[j] => Rank(i) < Rank(j)
  BY RanksAscend
<1> HIDE DEF Rank
<1>2. rank \in [1 .. n -> 1 .. n] /\ \A i \in 1 .. n : rank[i] = Rank(i)
  BY <1>1
<1>3. IsInjective(rank)
  <2> SUFFICES ASSUME NEW i \in 1 .. n, NEW j \in 1 .. n, Rank(i) = Rank(j) PROVE i = j
    BY DEF IsInjective
  <2>1. ~ (v[i] < v[j]) /\ ~ (v[j] < v[i])
    BY <1>1
  <2>2. v[i] = v[j]
    BY <2>1
  <2>3. QED
    BY <2>2
<1> HIDE DEF rank
<1>4. \A j \in 1 .. n : \E i \in 1 .. n : rank[i] = j
  BY <1>2, <1>3, OneToOneIsOnto, ZenonT(60)
<1>5. q \in [1 .. n -> 1 .. n] /\ \A j \in 1 .. n : q[j] \in 1 .. n /\ rank[q[j]] = j
  BY <1>4
<1> HIDE DEF q
<1>6. Stats!IsInjective(q)
  <2>1. DOMAIN q = 1 .. n
    BY <1>5
  <2>2. QED
    BY <1>5, <2>1 DEF Stats!IsInjective
<1>7. \A i, j \in 1 .. n : i < j => v[q[i]] <= v[q[j]]
  <2> SUFFICES ASSUME NEW i \in 1 .. n, NEW j \in 1 .. n, i < j, v[q[j]] < v[q[i]] PROVE FALSE
    BY <1>5
  <2>1. Rank(q[j]) < Rank(q[i])
    BY <1>1, <1>5
  <2>2. Rank(q[j]) = j /\ Rank(q[i]) = i
    BY <1>2, <1>5
  <2>3. QED
    BY <2>1, <2>2
<1>8. p \in [1 .. n -> 1 .. n] /\ Sorts(p)
  <2>1. p = CHOOSE f \in [1 .. n -> 1 .. n] : Sorts(f)
    BY DEF Stats!SortOrder
  <2>2. q \in [1 .. n -> 1 .. n] /\ Sorts(q)
    BY <1>5, <1>6, <1>7
  <2> HIDE DEF p, Sorts
  <2>3. QED
    BY <2>1, <2>2
<1> HIDE DEF p
<1>9. /\ IsInjective(p) /\ DOMAIN p = 1 .. n
      /\ \A j \in 1 .. n : p[j] \in 1 .. n
      /\ \A i, j \in 1 .. n : p[i] = p[j] => i = j
      /\ \A i, j \in 1 .. n : i < j => v[p[i]] <= v[p[j]]
  BY <1>8 DEF IsInjective, Stats!IsInjective
<1>10. \A i, j \in 1 .. n : i < j => Rank(p[i]) < Rank(p[j])
  <2> SUFFICES ASSUME NEW i \in 1 .. n, NEW j \in 1 .. n, i < j PROVE Rank(p[i]) < Rank(p[j])
    OBVIOUS
  <2>1. v[p[i]] <= v[p[j]] /\ p[i] # p[j]
    BY <1>9
  <2>2. v[p[i]] # v[p[j]] /\ v[p[i]] \in Int /\ v[p[j]] \in Int
    BY <1>9, <2>1
  <2>3. v[p[i]] < v[p[j]]
    BY <2>1, <2>2
  <2>4. QED
    BY <1>1, <1>9, <2>3
<1>11. \A j \in 1 .. n : Rank(p[j]) = j
  <2> DEFINE s == [j \in 1 .. n |-> Rank(p[j])]
  <2>1. \A j \in 1 .. n : s[j] = Rank(p[j]) /\ s[j] \in 1 .. n
    BY <1>1, <1>9
  <2> HIDE DEF s
  <2>2. \A i, j \in 1 .. n : i < j => s[i] < s[j]
    BY <1>10, <2>1
  <2>3. \A j \in 1 .. n : s[j] = j
    BY <2>1, <2>2, StrictlyAscending
  <2>4. QED
    BY <2>1, <2>3
<1>12. \A j \in 1 .. n : Lesser(v, n, v[p[j]]) = j - 1
  <2> SUFFICES ASSUME NEW j \in 1 .. n PROVE Lesser(v, n, v[p[j]]) = j - 1
    OBVIOUS
  <2> DEFINE c == Lesser(v, n, v[p[j]])
  <2>1. c + 1 = j
    BY <1>11 DEF Rank
  <2>2. c \in Nat
    <3>1. IsFiniteSet(1 .. n)
      BY FS_Interval
    <3>2. IsFiniteSet({k \in 1 .. n : v[k] < v[p[j]]})
      BY <3>1, FS_Subset
    <3>3. QED
      BY <3>2, FS_CardinalityType DEF Lesser
  <2> HIDE DEF c
  <2>3. c = j - 1
    BY <2>1, <2>2
  <2>4. QED
    BY <2>3 DEF c
<1>13. QED
  BY <1>8, <1>9, <1>12 DEF p

\* The first n keys of u are those of v in the order p.
Shuffled(u, v, n, p) ==
  /\ p \in [1 .. n -> 1 .. n] /\ IsInjective(p)
  /\ \A k \in 1 .. n : u[k] = v[p[k]]

(* In another order, as many keys are below a number. *)
LEMMA CountShuffled ==
  ASSUME NEW n \in Nat, NEW p, NEW u, NEW v, Shuffled(u, v, n, p), NEW y
  PROVE  Lesser(u, n, y) = Lesser(v, n, y)
<1> USE DEF Shuffled
<1> DEFINE A == {k \in 1 .. n : u[k] < y}
           B == {k \in 1 .. n : v[k] < y}
           f == [k \in A |-> p[k]]
<1>1. IsFiniteSet(A)
  <2>1. IsFiniteSet(1 .. n) /\ A \subseteq 1 .. n
    BY FS_Interval
  <2>2. QED
    BY <2>1, FS_Subset
<1>2. f \in [A -> B] /\ DOMAIN f = A
  OBVIOUS
<1>3. IsInjective(f)
  BY DEF IsInjective
<1>4. \A b \in B : \E a \in A : f[a] = b
  <2> SUFFICES ASSUME NEW b \in B PROVE \E a \in A : f[a] = b
    OBVIOUS
  <2>1. PICK a \in 1 .. n : p[a] = b
    BY OneToOneIsOnto
  <2>2. a \in A
    BY <2>1
  <2>3. QED
    BY <2>1, <2>2
<1> HIDE DEF A, B, f
<1>5. ExistsBijection(A, B)
  BY <1>2, <1>3, <1>4 DEF ExistsBijection, Bijection, Injection, Surjection
<1>6. Cardinality(B) = Cardinality(A)
  BY <1>1, <1>5, FS_Bijection
<1>7. QED
  BY <1>6 DEF A, B, Lesser

(* The same of keys that were shuffled: the places are those in the keys before. *)
LEMMA SortOrderOfShuffled ==
  ASSUME NEW n \in Nat, NEW p, NEW u, NEW v, Shuffled(u, v, n, p),
         Len(u) = n, \A k \in 1 .. n : u[k] \in Int,
         \A i, j \in 1 .. n : u[i] = u[j] => i = j
  PROVE  LET q == Stats!SortOrder(u)
         IN  /\ q \in [1 .. n -> 1 .. n] /\ IsInjective(q)
             /\ \A j \in 1 .. n : Lesser(v, n, u[q[j]]) = j - 1
<1>1. \A y : Lesser(u, n, y) = Lesser(v, n, y)
  BY CountShuffled
<1> DEFINE q == Stats!SortOrder(u)
<1>2. /\ q \in [1 .. n -> 1 .. n] /\ IsInjective(q)
      /\ \A j \in 1 .. n : Lesser(u, n, u[q[j]]) = j - 1
  BY SortOrderFound
<1> HIDE DEF q
<1>3. QED
  BY <1>1, <1>2 DEF q

\* Pairs of numbers, no two of which have the same x or the same y
Untied(P) ==
  /\ \A i \in 1 .. Len(P) : P[i] \in [x : Int, y : Int]
  /\ \A i, j \in 1 .. Len(P) : P[i].x = P[j].x \/ P[i].y = P[j].y => i = j

\* Rank j in y is that of the pair r[j], and q[j] its place in x.
RankedAs(P, r, q, n) ==
  /\ r \in [1 .. n -> 1 .. n] /\ IsInjective(r)
  /\ q \in [1 .. n -> 1 .. n] /\ IsInjective(q)
  /\ Stats!Ranked(P) = [j \in 1 .. n |-> [x |-> q[j] - 1, y |-> j - 1]]
  /\ \A j \in 1 .. n :
       /\ Cardinality({k \in 1 .. n : P[k].x < P[r[j]].x}) = q[j] - 1
       /\ Cardinality({k \in 1 .. n : P[k].y < P[r[j]].y}) = j - 1

(* The ranks that take the place of pairs without ties are, for some order of the
   pairs, the places among x and among y. *)
LEMMA RankedByPlace ==
  ASSUME NEW n \in Nat, NEW P, Len(P) = n, Untied(P)
  PROVE  \E r, q : RankedAs(P, r, q, n)
<1> DEFINE X == [i \in 1 .. n |-> P[i].x]
           Y == [i \in 1 .. n |-> P[i].y]
           p == Stats!SortOrder(X)
           inX == [i \in 1 .. n |-> [P[p[i]] EXCEPT !.x = i - 1]]
           v == [i \in 1 .. n |-> inX[i].y]
           q == Stats!SortOrder(v)
           r == [j \in 1 .. n |-> p[q[j]]]
<1>1. /\ Len(X) = n /\ \A i \in 1 .. n : X[i] = P[i].x /\ X[i] \in Int
      /\ Len(Y) = n /\ \A i \in 1 .. n : Y[i] = P[i].y /\ Y[i] \in Int
      /\ \A i, j \in 1 .. n : X[i] = X[j] \/ Y[i] = Y[j] => i = j
      /\ \A i \in 1 .. n : P[i] \in [x : Int, y : Int]
  BY DEF Untied
<1> HIDE DEF X, Y
<1>2. /\ p \in [1 .. n -> 1 .. n] /\ IsInjective(p)
      /\ \A j \in 1 .. n : Lesser(X, n, X[p[j]]) = j - 1
  BY <1>1, SortOrderFound
<1> HIDE DEF p
<1>3. \A i \in 1 .. n : p[i] \in 1 .. n
  BY <1>2
<1>4. \A i \in 1 .. n : inX[i] = [x |-> i - 1, y |-> Y[p[i]]]
  <2> SUFFICES ASSUME NEW i \in 1 .. n PROVE inX[i] = [x |-> i - 1, y |-> Y[p[i]]]
    OBVIOUS
  <2>1. inX[i] = [P[p[i]] EXCEPT !.x = i - 1]
    OBVIOUS
  <2>2. P[p[i]] \in [x : Int, y : Int] /\ Y[p[i]] = P[p[i]].y
    BY <1>1, <1>3
  <2>3. \A u \in [x : Int, y : Int] : [u EXCEPT !.x = i - 1] = [x |-> i - 1, y |-> u.y]
    OBVIOUS
  <2>4. QED
    BY <2>1, <2>2, <2>3
<1> HIDE DEF inX
<1>5. Len(v) = n /\ \A i \in 1 .. n : v[i] = Y[p[i]] /\ v[i] \in Int
  <2>1. ASSUME NEW i \in 1 .. n PROVE inX[i].y = Y[p[i]] /\ Y[p[i]] \in Int
    <3>1. inX[i] = [x |-> i - 1, y |-> Y[p[i]]]
      BY <1>4
    <3>2. inX[i].y = Y[p[i]]
      BY <3>1
    <3>3. Y[p[i]] \in Int
      BY <1>1, <1>3
    <3>4. QED
      BY <3>2, <3>3
  <2>2. QED
    BY <2>1
<1> HIDE DEF v
<1>6. \A i, j \in 1 .. n : v[i] = v[j] => i = j
  <2> SUFFICES ASSUME NEW i \in 1 .. n, NEW j \in 1 .. n, v[i] = v[j] PROVE i = j
    OBVIOUS
  <2>1. p[i] = p[j]
    BY <1>1, <1>3, <1>5
  <2>2. QED
    BY <1>2, <2>1 DEF IsInjective
<1>7. /\ q \in [1 .. n -> 1 .. n] /\ IsInjective(q)
      /\ \A j \in 1 .. n : Lesser(Y, n, v[q[j]]) = j - 1
  <2>1. Len(v) = n /\ \A i \in 1 .. n : v[i] \in Int
    BY <1>5
  <2>2. Shuffled(v, Y, n, p)
    BY <1>2, <1>5 DEF Shuffled
  <2>3. QED
    BY <1>6, <2>1, <2>2, SortOrderOfShuffled
<1>8. Stats!Ranked(P) = [i \in 1 .. n |-> [inX[q[i]] EXCEPT !.y = i - 1]]
  BY DEF Stats!Ranked, q, v, inX, p, X
<1> HIDE DEF q
<1>9. \A j \in 1 .. n : q[j] \in 1 .. n /\ r[j] = p[q[j]] /\ r[j] \in 1 .. n
  BY <1>2, <1>7
<1>10. r \in [1 .. n -> 1 .. n] /\ IsInjective(r)
  <2>1. r \in [1 .. n -> 1 .. n] /\ DOMAIN r = 1 .. n
    BY <1>2, <1>7
  <2> HIDE DEF r
  <2>2. ASSUME NEW i \in 1 .. n, NEW j \in 1 .. n, r[i] = r[j] PROVE i = j
    <3>1. DOMAIN p = 1 .. n /\ DOMAIN q = 1 .. n
      BY <1>2, <1>7
    <3>2. q[i] = q[j]
      BY <1>2, <1>9, <2>2, <3>1 DEF IsInjective
    <3>3. QED
      BY <1>7, <3>1, <3>2 DEF IsInjective
  <2>3. QED
    BY <2>1, <2>2 DEF IsInjective
<1> HIDE DEF r
<1>11. Stats!Ranked(P) = [j \in 1 .. n |-> [x |-> q[j] - 1, y |-> j - 1]]
  <2>1. ASSUME NEW j \in 1 .. n
        PROVE  [inX[q[j]] EXCEPT !.y = j - 1] = [x |-> q[j] - 1, y |-> j - 1]
    <3>1. \A a, b, c : [[x |-> a, y |-> b] EXCEPT !.y = c] = [x |-> a, y |-> c]
      OBVIOUS
    <3>2. inX[q[j]] = [x |-> q[j] - 1, y |-> Y[p[q[j]]]]
      BY <1>4, <1>9
    <3>3. QED
      BY <3>1, <3>2
  <2>2. QED
    BY <1>8, <2>1
<1>12. ASSUME NEW j \in 1 .. n
       PROVE  /\ Cardinality({k \in 1 .. n : P[k].x < P[r[j]].x}) = q[j] - 1
              /\ Cardinality({k \in 1 .. n : P[k].y < P[r[j]].y}) = j - 1
  <2>1. /\ {k \in 1 .. n : P[k].x < P[r[j]].x} = {k \in 1 .. n : X[k] < X[p[q[j]]]}
        /\ {k \in 1 .. n : P[k].y < P[r[j]].y} = {k \in 1 .. n : Y[k] < v[q[j]]}
    <3>1. r[j] = p[q[j]] /\ X[r[j]] = P[r[j]].x /\ Y[r[j]] = P[r[j]].y /\ v[q[j]] = Y[p[q[j]]]
      BY <1>1, <1>5, <1>9
    <3>2. \A k \in 1 .. n : X[k] = P[k].x /\ Y[k] = P[k].y
      BY <1>1
    <3>3. QED
      BY <3>1, <3>2
  <2>2. Lesser(X, n, X[p[q[j]]]) = q[j] - 1
    BY <1>2, <1>9
  <2>3. Lesser(Y, n, v[q[j]]) = j - 1
    BY <1>7
  <2>4. QED
    BY <2>1, <2>2, <2>3 DEF Lesser
<1>13. RankedAs(P, r, q, n)
  BY <1>7, <1>10, <1>11, <1>12 DEF RankedAs
<1>14. QED
  BY <1>13

\* S and R are the sum of n ranks, from 0 on, and of their squares.
RankTotals(n, S, R) ==
  /\ n \in Nat /\ n > 1 /\ S \in Int /\ R \in Int
  /\ 2 * S = n * (n - 1) /\ 6 * R = (n - 1) * n * (2 * n - 1)

\* D and C are the sums of the squared differences of ranks and of their products.
RankFigures(n, S, R, D, C) ==
  /\ RankTotals(n, S, R)
  /\ D \in Int /\ C \in Int /\ D = 2 * R - 2 * C

(* The arithmetic of the formula *)
LEMMA RankFormula ==
  ASSUME NEW n, NEW S, NEW R, NEW D, NEW C, RankFigures(n, S, R, D, C)
  PROVE  12 * (n * n * C - n * (S * S)) = n * n * (n * (n * n - 1) - 6 * D)
<1> USE DEF RankFigures, RankTotals
<1> DEFINE N == n * n
           m == n - 1
           M == n * m
<1>1. N \in Int /\ m \in Int /\ M \in Int
  OBVIOUS
<1>2. 4 * (S * S) = M * M
  <2>1. 4 * (S * S) = (2 * S) * (2 * S)
    OBVIOUS
  <2>2. QED
    BY <2>1
<1>3. 6 * R = M * (2 * n - 1)
  BY SMTT(30)
<1>4. 12 * C = 2 * (6 * R) - 6 * D
  OBVIOUS
<1> HIDE DEF M, N
<1>5. 12 * (N * C) = N * (2 * (M * (2 * n - 1)) - 6 * D)
  <2>1. 12 * (N * C) = N * (12 * C)
    BY <1>1
  <2>2. QED
    BY <1>3, <1>4, <2>1
<1>6. 12 * (n * (S * S)) = 3 * (n * (M * M))
  <2>1. 12 * (n * (S * S)) = 3 * (n * (4 * (S * S)))
    OBVIOUS
  <2>2. QED
    BY <1>2, <2>1
<1>7. N * (2 * (M * (2 * n - 1)) - 6 * D) = N * (2 * (M * (2 * n - 1))) - N * (6 * D)
  BY <1>1
<1>8. N * (2 * (M * (2 * n - 1))) - 3 * (n * (M * M)) = N * (n * (N - 1))
  BY SMTT(30) DEF N, M
<1>9. N * (n * (N - 1) - 6 * D) = N * (n * (N - 1)) - N * (6 * D)
  BY <1>1
<1>10. 12 * (N * C - n * (S * S)) = 12 * (N * C) - 12 * (n * (S * S))
  BY <1>1
<1>11. 12 * (N * C - n * (S * S)) = N * (n * (N - 1) - 6 * D)
  <2> DEFINE a == N * (2 * (M * (2 * n - 1)))
             b == N * (6 * D)
             c == n * (M * M)
             d == N * (n * (N - 1))
  <2>1. a \in Int /\ b \in Int /\ c \in Int /\ d \in Int
    BY <1>1
  <2>2. 12 * (N * C - n * (S * S)) = (a - b) - 3 * c /\ a - 3 * c = d
    BY <1>5, <1>6, <1>7, <1>8, <1>10
  <2> HIDE DEF a, b, c, d
  <2>3. 12 * (N * C - n * (S * S)) = d - b
    BY <2>1, <2>2
  <2>4. QED
    BY <1>9, <2>3 DEF d, b
<1>12. QED
  BY <1>11 DEF N

\* P pairs n numbers a with numbers b, and neither of them is constant.
Pairs(P, a, b, n) ==
  /\ n \in Nat /\ n > 0
  /\ P = [i \in 1 .. n |-> [x |-> a[i], y |-> b[i]]]
  /\ a = [i \in 1 .. n |-> a[i]] /\ b = [i \in 1 .. n |-> b[i]]
  /\ Sum([i \in 1 .. n |-> (n * a[i] - Sum(a)) * (n * a[i] - Sum(a))])
       * Sum([i \in 1 .. n |-> (n * b[i] - Sum(b)) * (n * b[i] - Sum(b))]) # 0

(* What pearson() answers for them *)
LEMMA PearsonOf ==
  ASSUME NEW n, NEW a, NEW b, NEW P, Pairs(P, a, b, n)
  PROVE  Stats!pearson(P).cov = Sum([i \in 1 .. n |-> (n * a[i] - Sum(a)) * (n * b[i] - Sum(b))])
<1> USE DEF Pairs
<1> DEFINE X == [i \in 1 .. n |-> n * a[i] - Sum(a)]
           Y == [i \in 1 .. n |-> n * b[i] - Sum(b)]
           v == Stats!Sum(Stats!Squares(X)) * Stats!Sum(Stats!Squares(Y))
<1>1. Len(P) = n /\ [i \in 1 .. n |-> P[i].x] = a /\ [i \in 1 .. n |-> P[i].y] = b
  <2>1. \A i \in 1 .. n : P[i].x = a[i] /\ P[i].y = b[i]
    OBVIOUS
  <2>2. [i \in 1 .. n |-> P[i].x] = [i \in 1 .. n |-> a[i]]
    BY <2>1
  <2>3. [i \in 1 .. n |-> P[i].y] = [i \in 1 .. n |-> b[i]]
    BY <2>1
  <2>4. Len(P) = n
    OBVIOUS
  <2>5. QED
    BY <2>2, <2>3, <2>4, Zenon
<1>2. /\ [i \in 1 .. n |-> n * a[i] - Stats!Sum(a)] = X
      /\ [i \in 1 .. n |-> n * b[i] - Stats!Sum(b)] = Y
  BY StatsSum, Zenon
<1>3. v # 0
  <2>1. /\ Stats!Squares(X) = [i \in 1 .. n |-> (n * a[i] - Sum(a)) * (n * a[i] - Sum(a))]
        /\ Stats!Squares(Y) = [i \in 1 .. n |-> (n * b[i] - Sum(b)) * (n * b[i] - Sum(b))]
    BY DEF Stats!Squares
  <2>2. QED
    BY <2>1, StatsSum, Zenon
<1>4. [i \in 1 .. n |-> X[i] * Y[i]] = [i \in 1 .. n |-> (n * a[i] - Sum(a)) * (n * b[i] - Sum(b))]
  OBVIOUS
<1> HIDE DEF X, Y
<1>5. Stats!pearson(P)
        = IF n > 0 /\ v = 0 THEN [cov |-> 1, var |-> 1]
          ELSE [cov |-> Stats!Sum([i \in 1 .. n |-> X[i] * Y[i]]), var |-> v]
  BY <1>1, <1>2, Zenon DEF Stats!pearson
<1> HIDE DEF v
<1>6. Stats!pearson(P).cov = Stats!Sum([i \in 1 .. n |-> X[i] * Y[i]])
  <2> DEFINE c == Stats!Sum([i \in 1 .. n |-> X[i] * Y[i]])
  <2>1. Stats!pearson(P) = [cov |-> c, var |-> v]
    BY <1>3, <1>5
  <2> HIDE DEF c
  <2>2. Stats!pearson(P).cov = c
    BY <2>1
  <2>3. QED
    BY <2>2 DEF c
<1>7. QED
  BY <1>4, <1>6, StatsSum

(* The deviations of n ranks do not vanish. *)
LEMMA RanksDeviate ==
  ASSUME NEW n, NEW S, NEW R, RankTotals(n, S, R)
  PROVE  n * n * R - 2 * n * S * S + n * (S * S) > 0
<1> DEFINE V == n * n * R - 2 * n * S * S + n * (S * S)
<1>1. n \in Nat /\ n > 1 /\ S \in Int /\ R \in Int
  BY DEF RankTotals
<1>2. V \in Int /\ V = n * n * R - n * (S * S)
  <2>1. 2 * n * S * S = 2 * (n * (S * S)) /\ n * (S * S) \in Int /\ n * n * R \in Int
    BY <1>1
  <2>2. QED
    BY <2>1
<1>3. RankFigures(n, S, R, 0, R)
  BY <1>1 DEF RankFigures
<1>4. 12 * (n * n * R - n * (S * S)) = n * n * (n * (n * n - 1) - 6 * 0)
  BY <1>3, RankFormula
<1>5. n * n * (n * (n * n - 1) - 6 * 0) > 0
  <2>1. n * n > 1
    BY <1>1
  <2>2. n * (n * n - 1) > 0
    BY <1>1, <2>1
  <2>3. QED
    BY <1>1, <2>1, <2>2
<1> HIDE DEF V
<1>6. 12 * V > 0
  BY <1>2, <1>4, <1>5
<1>7. V > 0
  BY <1>2, <1>6
<1>8. QED
  BY <1>7 DEF V

\* a has n numbers with the sums of n ranks and of their squares, S and R.
Ranks(a, n, S, R) ==
  /\ RankTotals(n, S, R)
  /\ a \in Seq(Int) /\ Len(a) = n /\ Sum(a) = S /\ Sum(Products(a, a)) = R

(* What pearson() answers for two such sequences *)
LEMMA PearsonOfRanks ==
  ASSUME NEW n, NEW a, NEW b, NEW S, NEW R, Ranks(a, n, S, R), Ranks(b, n, S, R)
  PROVE  12 * Stats!pearson([i \in 1 .. n |-> [x |-> a[i], y |-> b[i]]]).cov
           = n * n * (n * (n * n - 1) - 6 * Sum(Products(Differences(a, b), Differences(a, b))))
<1> DEFINE C == Sum(Products(a, b))
           D == Sum(Products(Differences(a, b), Differences(a, b)))
           X == Deviation(a, n, S)
           Y == Deviation(b, n, S)
           P == [i \in 1 .. n |-> [x |-> a[i], y |-> b[i]]]
<1>0. /\ a \in Seq(Int) /\ Len(a) = n /\ Sum(a) = S /\ Sum(Products(a, a)) = R
      /\ b \in Seq(Int) /\ Len(b) = n /\ Sum(b) = S /\ Sum(Products(b, b)) = R
      /\ RankTotals(n, S, R) /\ n \in Nat /\ n > 0 /\ S \in Int /\ R \in Int
  BY DEF Ranks, RankTotals
<1>1. C \in Int
  <2>1. Products(a, b) \in Seq(Int)
    BY <1>0, ProductsType
  <2>2. QED
    BY <2>1, SumInt
<1>2. /\ Sum(Products(X, Y)) = (n * n) * C - 2 * (n * (S * S)) + n * (S * S)
      /\ Sum(Products(X, X)) = (n * n) * R - 2 * (n * (S * S)) + n * (S * S)
      /\ Sum(Products(Y, Y)) = (n * n) * R - 2 * (n * (S * S)) + n * (S * S)
  <2> HIDE DEF C, X, Y
  <2>1. n \in Int
    BY <1>0
  <2>2. /\ Sum(Products(X, Y)) = (n * n) * C - 2 * (n * (S * S)) + Len(a) * (S * S)
        /\ Sum(Products(X, X)) = (n * n) * Sum(Products(a, a)) - 2 * (n * (S * S)) + Len(a) * (S * S)
        /\ Sum(Products(Y, Y)) = (n * n) * Sum(Products(b, b)) - 2 * (n * (S * S)) + Len(b) * (S * S)
    BY <1>0, <2>1, ProductsOfDeviations, ZenonT(60) DEF C, X, Y
  <2>3. QED
    BY <1>0, <2>2
<1>3. D = R + R - 2 * C
  BY <1>0, SquaredDifferences
<1>4. /\ Products(X, X) = [i \in 1 .. n |-> (n * a[i] - S) * (n * a[i] - S)]
      /\ Products(Y, Y) = [i \in 1 .. n |-> (n * b[i] - S) * (n * b[i] - S)]
      /\ Products(X, Y) = [i \in 1 .. n |-> (n * a[i] - S) * (n * b[i] - S)]
  BY <1>0 DEF Products, Deviation
<1>5. a = [i \in 1 .. n |-> a[i]] /\ b = [i \in 1 .. n |-> b[i]]
  BY <1>0
<1> HIDE DEF C, D, X, Y, P
<1>6. Sum(Products(X, X)) * Sum(Products(Y, Y)) # 0
  <2> DEFINE V == Sum(Products(X, X))
  <2>1. n * n * R - 2 * n * S * S + n * (S * S) > 0
    BY <1>0, RanksDeviate
  <2>2. /\ n * n * R - 2 * n * S * S + n * (S * S) = (n * n) * R - 2 * (n * (S * S)) + n * (S * S)
        /\ (n * n) * R - 2 * (n * (S * S)) + n * (S * S) \in Int
    BY <1>0
  <2>3. V \in Int /\ V > 0 /\ Sum(Products(Y, Y)) = V
    BY <1>2, <2>1, <2>2
  <2> HIDE DEF V
  <2>4. V * V > 0
    BY <2>3
  <2>5. QED
    BY <2>3, <2>4 DEF V
<1>7. Stats!pearson(P).cov = Sum(Products(X, Y))
  <2>1. P = [i \in 1 .. n |-> [x |-> a[i], y |-> b[i]]]
    BY DEF P
  <2>2. Sum([i \in 1 .. n |-> (n * a[i] - Sum(a)) * (n * a[i] - Sum(a))])
          * Sum([i \in 1 .. n |-> (n * b[i] - Sum(b)) * (n * b[i] - Sum(b))]) # 0
    BY <1>0, <1>4, <1>6, Zenon
  <2>0. Pairs(P, a, b, n)
    BY <1>0, <1>5, <2>1, <2>2, Zenon DEF Pairs
  <2>3. Stats!pearson(P).cov = Sum([i \in 1 .. n |-> (n * a[i] - Sum(a)) * (n * b[i] - Sum(b))])
    BY <2>0, PearsonOf
  <2>4. QED
    BY <1>0, <1>4, <2>3, Zenon
<1>8. 12 * Sum(Products(X, Y)) = n * n * (n * (n * n - 1) - 6 * D)
  <2>1. Sum(Products(X, Y)) = n * n * C - n * (S * S)
    <3>1. (n * n) * C \in Int /\ n * (S * S) \in Int
      BY <1>0, <1>1
    <3>2. QED
      BY <1>2, <3>1
  <2>2. D = 2 * R - 2 * C /\ D \in Int
    BY <1>0, <1>1, <1>3
  <2>3. 12 * (n * n * C - n * (S * S)) = n * n * (n * (n * n - 1) - 6 * D)
    <3>1. RankFigures(n, S, R, D, C)
      BY <1>0, <1>1, <2>2 DEF RankFigures
    <3>2. QED
      BY <3>1, RankFormula
  <2>4. QED
    BY <2>1, <2>3
<1>9. QED
  BY <1>7, <1>8 DEF P, D

\* a has the n ranks, from 0 on, in some order.
AllRanks(a, q, n) ==
  /\ n \in Nat /\ q \in [1 .. n -> 1 .. n] /\ IsInjective(q)
  /\ a = [j \in 1 .. n |-> q[j] - 1]

(* The sums of the ranks and of their squares *)
LEMMA RankSums ==
  ASSUME NEW n, NEW q, NEW a, AllRanks(a, q, n)
  PROVE  /\ a \in Seq(Int) /\ Len(a) = n
         /\ 2 * Sum(a) = n * (n - 1)
         /\ 6 * Sum(Products(a, a)) = (n - 1) * n * (2 * n - 1)
<1> USE DEF AllRanks
<1> DEFINE b == [j \in 1 .. n |-> j - 1]
           bb == [j \in 1 .. n |-> (j - 1) * (j - 1)]
<1>1. \A j \in 1 .. n : /\ q[j] \in 1 .. n
                        /\ b[q[j]] = q[j] - 1
                        /\ bb[q[j]] = (q[j] - 1) * (q[j] - 1)
  OBVIOUS
<1>2. a \in Seq(Int) /\ Len(a) = n
  BY <1>1
<1>3. \A i \in 1 .. n : b[i] \in Int /\ bb[i] \in Int
  OBVIOUS
<1>4. a = [i \in 1 .. n |-> b[q[i]]]
  BY <1>1
<1>5. Products(a, a) = [i \in 1 .. n |-> bb[q[i]]]
  <2>1. \A i \in 1 .. n : a[i] * a[i] = bb[q[i]]
    BY <1>1
  <2>2. Products(a, a) = [i \in 1 .. n |-> a[i] * a[i]]
    BY <1>2, Zenon DEF Products
  <2> HIDE DEF bb
  <2>3. QED
    BY <2>1, <2>2
<1>6. b = [i \in 1 .. n |-> b[i]] /\ bb = [i \in 1 .. n |-> bb[i]]
  OBVIOUS
<1>7. 2 * Sum(b) = n * (n - 1) /\ 6 * Sum(bb) = (n - 1) * n * (2 * n - 1)
  BY SumOfPlaces
<1> HIDE DEF b, bb
<1>8. Sum([i \in 1 .. n |-> b[q[i]]]) = Sum([i \in 1 .. n |-> b[i]])
  <2>1. \A i \in 1 .. n : b[i] \in Int
    BY <1>3
  <2>2. QED
    BY <2>1, SumShuffled
<1>9. Sum([i \in 1 .. n |-> bb[q[i]]]) = Sum([i \in 1 .. n |-> bb[i]])
  <2>1. \A i \in 1 .. n : bb[i] \in Int
    BY <1>3
  <2>2. QED
    BY <2>1, SumShuffled
<1>10. Sum(a) = Sum(b) /\ Sum(Products(a, a)) = Sum(bb)
  BY <1>4, <1>5, <1>6, <1>8, <1>9, Zenon
<1>11. QED
  BY <1>2, <1>7, <1>10

\* f has, in another order, the numbers of d.
Reorders(f, d, r, n) ==
  /\ n \in Nat /\ r \in [1 .. n -> 1 .. n] /\ IsInjective(r)
  /\ d \in Seq(Int) /\ Len(d) = n
  /\ \A j \in 1 .. n : f[r[j]] = d[j]

(* The sum of their squares is the same. *)
LEMMA SquaresReordered ==
  ASSUME NEW f, NEW d, NEW r, NEW n, Reorders(f, d, r, n)
  PROVE  Sum([i \in 1 .. n |-> f[i] * f[i]]) = Sum(Products(d, d))
<1> USE DEF Reorders
<1> DEFINE ff == [i \in 1 .. n |-> f[i] * f[i]]
<1>1. \A j \in 1 .. n : r[j] \in 1 .. n /\ d[j] \in Int
  OBVIOUS
<1>2. \A i \in 1 .. n : ff[i] \in Int
  <2> SUFFICES ASSUME NEW i \in 1 .. n PROVE ff[i] \in Int
    OBVIOUS
  <2>1. PICK j \in 1 .. n : r[j] = i
    BY OneToOneIsOnto
  <2>2. f[i] \in Int
    BY <1>1, <2>1
  <2>3. QED
    BY <2>2
<1>3. \A j \in 1 .. n : ff[r[j]] = d[j] * d[j]
  BY <1>1
<1>4. ff = [i \in 1 .. n |-> ff[i]]
  OBVIOUS
<1> HIDE DEF ff
<1>5. Sum([j \in 1 .. n |-> ff[r[j]]]) = Sum([i \in 1 .. n |-> ff[i]])
  BY <1>2, SumShuffled
<1>6. Products(d, d) = [j \in 1 .. n |-> ff[r[j]]]
  <2>1. Products(d, d) = [j \in 1 .. n |-> d[j] * d[j]]
    BY DEF Products
  <2>2. QED
    BY <1>3, <2>1
<1>7. QED
  BY <1>4, <1>5, <1>6 DEF ff

\* f has, in another order, the differences of the ranks in q from those in order.
RankDifferences(f, r, q, n) ==
  /\ n > 1 /\ q \in [1 .. n -> 1 .. n] /\ IsInjective(q)
  /\ Reorders(f, [j \in 1 .. n |-> q[j] - j], r, n)

\* The formula: what pearson() answers for the ranks, from the differences of them
RankFormulaHolds(f, q, n) ==
  12 * Stats!pearson([j \in 1 .. n |-> [x |-> q[j] - 1, y |-> j - 1]]).cov
    = n * n * (n * (n * n - 1) - 6 * Sum([i \in 1 .. n |-> f[i] * f[i]]))

(* The covariance of such ranks *)
LEMMA RanksAsDifferences ==
  ASSUME NEW f, NEW r, NEW q, NEW n, RankDifferences(f, r, q, n)
  PROVE  RankFormulaHolds(f, q, n)
<1> DEFINE a == [j \in 1 .. n |-> q[j] - 1]
           id == [j \in 1 .. n |-> j]
           b == [j \in 1 .. n |-> id[j] - 1]
           d == [j \in 1 .. n |-> q[j] - j]
<1>1. Reorders(f, d, r, n) /\ n \in Nat /\ n > 1
  BY DEF RankDifferences, Reorders
<1>2. Sum([i \in 1 .. n |-> f[i] * f[i]]) = Sum(Products(d, d))
  <2> HIDE DEF d
  <2>1. QED
    BY <1>1, SquaresReordered
<1>3. AllRanks(a, q, n) /\ AllRanks(b, id, n)
  <2>1. id \in [1 .. n -> 1 .. n] /\ IsInjective(id)
    BY <1>1 DEF IsInjective
  <2> HIDE DEF id
  <2>2. QED
    BY <1>1, <2>1 DEF RankDifferences, AllRanks
<1>4. \A j \in 1 .. n : a[j] = q[j] - 1 /\ b[j] = j - 1 /\ q[j] \in 1 .. n
  BY DEF RankDifferences
<1>5. [i \in 1 .. n |-> [x |-> a[i], y |-> b[i]]] = [j \in 1 .. n |-> [x |-> q[j] - 1, y |-> j - 1]]
  BY <1>4
<1>6. Len(a) = n
  BY <1>1
<1>7. Differences(a, b) = d
  <2>1. \A j \in 1 .. n : (q[j] - 1) - (j - 1) = q[j] - j
    BY <1>1, <1>4
  <2>2. Differences(a, b) = [i \in 1 .. n |-> a[i] - b[i]]
    BY <1>6, Zenon DEF Differences
  <2> HIDE DEF a, b
  <2>3. QED
    BY <1>4, <2>1, <2>2
<1> HIDE DEF a, b, id, d
<1> DEFINE S == Sum(a)
           R == Sum(Products(a, a))
<1>8. /\ a \in Seq(Int) /\ b \in Seq(Int) /\ Len(b) = n
      /\ 2 * Sum(a) = n * (n - 1) /\ 2 * Sum(b) = n * (n - 1)
      /\ 6 * Sum(Products(a, a)) = (n - 1) * n * (2 * n - 1)
      /\ 6 * Sum(Products(b, b)) = (n - 1) * n * (2 * n - 1)
  BY <1>3, RankSums
<1>9. S \in Int /\ R \in Int /\ Sum(b) \in Int /\ Sum(Products(b, b)) \in Int
  BY <1>8, ProductsType, SumInt
<1>10. Sum(b) = S /\ Sum(Products(b, b)) = R
  <2>1. \A x, y \in Int : (2 * x = 2 * y => x = y) /\ (6 * x = 6 * y => x = y)
    OBVIOUS
  <2>2. 2 * Sum(b) = 2 * S /\ 6 * Sum(Products(b, b)) = 6 * R
    BY <1>8
  <2> HIDE DEF S, R
  <2>3. QED
    BY <1>9, <2>1, <2>2
<1>11. Ranks(a, n, S, R) /\ Ranks(b, n, S, R)
  BY <1>1, <1>6, <1>8, <1>9, <1>10 DEF Ranks, RankTotals
<1> HIDE DEF S, R
<1>12. 12 * Stats!pearson([i \in 1 .. n |-> [x |-> a[i], y |-> b[i]]]).cov
         = n * n * (n * (n * n - 1) - 6 * Sum(Products(Differences(a, b), Differences(a, b))))
  BY <1>11, PearsonOfRanks
<1>13. QED
  BY <1>2, <1>5, <1>7, <1>12 DEF RankFormulaHolds

(* spearman() of two pairs or more, no two of which have the same x or the same
   y, is the formula with the differences of the ranks. *)
THEOREM RanksToFormula ==
  ASSUME NEW n \in Nat, n > 1, NEW P, Len(P) = n, Untied(P)
  PROVE  LET Rank(i) == Cardinality({k \in 1 .. n : P[k].x < P[i].x})
                          - Cardinality({k \in 1 .. n : P[k].y < P[i].y})
             squares == Stats!Sum(Stats!Squares([i \in 1 .. n |-> Rank(i)]))
         IN  12 * Stats!spearman(P).cov = n * n * (n * (n * n - 1) - 6 * squares)
<1> DEFINE Rank(i) == Cardinality({k \in 1 .. n : P[k].x < P[i].x})
                        - Cardinality({k \in 1 .. n : P[k].y < P[i].y})
           f == [i \in 1 .. n |-> Rank(i)]
<1>1. PICK r, q : RankedAs(P, r, q, n)
  BY RankedByPlace
<1>2. \A j \in 1 .. n : f[r[j]] = q[j] - j
  <2> SUFFICES ASSUME NEW j \in 1 .. n PROVE f[r[j]] = q[j] - j
    OBVIOUS
  <2>1. Rank(r[j]) = (q[j] - 1) - (j - 1)
    BY <1>1 DEF RankedAs
  <2>2. q[j] \in 1 .. n /\ r[j] \in 1 .. n
    BY <1>1 DEF RankedAs
  <2> HIDE DEF Rank
  <2>3. f[r[j]] = Rank(r[j])
    BY <2>2
  <2>4. (q[j] - 1) - (j - 1) = q[j] - j
    BY <2>2
  <2>5. QED
    BY <2>1, <2>3, <2>4
<1> HIDE DEF f
<1>3. RankDifferences(f, r, q, n)
  <2>1. r \in [1 .. n -> 1 .. n] /\ IsInjective(r) /\ q \in [1 .. n -> 1 .. n] /\ IsInjective(q)
    BY <1>1 DEF RankedAs
  <2> DEFINE d == [j \in 1 .. n |-> q[j] - j]
  <2>2. d \in Seq(Int) /\ Len(d) = n /\ \A j \in 1 .. n : d[j] = q[j] - j
    <3>1. \A j \in 1 .. n : q[j] - j \in Int
      BY <2>1
    <3>2. QED
      BY <3>1
  <2>3. Reorders(f, d, r, n)
    <3> HIDE DEF d
    <3>1. QED
      BY <1>2, <2>1, <2>2 DEF Reorders
  <2>4. QED
    BY <2>1, <2>3 DEF RankDifferences
<1>4. 12 * Stats!pearson([j \in 1 .. n |-> [x |-> q[j] - 1, y |-> j - 1]]).cov
        = n * n * (n * (n * n - 1) - 6 * Sum([i \in 1 .. n |-> f[i] * f[i]]))
  <2>1. RankFormulaHolds(f, q, n)
    BY <1>3, RanksAsDifferences
  <2>2. QED
    BY <2>1 DEF RankFormulaHolds
<1>5. Stats!Sum(Stats!Squares(f)) = Sum([i \in 1 .. n |-> f[i] * f[i]])
  <2>1. Stats!Squares(f) = [i \in 1 .. n |-> f[i] * f[i]]
    BY DEF Stats!Squares, f
  <2>2. QED
    BY <2>1, StatsSum
<1>6. 12 * Stats!spearman(P).cov = n * n * (n * (n * n - 1) - 6 * Stats!Sum(Stats!Squares(f)))
  <2>1. Stats!Ranked(P) = [j \in 1 .. n |-> [x |-> q[j] - 1, y |-> j - 1]]
    BY <1>1 DEF RankedAs
  <2>2. QED
    BY <1>4, <1>5, <2>1, Zenon DEF Stats!spearman
<1>7. QED
  BY <1>6 DEF f

(* The samples of an input are some integers. *)
LEMMA SamplesPicked ==
  ASSUME Next, probe'.kind = "samples"
  PROVE  probe'.q \in Seq(Int) /\ probe'.q # <<>>
<1>1. PICK n \in 1 .. Bound : \E q \in [1 .. n -> -2 .. 2] : probe' = [kind |-> "samples", q |-> q]
  BY Picked, Zenon DEF PickSamples
<1>2. PICK q \in [1 .. n -> -2 .. 2] : probe' = [kind |-> "samples", q |-> q]
  BY <1>1
<1>3. n \in Nat /\ n > 0
  BY ParamsAssumption
<1>4. q \in Seq(Int) /\ Len(q) = n
  BY <1>3
<1>5. probe'.q = q
  BY <1>2
<1>6. QED
  BY <1>3, <1>4, <1>5

LEMMA SampleLawsHold == ASSUME Next, probe'.kind = "samples" PROVE (MirrorImage /\ ResumesExactly)'
<1>1. probe'.q \in Seq(Int) /\ probe'.q # <<>>
  BY SamplesPicked
<1>2. MirrorImage'
  BY <1>1, FiguresMirrored, Zenon DEF MirrorImage
<1>3. ResumesExactly'
  <2>1. -2 .. 2 \subseteq Int /\ 0 .. 4 \subseteq Int
    OBVIOUS
  <2>2. QED
    BY <1>1, <2>1, ResumedFromFigures, Zenon DEF ResumesExactly
<1>4. QED
  BY <1>2, <1>3

(* The pairs of an input are without ties. *)
LEMMA PairsPicked ==
  ASSUME Next, probe'.kind = "pairs"
  PROVE  Len(probe'.pairs) \in Nat /\ Untied(probe'.pairs)
<1>1. PICK n \in 1 .. Bound : \E x, y \in {f \in [1 .. n -> 1 .. Bound] : IsInjective(f)} :
        probe' = [kind |-> "pairs", pairs |-> [i \in 1 .. n |-> [x |-> x[i], y |-> -2 * y[i]]]]
  BY Picked, Zenon DEF PickPairs
<1>2. PICK x \in {f \in [1 .. n -> 1 .. Bound] : IsInjective(f)},
           y \in {f \in [1 .. n -> 1 .. Bound] : IsInjective(f)} :
        probe' = [kind |-> "pairs", pairs |-> [i \in 1 .. n |-> [x |-> x[i], y |-> -2 * y[i]]]]
  BY <1>1
<1> DEFINE P == [i \in 1 .. n |-> [x |-> x[i], y |-> -2 * y[i]]]
<1>3. probe'.pairs = P
  BY <1>2
<1>4. /\ x \in [1 .. n -> 1 .. Bound] /\ IsInjective(x) /\ DOMAIN x = 1 .. n
      /\ y \in [1 .. n -> 1 .. Bound] /\ IsInjective(y) /\ DOMAIN y = 1 .. n
  OBVIOUS
<1>5. n \in Nat /\ Len(P) = n
  BY ParamsAssumption
<1>6. \A i \in 1 .. n : P[i].x = x[i] /\ P[i].y = -2 * y[i] /\ x[i] \in Int /\ y[i] \in Int
  BY <1>4
<1>7. \A i \in 1 .. n : P[i] \in [x : Int, y : Int]
  BY <1>4
<1> HIDE DEF P
<1>8. ASSUME NEW i \in 1 .. n, NEW j \in 1 .. n, P[i].x = P[j].x \/ P[i].y = P[j].y
      PROVE  i = j
  <2>1. x[i] = x[j] \/ y[i] = y[j]
    <3>1. \A a, b \in Int : -2 * a = -2 * b => a = b
      OBVIOUS
    <3>2. P[i].x = P[j].x => x[i] = x[j]
      BY <1>6
    <3>3. P[i].y = P[j].y => y[i] = y[j]
      <4>1. P[i].y = -2 * y[i] /\ P[j].y = -2 * y[j] /\ y[i] \in Int /\ y[j] \in Int
        BY <1>6
      <4>2. QED
        BY <3>1, <4>1
    <3>4. QED
      BY <1>8, <3>2, <3>3
  <2>2. QED
    BY <1>4, <2>1 DEF IsInjective
<1>9. Untied(P)
  BY <1>5, <1>7, <1>8 DEF Untied
<1>10. QED
  BY <1>3, <1>5, <1>9

LEMMA RanksCorrelateHolds == ASSUME Next, probe'.kind = "pairs" PROVE RanksCorrelate'
<1>1. Len(probe'.pairs) \in Nat /\ Untied(probe'.pairs)
  BY PairsPicked
<1>2. QED
  BY <1>1, RanksToFormula, Zenon DEF RanksCorrelate

(* The statistics of samples, mirrored, resumed or by their ranks, are those of
   the samples, for any number of them. *)
THEOREM SamplesExact == Spec => []SamplesAgree
<1>1. Init => SamplesAgree
  BY DEF Init, SamplesAgree, MirrorImage, ResumesExactly, RanksCorrelate, Kind
<1>2. SamplesAgree /\ [Next]_vars => SamplesAgree'
  <2>1. Next => SamplesAgree'
    <3> SUFFICES ASSUME Next PROVE SamplesAgree'
      OBVIOUS
    <3>1. MirrorImage' /\ ResumesExactly'
      <4>1. CASE probe'.kind = "samples"
        BY <4>1, SampleLawsHold
      <4>2. CASE probe'.kind # "samples"
        BY <4>2 DEF MirrorImage, ResumesExactly, Kind
      <4>3. QED
        BY <4>1, <4>2
    <3>2. RanksCorrelate'
      <4>1. CASE probe'.kind = "pairs"
        BY <4>1, RanksCorrelateHolds
      <4>2. CASE probe'.kind # "pairs"
        BY <4>2 DEF RanksCorrelate, Kind
      <4>3. QED
        BY <4>1, <4>2
    <3>3. QED
      BY <3>1, <3>2 DEF SamplesAgree
  <2>2. SamplesAgree /\ UNCHANGED vars => SamplesAgree'
    BY DEF vars, SamplesAgree, MirrorImage, ResumesExactly, RanksCorrelate, Kind
  <2>3. QED
    BY <2>1, <2>2
<1>3. QED
  BY <1>1, <1>2, PTL DEF Spec
=============================================================================
