------------------------------- MODULE Values -------------------------------
(***************************************************************************)
(* What the functions without a state answer, for every input of a small   *)
(* set: each step of this machine picks an input of one kind.              *)
(***************************************************************************)
EXTENDS SetOps

CONSTANTS
  ONE, EPS, WIDE,              \* of Algorithms
  BYTE,                        \* of UnionTypes
  Places, Sixty, Hours, Kilo,  \* of Chrono
  Bound                        \* the largest magnitude and length of an input

VARIABLE probe   \* the input that was picked last

vars == <<probe>>

Num == INSTANCE Algorithms
Bits == INSTANCE UnionTypes
Time == INSTANCE Chrono
Stats == INSTANCE Statistics

ASSUME ParamsAssumption == Num!Params /\ Bits!Params /\ Time!Params /\ Bound \in Nat

Init == probe = [kind |-> "none"]

Doubles ==
  {Num!NaN, Num!Inf(1), Num!Inf(-1)} \cup {Num!Fin(s, m) : s \in {-1, 1}, m \in 0 .. 2 * Bound}

PickDoubles ==
  \E a, b, c \in Doubles : probe' = [kind |-> "doubles", a |-> a, b |-> b, c |-> c]

PickIntegers ==
  \E i \in -(WIDE \div 2) .. WIDE \div 2 - 1, u \in 0 .. WIDE - 1 :
    probe' = [kind |-> "integers", i |-> i, u |-> u]

Behind == [1 .. 4 -> {0, BYTE - 1}]
Texts == (UNION {[1 .. n -> 1 .. BYTE - 1] : n \in 0 .. 4}) \cup [1 .. 8 -> {1, BYTE - 1}]
Shorter == UNION {[1 .. n -> {1, BYTE - 1}] : n \in 0 .. 4}

PickText ==
  \E t \in Texts, m \in Behind : probe' = [kind |-> "text", t |-> t, m |-> m]

PickTexts ==
  \E t, u \in Shorter, m, k \in Behind :
    probe' = [kind |-> "texts", t |-> t, m |-> m, u |-> u, k |-> k]

Second == 10 ^ Places
Nanoseconds == {-Second - 1, -Second, 1 - Second, -1, 0, 1, Second - 1, Second, 2 * Second + 1}
Specs == {[sec |-> s, nsec |-> n] : s \in -1 .. 1, n \in Nanoseconds}

PickSpecs ==
  \E ts, us \in Specs, ns \in Nanoseconds :
    probe' = [kind |-> "specs", ts |-> ts, us |-> us, ns |-> ns]

PickStamp ==
  \E all \in -2 * Second .. 2 * Second : probe' = [kind |-> "stamp", all |-> all]

PickDay ==
  \E x, y \in -1 .. 2, at, t \in -Time!DAY .. 2 * Time!DAY :
    LET hour == Sixty * Sixty
    IN  probe' = [kind |-> "day", t |-> t,
                  zone |-> [before |-> x * hour, after |-> y * hour, at |-> at]]

PickDuration ==
  \E ss \in 0 .. 3 * Time!DAY : probe' = [kind |-> "duration", ss |-> ss]

PickTime ==
  \E h, m, s \in {0, 59}, nss \in 0 .. Second - 1, prec \in 1 .. Places,
     junk \in [1 .. Places -> {"7", "x"}] :
    probe' = [kind |-> "time", hms |-> <<h, m, s>>, nss |-> nss, prec |-> prec, junk |-> junk]

Separators == {<<>>, <<"-">>, <<"x">>}
PickDate ==
  \E y \in {1970, 2024}, mo \in {1, 12}, d \in {1, 31}, s \in {0, 59},
     p, q, r \in Separators, tail \in {NUL, "7"} :
    probe' = [kind |-> "date", fields |-> <<y, mo, d, 23, 5, s>>,
              text |-> Digits(y, 4) \o p \o Digits(mo, 2) \o p \o Digits(d, 2) \o q
                         \o Digits(23, 2) \o r \o Digits(5, 2) \o r \o Digits(s, 2) \o <<tail>>]

PickSamples ==
  \E n \in 1 .. Bound : \E q \in [1 .. n -> -2 .. 2] :
    probe' = [kind |-> "samples", q |-> q]

PickPairs ==
  \E n \in 1 .. Bound : \E x, y \in {f \in [1 .. n -> 1 .. Bound] : IsInjective(f)} :
    probe' = [kind |-> "pairs", pairs |-> [i \in 1 .. n |-> [x |-> x[i], y |-> -2 * y[i]]]]

PickArgument ==
  \E n \in 0 .. 4 : \E s \in [1 .. n -> {BLANK, "0", "7", "x"}] :
    probe' = [kind |-> "argument", s |-> s]

PickSet ==
  \E S \in SUBSET {<<"x">>, <<"7", BLANK, "x">>, <<"7">>, <<"-", "7">>, <<"x", "x">>} :
    probe' = [kind |-> "set", S |-> S]

PickList ==
  \E n \in 1 .. 3 : \E v \in [1 .. n -> {-1, 0, 12}], left, right \in [1 .. n -> 0 .. 1],
     end \in {<<>>, <<Delimiter>>} :
    LET Text(i) == IF i < 0 THEN <<"-">> \o Digits(-i, 1) ELSE Digits(i, 2)
        Piece(i) == [k \in 1 .. left[i] |-> BLANK] \o Text(v[i]) \o [k \in 1 .. right[i] |-> BLANK]
        All == [i \in 1 .. n |-> IF i = 1 THEN Piece(i) ELSE <<Delimiter>> \o Piece(i)]
    IN  probe' = [kind |-> "list", ints |-> {v[i] : i \in 1 .. n}, text |-> FlattenSeq(All) \o end]

Next ==
  /\ probe.kind = "none"
  /\ \/ PickDoubles \/ PickIntegers \/ PickText \/ PickTexts
     \/ PickSpecs \/ PickStamp \/ PickDay \/ PickDuration \/ PickTime \/ PickDate
     \/ PickSamples \/ PickPairs \/ PickArgument \/ PickSet \/ PickList

Spec == Init /\ [][Next]_vars
-----------------------------------------------------------------------------
(* The properties are the four conjunctions at the end of the laws that follow. *)
Kind(k) == probe.kind = k

(* lt() orders the doubles, infinities and all: it is transitive, and of two
   numbers just one of lt(), eq() and gt() holds, though the tolerance is that
   of the first; le() and ge() are the opposites; what lies between two equal
   numbers equals them both.  Only two zeros of unequal sign are neither equal
   nor in order. *)
OrderHolds ==
  Kind("doubles") =>
    LET a == probe.a
        b == probe.b
        c == probe.c
    IN  /\ Num!lt(a, b) /\ Num!lt(b, c) => Num!lt(a, c)
        /\ ~Num!IsNan(a) /\ ~Num!IsNan(b) =>
             Cardinality({x \in {"lt", "eq", "gt"} :
                            \/ x = "lt" /\ Num!lt(a, b)
                            \/ x = "eq" /\ Num!eq(a, b)
                            \/ x = "gt" /\ Num!gt(a, b)})
               = IF Num!IsZero(a) /\ Num!IsZero(b) /\ a # b THEN 0 ELSE 1
        /\ ~Num!IsNan(a) /\ ~Num!IsNan(b) /\ ~(Num!IsZero(a) /\ Num!IsZero(b)) =>
             /\ Num!le(a, b) <=> ~Num!gt(a, b)
             /\ Num!ge(a, b) <=> ~Num!lt(a, b)
        /\ Num!eq(a, c) /\ Num!Less(a, b) /\ Num!Less(b, c) => Num!eq(a, b) /\ Num!eq(b, c)

(* With an epsilon, eq() is le() and ge() at once, although neither asks for it;
   just that far apart, numbers are not equal and yet both. *)
EqualIsBoth ==
  Kind("doubles") =>
    LET a == probe.a
        b == probe.b
    IN  \A e \in 1 .. 3 :
          /\ ~Num!IsNan(a) /\ ~Num!IsNan(b) =>
               (Num!leE(a, b, e) /\ Num!geE(a, b, e) <=>
                  \/ Num!eqE(a, b, e)
                  \/ a.kind = "fin" /\ b.kind = "fin" /\ Num!Abs(Num!Val(a) - Num!Val(b)) = e)
          /\ Num!eqArrayE(<<a, b>>, <<b, a>>, e) <=> Num!eqE(a, b, e)

(* A signed and an unsigned integer are equal if their values are, which the
   conversion of C++ alone does not tell. *)
MixedIsExact ==
  Kind("integers") => (Num!eqMixed(probe.i, probe.u) <=> probe.i = probe.u)

(* safe_div() of numbers away from zero, or by zero itself, changes the sign of
   its answer with the sign of either, in each of its branches. *)
DivIsOdd ==
  Kind("doubles") =>
    LET n == probe.a
        d == probe.b
        Away(x) == ~Num!NearZero([x EXCEPT !.sign = 1]) /\ ~Num!IsNan(x)
        Other(x) == [x EXCEPT !.sign = -@]
        r == Num!safe_div(n, d)
        Opposite(q) == (q = Other(r)) \/ (Num!IsZero(q) /\ Num!IsZero(r))
    IN  /\ Away(n) /\ (Away(d) \/ d = Num!Fin(1, 0)) => Opposite(Num!safe_div(Other(n), d))
        /\ Away(n) /\ Away(d) => Opposite(Num!safe_div(n, Other(d)))
        /\ r.kind = "div" /\ r.by[2] = 0 => d = Num!Fin(-1, 0)

FirstOf(t, n) == SubSeq(t, 1, IF Len(t) < n THEN Len(t) ELSE n)

(* A text that fits comes back as it was, and of a longer one the first bytes,
   whatever bytes are behind it in memory and behind the union, those with the
   highest bit set included; but for the empty C string in a U16_u. *)
TextSurvives ==
  Kind("text") =>
    LET t == probe.t
        m == probe.m
    IN  /\ Bits!str(Bits!Filled(t, 8), m) = FirstOf(t, 8)
        /\ Bits!str(Bits!Copied(t, m, 4), m) = FirstOf(t, 4)
        /\ Bits!str16(Bits!Filled(t, 2)) = FirstOf(t, 2)
        /\ t # <<>> => Bits!str16(Bits!Copied(t, m, 2)) = FirstOf(t, 2)

(* Two unions compare equal just if their texts are, whatever was in memory;
   those that are copied with what is behind need texts one byte short at most. *)
SameTextSameBits ==
  Kind("texts") =>
    LET t == probe.t
        u == probe.u
        Same(p, q) == ~Bits!LessU(p, q) /\ ~Bits!LessU(q, p)
    IN  /\ \A n \in {2, 8} :
             Same(Bits!Filled(t, n), Bits!Filled(u, n)) <=> FirstOf(t, n) = FirstOf(u, n)
        /\ Len(t) >= 3 /\ Len(u) >= 3 =>
             (Same(Bits!Copied(t, probe.m, 4), Bits!Copied(u, probe.k, 4)) <=> t = u)

(* Adding nanoseconds to a timespec is exact, backwards and before the epoch
   too, and puts it in order even if it was not. *)
PlusIsExact ==
  Kind("specs") =>
    LET sum == Time!Plus(probe.ts, probe.ns)
    IN  /\ Time!Span(sum) = Time!Span(probe.ts) + probe.ns
        /\ sum.nsec \in 0 .. Second - 1
        /\ Time!Minus(sum, probe.ns) = Time!Plus(probe.ts, 0)

(* The comparisons of what the arithmetic returns agree with the difference, and
   a shift of both leaves them alone. *)
OrderAgrees ==
  Kind("specs") =>
    LET a == Time!Plus(probe.ts, 0)
        b == Time!Plus(probe.us, 0)
    IN  /\ Time!Less(a, b) <=> Time!Since(a, b) < 0
        /\ Time!Greater(a, b) <=> Time!Since(a, b) > 0
        /\ Time!Less(a, b) <=> Time!Less(Time!Plus(a, probe.ns), Time!Plus(b, probe.ns))
        /\ Time!AtMost(a, b) <=> ~Time!Greater(a, b)
        /\ Time!AtLeast(a, b) <=> ~Time!Less(a, b)

(* The three numbers that are stored for a time are that time, each within its
   unit; before the epoch none of them is above zero. *)
StampSplits ==
  Kind("stamp") =>
    LET p == Time!SsUsNs(probe.all)
    IN  /\ p.ss * Second + p.us * Kilo + p.ns = probe.all
        /\ Num!Abs(p.us) * Kilo < Second /\ Num!Abs(p.ns) < Kilo
        /\ probe.all < 0 => p.ss <= 0 /\ p.us <= 0 /\ p.ns <= 0

(* "One must not align to multiples of 86400 seconds": floor() is the last local
   midnight, unless the zone has switched since. *)
FloorIsMidnight ==
  Kind("day") =>
    LET start == Time!floor(probe.zone, probe.t)
    IN  probe.zone.at \notin start + 1 .. probe.t =>
          /\ Time!Local(probe.zone, start) % Time!DAY = 0
          /\ probe.t - start \in 0 .. Time!DAY - 1

(* The parts of a duration that are printed add up to it, from the first that is
   not zero down to the seconds without a gap. *)
DurationAddsUp ==
  Kind("duration") =>
    LET parts == Time!fmt_dura(probe.ss)
        Unit == [D |-> Time!DAY, H |-> Sixty * Sixty, M |-> Sixty, S |-> 1]
    IN  /\ Stats!Sum([i \in DOMAIN parts |-> parts[i][2] * Unit[parts[i][1]]]) = probe.ss
        /\ IsSuffix([i \in DOMAIN parts |-> parts[i][1]], <<"D", "H", "M", "S">>)
        /\ Len(parts) > 1 => parts[1][2] > 0

(* A time printed with some decimal places is parsed as what it was, cut there
   and never rounded up into the next second; if all places are printed, or no
   digit happens to be behind the text. *)
FractionSurvives ==
  Kind("time") =>
    LET h == probe.hms
        cut == 10 ^ (Places - probe.prec)
        text == Digits(h[1], 2) \o <<":">> \o Digits(h[2], 2) \o <<":">> \o Digits(h[3], 2)
                  \o <<".">> \o Time!Fraction(probe.nss, probe.prec) \o <<NUL>> \o probe.junk
    IN  probe.prec = Places \/ ToSet(probe.junk) \cap Digit = {} =>
          Time!TimeOfDay(text) =
            ((h[1] * Sixty + h[2]) * Sixty + h[3]) * Second + (probe.nss \div cut) * cut

(* Any separators, or none, between the parts of a date and a time give the same
   fields, and nothing behind the text is taken for a part of it. *)
SeparatorsDontMatter ==
  Kind("date") =>
    Time!ParsedDateTime(probe.text) = [probe.fields EXCEPT ![1] = @ - 1900, ![2] = @ - 1]

(* The figures of samples whose signs are changed are those of the samples, seen
   in a mirror: the median of an even count has no side it prefers. *)
MirrorImage ==
  Kind("samples") =>
    LET s == Stats!Statistic(probe.q)
        m == Stats!Statistic([i \in DOMAIN probe.q |-> -probe.q[i]])
    IN  <<m.max, m.min, m.med2, m.sum, m.var>> = <<-s.min, -s.max, -s.med2, -s.sum, s.var>>

\* Statistics that are kept up with the first samples of q, from none on.
FoldsOf(q) ==
  LET upTo[n \in 0 .. Len(q)] ==
        IF n = 0 THEN Stats!NewStat ELSE Stats!update(upTo[n - 1], q[n])
  IN  upTo

Fold(q) == FoldsOf(q)[Len(q)]

(* Statistics that start from an average and a deviation, and go on, end up with
   those of all samples; the two are whole numbers here. *)
ResumesExactly ==
  Kind("samples") =>
    LET old == Fold(Front(probe.q))
        n == old.cnt
    IN  \A avg \in -2 .. 2, std \in 0 .. 4 :
          n > 1 /\ avg * n = old.sum /\ std * std * n * (n - 1) = Stats!VarOf(old) =>
            LET all == Stats!update(Stats!initialize(n, avg, std), Last(probe.q))
            IN  /\ <<Stats!AvgOf(all), n + 1>> = Stats!average(probe.q)
                /\ Stats!VarOf(all) = Stats!VarOf(Fold(probe.q))

(* spearman() of two pairs or more without ties is the formula of the textbooks, which needs
   only the differences of the ranks. *)
RanksCorrelate ==
  Kind("pairs") =>
    LET P == probe.pairs
        n == Len(P)
        Rank(i) == Cardinality({k \in 1 .. n : P[k].x < P[i].x})
                     - Cardinality({k \in 1 .. n : P[k].y < P[i].y})
        squares == Stats!Sum(Stats!Squares([i \in 1 .. n |-> Rank(i)]))
    IN  n > 1 => 12 * Stats!spearman(P).cov = n * n * (n * (n * n - 1) - 6 * squares)

(* An argument that show-stamp accepts is the number that it shows; unless blanks
   lead, which are accepted and read as 0. *)
AcceptedIsParsed ==
  Kind("argument") /\ is_number(probe.s) =>
    Digits(Stamp(probe.s), Len(trim(probe.s))) =
      IF probe.s[1] = BLANK THEN Digits(0, Len(trim(probe.s))) ELSE trim(probe.s)

\* A set of texts that is written as a list is read as the same set.
ListIsSet == Kind("set") => split2set(to_str(probe.S)) = probe.S

(* The integers of a list are those that are in it, wherever there are blanks or
   a comma too many. *)
ListedAreRead ==
  Kind("list") => ~Throws(probe.text) /\ split2ints(probe.text) = probe.ints

(* Comparisons and divisions of doubles and integers agree with each other, at the
   tolerance's edge, the infinities and both zeros, and with what is computed in
   another way; so do the texts that are packed into integers. *)
NumbersAgree ==
  /\ OrderHolds /\ EqualIsBoth /\ MixedIsExact /\ DivIsOdd
  /\ TextSurvives /\ SameTextSameBits

(* The statistics do not depend on how the samples came in: mirrored, one after
   another or from a summary, or by their ranks. *)
SamplesAgree == MirrorImage /\ ResumesExactly /\ RanksCorrelate

(* The arithmetic of times, in seconds and nanoseconds, of the local day and of
   the parts of a duration, is exact on both sides of the epoch. *)
TimesAgree == PlusIsExact /\ OrderAgrees /\ StampSplits /\ FloorIsMidnight /\ DurationAddsUp

(* What was written or listed is read back as it was. *)
ReadBack ==
  /\ FractionSurvives /\ SeparatorsDontMatter
  /\ AcceptedIsParsed /\ ListIsSet /\ ListedAreRead
=============================================================================
