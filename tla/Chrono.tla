------------------------------- MODULE Chrono -------------------------------
(***************************************************************************)
(* Times (include/leonutils/Chrono.hpp, src/Chrono.cpp): arithmetic on     *)
(* timespec, the beginning of a day, and texts of times and durations.     *)
(* Quotients are those of C++, which round towards zero.                   *)
(***************************************************************************)
EXTENDS Converts

CONSTANTS
  Places,         \* decimal places of a second, 9
  Sixty, Hours,   \* 60, and the hours of a day
  Kilo            \* nanoseconds in a microsecond

(* What the module takes of its constants.  That the last is a number follows, but
   no prover knows of powers. *)
Params == {Places, Sixty, Hours, Kilo, 10 ^ Places} \subseteq Nat \ {0}

NS_IN_1_SEC == 10 ^ Places
Quot(a, b) == IF a < 0 THEN -((-a) \div b) ELSE a \div b
Rem(a, b) == a - b * Quot(a, b)

\* timespec: seconds and nanoseconds
Span(ts) == ts.sec * NS_IN_1_SEC + ts.nsec

Greater(a, b) == a.sec > b.sec \/ (a.sec = b.sec /\ a.nsec > b.nsec)

\* A slip: the seconds need not be equal for the nanoseconds to decide.
Less_Either(a, b) == a.sec < b.sec \/ a.nsec < b.nsec

Less(a, b) == a.sec < b.sec \/ (a.sec = b.sec /\ a.nsec < b.nsec)
AtMost(a, b) == a = b \/ Less(a, b)
AtLeast(a, b) == a = b \/ Greater(a, b)

\* ts1 - ts2
Since(a, b) == (a.sec - b.sec) * NS_IN_1_SEC + a.nsec - b.nsec

\* A slip: the remainder of a negative sum is not put right.
Plus_Negative(ts, ns) ==
  LET sum == Rem(ns, NS_IN_1_SEC) + Rem(ts.nsec, NS_IN_1_SEC)
  IN  [sec |-> ts.sec + Quot(ts.nsec, NS_IN_1_SEC) + Quot(ns, NS_IN_1_SEC)
                 + Quot(sum, NS_IN_1_SEC),
       nsec |-> Rem(sum, NS_IN_1_SEC)]

\* ts + ns, and ts += ns
Plus(ts, ns) ==
  LET sum == Rem(ns, NS_IN_1_SEC) + Rem(ts.nsec, NS_IN_1_SEC)
      rest == Rem(sum, NS_IN_1_SEC)
      nsec == Rem(rest + NS_IN_1_SEC, NS_IN_1_SEC)
  IN  [sec |-> ts.sec + Quot(ts.nsec, NS_IN_1_SEC) + Quot(ns, NS_IN_1_SEC)
                 + Quot(sum, NS_IN_1_SEC) + Quot(rest - nsec, NS_IN_1_SEC),
       nsec |-> nsec]

\* ts - ns, and ts -= ns
Minus(ts, ns) == Plus(ts, -ns)

\* A slip: the microseconds are taken of all.
SsUsNs_All(all) ==
  [ss |-> Quot(all, NS_IN_1_SEC), us |-> Quot(all, Kilo), ns |-> Rem(all, Kilo)]

\* SsUsNs_t( tp )
SsUsNs(all) ==
  LET rest == Rem(all, NS_IN_1_SEC)
  IN  [ss |-> Quot(all, NS_IN_1_SEC), us |-> Quot(rest, Kilo), ns |-> Rem(rest, Kilo)]

(* The zone of the machine: the seconds it is ahead before and after the switch
   to, or from, summer time. *)
DAY == Hours * Sixty * Sixty
Ahead(zone, t) == IF t < zone.at THEN zone.before ELSE zone.after
Local(zone, t) == t + Ahead(zone, t)

\* A slip: days are counted from the epoch.
floor_Utc(zone, t) == (t \div DAY) * DAY

(* floor(): localtime_r() tells the day, and if it is summer time; mktime() takes
   its word for the latter. *)
floor(zone, t) == (Local(zone, t) \div DAY) * DAY - Ahead(zone, t)

\* A slip: it is rounded.
Fraction_Rounded(nss, prec) ==
  LET cut == 10 ^ (Places - prec) IN Digits((nss + cut \div 2) \div cut, prec)

\* What fmt( tp, prec ) puts behind the point, and how much that is.
Fraction(nss, prec) == Digits(nss \div 10 ^ (Places - prec), prec)

(* parse_time(): the nanoseconds behind the point, k; it looks at all places,
   even those behind the end of the text. *)
ParsedFraction(s, k) ==
  FoldLeft(LAMBDA v, c : 10 * v + (IF c \in Digit THEN ValueOf[c] ELSE 0), 0,
           SubSeq(s, k, k + Places - 1))

\* A character that is no digit is left out, whatever it is.
Separator(s, k) == IF s[k] \in Digit THEN k ELSE k + 1

\* A slip: there must be a separator.
ParsedTime_Always(s, k) ==
  LET h == parse_int(s, k, 2)
      m == parse_int(s, h.next + 1, 2)
      x == parse_int(s, m.next + 1, 2)
  IN  [time |-> <<h.value, m.value, x.value>>, next |-> x.next]

\* parse_time() to a tm, and the beginning of the other
ParsedTime(s, k) ==
  LET h == parse_int(s, k, 2)
      m == parse_int(s, Separator(s, h.next), 2)
      x == parse_int(s, Separator(s, m.next), 2)
  IN  [time |-> <<h.value, m.value, x.value>>, next |-> x.next]

\* parse_time() to a duration, in nanoseconds
TimeOfDay(s) ==
  LET p == ParsedTime(s, 1)
      secs == (p.time[1] * Sixty + p.time[2]) * Sixty + p.time[3]
  IN  secs * NS_IN_1_SEC + IF s[p.next] = "." THEN ParsedFraction(s, p.next + 1) ELSE 0

\* parse_date(): a year since 1900, and a month from 0 on
ParsedDate(s, k) ==
  LET y == parse_int(s, k, 4)
      m == parse_int(s, Separator(s, y.next), 2)
      d == parse_int(s, Separator(s, m.next), 2)
  IN  [date |-> <<y.value - 1900, m.value - 1, d.value>>, next |-> d.next]

\* parse_datetime()
ParsedDateTime(s) ==
  LET d == ParsedDate(s, 1)
  IN  d.date \o ParsedTime(s, Separator(s, d.next)).time

\* The days of so many seconds, and the hours, minutes and seconds that are left
PartsOf(ss) ==
  LET inDay == Rem(ss, DAY)
      inHour == Rem(inDay, Sixty * Sixty)
  IN  <<<<"D", Quot(ss, DAY)>>, <<"H", Quot(inDay, Sixty * Sixty)>>,
        <<"M", Quot(inHour, Sixty)>>, <<"S", Rem(inHour, Sixty)>>>>

\* A slip: a part is shown only if it is not zero itself.
fmt_dura_Gaps(ss) == SelectSeq(PartsOf(ss), LAMBDA p : p[1] = "S" \/ p[2] > 0)

\* fmt_dura() of seconds: from the first part on that is above zero.
fmt_dura(ss) ==
  LET parts == PartsOf(ss)
  IN  SubSeq(parts, Min({i \in 1 .. 4 : i = 4 \/ parts[i][2] > 0}), 4)
=============================================================================
