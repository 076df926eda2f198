------------------------------- MODULE SetOps -------------------------------
(***************************************************************************)
(* Lists in a text (include/leonutils/SetOps.hpp).                         *)
(***************************************************************************)
EXTENDS Converts

Delimiter == ","

\* A slip: the search goes on two characters behind the delimiter.
split2set_SkipsOne(s) ==
  LET cuts == {i \in 1 .. Len(s) : s[i] = Delimiter}
      From(i) == Max({c + 2 : c \in {k \in cuts : k < i}} \cup {1})
  IN  ({trim(SubSeq(s, From(i), i - 1)) : i \in cuts}
         \cup {SubSeq(s, From(Len(s) + 1), Len(s))}) \ {<<>>}

\* split2set<str_t>(): each piece but the last is trimmed; none is empty.
split2set(s) ==
  LET cuts == {i \in 1 .. Len(s) : s[i] = Delimiter}
      From(i) == Max({c + 1 : c \in {k \in cuts : k < i}} \cup {1})
  IN  ({trim(SubSeq(s, From(i), i - 1)) : i \in cuts}
         \cup {SubSeq(s, From(Len(s) + 1), Len(s))}) \ {<<>>}

\* std::stoll(): blanks, a sign, digits; what follows is ignored.
DigitsAt(s) ==
  LET k == Skip(s, 1, {BLANK})
  IN  IF k <= Len(s) /\ s[k] = "-" THEN k + 1 ELSE k
HasInt(s) == DigitsAt(s) <= Len(s) /\ s[DigitsAt(s)] \in Digit
IntOf(s) ==
  LET k == DigitsAt(s)
      v == parse_int(s, k, Len(s)).value
  IN  IF k > 1 /\ s[k - 1] = "-" THEN -v ELSE v

\* split2set<int>(), which throws if a piece has no number.
Throws(s) == \E p \in split2set(s) : ~HasInt(p)
split2ints(s) == {IntOf(p) : p \in split2set(s)}

\* A slip: the delimiter is left out.
to_str_Bare(S) == FlattenSeq(SetToSeq(S))

to_str(S) ==
  LET q == SetToSeq(S)
  IN  FlattenSeq([i \in DOMAIN q |-> IF i = 1 THEN q[i] ELSE <<Delimiter>> \o q[i]])
=============================================================================
