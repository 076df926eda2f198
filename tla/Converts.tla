------------------------------ MODULE Converts ------------------------------
(***************************************************************************)
(* The text helpers of include/leonutils/Converts.hpp that other parts     *)
(* read numbers with, and the argument of show-stamp (src/ShowStamp.cpp).  *)
(* A text is a sequence of characters; behind a C string come NUL and then *)
(* whatever the memory holds.                                              *)
(***************************************************************************)
EXTENDS Integers, Sequences, SequencesExt, FiniteSetsExt, TLC

NUL == "nul"
BLANK == " "
Digit == {"0", "1", "2", "3", "4", "5", "6", "7", "8", "9"}
ValueOf == [c \in Digit |-> CHOOSE n \in 0 .. 9 : ToString(n) = c]

\* The first place from k on whose character is not in S, at most past the end.
Skip(s, k, S) == Min({i \in k .. Len(s) + 1 : i = Len(s) + 1 \/ s[i] \notin S})

\* The w digits of n.
Digits(n, w) == [i \in 1 .. w |-> ToString((n \div 10 ^ (w - i)) % 10)]

trim_l(s) == SubSeq(s, Skip(s, 1, {BLANK}), Len(s))
trim_r(s) == Reverse(trim_l(Reverse(s)))
trim(s) == trim_l(trim_r(s))

\* A slip: what follows the digits is not looked at.
is_number_Open(s) ==
  LET number == Skip(s, 1, {BLANK}) IN number < Skip(s, number, Digit)

(* The three loops skip leading blanks, digits, and trailing blanks; there
   must be a digit, and nothing else. *)
is_number(s) ==
  LET number == Skip(s, 1, {BLANK})
      behind == Skip(s, number, Digit)
  IN  number < behind /\ Skip(s, behind, {BLANK}) = Len(s) + 1

\* parse_int( value, s + k, n ): the value, and the place behind it.
parse_int(s, k, n) ==
  LET end == Min({Skip(s, k, Digit), k + n})
  IN  [value |-> FoldLeft(LAMBDA v, c : 10 * v + ValueOf[c], 0, SubSeq(s, k, end - 1)),
       next |-> end]

\* ParseArgs(): the stamp of an argument that is not refused.
Stamp(arg) == parse_int(arg, 1, Len(arg)).value
=============================================================================
