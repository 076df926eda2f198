----------------------------- MODULE UnionTypes -----------------------------
(***************************************************************************)
(* U16_u, U32_u and U64_u (include/leonutils/UnionTypes.hpp): a few bytes  *)
(* that are a number and a short text, on a processor that is little       *)
(* endian.  A text is a sequence of bytes other than 0; what lies in the   *)
(* memory behind it and its 0 is arbitrary.                                *)
(***************************************************************************)
EXTENDS FiniteSetsExt, Totals

CONSTANT BYTE     \* values of a byte

(* What the module takes of its constant: that half of the values have the
   highest bit, and the powers of it. *)
Params ==
  /\ BYTE \in Nat /\ BYTE > 1 /\ BYTE % 2 = 0
  /\ BYTE ^ 0 = 1
  /\ \A k \in 0 .. 8 : BYTE ^ k \in Nat \ {0}
  /\ \A k \in 1 .. 8 : BYTE ^ k = BYTE * BYTE ^ (k - 1)

\* asU of the bytes of asA, and its byte i
asU(bytes) == Sum([i \in DOMAIN bytes |-> bytes[i] * BYTE ^ (i - 1)])
ByteOf(u, i) == (u \div BYTE ^ (i - 1)) % BYTE

\* A slip: the bytes that the text leaves are not set to 0 first.
Filled_Stale(text, n) == [i \in 1 .. n |-> IF i <= Len(text) THEN text[i] ELSE i % 2]

(* As many bytes of the text as there are, and 0: U64_u, and U16_u of a
   std::string. *)
Filled(text, n) == [i \in 1 .. n |-> IF i <= Len(text) THEN text[i] ELSE 0]

(* n bytes from the memory on, whatever they are: U32_u unless the text is an
   empty std::string or a null pointer, and U16_u of a pointer. *)
Copied(text, behind, n) == [i \in 1 .. n |-> (text \o <<0>> \o behind)[i]]

\* A slip: a byte with its highest bit set counts as one the subtraction has set.
HasZero_Bare(bytes) ==
  LET n == Len(bytes)
      ones == asU([i \in 1 .. n |-> 1])
      less == (asU(bytes) - ones) % BYTE ^ n
  IN  \E i \in 1 .. n : ByteOf(less, i) >= BYTE \div 2

\* ( asU - 0x0101.. ) & ~asU & 0x8080..
HasZero(bytes) ==
  LET n == Len(bytes)
      ones == asU([i \in 1 .. n |-> 1])
      less == (asU(bytes) - ones) % BYTE ^ n
  IN  \E i \in 1 .. n : ByteOf(less, i) >= BYTE \div 2 /\ bytes[i] < BYTE \div 2

\* What a C string in memory is read as.
UpToZero(memory) == SubSeq(memory, 1, Min({i \in 1 .. Len(memory) : memory[i] = 0}) - 1)

\* str(), where the union is followed by other bytes and a 0
str(bytes, other) ==
  IF HasZero(bytes) THEN UpToZero(bytes \o other \o <<0>>) ELSE bytes

\* str() of U16_u looks at its second byte only.
str16(bytes) == IF bytes[2] = 0 THEN UpToZero(bytes) ELSE bytes

\* operator <, of the numbers
LessU(p, q) == asU(p) < asU(q)
=============================================================================
