----------------------------- MODULE ShmPageTags -----------------------------
(***************************************************************************)
(* tagCold, tagPage, swapOut and pageOut of ShmBuffer_t                    *)
(* (src/ShmBuffer.cpp): the buffer tells the kernel which of its pages are *)
(* cold and which to swap out, and remembers per advice where it stopped,  *)
(* so as not to make the costly system call for nothing.                   *)
(***************************************************************************)
EXTENDS Integers, FiniteSetsExt

CONSTANTS
  PAGE,     \* getpagesize()
  MANT,     \* bits of a float's mantissa: 24
  Sizes,    \* the sizes of a shared memory file, in bytes
  Skips,    \* skip_header of tagCold and swapOut
  Offsets,  \* addresses they are given, relative to the base of the buffer
  Pages     \* begin and end of tagPage and pageOut; negative from the last page

ASSUME PageAssumption == PAGE \in Nat \ {0} /\ MANT \in Nat \ {0}
ASSUME SizesAssumption == Sizes \subseteq Nat \ {0}
ASSUME ArgsAssumption == Skips \subseteq Nat /\ Offsets \cup Pages \subseteq Int

Advice == {"cold", "swap"}    \* MADV_DONTNEED and MADV_PAGEOUT

VARIABLES
  bytes,    \* _bytes, 0 while nothing is mapped
  pages,    \* _pages
  record,   \* _coold and _swapd
  told,     \* the pages of the present mapping the kernel was told about
  first     \* history: the first page of the last range that was told, or
            \* pages, behind them all, if the record is an earlier mapping's

vars == <<bytes, pages, record, told, first>>

Nothing == [a \in Advice |-> {}]

Init ==
  /\ bytes = 0
  /\ pages = 0
  /\ record = [a \in Advice |-> 0]
  /\ told = Nothing
  /\ first = [a \in Advice |-> 0]

CeilDiv(n, d) == (n + d - 1) \div d

\* The distance of a float of about n to the next
Ulp(n) == 2 ^ Min({e \in 0 .. 30 : n \div 2 ^ e < 2 ^ MANT})

\* A consequence of Ulp, which the proofs take from here: the provers know
\* nothing of the powers of two.
ASSUME UlpAssumption == \A n \in Sizes : Ulp(n) \in 1 .. n

\* static_cast<float>( n ): to the nearest multiple of the ulp, halves to even
FloatOf(n) ==
  LET q == n \div Ulp(n)
      r == n % Ulp(n)
      up == 2 * r > Ulp(n) \/ (2 * r = Ulp(n) /\ q % 2 = 1)
  IN  (IF up THEN q + 1 ELSE q) * Ulp(n)

\* A slip: a page is added whether the size is a multiple of a page or not.
PagesOf_OneMore(n) == n \div PAGE + 1

\* std::ceil( static_cast<float>( _bytes ) / _1page )
PagesOf(n) == CeilDiv(FloatOf(n), PAGE)

\* make() or plug(): neither touches _coold and _swapd
Map(n) ==
  /\ bytes = 0
  /\ bytes' = n
  /\ pages' = PagesOf(n)
  /\ told' = Nothing
  /\ first' = [a \in Advice |-> IF record[a] = 0 THEN 0 ELSE PagesOf(n)]
  /\ UNCHANGED record

\* unplug(): forgets name, base and size
Unplug ==
  /\ bytes # 0
  /\ bytes' = 0
  /\ told' = Nothing
  /\ UNCHANGED <<pages, record, first>>

ClearTagRanges ==
  /\ record' = [a \in Advice |-> 0]
  /\ first' = [a \in Advice |-> 0]
  /\ UNCHANGED <<bytes, pages, told>>

\* "_page_no": an address below the base counts as page 0
PageNo(off) == IF off < 0 THEN 0 ELSE off \div PAGE

\* The first page to tag
BegOf(beg) ==
  LET b == IF beg >= 0 THEN beg ELSE pages + beg
  IN Min({pages - 1, Max({0, b})})

\* A slip: the page of the address is tagged too.
EndOf_Inclusive(end) ==
  LET e == IF end > 0 THEN end ELSE pages + end
  IN Min({pages, Max({0, e}) + 1})

\* A slip: the end may lie past the buffer.
EndOf_Uncapped(end) == Max({0, IF end > 0 THEN end ELSE pages + end})

\* The first page to leave alone; 0 stands for the end of the buffer
EndOf(end) ==
  LET e == IF end > 0 THEN end ELSE pages + end
  IN Min({pages, Max({0, e})})

LastEnd(a, force) == IF force THEN 0 ELSE record[a]

\* A slip: the pages asked for are counted, not those added since last time.
Skipped_Total(a, beg, end, force) ==
  EndOf(end) - BegOf(beg) <= LastEnd(a, force) \/ EndOf(end) - BegOf(beg) < 1

\* Nothing was added since the last time, or nothing is asked for.
Skipped(a, beg, end, force) ==
  \/ EndOf(end) - LastEnd(a, force) < 1
  \/ EndOf(end) - BegOf(beg) < 1

(* _madvise() and the reset of the record before it.  The system call may
   fail, as it does with nothing mapped, and then the record stays as the
   reset left it. *)
Advise(a, beg, end, force) ==
  /\ \/ /\ record' = [record EXCEPT ![a] = LastEnd(a, force)]
        /\ first' = [first EXCEPT ![a] = IF force THEN 0 ELSE @]
        /\ UNCHANGED told
     \/ /\ bytes # 0
        /\ ~Skipped(a, beg, end, force)
        /\ record' = [record EXCEPT ![a] = EndOf(end)]
        /\ first' = [first EXCEPT ![a] = BegOf(beg)]
        /\ told' = [told EXCEPT ![a] = @ \cup (BegOf(beg) .. EndOf(end) - 1)]
  /\ UNCHANGED <<bytes, pages>>

\* tagCold() and swapOut(): the pages before an address, but for a header
AdviseBefore(a, off, skip, force) == Advise(a, skip, PageNo(off), force)

\* tagPage() and pageOut()
AdvisePages(a, beg, end, force) == Advise(a, beg, end, force)

Next ==
  \/ \E n \in Sizes : Map(n)
  \/ Unplug
  \/ ClearTagRanges
  \/ \E a \in Advice, force \in BOOLEAN :
       \/ \E off \in Offsets, skip \in Skips : AdviseBefore(a, off, skip, force)
       \/ \E beg, end \in Pages : AdvisePages(a, beg, end, force)

Spec == Init /\ [][Next]_vars

-----------------------------------------------------------------------------
\* The type invariant; a record is a page number of this or an earlier mapping.
TypeOK ==
  /\ bytes \in Sizes \cup {0}
  /\ pages \in Nat
  /\ record \in [Advice -> Nat]
  /\ \A a \in Advice : record[a] # 0 => \E n \in Sizes : record[a] <= PagesOf(n)
  /\ told \in [Advice -> SUBSET Nat]
  /\ first \in [Advice -> 0 .. pages]

(* The kernel is never given a page past the end of the mapping, which might
   be another mapping's, although the pages are counted in floating point
   and ends and beginnings may be negative, swapped or out of range. *)
InsideMapping ==
  \A a \in Advice : \A k \in told[a] : k * PAGE < bytes

\* A call of tagCold() or swapOut() for a skip smaller than the buffer makes
\* the kernel touch only pages behind the header and before the address.
Between(skip, off) == \A a \in Advice : told'[a] \ told[a] \subseteq skip .. PageNo(off) - 1

(* tagCold() and swapOut() leave the header, and the data from the address on,
   as hot as they are, for an address in any page but the first. *)
HotIsLeft ==
  [][\A a \in Advice, off \in Offsets, skip \in Skips, force \in BOOLEAN :
       AdviseBefore(a, off, skip, force) /\ PageNo(off) > 0 /\ skip < pages
         => Between(skip, off)]_vars

(* "Tag the pages before this address": so it should be in the first page too,
   where there are none before it. *)
FirstIsLeft ==
  [][\A a \in Advice, off \in Offsets, skip \in Skips, force \in BOOLEAN :
       AdviseBefore(a, off, skip, force) /\ skip < pages => Between(skip, off)]_vars

(* "Skipped if too little was added": the record lets a call be skipped only
   if the kernel was told all the pages of this mapping that it asks for, as
   long as it begins no earlier than the call that left the record. *)
SkippedIsTold ==
  bytes # 0 =>
    \A a \in Advice, off \in Offsets, skip \in Skips :
      Skipped(a, skip, PageNo(off), FALSE) /\ first[a] <= BegOf(skip)
        => BegOf(skip) .. EndOf(PageNo(off)) - 1 \subseteq told[a]
=============================================================================
