------------------------- MODULE ShmPageTags_proofs -------------------------
(***************************************************************************)
(* Proofs about the page tags of ShmBuffer_t for every page, every size    *)
(* of a mapping and every range: what is outside the mapping, in the       *)
(* header or behind the address is left alone, and a call is skipped only  *)
(* if it would be idle.                                                    *)
(***************************************************************************)
EXTENDS ShmPageTags, NumberLemmas

-----------------------------------------------------------------------------
(* The ends of a range *)

LEMMA PageNoType ==
  ASSUME NEW off \in Int
  PROVE  PageNo(off) \in Int
BY PageAssumption, DivMod DEF PageNo

\* No range begins below the first page, or behind the last one.
LEMMA BegInRange ==
  ASSUME pages \in Nat, NEW beg \in Int
  PROVE  /\ BegOf(beg) \in Int /\ BegOf(beg) <= pages - 1
         /\ pages > 0 => BegOf(beg) >= 0
<1> DEFINE b == IF beg >= 0 THEN beg ELSE pages + beg
<1>1. b \in Int /\ pages - 1 \in Int
  OBVIOUS
<1>2. Max({0, b}) = IF 0 >= b THEN 0 ELSE b
  BY <1>1, MaxOfTwo
<1>3. Max({0, b}) \in Nat
  BY <1>1, <1>2
<1>4. Min({pages - 1, Max({0, b})}) = IF pages - 1 <= Max({0, b}) THEN pages - 1 ELSE Max({0, b})
  BY <1>1, <1>3, MinOfTwo
<1>5. QED
  BY <1>3, <1>4 DEF BegOf

\* No range ends behind the last page.
LEMMA EndInRange ==
  ASSUME pages \in Nat, NEW end \in Int
  PROVE  EndOf(end) \in 0 .. pages
<1> DEFINE e == IF end > 0 THEN end ELSE pages + end
<1>1. e \in Int
  OBVIOUS
<1>2. Max({0, e}) = IF 0 >= e THEN 0 ELSE e
  BY <1>1, MaxOfTwo
<1>3. Max({0, e}) \in Nat
  BY <1>1, <1>2
<1>4. Min({pages, Max({0, e})}) = IF pages <= Max({0, e}) THEN pages ELSE Max({0, e})
  BY <1>3, MinOfTwo
<1>5. QED
  BY <1>3, <1>4 DEF EndOf

\* A header smaller than the buffer is where the range begins.
LEMMA BegBehindHeader ==
  ASSUME pages \in Nat, NEW skip \in Nat, skip < pages
  PROVE  BegOf(skip) = skip
<1>1. Max({0, skip}) = skip
  BY MaxOfTwo
<1>2. Min({pages - 1, skip}) = skip
  BY MinOfTwo
<1>3. QED
  BY <1>1, <1>2 DEF BegOf

\* An end that is a page behind the first is no later than that.
LEMMA EndBeforePage ==
  ASSUME pages \in Nat, NEW end \in Int, end > 0
  PROVE  EndOf(end) <= end
<1>1. Max({0, end}) = end
  BY MaxOfTwo
<1>2. Min({pages, end}) = IF pages <= end THEN pages ELSE end
  BY MinOfTwo
<1>3. QED
  BY <1>1, <1>2 DEF EndOf

-----------------------------------------------------------------------------
(* The number of pages *)

\* A float is a multiple of its ulp, by less than one more than there are in n.
LEMMA FloatIsMultiple ==
  ASSUME NEW n \in Sizes
  PROVE  \E m \in Nat : /\ FloatOf(n) = m * Ulp(n) /\ m > 0
                        /\ (m - 1) * Ulp(n) < n
<1> DEFINE u == Ulp(n)
<1>1. u \in Nat \ {0} /\ u <= n /\ n \in Nat
  BY SizesAssumption, UlpAssumption
<1> HIDE DEF u
<1> DEFINE q == n \div u
           r == n % u
           up == 2 * r > u \/ (2 * r = u /\ q % 2 = 1)
           m == IF up THEN q + 1 ELSE q
<1>2. q \in Int /\ n = u * q + r
  BY <1>1, DivMod
<1>3. r \in 0 .. u - 1
  BY <1>1, ModInRange
<1>4. FloatOf(n) = m * u
  BY DEF FloatOf, u
<1>5. up => r > 0
  <2> HIDE DEF r, q
  <2>1. QED
    BY <1>1, <1>3
<1> HIDE DEF q, r, up
<1>6. q >= 1
  <2>1. q <= 0 => u * q <= 0
    <3>1. q <= 0 => 0 <= u * (0 - q)
      BY <1>1, <1>2
    <3>2. u * (0 - q) = -(u * q) /\ u * q \in Int
      BY <1>1, <1>2
    <3>3. QED
      BY <3>1, <3>2
  <2>2. u * q \in Int
    BY <1>1, <1>2
  <2>3. u * q > 0
    BY <1>1, <1>2, <1>3, <2>2
  <2>4. QED
    BY <1>2, <2>1, <2>2, <2>3
<1>7. m \in Nat /\ m > 0
  BY <1>2, <1>6
<1>8. (m - 1) * u < n
  <2>1. u * q \in Int /\ (q - 1) * u = u * q - u /\ ((q + 1) - 1) * u = u * q
    BY <1>1, <1>2
  <2>2. CASE up
    BY <1>1, <1>2, <1>3, <1>5, <2>1, <2>2
  <2>3. CASE ~up
    BY <1>1, <1>2, <1>3, <2>1, <2>3
  <2>4. QED
    BY <2>2, <2>3
<1>9. QED
  BY <1>4, <1>7, <1>8 DEF u

\* A page that begins before the end of what is counted is one that is counted.
LEMMA CeilDivBounds ==
  ASSUME NEW f \in Nat \ {0}, NEW d \in Nat \ {0}
  PROVE  /\ CeilDiv(f, d) \in Nat \ {0}
         /\ (CeilDiv(f, d) - 1) * d < f
<1> DEFINE x == f + d - 1
           q == x \div d
           r == x % d
<1>1. x \in Int /\ x >= d
  OBVIOUS
<1>2. q \in Int /\ x = d * q + r
  BY <1>1, DivMod
<1>3. r \in 0 .. d - 1
  BY <1>1, ModInRange
<1>4. CeilDiv(f, d) = q
  BY DEF CeilDiv
<1>5. x = f + d - 1
  OBVIOUS
<1> HIDE DEF x, q, r
<1>6. d * q \in Int /\ (q - 1) * d = d * q - d
  BY <1>2
<1>7. q >= 1
  <2>1. q <= 0 => 0 <= d * (0 - q)
    BY <1>2
  <2>2. d * (0 - q) = -(d * q)
    BY <1>2
  <2>3. d * q > 0
    BY <1>1, <1>2, <1>3, <1>6
  <2>4. QED
    BY <1>2, <1>6, <2>1, <2>2, <2>3
<1>8. QED
  BY <1>2, <1>3, <1>4, <1>5, <1>6, <1>7

LEMMA PagesType ==
  ASSUME NEW n \in Sizes
  PROVE  PagesOf(n) \in Nat \ {0}
<1>1. FloatOf(n) \in Nat \ {0}
  <2>1. PICK m \in Nat : FloatOf(n) = m * Ulp(n) /\ m > 0
    BY FloatIsMultiple
  <2>2. Ulp(n) \in Nat \ {0}
    BY SizesAssumption, UlpAssumption
  <2>3. m * Ulp(n) \in Nat \ {0}
    BY <2>1, <2>2
  <2>4. QED
    BY <2>1, <2>3
<1>2. QED
  BY <1>1, CeilDivBounds, PageAssumption DEF PagesOf

LEMMA PagesInside ==
  ASSUME NEW n \in Sizes, PAGE % Ulp(n) = 0, NEW k \in Nat, k < PagesOf(n)
  PROVE  k * PAGE < n
<1> DEFINE u == Ulp(n)
           f == FloatOf(n)
           v == PAGE \div u
           d == PagesOf(n)
<1>1. u \in Nat \ {0} /\ PAGE \in Nat \ {0} /\ n \in Nat
  BY SizesAssumption, UlpAssumption, PageAssumption
<1>2. PICK m \in Nat : f = m * u /\ m > 0 /\ (m - 1) * u < n
  BY FloatIsMultiple
<1>3. f \in Nat \ {0}
  <2> HIDE DEF u, f
  <2>1. QED
    BY <1>1, <1>2
<1>4. d \in Nat \ {0} /\ (d - 1) * PAGE < f
  BY <1>1, <1>3, CeilDivBounds DEF PagesOf
<1>5. PAGE % u = 0
  OBVIOUS
<1> HIDE DEF u, f, d
<1>6. v \in Int /\ PAGE = u * v
  BY <1>1, <1>5, DivMod
<1> HIDE DEF v
<1>7. k <= d - 1
  BY <1>4 DEF d
<1>8. k * PAGE < f
  <2>1. k * PAGE <= (d - 1) * PAGE
    <3>1. 0 <= ((d - 1) - k) * PAGE
      BY <1>1, <1>4, <1>7
    <3>2. ((d - 1) - k) * PAGE = (d - 1) * PAGE - k * PAGE
      BY <1>1, <1>4
    <3>3. (d - 1) * PAGE \in Int /\ k * PAGE \in Int
      BY <1>1, <1>4
    <3>4. QED
      BY <3>1, <3>2, <3>3
  <2>2. (d - 1) * PAGE \in Int /\ k * PAGE \in Int
    BY <1>1, <1>4
  <2>3. QED
    BY <1>3, <1>4, <2>1, <2>2
<1> DEFINE w == k * v
<1>9. w \in Int /\ k * PAGE = w * u
  BY <1>1, <1>6
<1> HIDE DEF w
<1>10. w <= m - 1
  <2>1. w >= m => 0 <= (w - m) * u
    BY <1>1, <1>2, <1>9
  <2>2. (w - m) * u = w * u - m * u /\ w * u \in Int /\ m * u \in Int
    BY <1>1, <1>2, <1>9
  <2>3. w * u < m * u
    BY <1>2, <1>8, <1>9
  <2>4. QED
    BY <1>2, <1>9, <2>1, <2>2, <2>3
<1>11. w * u <= (m - 1) * u
  <2>1. 0 <= ((m - 1) - w) * u
    BY <1>1, <1>2, <1>9, <1>10
  <2>2. /\ ((m - 1) - w) * u = (m - 1) * u - w * u
        /\ (m - 1) * u \in Int /\ w * u \in Int
    BY <1>1, <1>2, <1>9
  <2>3. QED
    BY <2>1, <2>2
<1>12. (m - 1) * u \in Int /\ w * u \in Int
  BY <1>1, <1>2, <1>9
<1>13. QED
  BY <1>1, <1>2, <1>9, <1>11, <1>12

-----------------------------------------------------------------------------
(* The inductive invariant: while something is mapped its pages are counted, what
   the kernel was told is among them, and a record that is not an earlier
   mapping's is where an unbroken run of what it was told ends. *)

Counted == bytes # 0 => pages = PagesOf(bytes)
Inside == \A a \in Advice : told[a] \subseteq 0 .. pages - 1
Unbroken ==
  bytes # 0 =>
    \A a \in Advice : first[a] < pages => first[a] .. record[a] - 1 \subseteq told[a]

\* Nothing has been told of a mapping that is not there.
Unmapped == bytes = 0 => told = Nothing

IInv == TypeOK /\ Counted /\ Inside /\ Unbroken /\ Unmapped

LEMMA InitInv == Init => IInv
BY DEF Init, IInv, TypeOK, Counted, Inside, Unbroken, Unmapped, Nothing

LEMMA MapInv ==
  ASSUME IInv, NEW n \in Sizes, Map(n)
  PROVE  IInv'
<1>1. n \in Nat \ {0} /\ PagesOf(n) \in Nat \ {0}
  BY SizesAssumption, PagesType
<1>2. QED
  BY <1>1 DEF IInv, TypeOK, Counted, Inside, Unbroken, Unmapped, Map, Nothing

LEMMA UnplugInv == ASSUME IInv, Unplug PROVE IInv'
BY DEF IInv, TypeOK, Counted, Inside, Unbroken, Unmapped, Unplug, Nothing

LEMMA ClearInv == ASSUME IInv, ClearTagRanges PROVE IInv'
BY DEF IInv, TypeOK, Counted, Inside, Unbroken, Unmapped, ClearTagRanges

\* The system call fails, or is not made: at most a record is reset.
LEMMA ResetInv ==
  ASSUME IInv, NEW a \in Advice, NEW force \in BOOLEAN,
         record' = [record EXCEPT ![a] = LastEnd(a, force)],
         first' = [first EXCEPT ![a] = IF force THEN 0 ELSE @],
         UNCHANGED <<told, bytes, pages>>
  PROVE  IInv'
<1>1. CASE force
  BY <1>1 DEF IInv, TypeOK, Counted, Inside, Unbroken, Unmapped, LastEnd
<1>2. CASE ~force
  <2>1. record' = record /\ first' = first
    BY <1>2 DEF LastEnd, IInv, TypeOK
  <2>2. QED
    BY <2>1 DEF IInv, TypeOK, Counted, Inside, Unbroken, Unmapped
<1>3. QED
  BY <1>1, <1>2

LEMMA ToldInv ==
  ASSUME IInv, NEW a \in Advice, NEW beg \in Int, NEW end \in Int,
         bytes # 0,
         record' = [record EXCEPT ![a] = EndOf(end)],
         first' = [first EXCEPT ![a] = BegOf(beg)],
         told' = [told EXCEPT ![a] = @ \cup (BegOf(beg) .. EndOf(end) - 1)],
         UNCHANGED <<bytes, pages>>
  PROVE  IInv'
<1>1. bytes \in Sizes /\ pages = PagesOf(bytes) /\ pages \in Nat \ {0}
  BY PagesType DEF IInv, TypeOK, Counted
<1>2. EndOf(end) \in 0 .. pages /\ BegOf(beg) \in 0 .. pages - 1
  BY <1>1, BegInRange, EndInRange
<1>3. TypeOK'
  <2>1. /\ record' \in [Advice -> Nat] /\ first' \in [Advice -> 0 .. pages]
        /\ told' \in [Advice -> SUBSET Nat]
    BY <1>1, <1>2 DEF IInv, TypeOK
  <2>2. \A b \in Advice : record'[b] # 0 => \E n \in Sizes : record'[b] <= PagesOf(n)
    BY <1>1, <1>2 DEF IInv, TypeOK
  <2>3. QED
    BY <2>1, <2>2 DEF IInv, TypeOK
<1>4. Inside'
  BY <1>1, <1>2 DEF IInv, TypeOK, Inside
<1>5. Unbroken'
  BY <1>1, <1>2 DEF IInv, TypeOK, Unbroken
<1>6. QED
  BY <1>3, <1>4, <1>5 DEF IInv, Counted, Unmapped

LEMMA AdviseInv ==
  ASSUME IInv, NEW a \in Advice, NEW beg \in Int, NEW end \in Int, NEW force \in BOOLEAN,
         Advise(a, beg, end, force)
  PROVE  IInv'
BY ResetInv, ToldInv DEF Advise

LEMMA NextInv == IInv /\ [Next]_vars => IInv'
<1> SUFFICES ASSUME IInv, [Next]_vars PROVE IInv'
  OBVIOUS
<1>1. ASSUME NEW a \in Advice, NEW force \in BOOLEAN, NEW off \in Offsets, NEW skip \in Skips,
             AdviseBefore(a, off, skip, force)
      PROVE  IInv'
  BY <1>1, AdviseInv, PageNoType, ArgsAssumption DEF AdviseBefore
<1>2. ASSUME NEW a \in Advice, NEW force \in BOOLEAN, NEW beg \in Pages, NEW end \in Pages,
             AdvisePages(a, beg, end, force)
      PROVE  IInv'
  BY <1>2, AdviseInv, ArgsAssumption DEF AdvisePages
<1>3. CASE UNCHANGED vars
  BY <1>3 DEF vars, IInv, TypeOK, Counted, Inside, Unbroken, Unmapped
<1>4. QED
  BY <1>1, <1>2, <1>3, MapInv, UnplugInv, ClearInv DEF Next

LEMMA Inductive == Spec => []IInv
BY InitInv, NextInv, PTL DEF Spec

-----------------------------------------------------------------------------
(* The types, and a record is a number of pages of this or an earlier mapping. *)
THEOREM TypeCorrect == Spec => []TypeOK
<1>1. IInv => TypeOK
  BY DEF IInv
<1>2. QED
  BY <1>1, Inductive, PTL

(* The kernel is never given a page that begins past the end of the mapping, if
   a page is a multiple of the precision that a float has for its size: for
   pages of 4096 bytes, up to 64 GiB.  (Beyond that a size may be rounded up by
   more than a page.) *)
THEOREM NothingOutside ==
  ASSUME \A n \in Sizes : PAGE % Ulp(n) = 0
  PROVE  Spec => []InsideMapping
<1>1. IInv => InsideMapping
  <2> SUFFICES ASSUME IInv, NEW a \in Advice, NEW k \in told[a] PROVE k * PAGE < bytes
    BY DEF InsideMapping
  <2>1. k \in Nat /\ k < pages
    BY DEF IInv, TypeOK, Inside
  <2>2. CASE bytes # 0
    <3>1. bytes \in Sizes /\ pages = PagesOf(bytes)
      BY <2>2 DEF IInv, TypeOK, Counted
    <3>2. QED
      BY <2>1, <3>1, PagesInside
  <2>3. CASE bytes = 0
    BY <2>3 DEF IInv, Unmapped, Nothing
  <2>4. QED
    BY <2>2, <2>3
<1>2. QED
  BY <1>1, Inductive, PTL

(* A call is skipped only if the kernel was told all the pages of this mapping
   that it asks for, as long as it begins no earlier than the call that left
   the record. *)
THEOREM SkippedTold == Spec => []SkippedIsTold
<1>1. IInv => SkippedIsTold
  <2> SUFFICES ASSUME IInv, bytes # 0, NEW a \in Advice, NEW off \in Offsets, NEW skip \in Skips,
                      Skipped(a, skip, PageNo(off), FALSE), first[a] <= BegOf(skip)
               PROVE  BegOf(skip) .. EndOf(PageNo(off)) - 1 \subseteq told[a]
    BY DEF SkippedIsTold
  <2>1. bytes \in Sizes /\ pages = PagesOf(bytes) /\ pages \in Nat \ {0}
    BY PagesType DEF IInv, TypeOK, Counted
  <2>2. skip \in Int /\ PageNo(off) \in Int
    BY ArgsAssumption, PageNoType
  <2>3. BegOf(skip) \in 0 .. pages - 1 /\ EndOf(PageNo(off)) \in 0 .. pages
    BY <2>1, <2>2, BegInRange, EndInRange
  <2>4. first[a] \in Nat /\ record[a] \in Nat
    BY DEF IInv, TypeOK
  <2>5. first[a] .. record[a] - 1 \subseteq told[a]
    BY <2>1, <2>3, <2>4 DEF IInv, Unbroken
  <2>6. \/ EndOf(PageNo(off)) <= record[a]
        \/ EndOf(PageNo(off)) <= BegOf(skip)
    BY <2>3, <2>4 DEF Skipped, LastEnd
  <2>7. QED
    BY <2>3, <2>4, <2>5, <2>6
<1>2. QED
  BY <1>1, Inductive, PTL

(* tagCold() and swapOut() leave the header, and the data from the address on, as
   hot as they are, for an address in any page but the first. *)
THEOREM HotLeft == Spec => HotIsLeft
<1> DEFINE A == \A a \in Advice, off \in Offsets, skip \in Skips, force \in BOOLEAN :
                  AdviseBefore(a, off, skip, force) /\ PageNo(off) > 0 /\ skip < pages
                    => Between(skip, off)
<1>1. IInv => A
  <2> SUFFICES ASSUME IInv, NEW a \in Advice, NEW off \in Offsets, NEW skip \in Skips,
                      NEW force \in BOOLEAN, AdviseBefore(a, off, skip, force),
                      PageNo(off) > 0, skip < pages
               PROVE  Between(skip, off)
    OBVIOUS
  <2>1. pages \in Nat /\ skip \in Nat /\ PageNo(off) \in Int /\ told \in [Advice -> SUBSET Nat]
    BY ArgsAssumption, PageNoType DEF IInv, TypeOK
  <2>2. BegOf(skip) = skip
    BY <2>1, BegBehindHeader
  <2>3. EndOf(PageNo(off)) <= PageNo(off) /\ EndOf(PageNo(off)) \in Nat
    BY <2>1, EndBeforePage, EndInRange
  <2>4. \/ told' = told
        \/ told' = [told EXCEPT ![a] = @ \cup (BegOf(skip) .. EndOf(PageNo(off)) - 1)]
    BY DEF AdviseBefore, Advise
  <2>5. QED
    BY <2>1, <2>2, <2>3, <2>4 DEF Between
<1>2. Spec => [][A]_vars
  <2> HIDE DEF A
  <2> QED
    BY <1>1, Inductive, PTL
<1>3. QED
  BY <1>2 DEF HotIsLeft
=============================================================================
