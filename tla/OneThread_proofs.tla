-------------------------- MODULE OneThread_proofs --------------------------
(***************************************************************************)
(* Proofs about the parts that one thread has to itself, for all values of *)
(* the constants: RingQue_t, the ring of Tracer_t and TscClock_t by        *)
(* themselves; then the parts of OneThread together: the types of each,    *)
(* that the objects over system calls agree with the kernel, that tables   *)
(* are aligned, and that a session of time-diff tells what it should.      *)
(***************************************************************************)
EXTENDS OneThread, NumberLemmas

-----------------------------------------------------------------------------
(* RingQue_t *)

(* What is inductive: the indices are apart by what is in the ring, modulo the
   width; and the ring has places for it, fewer than the width. *)
RingInv ==
  /\ RingTypeOK
  /\ capa < Word
  /\ tail = (head + Len(queue)) % Word
  /\ Contents

(* The place of an index that was wrapped around, and of one behind it. *)
LEMMA PlaceOfWrapped ==
  ASSUME RingParams, RingTypeOK, NEW x \in Int, NEW d \in Int
  PROVE  At((x % Word) + d) = At(x + d)
<1>1. Word \in Nat \ {0} /\ capa \in Nat \ {0} /\ Word % capa = 0
  BY DEF RingTypeOK, RingParams
<1>2. ((x % Word) + d) % capa = (x + d) % capa
  BY <1>1, WrapThenNode, Zenon
<1>3. QED
  BY <1>2 DEF At

LEMMA PlaceInRing ==
  ASSUME RingTypeOK, NEW x \in Int
  PROVE  At(x) \in 0 .. capa - 1
BY ModInRange DEF At, RingTypeOK

(* Two indices that are less than the capacity apart have places of their own. *)
LEMMA RingOwnPlaces ==
  ASSUME RingTypeOK, NEW x \in Int, NEW y \in Int, x < y, y < x + capa
  PROVE  At(x) # At(y)
<1>1. capa \in Nat \ {0} /\ -capa < y - x /\ y - x < capa
  BY DEF RingTypeOK
<1>2. ASSUME x % capa = y % capa PROVE FALSE
  <2>1. x = y
    BY <1>1, <1>2, SameNode
  <2>2. QED
    BY <2>1
<1>3. QED
  BY <1>2 DEF At

(* The place of the tail is that of the element that comes next. *)
LEMMA PlaceOfTail ==
  ASSUME RingParams, RingInv
  PROVE  /\ At(tail) = At(head + Len(queue))
         /\ At(tail) \in 0 .. capa - 1
<1>1. head + Len(queue) \in Int
  BY DEF RingInv, RingTypeOK
<1>2. At(((head + Len(queue)) % Word) + 0) = At((head + Len(queue)) + 0)
  BY <1>1, PlaceOfWrapped DEF RingInv
<1>3. At(tail) = At(head + Len(queue))
  BY <1>1, <1>2, ModInRange DEF RingInv, RingParams
<1>4. QED
  BY <1>1, <1>3, PlaceInRing DEF RingInv

(* size() counts what is in the ring: the difference of the indices is what they
   are apart, on whichever sides of the wrap-around they are. *)
LEMMA SizeIsLen ==
  ASSUME RingParams, RingInv
  PROVE  size = Len(queue) /\ Difference = Len(queue)
<1> DEFINE n == Len(queue)
<1>1. n \in 0 .. Word - 1 /\ head \in Int /\ Word \in Nat \ {0} /\ head + n \in Int
  BY DEF RingInv, RingTypeOK, RingParams
<1> DEFINE e == head + n
           d == -head
<1>2. e \in Int /\ d \in Int /\ e + d = n
  BY <1>1
<1>3. tail = e % Word /\ tail \in Int /\ tail - head = (e % Word) + d
  BY <1>1, <1>2, ModInRange DEF RingInv
<1> HIDE DEF n, e, d
<1>4. ((e % Word) + d) % Word = (e + d) % Word
  BY <1>1, <1>2, WrapThenWrap, Zenon
<1>5. n % Word = n
  BY <1>1, ModOfSmall
<1>6. QED
  BY <1>2, <1>3, <1>4, <1>5 DEF size, Difference, n
-----------------------------------------------------------------------------
LEMMA RingInitInv == ASSUME RingParams, RingInit PROVE RingInv
<1>1. capa \in Nat \ {0} /\ Word % capa = 0 /\ capa < Word
  BY DEF RingInit, Capas, RingParams
<1>2. RingTypeOK
  BY <1>1 DEF RingInit, RingTypeOK, RingParams
<1>3. tail = (head + Len(queue)) % Word
  BY ModOfSmall DEF RingInit, RingParams
<1>4. Contents
  BY DEF RingInit, Contents
<1>5. QED
  BY <1>1, <1>2, <1>3, <1>4 DEF RingInv

(* An element g that is written behind the others, and the index that follows it. *)
LEMMA Appended ==
  ASSUME RingParams, RingInv, size < capa,
         UNCHANGED <<capa, head>>,
         NEW g \in Goods \cup {Blank},
         base' = [base EXCEPT ![At(tail)] = g],
         tail' = (tail + 1) % Word,
         queue' = Append(queue, g)
  PROVE  RingInv'
<1> DEFINE n == Len(queue)
<1>1. n \in Nat /\ n < capa /\ capa' = capa /\ head' = head
  BY SizeIsLen DEF RingInv, RingTypeOK
<1>2. Len(queue') = n + 1 /\ queue' \in Seq(Goods \cup {Blank})
  BY DEF RingInv, RingTypeOK
<1>3. RingTypeOK'
  <2>1. tail' \in 0 .. Word - 1
    <3>1. tail + 1 \in Int /\ Word \in Nat \ {0}
      BY DEF RingInv, RingTypeOK, RingParams
    <3>2. QED
      BY <3>1, ModInRange
  <2>2. base' \in [0 .. capa' - 1 -> Goods \cup {Blank}]
    BY <1>1, PlaceOfTail DEF RingInv, RingTypeOK
  <2>3. QED
    BY <1>1, <1>2, <2>1, <2>2 DEF RingInv, RingTypeOK
<1>4. (((head + n) % Word) + 1) % Word = (head + n + 1) % Word
  <2>1. head + n \in Int /\ 1 \in Int /\ Word \in Nat \ {0}
    BY <1>1 DEF RingInv, RingTypeOK, RingParams
  <2>2. QED
    BY <2>1, WrapThenWrap, Zenon
<1>5. tail' = (head' + Len(queue')) % Word
  BY <1>1, <1>2, <1>4 DEF RingInv, RingTypeOK
<1>6. Contents'
  <2> SUFFICES ASSUME NEW i \in 1 .. n + 1 PROVE base'[At(head + i - 1)'] = queue'[i]
    BY <1>1, <1>2 DEF Contents
  <2>1. At(head + i - 1)' = At(head + i - 1)
    BY <1>1 DEF At
  <2>2. head \in Nat /\ At(head + i - 1) \in 0 .. capa - 1
    <3>1. head \in Nat /\ head + i - 1 \in Int
      BY <1>1 DEF RingInv, RingTypeOK
    <3>2. QED
      BY <3>1, PlaceInRing DEF RingInv
  <2>3. CASE i \in 1 .. n
    <3>1. At(head + i - 1) # At(tail)
      <4>1. /\ head + i - 1 \in Int /\ head + n \in Int
            /\ head + i - 1 < head + n /\ head + n < (head + i - 1) + capa
        BY <1>1, <2>2, <2>3 DEF RingInv, RingTypeOK
      <4>2. At(head + i - 1) # At(head + n)
        BY <4>1, RingOwnPlaces DEF RingInv
      <4>3. QED
        BY <4>2, PlaceOfTail
    <3>2. base'[At(head + i - 1)] = base[At(head + i - 1)]
      BY <2>2, <3>1 DEF RingInv, RingTypeOK
    <3>3. queue'[i] = queue[i]
      BY <2>3 DEF RingInv, RingTypeOK
    <3>4. QED
      BY <1>1, <2>1, <2>3, <3>2, <3>3 DEF RingInv, Contents
  <2>4. CASE i = n + 1
    <3>1. head + i - 1 = head + n
      BY <1>1, <2>2, <2>4
    <3>2. At(head + i - 1) = At(tail)
      BY <3>1, PlaceOfTail
    <3>3. base'[At(tail)] = g
      BY PlaceOfTail DEF RingInv, RingTypeOK
    <3>4. queue'[i] = g
      BY <2>4 DEF RingInv, RingTypeOK
    <3>5. QED
      BY <2>1, <3>2, <3>3, <3>4
  <2>5. QED
    BY <1>1, <2>3, <2>4
<1>7. QED
  BY <1>1, <1>3, <1>5, <1>6 DEF RingInv, RingParams

LEMMA EnqueInv ==
  ASSUME RingParams, RingInv, NEW g \in Goods, enque(g)
  PROVE  RingInv'
BY Appended DEF enque

(* The element that was there before counts as the one put in. *)
LEMMA EnqueIndexInv ==
  ASSUME RingParams, RingInv, enqueIndex
  PROVE  RingInv'
<1> DEFINE k == At(tail)
<1>1. k \in 0 .. capa - 1
  BY PlaceOfTail
<1>2. base[k] \in Goods \cup {Blank} /\ base' = [base EXCEPT ![k] = base[k]]
  BY <1>1 DEF RingInv, RingTypeOK, enqueIndex
<1>3. QED
  BY <1>2, Appended DEF enqueIndex

(* The place behind the last element is none of theirs. *)
LEMMA WriteTailInv ==
  ASSUME RingParams, RingInv, NEW g \in Goods, writeTail(g)
  PROVE  RingInv'
<1> DEFINE n == Len(queue)
<1>1. /\ n \in Nat /\ n < capa /\ head \in Nat /\ capa \in Nat
      /\ capa' = capa /\ head' = head /\ tail' = tail /\ queue' = queue
  BY SizeIsLen DEF RingInv, RingTypeOK, writeTail
<1>2. RingTypeOK'
  BY <1>1, PlaceOfTail DEF RingInv, RingTypeOK, writeTail
<1>3. Contents'
  <2> SUFFICES ASSUME NEW i \in 1 .. n PROVE base'[At(head + i - 1)'] = queue'[i]
    BY <1>1 DEF Contents
  <2>1. At(head + i - 1)' = At(head + i - 1)
    BY <1>1 DEF At
  <2>2. /\ head + i - 1 \in Int /\ head + n \in Int
        /\ head + i - 1 < head + n /\ head + n < (head + i - 1) + capa
    BY <1>1
  <2>3. At(head + i - 1) # At(tail) /\ At(head + i - 1) \in 0 .. capa - 1
    BY <2>2, PlaceOfTail, RingOwnPlaces, PlaceInRing DEF RingInv
  <2>4. base'[At(head + i - 1)] = base[At(head + i - 1)]
    BY <2>3 DEF writeTail, RingInv, RingTypeOK
  <2>5. QED
    BY <1>1, <2>1, <2>4 DEF RingInv, Contents
<1>4. QED
  BY <1>1, <1>2, <1>3 DEF RingInv

(* What is left of the element that was moved from is at a place of its own. *)
LEMMA DequeInv ==
  ASSUME RingParams, RingInv, deque
  PROVE  RingInv'
<1> DEFINE n == Len(queue)
<1>1. /\ n \in Nat \ {0} /\ n <= capa /\ head \in Nat /\ capa \in Nat
      /\ capa' = capa /\ tail' = tail /\ head' = (head + 1) % Word
  BY SizeIsLen DEF RingInv, RingTypeOK, deque
<1>2. /\ queue' \in Seq(Goods \cup {Blank}) /\ Len(queue') = n - 1
      /\ \A i \in 1 .. n - 1 : queue'[i] = queue[i + 1]
  BY <1>1 DEF RingInv, RingTypeOK, deque
<1>3. At(head) \in 0 .. capa - 1 /\ Word \in Nat \ {0} /\ head + 1 \in Int /\ n - 1 \in Int
  <2>1. head \in Int /\ head + 1 \in Int /\ n - 1 \in Int
    BY <1>1
  <2>2. QED
    BY <2>1, PlaceInRing DEF RingInv, RingParams
<1>4. RingTypeOK'
  <2>1. head' \in 0 .. Word - 1
    BY <1>1, <1>3, ModInRange
  <2>2. base' \in [0 .. capa' - 1 -> Goods \cup {Blank}]
    BY <1>1, <1>3 DEF RingInv, RingTypeOK, deque
  <2>3. QED
    BY <1>1, <1>2, <2>1, <2>2 DEF RingInv, RingTypeOK
<1>5. tail' = (head' + Len(queue')) % Word
  <2>1. (((head + 1) % Word) + (n - 1)) % Word = ((head + 1) + (n - 1)) % Word
    BY <1>3, WrapThenWrap, Zenon
  <2>2. (head + 1) + (n - 1) = head + n
    BY <1>1
  <2>3. QED
    BY <1>1, <1>2, <2>1, <2>2 DEF RingInv
<1>6. Contents'
  <2> SUFFICES ASSUME NEW i \in 1 .. n - 1 PROVE base'[At(head + i - 1)'] = queue'[i]
    BY <1>2 DEF Contents
  <2> DEFINE j == i + 1
             d == i - 1
  <2>1. /\ j \in 1 .. n /\ d \in Int /\ head' \in Int /\ head' + d = head' + i - 1
        /\ (head + 1) + d = head + j - 1
    BY <1>1, <1>4 DEF RingTypeOK
  <2>2. At(((head + 1) % Word) + d) = At((head + 1) + d)
    BY <1>3, <2>1, PlaceOfWrapped, Zenon DEF RingInv
  <2>3. At(head + i - 1)' = At(head + j - 1)
    BY <1>1, <2>1, <2>2 DEF At
  <2>4. /\ head + j - 1 \in Int /\ head \in Int
        /\ head < head + j - 1 /\ head + j - 1 < head + capa
    BY <1>1
  <2>5. At(head + j - 1) # At(head) /\ At(head + j - 1) \in 0 .. capa - 1
    BY <2>4, RingOwnPlaces, PlaceInRing DEF RingInv
  <2>6. base'[At(head + j - 1)] = base[At(head + j - 1)]
    BY <1>3, <2>5 DEF deque, RingInv, RingTypeOK
  <2>7. base[At(head + j - 1)] = queue[j]
    BY <2>1 DEF RingInv, Contents
  <2>8. QED
    BY <1>2, <2>3, <2>6, <2>7
<1>7. QED
  BY <1>1, <1>4, <1>5, <1>6 DEF RingInv

LEMMA RtailInv ==
  ASSUME RingParams, RingInv, rtail
  PROVE  RingInv'
<1> DEFINE n == Len(queue)
<1>1. /\ n \in Nat \ {0} /\ n <= capa /\ head \in Nat /\ capa \in Nat
      /\ capa' = capa /\ head' = head /\ base' = base /\ tail' = (tail - 1) % Word
  BY SizeIsLen DEF RingInv, RingTypeOK, rtail
<1>2. /\ queue' \in Seq(Goods \cup {Blank}) /\ Len(queue') = n - 1
      /\ \A i \in 1 .. n - 1 : queue'[i] = queue[i]
  <2>1. queue' = SubSeq(queue, 1, n - 1) /\ queue \in Seq(Goods \cup {Blank})
    BY DEF RingInv, RingTypeOK, rtail
  <2>2. \A i \in 1 .. n - 1 : queue[i] \in Goods \cup {Blank}
    BY <1>1, <2>1
  <2>3. n - 1 \in Nat /\ queue' = [i \in 1 .. n - 1 |-> queue[i]]
    BY <1>1, <2>1
  <2>4. QED
    BY <2>2, <2>3
<1>3. Word \in Nat \ {0} /\ head + n \in Int /\ -1 \in Int
  BY <1>1 DEF RingParams
<1>4. tail' = (head' + Len(queue')) % Word
  <2>1. (((head + n) % Word) + (-1)) % Word = ((head + n) + (-1)) % Word
    BY <1>3, WrapThenWrap, Zenon
  <2>2. tail - 1 = ((head + n) % Word) + (-1)
    BY <1>3, ModInRange DEF RingInv
  <2>3. (head + n) + (-1) = head + (n - 1)
    BY <1>1
  <2>4. QED
    BY <1>1, <1>2, <2>1, <2>2, <2>3
<1>5. RingTypeOK'
  <2>1. tail' \in 0 .. Word - 1
    <3>1. tail - 1 \in Int
      BY DEF RingInv, RingTypeOK
    <3>2. QED
      BY <1>1, <1>3, <3>1, ModInRange
  <2>2. QED
    BY <1>1, <1>2, <2>1 DEF RingInv, RingTypeOK
<1>6. Contents'
  <2> SUFFICES ASSUME NEW i \in 1 .. n - 1 PROVE base'[At(head + i - 1)'] = queue'[i]
    BY <1>2 DEF Contents
  <2>1. At(head + i - 1)' = At(head + i - 1)
    BY <1>1 DEF At
  <2>2. i \in 1 .. n /\ base[At(head + i - 1)] = queue[i]
    BY <1>1 DEF RingInv, Contents
  <2>3. QED
    BY <1>1, <1>2, <2>1, <2>2
<1>7. QED
  BY <1>1, <1>4, <1>5, <1>6 DEF RingInv

LEMMA RingClearInv ==
  ASSUME RingParams, RingInv, clear
  PROVE  RingInv'
<1>1. capa' = capa /\ base' = base /\ head' = 0 /\ tail' = 0 /\ queue' = <<>>
  BY DEF clear
<1>2. RingTypeOK'
  BY <1>1 DEF RingInv, RingTypeOK, RingParams
<1>3. tail' = (head' + Len(queue')) % Word
  BY <1>1, ModOfSmall DEF RingParams
<1>4. Contents'
  BY <1>1 DEF Contents
<1>5. QED
  BY <1>1, <1>2, <1>3, <1>4 DEF RingInv

LEMMA RingNextInv == ASSUME RingParams, RingInv, [RingNext]_ring_vars PROVE RingInv'
<1>1. ASSUME NEW g \in Goods, enque(g) PROVE RingInv'
  BY <1>1, EnqueInv
<1>2. ASSUME NEW g \in Goods, writeTail(g) PROVE RingInv'
  BY <1>2, WriteTailInv
<1>3. CASE enqueIndex
  BY <1>3, EnqueIndexInv
<1>4. CASE deque
  BY <1>4, DequeInv
<1>5. CASE rtail
  BY <1>5, RtailInv
<1>6. CASE clear
  BY <1>6, RingClearInv
<1>7. CASE UNCHANGED ring_vars
  BY <1>7 DEF ring_vars, RingInv, RingTypeOK, Contents, At
<1>8. QED
  BY <1>1, <1>2, <1>3, <1>4, <1>5, <1>6, <1>7 DEF RingNext

-----------------------------------------------------------------------------
LEMMA RingInductive == ASSUME RingParams PROVE RingSpec => []RingInv
<1>1. RingInit => RingInv
  BY RingInitInv
<1>2. RingInv /\ [RingNext]_ring_vars => RingInv'
  BY RingNextInv
<1>3. QED
  BY <1>1, <1>2, PTL DEF RingSpec

(* The indices stay within SizeType, and the elements within their number. *)
THEOREM RingTypes == ASSUME RingParams PROVE RingSpec => []RingTypeOK
<1>1. RingInv => RingTypeOK
  BY DEF RingInv
<1>2. QED
  BY <1>1, RingInductive, PTL

(* The elements from head() on are those that were put in and not taken out, in
   order, however often indices and places have wrapped around. *)
THEOREM RingContents == ASSUME RingParams PROVE RingSpec => []Contents
<1>1. RingInv => Contents
  BY DEF RingInv
<1>2. QED
  BY <1>1, RingInductive, PTL

(* size() counts the elements and full() tells if there is no room for one more,
   for every width of SizeType and every capacity that divides it. *)
THEOREM RingAnswers == ASSUME RingParams PROVE RingSpec => []AnswersTell
<1>1. RingInv => AnswersTell
  <2>1. ASSUME RingInv PROVE Difference = Len(queue) /\ Len(queue) \in 0 .. capa /\ capa \in Nat
    BY <2>1, SizeIsLen DEF RingInv, RingTypeOK
  <2>2. QED
    BY <2>1, SizeIsLen DEF AnswersTell, size, full
<1>2. QED
  BY <1>1, RingInductive, PTL

-----------------------------------------------------------------------------
(* Tracer_t *)

(* The calls that what is shown is about. *)
Subject == IF cut = <<>> THEN open ELSE cut

(* The names at the indices shown are the last of those calls, place by place. *)
Matches ==
  /\ top - btm <= Len(Subject)
  /\ \A k \in btm + 1 .. top : ring[k % Capa] = Subject[Len(Subject) - (top - k)]

StackInv == StackTypeOK /\ Matches

LEMMA MatchesIsSuffix == ASSUME StackParams, StackInv PROVE ShownIsOpen
<1> DEFINE n == top - btm
           f == [i \in 1 .. n |-> ring[(btm + i) % Capa]]
<1>1. /\ top \in Nat /\ btm \in Nat /\ btm <= top /\ n \in Nat
      /\ Subject \in Seq(Name) /\ n <= Len(Subject)
  BY DEF StackInv, StackTypeOK, StackParams, Matches, Subject
<1>2. \A i \in 1 .. n : f[i] = Subject[Len(Subject) - n + i]
  <2> SUFFICES ASSUME NEW i \in 1 .. n PROVE ring[(btm + i) % Capa] = Subject[Len(Subject) - n + i]
    OBVIOUS
  <2>1. btm + i \in btm + 1 .. top /\ Len(Subject) \in Nat
        /\ Len(Subject) - (top - (btm + i)) = Len(Subject) - n + i
    BY <1>1
  <2>2. QED
    BY <2>1 DEF StackInv, Matches
<1>3. Shown = [i \in 1 .. n |-> f[i]]
  BY DEF Shown
<1> HIDE DEF f, n
<1>4. IsSuffix(Shown, Subject)
  BY <1>1, <1>2, <1>3, SuffixByElement
<1>5. QED
  BY <1>4 DEF ShownIsOpen, Subject

(* The ring never shows so many calls that a new one would take a place of theirs. *)
LEMMA StackOwnPlaces ==
  ASSUME StackParams, NEW x \in Int, NEW y \in Int, x < y, y < x + Capa
  PROVE  x % Capa # y % Capa
<1>1. Capa \in Nat \ {0} /\ -Capa < y - x /\ y - x < Capa
  BY DEF StackParams
<1>2. ASSUME x % Capa = y % Capa PROVE FALSE
  <2>1. x = y
    BY <1>1, <1>2, SameNode
  <2>2. QED
    BY <2>1
<1>3. QED
  BY <1>2

LEMMA EnterInv ==
  ASSUME StackParams, StackInv, NEW f \in Name, Enter(f)
  PROVE  StackInv'
<1> DEFINE n == Len(open)
           k == (top + 1) % Capa
<1>1. /\ top \in Nat /\ btm \in Nat /\ btm <= top /\ top - btm < Capa
      /\ Capa \in Nat \ {0, 1} /\ MaxTop \in Nat /\ top < MaxTop
      /\ n \in Nat /\ n < MaxDepth /\ MaxDepth \in Nat
      /\ ring \in [0 .. Capa - 1 -> Name \cup {NoName}] /\ cut = <<>> /\ open \in Seq(Name)
  BY DEF StackInv, StackTypeOK, StackParams, Enter, Running
<1>2. k \in 0 .. Capa - 1
  <2>1. Capa \in Nat \ {0} /\ top + 1 \in Int
    BY <1>1
  <2>2. QED
    BY <2>1, ModInRange
<1>3. /\ top' = top + 1 /\ btm' \in Nat /\ btm <= btm' /\ top' - btm' < Capa /\ btm' <= top'
      /\ open' = Append(open, f) /\ cut' = cut /\ whole' = whole
      /\ ring' = [ring EXCEPT ![k] = f]
  BY <1>1 DEF Enter, Greater
<1>4. open' \in Seq(Name) /\ Len(open') = n + 1 /\ open'[n + 1] = f
      /\ \A i \in 1 .. n : open'[i] = open[i]
  BY <1>1, <1>3
<1>5. StackTypeOK'
  <2>1. ring' \in [0 .. Capa - 1 -> Name \cup {NoName}]
    BY <1>1, <1>2, <1>3
  <2>2. top' \in 0 .. MaxTop /\ btm' \in 0 .. top' /\ Len(open') <= MaxDepth
    BY <1>1, <1>3, <1>4
  <2>3. cut' \in Seq(Name) /\ whole' \in BOOLEAN
    BY <1>3 DEF StackInv, StackTypeOK
  <2>4. QED
    BY <1>3, <1>4, <2>1, <2>2, <2>3 DEF StackTypeOK
<1>6. Matches'
  <2>1. Subject = open /\ Subject' = open'
    BY <1>1, <1>3 DEF Subject
  <2>2. top' - btm' <= n + 1
    BY <1>1, <1>3, <2>1 DEF StackInv, Matches
  <2> SUFFICES ASSUME NEW i \in btm' + 1 .. top'
               PROVE  ring'[i % Capa] = open'[(n + 1) - (top' - i)]
    BY <1>4, <2>1, <2>2 DEF Matches
  <2>3. CASE i = top + 1
    <3>1. ring'[i % Capa] = f
      BY <1>1, <1>2, <1>3, <2>3
    <3>2. (n + 1) - (top' - i) = n + 1
      BY <1>1, <1>3, <2>3
    <3>3. QED
      BY <1>4, <3>1, <3>2
  <2>4. CASE i <= top
    <3>1. /\ i \in Int /\ i < top + 1 /\ top + 1 < i + Capa /\ top + 1 \in Int
          /\ i \in btm + 1 .. top /\ Capa \in Nat \ {0}
      <4>1. top' = top + 1 /\ btm' = Greater(btm, top + 1 - (Capa - 1))
        BY DEF Enter
      <4>2. btm' >= btm /\ btm' > top - (Capa - 1) /\ btm' \in Int
        BY <1>1, <4>1 DEF Greater
      <4>3. i \in Int /\ i > btm'
        BY <4>1, <4>2, <1>1
      <4>4. QED
        BY <1>1, <2>4, <4>2, <4>3
    <3>2. i % Capa # k /\ i % Capa \in 0 .. Capa - 1
      BY <1>1, <3>1, StackOwnPlaces, ModInRange
    <3>3. ring'[i % Capa] = ring[i % Capa]
      BY <1>1, <1>3, <3>2
    <3>4. ring[i % Capa] = open[n - (top - i)] /\ top - btm <= n
      BY <2>1, <3>1 DEF StackInv, Matches
    <3>5. n - (top - i) \in 1 .. n /\ (n + 1) - (top' - i) = n - (top - i)
      BY <1>1, <1>3, <3>1, <3>4
    <3>6. QED
      BY <1>4, <3>3, <3>4, <3>5
  <2>5. i = top + 1 \/ i <= top
    <3>1. top' = top + 1 /\ btm' \in Nat
      BY <1>3
    <3>2. i \in Int /\ i <= top + 1
      BY <1>1, <3>1
    <3>3. QED
      BY <1>1, <3>2
  <2>6. QED
    BY <2>3, <2>4, <2>5
<1>7. QED
  BY <1>5, <1>6 DEF StackInv

LEMMA ExitInv ==
  ASSUME StackParams, StackInv, Exit
  PROVE  StackInv'
<1> DEFINE n == Len(open)
<1>1. /\ top \in Nat /\ btm \in Nat /\ btm <= top /\ top - btm < Capa /\ top \in 0 .. MaxTop
      /\ Capa \in Nat \ {0, 1} /\ MaxTop \in Nat
      /\ open \in Seq(Name) /\ open # <<>> /\ n \in Nat \ {0} /\ n <= MaxDepth /\ MaxDepth \in Nat
      /\ ring' = ring /\ cut = <<>> /\ cut' = cut /\ whole' = whole
  BY DEF StackInv, StackTypeOK, StackParams, Exit, Running
<1>2. /\ open' \in Seq(Name) /\ Len(open') = n - 1
      /\ \A i \in 1 .. n - 1 : open'[i] = open[i]
  <2>1. open' = SubSeq(open, 1, n - 1)
    BY DEF Exit, Front
  <2>2. n - 1 \in Nat /\ n - 1 \in 1 - 1 .. Len(open) /\ 1 \in 1 .. Len(open) + 1
    BY <1>1
  <2>3. open' = [i \in 1 .. n - 1 |-> open[i]]
    BY <1>1, <2>1, <2>2
  <2>4. \A i \in 1 .. n - 1 : open[i] \in Name
    BY <1>1, ElementOfSeq
  <2>5. QED
    BY <2>2, <2>3, <2>4, IsASeq
<1>3. Subject = open /\ Subject' = open'
  BY <1>1 DEF Subject
<1>4. \/ top' = top /\ btm' = btm
      \/ top > 0 /\ top' = top - 1 /\ btm' = btm /\ btm < top
      \/ top > 0 /\ top' = top - 1 /\ btm' = top - 1 /\ btm = top
  BY <1>1 DEF Exit, Lesser
(* If a call is shown then it is the innermost, which is on top. *)
<1>5. ASSUME btm < top
      PROVE  top' = top - 1 /\ btm' = btm
  <2>1. top \in btm + 1 .. top /\ n - (top - top) = n
    BY <1>1, <1>5
  <2>2. ring[top % Capa] = open[n]
    BY <1>3, <2>1 DEF StackInv, Matches
  <2>3. ~(top <= 0 \/ ring[top % Capa] # Last(open))
    BY <1>1, <1>5, <2>2 DEF Last
  <2>4. top' = top - 1 /\ btm' = Lesser(btm, top - 1)
    BY <2>3 DEF Exit
  <2>5. QED
    BY <1>1, <1>5, <2>4 DEF Lesser
<1>6. StackTypeOK'
  <2>1. top' \in 0 .. MaxTop /\ btm' \in 0 .. top' /\ top' - btm' < Capa
    BY <1>1, <1>4
  <2>2. open' \in Seq(Name) /\ Len(open') <= MaxDepth
    BY <1>1, <1>2
  <2>3. cut' \in Seq(Name) /\ whole' \in BOOLEAN /\ ring' \in [0 .. Capa - 1 -> Name \cup {NoName}]
    BY <1>1 DEF StackInv, StackTypeOK
  <2>4. QED
    BY <2>1, <2>2, <2>3 DEF StackTypeOK
<1>7. Matches'
  <2>1. CASE btm < top
    <3>1. top - btm <= n /\ top' = top - 1 /\ btm' = btm
      BY <1>3, <1>5, <2>1 DEF StackInv, Matches
    <3>2. top' - btm' <= Len(open')
      BY <1>1, <1>2, <3>1
    <3> SUFFICES ASSUME NEW i \in btm' + 1 .. top'
                 PROVE  ring'[i % Capa] = open'[(n - 1) - (top' - i)]
      BY <1>2, <1>3, <3>2 DEF Matches
    <3>3. /\ i \in btm + 1 .. top /\ (n - 1) - (top' - i) = n - (top - i)
          /\ n - (top - i) \in 1 .. n - 1
      BY <1>1, <3>1
    <3>4. ring[i % Capa] = open[n - (top - i)]
      BY <1>3, <3>3 DEF StackInv, Matches
    <3>5. QED
      BY <1>1, <1>2, <3>3, <3>4
  <2>2. CASE btm = top
    <3>1. PICK c \in Nat : top' = c /\ btm' = c
      BY <1>1, <1>4, <2>2
    <3>2. c + 1 .. c = {}
      OBVIOUS
    <3>3. top' - btm' <= Len(open')
      BY <1>1, <1>2, <3>1
    <3>4. QED
      BY <1>3, <3>1, <3>2, <3>3 DEF Matches
  <2>3. QED
    BY <1>1, <2>1, <2>2
<1>8. QED
  BY <1>6, <1>7 DEF StackInv

LEMMA StackClearInv == ASSUME StackParams, StackInv, Clear PROVE StackInv'
<1>1. top' = 0 /\ btm' = 0 /\ cut' = <<>> /\ ring' = ring /\ open' = open /\ whole' \in BOOLEAN
  BY DEF Clear, StackInv, StackTypeOK
<1>2. StackTypeOK'
  BY <1>1 DEF StackInv, StackTypeOK, StackParams
<1>3. Matches'
  <2>1. Subject' = open
    BY <1>1 DEF Subject
  <2>2. Len(open) \in Nat
    BY DEF StackInv, StackTypeOK
  <2>3. QED
    BY <1>1, <2>1, <2>2 DEF Matches
<1>4. QED
  BY <1>2, <1>3 DEF StackInv

(* A jump keeps what is shown about the calls that were open before it. *)
LEMMA JumpInv ==
  ASSUME StackParams, StackInv, NEW n \in 1 .. MaxDepth, Jump(n)
  PROVE  StackInv'
<1>1. /\ cut = <<>> /\ open \in Seq(Name) /\ n \in 1 .. Len(open) /\ cut' = open
      /\ Len(open) \in Nat /\ open' = SubSeq(open, 1, Len(open) - n)
      /\ Len(open) <= MaxDepth /\ MaxDepth \in Nat
      /\ ring' = ring /\ top' = top /\ btm' = btm /\ whole' = whole
  BY DEF StackInv, StackTypeOK, Jump, Running, StackParams
<1>2. open # <<>>
  BY <1>1
<1>3. open' \in Seq(Name) /\ Len(open') = Len(open) - n
  <2>1. Len(open) - n \in 1 - 1 .. Len(open)
    BY <1>1
  <2>2. QED
    BY <1>1, <2>1, SubSeqProperties
<1>4. StackTypeOK'
  BY <1>1, <1>3 DEF StackInv, StackTypeOK
<1>5. Subject' = Subject
  BY <1>1, <1>2 DEF Subject
<1>6. QED
  BY <1>1, <1>4, <1>5 DEF StackInv, Matches

LEMMA StackNextInv == ASSUME StackParams, StackInv, [StackNext]_stack_vars PROVE StackInv'
<1>1. CASE UNCHANGED stack_vars
  BY <1>1 DEF stack_vars, StackInv, StackTypeOK, Matches, Subject
<1>2. QED
  BY <1>1, EnterInv, ExitInv, StackClearInv, JumpInv DEF StackNext

LEMMA StackInitInv == ASSUME StackParams, StackInit PROVE StackInv
BY DEF StackInit, StackInv, StackTypeOK, Matches, Subject, StackParams

-----------------------------------------------------------------------------
LEMMA StackInductive == ASSUME StackParams PROVE StackSpec => []StackInv
<1>1. StackInit => StackInv
  BY StackInitInv
<1>2. StackInv /\ [StackNext]_stack_vars => StackInv'
  BY StackNextInv
<1>3. QED
  BY <1>1, <1>2, PTL DEF StackSpec

(* The part of the ring that is printed never laps itself. *)
THEOREM StackTypes == ASSUME StackParams PROVE StackSpec => []StackTypeOK
<1>1. StackInv => StackTypeOK
  BY DEF StackInv
<1>2. QED
  BY <1>1, StackInductive, PTL

(* What is printed is the innermost of the calls that are open, or were at the
   crash, without a gap or a stale name, however far the ring was overrun. *)
THEOREM StackShown == ASSUME StackParams PROVE StackSpec => []ShownIsOpen
<1>1. StackInv => ShownIsOpen
  BY MatchesIsSuffix
<1>2. QED
  BY <1>1, StackInductive, PTL

-----------------------------------------------------------------------------
(* TscClock_t *)

(* Readings of the counter that are a unit apart are of different times, and
   later ones are not of earlier times. *)
LEMMA UnitsOrdered ==
  ASSUME NEW F \in Nat \ {0}, NEW x \in Int, NEW y \in Int
  PROVE  /\ x <= y => x \div F <= y \div F
         /\ x + F <= y => x \div F < y \div F
<1> DEFINE qx == x \div F
           qy == y \div F
           rx == x % F
           ry == y % F
<1>1. qx \in Int /\ x = F * qx + rx /\ qy \in Int /\ y = F * qy + ry
  BY DivMod
<1>2. rx \in 0 .. F - 1 /\ ry \in 0 .. F - 1
  BY ModInRange
<1> HIDE DEF qx, qy, rx, ry
<1> DEFINE d == qy - qx
<1>3. d \in Int /\ F * d = F * qy - F * qx /\ F * qx \in Int /\ F * qy \in Int
  BY <1>1
<1> HIDE DEF d
<1>4. d <= -1 => F * d <= -F
  <2>1. d <= -1 => F * (-1 - d) >= 0
    BY <1>3
  <2>2. F * (-1 - d) = -F - F * d
    BY <1>3
  <2>3. F * d \in Int
    BY <1>3
  <2>4. QED
    BY <1>3, <2>1, <2>2, <2>3
<1>5. d = 0 => F * d = 0
  OBVIOUS
<1>6. x <= y => d >= 0
  BY <1>1, <1>2, <1>3, <1>4
<1>7. x + F <= y => d >= 1
  BY <1>1, <1>2, <1>3, <1>4, <1>5
<1>8. QED
  BY <1>1, <1>6, <1>7 DEF d, qx, qy

-----------------------------------------------------------------------------
(* The anchor a was read while the counter went from f to t: so was the moment n
   whose time it has, which is off its cycles by half of the jitter at most. *)
Read(a, f, t) ==
  /\ a \in Anchor
  /\ a.jitter \in 1 .. MaxLag
  /\ a.cycles \in f .. t
  /\ \E n \in f .. t : /\ a.tstamp = n \div FREQ
                       /\ 2 * (n - a.cycles) \in -a.jitter .. a.jitter + 1

LEMMA TakenIsRead ==
  ASSUME ClockParams, NEW beg \in Nat, NEW lag \in 1 .. MaxLag, NEW noon \in beg .. beg + lag
  PROVE  Read(Taken(beg, noon, beg + lag), beg, beg + lag)
<1> DEFINE c == (beg + (beg + lag)) \div 2
           s == noon \div FREQ
           a == Taken(beg, noon, beg + lag)
<1>1. c \in beg .. beg + lag /\ 2 * c \in {2 * beg + lag - 1, 2 * beg + lag}
  BY DEF ClockParams
<1>2. s \in Nat
  <2>1. FREQ \in Nat \ {0} /\ noon \in Int /\ 0 \in Int /\ 0 <= noon
    BY DEF ClockParams
  <2>2. 0 \div FREQ = 0
    BY <2>1
  <2>3. s \in Int /\ 0 <= s
    BY <2>1, <2>2, UnitsOrdered, DivMod
  <2>4. QED
    BY <2>3
<1>3. (beg + lag) - beg = lag
  BY DEF ClockParams
<1> HIDE DEF c, s
<1>4. a = [tstamp |-> s, cycles |-> c, jitter |-> lag]
  BY <1>3 DEF Taken, c, s
<1> HIDE DEF a
<1>5. a \in Anchor /\ a.jitter \in 1 .. MaxLag /\ a.cycles \in beg .. beg + lag
  BY <1>1, <1>2, <1>4 DEF Anchor, ClockParams
<1>6. 2 * (noon - c) \in -lag .. lag + 1
  BY <1>1 DEF ClockParams
<1>7. QED
  BY <1>4, <1>5, <1>6 DEF Read, a, s

LEMMA ReadWider ==
  ASSUME NEW a, NEW f \in Nat, NEW t \in Nat, NEW g \in Nat, NEW u \in Nat,
         g <= f, t <= u, Read(a, f, t)
  PROVE  Read(a, g, u)
BY DEF Read, Anchor

(* Of two readings that are further apart than the first calibration sleeps the
   later one has a later time. *)
LEMMA ReadApart ==
  ASSUME ClockParams, NEW a, NEW b, NEW t \in Nat, Read(a, 0, t), Read(b, 0, t),
         b.cycles - a.cycles >= Sleep
  PROVE  a.tstamp < b.tstamp
<1>1. PICK n \in 0 .. t : /\ a.tstamp = n \div FREQ
                          /\ 2 * (n - a.cycles) \in -a.jitter .. a.jitter + 1
  BY DEF Read
<1>2. PICK m \in 0 .. t : /\ b.tstamp = m \div FREQ
                          /\ 2 * (m - b.cycles) \in -b.jitter .. b.jitter + 1
  BY DEF Read
<1>3. /\ a.jitter \in 1 .. MaxLag /\ b.jitter \in 1 .. MaxLag
      /\ a.cycles \in Nat /\ b.cycles \in Nat
      /\ {FREQ, Sleep, MaxLag} \subseteq Nat /\ FREQ # 0 /\ Sleep > MaxLag + FREQ
  BY DEF Read, Anchor, ClockParams
<1>4. n + FREQ <= m
  BY <1>1, <1>2, <1>3
<1>5. n \div FREQ < m \div FREQ
  BY <1>3, <1>4, UnitsOrdered
<1>6. QED
  BY <1>1, <1>2, <1>5

-----------------------------------------------------------------------------
(* The inductive invariant. *)
ClockTypes ==
  /\ tsc \in Nat /\ left \in 0 .. Tries
  /\ anc0 \in Anchor /\ anc1 \in Anchor /\ best \in Anchor
  /\ stage \in {"new", "first", "second", "ready", "again"}

\* The best of the tries since the counter was f, if there was one.
Best(tries, f) ==
  /\ left = tries => best = NoAnchor
  /\ left < tries => Read(best, f, tsc)

FirstOK == Best(Tries, 0)
SecondOK ==
  \E t \in Nat : t + Sleep <= tsc /\ Read(anc0, 0, t) /\ Best(Tries, t + Sleep)
Calibrated ==
  /\ Read(anc0, 0, tsc) /\ Read(anc1, 0, tsc)
  /\ anc1.cycles - anc0.cycles >= Sleep
  /\ ghz = [cycles |-> anc1.cycles - anc0.cycles, nanoss |-> anc1.tstamp - anc0.tstamp]
AgainOK ==
  /\ left \in {0, 1}
  /\ \E t \in Nat : t <= tsc /\ Read(anc1, 0, t) /\ Best(1, t)

ClockInv ==
  /\ ClockTypes
  /\ stage = "first" => FirstOK
  /\ stage = "second" => SecondOK
  /\ Usable => Calibrated
  /\ stage = "again" => AgainOK

LEMMA NoAnchorType == ASSUME ClockParams PROVE NoAnchor \in Anchor
BY DEF ClockParams, NoAnchor, Anchor, INT64_MAX

(* A step that calibration does not look at: time goes by. *)
LEMMA TimePasses ==
  ASSUME ClockParams, ClockTypes, Calibrated, tsc' \in Nat, tsc <= tsc',
         UNCHANGED <<anc0, anc1, ghz>>
  PROVE  Calibrated'
<1>1. Read(anc0, 0, tsc') /\ Read(anc1, 0, tsc')
  BY ReadWider DEF ClockTypes, Calibrated
<1>2. Read(anc0, 0, tsc)' = Read(anc0, 0, tsc') /\ Read(anc1, 0, tsc)' = Read(anc1, 0, tsc')
  BY DEF Read
<1>3. QED
  BY <1>1, <1>2 DEF Calibrated

(* A try keeps the better of two readings, and the first in any case. *)
LEMMA TryBest ==
  ASSUME ClockParams, ClockTypes, Try, NEW tries \in Nat, left <= tries, NEW f \in Nat, f <= tsc,
         Best(tries, f)
  PROVE  /\ Read(best', f, tsc')
         /\ best' \in Anchor /\ tsc' \in Nat /\ tsc <= tsc'
         /\ left' = left - 1 /\ left' \in 0 .. Tries /\ left' < tries
<1>1. PICK beg \in tsc + 1 .. tsc + MaxGap, lag \in 1 .. MaxLag :
        /\ beg + lag <= MaxTsc
        /\ \E noon \in beg .. beg + lag :
             best' = IF lag < best.jitter THEN Taken(beg, noon, beg + lag) ELSE best
        /\ tsc' = beg + lag
  BY DEF Try
<1>2. PICK noon \in beg .. beg + lag :
        best' = IF lag < best.jitter THEN Taken(beg, noon, beg + lag) ELSE best
  BY <1>1
<1>3. /\ beg \in Nat /\ lag \in Nat /\ tsc' \in Nat /\ f <= beg /\ tsc <= tsc'
      /\ beg + lag = tsc' /\ beg + lag \in Nat
  BY <1>1 DEF ClockParams, ClockTypes
<1> DEFINE taken == Taken(beg, noon, beg + lag)
<1>4. left' = left - 1 /\ left' \in 0 .. Tries /\ left' < tries
  BY DEF Try, ClockTypes, ClockParams
<1>5. taken \in Anchor /\ Read(taken, beg, beg + lag)
  BY <1>3, TakenIsRead DEF Read
<1> HIDE DEF taken
<1>6. CASE lag < best.jitter
  <2>1. best' = taken
    BY <1>2, <1>6 DEF taken
  <2>2. Read(best', f, tsc')
    BY <1>3, <1>5, <2>1, ReadWider
  <2>3. QED
    BY <1>3, <1>4, <2>2 DEF Read
<1>7. CASE ~(lag < best.jitter)
  <2>1. best # NoAnchor
    BY <1>1, <1>7 DEF NoAnchor, INT64_MAX, ClockParams, ClockTypes
  <2>2. left < tries /\ Read(best, f, tsc)
    BY <2>1 DEF Best, ClockTypes
  <2>3. Read(best', f, tsc')
    BY <1>2, <1>3, <1>7, <2>2, ReadWider DEF ClockTypes
  <2>4. QED
    BY <1>3, <1>4, <2>3 DEF Read
<1>8. QED
  BY <1>6, <1>7

LEMMA TryInv == ASSUME ClockParams, ClockInv, Try PROVE ClockInv'
<1>1. UNCHANGED <<anc0, anc1, ghz, stage>> /\ left \in 1 .. Tries /\ ClockTypes
  BY DEF Try, ClockInv, ClockTypes
<1>2. best' \in Anchor /\ tsc' \in Nat /\ tsc <= tsc' /\ left' \in 0 .. Tries
  <2>1. PICK beg \in tsc + 1 .. tsc + MaxGap, lag \in 1 .. MaxLag :
          /\ \E noon \in beg .. beg + lag :
               best' = IF lag < best.jitter THEN Taken(beg, noon, beg + lag) ELSE best
          /\ tsc' = beg + lag
    BY DEF Try
  <2>2. PICK noon \in beg .. beg + lag :
          best' = IF lag < best.jitter THEN Taken(beg, noon, beg + lag) ELSE best
    BY <2>1
  <2>3. beg \in Nat /\ lag \in Nat
    BY <1>1, <2>1 DEF ClockParams, ClockTypes
  <2>4. Taken(beg, noon, beg + lag) \in Anchor
    BY <2>3, TakenIsRead DEF Read
  <2>5. left' \in 0 .. Tries
    BY <1>1 DEF Try, ClockParams
  <2>6. tsc' \in Nat /\ tsc <= tsc'
    BY <1>1, <2>1, <2>3 DEF ClockTypes
  <2>7. best' \in Anchor
    BY <1>1, <2>2, <2>4 DEF ClockTypes
  <2>8. QED
    BY <2>5, <2>6, <2>7
<1>3. ClockTypes'
  BY <1>1, <1>2 DEF ClockTypes
<1>4. Usable' => Calibrated'
  BY <1>1, <1>2, TimePasses DEF ClockInv, Usable
<1>5. ASSUME stage = "first" PROVE FirstOK'
  <2>1. Best(Tries, 0) /\ 0 <= tsc /\ left <= Tries /\ Tries \in Nat
    BY <1>1, <1>5 DEF ClockInv, FirstOK, ClockParams, ClockTypes
  <2>2. Read(best', 0, tsc') /\ left' < Tries /\ left' \in 0 .. Tries
    BY <1>1, <2>1, TryBest
  <2>3. QED
    BY <2>1, <2>2 DEF FirstOK, Best, Read
<1>6. ASSUME stage = "second" PROVE SecondOK'
  <2>1. PICK t \in Nat : t + Sleep <= tsc /\ Read(anc0, 0, t) /\ Best(Tries, t + Sleep)
    BY <1>6 DEF ClockInv, SecondOK
  <2>2. t + Sleep \in Nat /\ left <= Tries /\ Tries \in Nat
    BY <1>1, <2>1 DEF ClockParams
  <2>3. Read(best', t + Sleep, tsc') /\ left' < Tries /\ left' \in 0 .. Tries
    BY <1>1, <2>1, <2>2, TryBest
  <2>4. Best(Tries, t + Sleep)'
    BY <2>2, <2>3 DEF Best, Read
  <2>5. t + Sleep <= tsc' /\ Read(anc0, 0, t)'
    BY <1>1, <1>2, <2>1, <2>2 DEF Read, ClockTypes
  <2>6. QED
    BY <2>4, <2>5 DEF SecondOK
<1>7. ASSUME stage = "again" PROVE AgainOK'
  <2>1. PICK t \in Nat : t <= tsc /\ Read(anc1, 0, t) /\ Best(1, t)
    BY <1>7 DEF ClockInv, AgainOK
  <2>2. left <= 1 /\ left = 1
    BY <1>1, <1>7 DEF ClockInv, AgainOK
  <2>3. Read(best', t, tsc') /\ left' = 0
    BY <1>1, <2>1, <2>2, TryBest
  <2>4. Best(1, t)' /\ Read(anc1, 0, t)' /\ t <= tsc'
    BY <1>1, <1>2, <2>1, <2>3 DEF Best, Read, ClockTypes
  <2>5. QED
    BY <2>3, <2>4 DEF AgainOK
<1>8. QED
  BY <1>1, <1>3, <1>4, <1>5, <1>6, <1>7 DEF ClockInv

LEMMA ClockInitInv == ASSUME ClockParams, ClockInit PROVE ClockInv
BY NoAnchorType DEF ClockInit, ClockInv, ClockTypes, Usable, ClockParams

LEMMA CalibrateInv == ASSUME ClockParams, ClockInv, Calibrate PROVE ClockInv'
<1>1. ClockTypes'
  BY NoAnchorType DEF ClockInv, ClockTypes, Calibrate, Begin, ClockParams
<1>2. left' = Tries /\ best' = NoAnchor /\ stage' = "first" /\ Tries \in Nat
  BY DEF Calibrate, Begin, ClockParams
<1>3. FirstOK'
  BY <1>2 DEF FirstOK, Best
<1>4. QED
  BY <1>1, <1>2, <1>3 DEF ClockInv, Usable

LEMMA GotFirstInv == ASSUME ClockParams, ClockInv, GotFirst PROVE ClockInv'
<1>1. /\ ClockTypes /\ Read(best, 0, tsc) /\ tsc \in Nat /\ Tries \in Nat \ {0} /\ Sleep \in Nat
      /\ anc0' = best /\ tsc' = tsc + Sleep /\ left' = Tries /\ best' = NoAnchor
      /\ stage' = "second" /\ anc1' = anc1
  BY DEF ClockInv, GotFirst, Begin, FirstOK, Best, ClockParams, ClockTypes
<1>2. ClockTypes'
  BY <1>1, NoAnchorType DEF ClockTypes
<1>3. Best(Tries, tsc + Sleep)' /\ Read(anc0, 0, tsc)'
  BY <1>1, ReadWider DEF Best
<1>4. SecondOK'
  <2>1. tsc + Sleep <= tsc'
    BY <1>1
  <2>2. Read(anc0', 0, tsc) /\ (left' = Tries => best' = NoAnchor) /\ ~(left' < Tries)
    BY <1>1
  <2>3. QED
    BY <1>1, <2>1, <2>2 DEF SecondOK, Best, Read
<1>5. QED
  BY <1>1, <1>2, <1>4 DEF ClockInv, Usable

(* Anchors that are in order stay as they are, one as Keep has chosen. *)
LEMMA SetupInOrder ==
  ASSUME NEW a \in Anchor, NEW b \in Anchor, a.cycles <= b.cycles, _setup(a, b)
  PROVE  /\ anc0' = a /\ anc1' = b
         /\ ghz' = [cycles |-> b.cycles - a.cycles, nanoss |-> b.tstamp - a.tstamp]
BY DEF _setup, Anchor

LEMMA SetupSwapped ==
  ASSUME NEW a \in Anchor, NEW b \in Anchor, a.cycles > b.cycles, _setup(a, b)
  PROVE  /\ anc0' = b /\ anc1' = a
         /\ ghz' = [cycles |-> a.cycles - b.cycles, nanoss |-> a.tstamp - b.tstamp]
BY DEF _setup, Anchor

LEMMA GotSecondInv == ASSUME ClockParams, ClockInv, GotSecond PROVE ClockInv'
<1>1. PICK t \in Nat : t + Sleep <= tsc /\ Read(anc0, 0, t) /\ Best(Tries, t + Sleep)
  BY DEF ClockInv, GotSecond, SecondOK
<1>2. /\ ClockTypes /\ tsc \in Nat /\ Sleep \in Nat /\ tsc' = tsc /\ best' = best /\ left' = left
      /\ stage' = "ready" /\ left = 0 /\ left < Tries
  BY DEF ClockInv, GotSecond, ClockParams, ClockTypes
<1>3. Read(best, t + Sleep, tsc) /\ t + Sleep \in Nat
  BY <1>1, <1>2 DEF Best
<1>4. Read(best, 0, tsc) /\ Read(anc0, 0, tsc)
  BY <1>1, <1>2, <1>3, ReadWider
<1>5. anc0 \in Anchor /\ best \in Anchor /\ best.cycles - anc0.cycles >= Sleep
  BY <1>1, <1>2, <1>3 DEF Read, Anchor
<1>6. /\ anc0' = anc0 /\ anc1' = best
      /\ ghz' = [cycles |-> best.cycles - anc0.cycles, nanoss |-> best.tstamp - anc0.tstamp]
  BY <1>2, <1>5, SetupInOrder DEF GotSecond, Anchor
<1>7. Calibrated'
  BY <1>2, <1>4, <1>5, <1>6 DEF Calibrated, Read
<1>8. ClockTypes'
  BY <1>2, <1>5, <1>6 DEF ClockTypes
<1>9. QED
  BY <1>2, <1>7, <1>8 DEF ClockInv

LEMMA MaintainInv == ASSUME ClockParams, ClockInv, Maintain PROVE ClockInv'
<1>1. /\ ClockTypes /\ Calibrated /\ tsc \in Nat /\ Tries \in Nat \ {0}
      /\ tsc' = tsc /\ anc0' = anc0 /\ anc1' = anc1 /\ ghz' = ghz
      /\ best' = NoAnchor /\ left' = 1 /\ stage' = "again"
  BY DEF ClockInv, Maintain, Begin, Usable, ClockTypes, ClockParams
<1>2. ClockTypes'
  BY <1>1, NoAnchorType DEF ClockTypes
<1>3. Calibrated'
  BY <1>1, TimePasses
<1>4. AgainOK'
  <2>1. tsc <= tsc' /\ Read(anc1', 0, tsc) /\ (left' = 1 => best' = NoAnchor) /\ ~(left' < 1)
    BY <1>1 DEF Calibrated
  <2>2. QED
    BY <1>1, <2>1 DEF AgainOK, Best, Read
<1>5. QED
  BY <1>1, <1>2, <1>3, <1>4 DEF ClockInv

(* What calibrate() does with its anchor: nothing, or the later one is replaced,
   or the earlier one leaves, and the later one takes its place. *)
LEMMA KeepCases ==
  ASSUME ClockParams, ClockInv, GotAgain
  PROVE  /\ ClockTypes /\ Calibrated /\ Read(best, 0, tsc) /\ tsc' = tsc /\ tsc \in Nat
         /\ best' = best /\ left' = left /\ stage' = "ready"
         /\ best.cycles >= anc1.cycles
         /\ \/ UNCHANGED <<anc0, anc1, ghz>>
            \/ /\ anc0' = anc0 /\ anc1' = best /\ best.jitter <= anc1.jitter
               /\ ghz' = [cycles |-> best.cycles - anc0.cycles,
                          nanoss |-> best.tstamp - anc0.tstamp]
            \/ /\ anc0' = anc1 /\ anc1' = best /\ best.jitter <= anc0.jitter
               /\ best.cycles - anc1.cycles > anc1.cycles - anc0.cycles
               /\ ghz' = [cycles |-> best.cycles - anc1.cycles,
                          nanoss |-> best.tstamp - anc1.tstamp]
<1>1. /\ ClockTypes /\ Calibrated /\ AgainOK /\ left = 0 /\ tsc \in Nat /\ Keep
      /\ tsc' = tsc /\ best' = best /\ left' = left /\ stage' = "ready"
  BY DEF ClockInv, GotAgain, Usable, ClockTypes
<1>2. PICK t \in Nat : t <= tsc /\ Read(anc1, 0, t) /\ Read(best, t, tsc)
  BY <1>1 DEF AgainOK, Best
<1>3. Read(best, 0, tsc) /\ best.cycles >= anc1.cycles
  <2>1. Read(best, 0, tsc)
    BY <1>1, <1>2, ReadWider
  <2>2. best.cycles \in t .. tsc /\ anc1.cycles \in 0 .. t
    BY <1>2 DEF Read
  <2>3. QED
    BY <1>1, <2>1, <2>2
<1>4. anc0 \in Anchor /\ anc1 \in Anchor /\ best \in Anchor /\ anc1.cycles >= anc0.cycles
  BY <1>1 DEF ClockTypes, Calibrated, Anchor, ClockParams
<1>5. CASE best.jitter <= anc1.jitter
  <2>1. _setup(anc0, best)
    BY <1>1, <1>4, <1>5 DEF Keep, Anchor
  <2>2. anc0.cycles <= best.cycles
    BY <1>3, <1>4 DEF Anchor
  <2>3. QED
    BY <1>1, <1>3, <1>4, <1>5, <2>1, <2>2, SetupInOrder
<1>6. CASE /\ best.jitter \in anc1.jitter + 1 .. anc0.jitter
           /\ Gap(anc1, best) > Gap(anc1, anc0)
  <2>1. _setup(best, anc1)
    BY <1>1, <1>4, <1>6 DEF Keep, Anchor
  <2>2. best.cycles - anc1.cycles > anc1.cycles - anc0.cycles
    BY <1>3, <1>4, <1>6 DEF Gap, Anchor
  <2>3. best.cycles > anc1.cycles
    BY <1>4, <2>2 DEF Anchor
  <2>4. best.jitter <= anc0.jitter
    BY <1>4, <1>6 DEF Anchor
  <2>5. QED
    BY <1>1, <1>3, <1>4, <2>1, <2>2, <2>3, <2>4, SetupSwapped
<1>7. CASE /\ ~(best.jitter <= anc1.jitter)
           /\ ~(/\ best.jitter \in anc1.jitter + 1 .. anc0.jitter
                /\ Gap(anc1, best) > Gap(anc1, anc0))
  <2>1. UNCHANGED <<anc0, anc1, ghz>>
    BY <1>1, <1>7 DEF Keep
  <2>2. QED
    BY <1>1, <1>3, <2>1
<1>8. QED
  BY <1>5, <1>6, <1>7

LEMMA GotAgainInv == ASSUME ClockParams, ClockInv, GotAgain PROVE ClockInv'
<1>1. /\ ClockTypes /\ Calibrated /\ Read(best, 0, tsc) /\ tsc' = tsc /\ tsc \in Nat
      /\ best' = best /\ left' = left /\ stage' = "ready" /\ best.cycles >= anc1.cycles
      /\ anc0 \in Anchor /\ anc1 \in Anchor /\ best \in Anchor /\ Sleep \in Nat
  BY KeepCases DEF ClockTypes, ClockParams
<1>2. CASE UNCHANGED <<anc0, anc1, ghz>>
  <2>1. Calibrated' /\ ClockTypes'
    BY <1>1, <1>2, TimePasses DEF ClockTypes
  <2>2. QED
    BY <1>1, <2>1 DEF ClockInv
<1>3. CASE /\ anc0' = anc0 /\ anc1' = best
           /\ ghz' = [cycles |-> best.cycles - anc0.cycles,
                      nanoss |-> best.tstamp - anc0.tstamp]
  <2>1. best.cycles - anc0.cycles >= Sleep
    BY <1>1 DEF Calibrated, Anchor
  <2>2. Calibrated' /\ ClockTypes'
    BY <1>1, <1>3, <2>1 DEF Calibrated, Read, ClockTypes
  <2>3. QED
    BY <1>1, <2>2 DEF ClockInv
<1>4. CASE /\ anc0' = anc1 /\ anc1' = best
           /\ best.cycles - anc1.cycles > anc1.cycles - anc0.cycles
           /\ ghz' = [cycles |-> best.cycles - anc1.cycles,
                      nanoss |-> best.tstamp - anc1.tstamp]
  <2>1. best.cycles - anc1.cycles >= Sleep
    BY <1>1, <1>4 DEF Calibrated, Anchor
  <2>2. Calibrated' /\ ClockTypes'
    BY <1>1, <1>4, <2>1 DEF Calibrated, Read, ClockTypes
  <2>3. QED
    BY <1>1, <2>2 DEF ClockInv
<1>5. QED
  BY <1>2, <1>3, <1>4, KeepCases

LEMMA ClockNextInv == ASSUME ClockParams, ClockInv, [ClockNext]_clock_vars PROVE ClockInv'
<1>1. CASE UNCHANGED clock_vars
  BY <1>1 DEF clock_vars, ClockInv, ClockTypes, FirstOK, SecondOK, Usable, Calibrated, AgainOK,
              Best, Read
<1>2. QED
  BY <1>1, TryInv, CalibrateInv, GotFirstInv, GotSecondInv, MaintainInv, GotAgainInv DEF ClockNext

-----------------------------------------------------------------------------
LEMMA ClockInductive == ASSUME ClockParams PROVE ClockSpec => []ClockInv
<1>1. ClockInit => ClockInv
  BY ClockInitInv
<1>2. ClockInv /\ [ClockNext]_clock_vars => ClockInv'
  BY ClockNextInv
<1>3. QED
  BY <1>1, <1>2, PTL DEF ClockSpec

LEMMA ClockGoesOn == ASSUME ClockParams, ClockInv PROVE ClockTypeOK
<1>1. ASSUME Usable PROVE ghz.cycles > 0 /\ ghz.nanoss > 0
  <2>1. Calibrated /\ ClockTypes
    BY <1>1 DEF ClockInv
  <2>2. anc0.tstamp < anc1.tstamp /\ anc1.cycles - anc0.cycles > 0
    <3>1. /\ tsc \in Nat /\ Read(anc0, 0, tsc) /\ Read(anc1, 0, tsc)
          /\ anc1.cycles - anc0.cycles >= Sleep /\ Sleep \in Nat \ {0}
          /\ anc0 \in Anchor /\ anc1 \in Anchor
      BY <2>1 DEF Calibrated, ClockTypes, ClockParams
    <3>2. anc0.tstamp < anc1.tstamp
      BY <3>1, ReadApart
    <3>3. QED
      BY <3>1, <3>2 DEF Anchor
  <2>3. QED
    BY <2>1, <2>2 DEF Calibrated, ClockTypes, Anchor
<1>2. QED
  BY <1>1 DEF ClockInv, ClockTypes, ClockTypeOK

(* A calibrated clock has a frequency and its time goes on: the two anchors are
   apart by both clocks, whatever calibrate() has replaced. *)
THEOREM ClockRuns == ASSUME ClockParams PROVE ClockSpec => []ClockTypeOK
<1>1. ClockInv => ClockTypeOK
  BY ClockGoesOn
<1>2. QED
  BY <1>1, ClockInductive, PTL

(* Calibrating again brings the anchors no closer, and neither the better nor the
   worse of the two gets worse. *)
THEOREM CalibrationImproves == ASSUME ClockParams PROVE ClockSpec => KeepImproves
<1> DEFINE Improves ==
      stage = "again" /\ stage' = "ready" =>
        /\ anc1'.cycles - anc0'.cycles >= anc1.cycles - anc0.cycles
        /\ \/ anc0'.jitter <= anc0.jitter /\ anc1'.jitter <= anc1.jitter
           \/ anc0'.jitter <= anc1.jitter /\ anc1'.jitter <= anc0.jitter
<1>1. ASSUME ClockInv, [ClockNext]_clock_vars PROVE [Improves]_clock_vars
  <2>1. CASE GotAgain
    <3>1. anc0 \in Anchor /\ anc1 \in Anchor /\ best \in Anchor /\ best.cycles >= anc1.cycles
      BY <1>1, <2>1, KeepCases DEF ClockTypes
    <3>2. QED
      BY <1>1, <2>1, <3>1, KeepCases DEF Anchor
  <2>2. CASE Try \/ Calibrate \/ GotFirst \/ GotSecond \/ Maintain
    BY <2>2 DEF Try, Calibrate, GotFirst, GotSecond, Maintain, Begin
  <2>3. CASE UNCHANGED clock_vars
    BY <2>3
  <2>4. QED
    BY <1>1, <2>1, <2>2, <2>3 DEF ClockNext
<1>2. QED
  BY <1>1, ClockInductive, PTL DEF ClockSpec, KeepImproves

-----------------------------------------------------------------------------
(* How accurate the clock is *)

(* A product is no larger than the product of bounds on its factors. *)
LEMMA AbsProduct ==
  ASSUME NEW x \in Int, NEW b \in Int, NEW w \in Int, -b <= x, x <= b
  PROVE  -(b * Abs(w)) <= x * w /\ x * w <= b * Abs(w)
<1>1. ASSUME NEW y \in Int, NEW v \in Nat, 0 <= y PROVE 0 <= y * v
  BY <1>1
<1> DEFINE v == Abs(w)
<1>2. v \in Nat /\ (v = w \/ v = -w)
  BY DEF Abs
<1> HIDE DEF v
<1>3. 0 <= (b - x) * v /\ 0 <= (b + x) * v
  BY <1>1, <1>2
<1>4. (b - x) * v = b * v - x * v /\ (b + x) * v = b * v + x * v
  BY <1>2
<1>5. b * v \in Int /\ x * v \in Int /\ x * w \in Int
  BY <1>2
<1>6. x * w = x * v \/ x * w = -(x * v)
  BY <1>2
<1>7. QED
  BY <1>3, <1>4, <1>5, <1>6 DEF v

(* An anchor is off by half of the time it took, and less than a unit. *)
LEMMA AnchorOff ==
  ASSUME ClockParams, NEW a, NEW t \in Nat, Read(a, 0, t)
  PROVE  2 * (FREQ * a.tstamp - a.cycles)
           \in -(a.jitter + 2 * FREQ - 1) .. a.jitter + 2 * FREQ - 1
<1>1. PICK n \in 0 .. t : /\ a.tstamp = n \div FREQ
                          /\ 2 * (n - a.cycles) \in -a.jitter .. a.jitter + 1
  BY DEF Read
<1>2. FREQ \in Nat \ {0} /\ n \in Int /\ a.cycles \in Nat /\ a.jitter \in Nat /\ a.tstamp \in Nat
  BY DEF Read, Anchor, ClockParams
<1> DEFINE r == n % FREQ
           k == FREQ * a.tstamp
<1>3. n = k + r /\ k \in Int
  BY <1>1, <1>2, DivMod
<1>4. r \in 0 .. FREQ - 1
  BY <1>2, ModInRange
<1> HIDE DEF r, k
<1>5. 2 * (k - a.cycles) \in -(a.jitter + 2 * FREQ - 1) .. a.jitter + 2 * FREQ - 1
  BY <1>1, <1>2, <1>3, <1>4
<1>6. QED
  BY <1>5 DEF k

(* The rounded quotient of p by q, of which q is positive, is off by half. *)
LEMMA Rounded ==
  ASSUME NEW q \in Nat \ {0}, NEW p \in Int
  PROVE  \E r \in -q .. q :
           /\ (2 * p + q) \div (2 * q) \in Int
           /\ 2 * q * ((2 * p + q) \div (2 * q)) = 2 * p + r
<1> DEFINE n == 2 * p + q
           d == 2 * q
           k == n \div d
           m == n % d
<1>1. d \in Nat \ {0} /\ n \in Int
  OBVIOUS
<1>2. k \in Int /\ n = d * k + m
  BY <1>1, DivMod
<1>3. m \in 0 .. d - 1
  BY <1>1, ModInRange
<1>4. d * k = n - m
  <2> HIDE DEF k, d, n, m
  <2>1. d * k \in Int
    BY <1>1, <1>2
  <2>2. QED
    BY <1>1, <1>2, <1>3, <2>1
<1>5. q - m \in -q .. q /\ d * k = 2 * p + (q - m)
  <2> HIDE DEF k, m
  <2>1. m \in Int /\ m >= 0 /\ m <= 2 * q - 1
    BY <1>3
  <2>2. QED
    BY <1>4, <2>1
<1>6. QED
  BY <1>2, <1>5

(* Between two anchors, and beyond, the error of the clock is theirs, each weighed
   by the distance from the other. *)
LEMMA Weighed ==
  ASSUME NEW F \in Int, NEW s \in Int, NEW b \in Int, NEW u \in Int, NEW e \in Int,
         NEW c \in Int, NEW q \in Int, NEW r \in Int,
         2 * (e - b) * q = 2 * ((c - b) * (u - s)) + r
  PROVE  2 * (e - b) * (F * (s + q) - c)
           = (2 * (F * s - b)) * (e - c) + (2 * (F * u - e)) * (c - b) + F * r
<1>1. 2 * (e - b) * (F * (s + q) - c)
        = 2 * (e - b) * (F * s - c) + F * (2 * (e - b) * q)
  OBVIOUS
<1>2. F * (2 * (e - b) * q) = F * (2 * ((c - b) * (u - s))) + F * r
  <2> DEFINE x == 2 * ((c - b) * (u - s))
  <2>1. x \in Int
    OBVIOUS
  <2> HIDE DEF x
  <2>2. F * (x + r) = F * x + F * r
    BY <2>1
  <2>3. QED
    BY <2>2 DEF x
<1>3. 2 * (e - b) * (F * s - c) + F * (2 * ((c - b) * (u - s)))
        = (2 * (F * s - b)) * (e - c) + (2 * (F * u - e)) * (c - b)
  OBVIOUS
<1>4. QED
  BY <1>1, <1>2, <1>3

LEMMA CalibratedAccurate == ASSUME ClockParams, ClockTypes, Calibrated PROVE Accurate
<1> SUFFICES ASSUME NEW c \in anc0.cycles .. MaxTsc
             PROVE  LET span == anc1.cycles - anc0.cycles
                    IN  2 * span * Abs(FREQ * now(c) - c) <=
                          (anc0.jitter + 2 * FREQ - 1) * Abs(anc1.cycles - c)
                            + (anc1.jitter + 2 * FREQ - 1) * (c - anc0.cycles)
                            + span * FREQ
  BY DEF Accurate
<1> DEFINE b == anc0.cycles
           e == anc1.cycles
           s == anc0.tstamp
           u == anc1.tstamp
           o0 == anc0.jitter + 2 * FREQ - 1
           o1 == anc1.jitter + 2 * FREQ - 1
           p == (c - b) * (u - s)
           q == (2 * p + (e - b)) \div (2 * (e - b))
           x0 == 2 * (FREQ * s - b)
           x1 == 2 * (FREQ * u - e)
           w == FREQ * (s + q) - c
<1>1. /\ b \in Nat /\ e \in Nat /\ s \in Nat /\ u \in Nat /\ o0 \in Nat /\ o1 \in Nat
      /\ FREQ \in Nat \ {0} /\ e - b \in Nat \ {0} /\ c \in Int /\ c >= b
  BY DEF ClockTypes, Calibrated, Anchor, ClockParams
<1>2. now(c) = s + q
  <2>1. 2 * (c - b) * (u - s) = 2 * p
    BY <1>1
  <2>2. ghz.cycles = e - b /\ ghz.nanoss = u - s
    BY DEF Calibrated
  <2>3. QED
    BY <2>1, <2>2 DEF now
<1>3. PICK r \in -(e - b) .. e - b : q \in Int /\ 2 * (e - b) * q = 2 * p + r
  <2>1. p \in Int
    BY <1>1
  <2> HIDE DEF p, b, e
  <2>2. QED
    BY <1>1, <2>1, Rounded
<1>4. x0 \in -o0 .. o0 /\ x1 \in -o1 .. o1
  <2>1. tsc \in Nat /\ Read(anc0, 0, tsc) /\ Read(anc1, 0, tsc)
    BY DEF ClockTypes, Calibrated
  <2>2. QED
    BY <2>1, AnchorOff
<1>5. r \in Int /\ x0 \in Int /\ x1 \in Int /\ q \in Int
  BY <1>1, <1>3, <1>4
<1>6. 2 * (e - b) * w = x0 * (e - c) + x1 * (c - b) + FREQ * r
  <2> HIDE DEF q, b, e, s, u
  <2>1. QED
    BY <1>1, <1>3, <1>5, Weighed
<1>7. w \in Int
  <2> HIDE DEF q, b, e, s, u
  <2>1. QED
    BY <1>1, <1>5
<1> HIDE DEF b, e, s, u, o0, o1, p, q, x0, x1, w
<1>8. /\ -(o0 * Abs(e - c)) <= x0 * (e - c)
      /\ x0 * (e - c) <= o0 * Abs(e - c)
  <2>1. e - c \in Int /\ o0 \in Int /\ -o0 <= x0 /\ x0 <= o0
    BY <1>1, <1>4
  <2>2. QED
    BY <1>5, <2>1, AbsProduct
<1>9. /\ -(o1 * (c - b)) <= x1 * (c - b)
      /\ x1 * (c - b) <= o1 * (c - b)
  <2>1. Abs(c - b) = c - b
    BY <1>1 DEF Abs
  <2>2. QED
    BY <1>1, <1>4, <1>5, <2>1, AbsProduct
<1>10. /\ -((e - b) * FREQ) <= FREQ * r
       /\ FREQ * r <= (e - b) * FREQ
  <2>1. Abs(FREQ) = FREQ
    BY <1>1 DEF Abs
  <2>2. -((e - b) * FREQ) <= r * FREQ /\ r * FREQ <= (e - b) * FREQ
    BY <1>1, <1>3, <1>5, <2>1, AbsProduct
  <2>3. QED
    BY <1>1, <1>5, <2>2
<1>11. 2 * (e - b) * Abs(w) <= o0 * Abs(e - c) + o1 * (c - b) + (e - b) * FREQ
  <2> DEFINE A == o0 * Abs(e - c)
             B == o1 * (c - b)
             C == (e - b) * FREQ
             y == x0 * (e - c)
             z == x1 * (c - b)
             v == FREQ * r
             k == 2 * (e - b) * w
  <2>1. /\ A \in Int /\ B \in Int /\ C \in Int /\ y \in Int /\ z \in Int /\ v \in Int
        /\ k \in Int
    BY <1>1, <1>5, <1>7 DEF Abs
  <2>2. 2 * (e - b) * Abs(w) = k \/ 2 * (e - b) * Abs(w) = -k
    BY <1>1, <1>7 DEF Abs
  <2>3. k <= A + B + C /\ -k <= A + B + C
    <3> HIDE DEF A, B, C, y, z, v, k
    <3>1. k = y + z + v
      BY <1>6 DEF k, y, z, v
    <3>2. -A <= y /\ y <= A /\ -B <= z /\ z <= B /\ -C <= v /\ v <= C
      BY <1>8, <1>9, <1>10 DEF A, B, C, y, z, v
    <3>3. QED
      BY <2>1, <3>1, <3>2
  <2>4. QED
    BY <2>2, <2>3
<1>12. QED
  BY <1>2, <1>11 DEF b, e, s, u, o0, o1, w

(* From the first anchor on the clock is off by no more than its anchors are, each
   weighed by the distance from the other, and the rounding. *)
THEOREM ClockAccurate == ASSUME ClockParams PROVE ClockSpec => []Accurate
<1>1. ClockInv => Accurate
  BY CalibratedAccurate DEF ClockInv, Accurate
<1>2. QED
  BY <1>1, ClockInductive, PTL

-----------------------------------------------------------------------------
(* HugePage_t *)

HugeInv == Huge!TypeOK /\ Huge!HeldIsMapped

(* Rounded up to pages, a size is a whole number of them and grows by less
   than one. *)
LEMMA WholePages ==
  ASSUME Huge!Params, NEW b \in Sizes
  PROVE  /\ b \in Int /\ Huge!Whole(b) \in Int
         /\ Huge!Whole(b) % PAGE = 0
         /\ b \in Huge!Whole(b) - PAGE + 1 .. Huge!Whole(b)
<1> DEFINE x == b + PAGE - 1
           q == x \div PAGE
           r == x % PAGE
<1>1. PAGE \in Nat \ {0} /\ b \in Int /\ x \in Int
  BY DEF Huge!Params
<1>2. q \in Int /\ x = PAGE * q + r /\ r \in 0 .. PAGE - 1
  BY <1>1, DivMod, ModInRange
<1>3. Huge!Whole(b) = PAGE * q
  BY <1>1, <1>2 DEF Huge!Whole
<1>4. (0 + PAGE * q) % PAGE = 0
  <2>1. 0 % PAGE = 0
    BY <1>1, ModOfSmall
  <2> HIDE DEF q
  <2>2. (0 + PAGE * q) % PAGE = 0 % PAGE
    BY <1>1, <1>2, ModShift, SMTT(30)
  <2>3. QED
    BY <2>1, <2>2
<1>5. PAGE * q \in Int
  BY <1>1, <1>2
<1> HIDE DEF q, r
<1>6. 0 + PAGE * q = PAGE * q
  BY <1>5
<1>7. QED
  BY <1>1, <1>2, <1>3, <1>4, <1>5, <1>6

LEMMA HugeInitInv == ASSUME Huge!Params, Huge!Init PROVE HugeInv
<1>1. 0 % PAGE = 0
  BY ModOfSmall DEF Huge!Params
<1>2. QED
  BY <1>1 DEF Huge!Init, HugeInv, Huge!TypeOK, Huge!HeldIsMapped

LEMMA HugeNextInv ==
  ASSUME Huge!Params, HugeInv, Huge!Next \/ UNCHANGED huge_vars
  PROVE  HugeInv'
<1> USE DEF HugeInv, Huge!TypeOK, Huge!HeldIsMapped
<1>1. CASE UNCHANGED huge_vars
  BY <1>1 DEF huge_vars
<1>2. ASSUME NEW b \in Sizes, Huge!make(b) PROVE HugeInv'
  BY <1>2, WholePages DEF Huge!make, Huge!Unused
<1>3. ASSUME NEW b \in Sizes, Huge!make_fails(b) PROVE HugeInv'
  BY <1>3 DEF Huge!make_fails, Huge!Unused
<1>4. CASE Huge!release
  <2>1. 0 % PAGE = 0
    BY ModOfSmall DEF Huge!Params
  <2>2. QED
    BY <1>4, <2>1 DEF Huge!release
<1>5. QED
  BY <1>1, <1>2, <1>3, <1>4 DEF Huge!Next

-----------------------------------------------------------------------------
(* ProcCtrl_t *)

ProcInv == Proc!TypeOK /\ Proc!KnownIsMine /\ Proc!WordsFit

LEMMA ProcInitInv == ASSUME Proc!Params, Proc!Init PROVE ProcInv
BY DEF Proc!Params, Proc!Init, ProcInv, Proc!TypeOK, Proc!Kind, Proc!KnownIsMine, Proc!WordsFit

LEMMA ProcNextInv ==
  ASSUME Proc!Params, ProcInv, Proc!Next \/ UNCHANGED proc_vars
  PROVE  ProcInv'
<1> USE DEF ProcInv, Proc!TypeOK, Proc!Kind, Proc!Living, Proc!KnownIsMine, Proc!WordsFit
<1>1. CASE UNCHANGED proc_vars
  BY <1>1 DEF proc_vars
<1>2. ASSUME NEW p \in Pid, Proc!forkOnly(p) PROVE ProcInv'
  BY <1>2 DEF Proc!forkOnly
<1>3. ASSUME NEW p \in Pid, Proc!sendSign(p) PROVE ProcInv'
  BY <1>3 DEF Proc!sendSign
<1>4. ASSUME NEW p \in Pid, Proc!ChildEnds(p) PROVE ProcInv'
  BY <1>4 DEF Proc!ChildEnds
<1>5. ASSUME NEW p \in Pid, Proc!waitExit(p) PROVE ProcInv'
  BY <1>5 DEF Proc!waitExit
<1>6. ASSUME NEW p \in Pid, Proc!Others(p) PROVE ProcInv'
  BY <1>6 DEF Proc!Others
<1>7. ASSUME NEW p \in Pid, NEW f \in 0 .. Flags, NEW o \in 0 .. Options, Proc!forkExec(p, f, o)
      PROVE  ProcInv'
  <2>1. /\ Flags \in Nat /\ Options \in Nat /\ MaxWords \in Nat
        /\ f \in Nat /\ o \in Nat
    BY DEF Proc!Params
  <2>2. words' \in Nat /\ words' <= MaxWords
    BY <1>7, <2>1 DEF Proc!forkExec, Proc!Fits
  <2>3. QED
    BY <1>7, <2>2 DEF Proc!forkExec
<1>8. QED
  BY <1>1, <1>2, <1>3, <1>4, <1>5, <1>6, <1>7 DEF Proc!Next

-----------------------------------------------------------------------------
(* CpuAffinity *)

CpuInv == Cpu!TypeOK /\ Cpu!AllMeansAll /\ Cpu!EarlyBindsAll

LEMMA CpusCounted == ASSUME Cpu!Params PROVE Cpu!GetCpuCount \in Nat
<1>1. IsFiniteSet(Online)
  BY DEF Cpu!Params, Cpu!IsFiniteSet, IsFiniteSet
<1>2. Cpu!GetCpuCount = Cardinality(Online)
  BY DEF Cpu!GetCpuCount, Cpu!Cardinality, Cardinality
<1>3. QED
  BY <1>1, <1>2, FS_CardinalityType

LEMMA CpuInitInv == ASSUME Cpu!Params, Cpu!Init PROVE CpuInv
BY DEF Cpu!Params, Cpu!Init, CpuInv, Cpu!TypeOK, Cpu!AllMeansAll, Cpu!EarlyBindsAll

LEMMA CpuNextInv ==
  ASSUME Cpu!Params, CpuInv, Cpu!Next \/ UNCHANGED cpu_vars
  PROVE  CpuInv'
<1> USE DEF CpuInv, Cpu!TypeOK, Cpu!AllMeansAll, Cpu!EarlyBindsAll
<1>1. CASE UNCHANGED cpu_vars
  BY <1>1 DEF cpu_vars
<1>2. ASSUME NEW t \in Task, NEW text \in Lists, Cpu!Bind(t, text) PROVE CpuInv'
  <2>1. Cpu!GetCpuCount \in Nat
    BY CpusCounted
  <2>2. Cpu!Asked(text) \subseteq Nat
    BY <2>1 DEF Cpu!Asked, Cpu!_MakeSet
  <2>3. Cpu!TypeOK'
    BY <1>2, <2>2 DEF Cpu!Bind
  <2>4. Cpu!EarlyBindsAll'
    BY <1>2 DEF Cpu!Bind
  <2> DEFINE Everything == Cpu!split2set(text) = {} \/ -1 \in Cpu!split2ints(text)
  <2>5. Everything => Cpu!Asked(text) = 0 .. Cpu!GetCpuCount - 1
    BY DEF Cpu!Asked, Cpu!_MakeSet, Cpu!split2ints
  <2>6. Cpu!AllMeansAll'
    <3> SUFFICES ASSUME Online = 0 .. Cpu!GetCpuCount - 1, NEW u \in all'
                 PROVE  mask'[u] = Online
      BY DEF Cpu!GetCpuCount
    <3>1. CASE u = t
      <4>1. Everything
        BY <1>2, <3>1 DEF Cpu!Bind
      <4>2. Cpu!Asked(text) = Online /\ Online # {}
        BY <2>5, <4>1 DEF Cpu!Params
      <4>3. mask' = [mask EXCEPT ![t] = Online]
        BY <1>2, <4>2 DEF Cpu!Bind
      <4>4. QED
        BY <3>1, <4>3
    <3>2. CASE u # t
      BY <1>2, <3>2 DEF Cpu!Bind
    <3>3. QED
      BY <3>1, <3>2
  <2>7. QED
    BY <2>3, <2>4, <2>6
<1>3. ASSUME NEW t \in Task, NEW u \in Task, Cpu!Start(t, u) PROVE CpuInv'
  BY <1>3 DEF Cpu!Start
<1>4. QED
  BY <1>1, <1>2, <1>3 DEF Cpu!Next

-----------------------------------------------------------------------------
(* TextSheet_t *)

(* A sheet that was drawn with a column of names that wide. *)
Laid(w) ==
  /\ sheet_name <= w
  /\ sheet_head = <<Sheet!Ruler(w), Sheet!Names(w)>>
  /\ sepa = <<Sheet!Ruler(w)>> /\ foot = <<Sheet!Ruler(w)>>
  /\ \A r \in Sheet!Shown(row_specs) : row_specs[r].n = w

SheetInv == Sheet!TypeOK /\ (drawn => \E w \in Nat : Laid(w))

LEMMA AdaptedIs ==
  ASSUME NEW w \in Int, NEW x \in Int
  PROVE  Sheet!Adapted(w, x) = IF w >= x THEN w ELSE x
<1>1. Sheet!Max({w, x}) = Max({w, x})
  BY DEF Sheet!Max, Max
<1>2. QED
  BY <1>1, MaxOfTwo DEF Sheet!Adapted

(* Widths are natural numbers, and lines are as wide as each other if the cells
   of the columns that are shown are. *)
LEMMA LineNat ==
  ASSUME Sheet!TypeOK, NEW first \in Nat, NEW cells \in [DOMAIN col_specs -> Nat]
  PROVE  Sheet!Line(first, cells) \in Nat
<1> DEFINE q == [c \in DOMAIN cells |-> IF col_specs[c].v THEN 1 + cells[c] ELSE 0]
<1>1. q \in Seq(Nat)
  <2>1. DOMAIN cells = 1 .. Len(col_specs) /\ Len(col_specs) \in Nat
    BY DEF Sheet!TypeOK
  <2>2. \A c \in DOMAIN cells : q[c] \in Nat
    OBVIOUS
  <2>3. QED
    BY <2>1, <2>2
<1>2. Sheet!Sum(q) = Sum(q)
  BY DEF Sheet!Sum, Sum, Sheet!SumsOf, SumsOf
<1>3. Sum(q) \in Nat
  BY <1>1, SumNat
<1>4. Sheet!Line(first, cells) = 1 + first + Sheet!Sum(q) + 1
  BY DEF Sheet!Line
<1> HIDE DEF q
<1>5. QED
  BY <1>2, <1>3, <1>4

LEMMA SameLine ==
  ASSUME NEW first, NEW cells, NEW others, DOMAIN cells = DOMAIN others,
         \A c \in DOMAIN cells : col_specs[c].v => cells[c] = others[c]
  PROVE  Sheet!Line(first, cells) = Sheet!Line(first, others)
<1>1. [c \in DOMAIN cells |-> IF col_specs[c].v THEN 1 + cells[c] ELSE 0]
        = [c \in DOMAIN others |-> IF col_specs[c].v THEN 1 + others[c] ELSE 0]
  OBVIOUS
<1>2. QED
  BY <1>1 DEF Sheet!Line

LEMMA ColumnTypes ==
  ASSUME Sheet!TypeOK, NEW c \in DOMAIN col_specs
  PROVE  col_specs[c].n \in Nat /\ col_specs[c].w \in Nat /\ col_specs[c].v \in BOOLEAN
<1> DEFINE S == [n : Nat, w : Nat, v : BOOLEAN]
<1>1. col_specs \in Seq(S)
  BY DEF Sheet!TypeOK
<1> HIDE DEF S
<1>2. c \in 1 .. Len(col_specs)
  BY <1>1
<1>3. col_specs[c] \in S
  BY <1>1, <1>2, ElementOfSeq
<1>4. QED
  BY <1>3 DEF S

LEMMA RowTypes ==
  ASSUME Sheet!TypeOK, NEW r \in DOMAIN row_specs
  PROVE  /\ row_specs[r] \in [n : Nat, v : BOOLEAN]
         /\ row_specs[r].n \in Nat /\ row_specs[r].v \in BOOLEAN
<1> DEFINE S == [n : Nat, v : BOOLEAN]
<1>1. row_specs \in Seq(S)
  BY DEF Sheet!TypeOK
<1> HIDE DEF S
<1>2. r \in 1 .. Len(row_specs)
  BY <1>1
<1>3. row_specs[r] \in S
  BY <1>1, <1>2, ElementOfSeq
<1>4. QED
  BY <1>3 DEF S

LEMMA HeadNat ==
  ASSUME Sheet!TypeOK, NEW w \in Nat
  PROVE  Sheet!Ruler(w) \in Nat /\ Sheet!Names(w) \in Nat
<1>1. [c \in DOMAIN col_specs |-> col_specs[c].w] \in [DOMAIN col_specs -> Nat]
  BY ColumnTypes
<1>2. [c \in DOMAIN col_specs |-> Sheet!Adapted(col_specs[c].w, col_specs[c].n)]
        \in [DOMAIN col_specs -> Nat]
  BY ColumnTypes, AdaptedIs
<1>3. Sheet!Adapted(w, sheet_name) \in Nat
  <2>1. sheet_name \in Nat
    BY DEF Sheet!TypeOK
  <2>2. QED
    BY <2>1, AdaptedIs
<1>4. QED
  BY <1>1, <1>2, <1>3, LineNat DEF Sheet!Ruler, Sheet!Names

(* The column of names is wider than every name in it. *)
LEMMA NamesFit ==
  ASSUME Sheet!TypeOK
  PROVE  /\ Sheet!name_width \in Nat /\ sheet_name <= Sheet!name_width
         /\ \A r \in Sheet!Shown(row_specs) : row_specs[r].n <= Sheet!name_width
<1> DEFINE I == Sheet!Shown(row_specs)
           S == {row_specs[r].n : r \in I}
           f == [r \in I |-> row_specs[r].n]
<1>1. IsFiniteSet(I)
  <2>1. I \subseteq 1 .. Len(row_specs) /\ Len(row_specs) \in Nat
    BY DEF Sheet!TypeOK, Sheet!Shown
  <2>2. IsFiniteSet(1 .. Len(row_specs))
    BY <2>1, FS_Interval
  <2>3. QED
    BY <2>1, <2>2, FS_Subset
<1>2. f \in Surjection(I, S)
  BY DEF Surjection
<1>3. IsFiniteSet(S)
  BY <1>1, <1>2, FS_Surjection
<1>4. IsFiniteSet(S \cup {sheet_name})
  BY <1>3, FS_AddElement
<1>5. \A r \in I : row_specs[r].n \in Nat
  BY RowTypes DEF Sheet!Shown
<1>6. S \cup {sheet_name} \subseteq Nat
  BY <1>5 DEF Sheet!TypeOK
<1> DEFINE m == Max(S \cup {sheet_name})
<1>7. m \in S \cup {sheet_name} /\ \A y \in S \cup {sheet_name} : m >= y
  <2> DEFINE U == S \cup {sheet_name}
  <2>1. IsFiniteSet(U) /\ U \in SUBSET Int /\ U # {}
    BY <1>4, <1>6
  <2> HIDE DEF U
  <2>2. Max(U) \in U /\ \A y \in U : Max(U) >= y
    BY <2>1, MaxExists
  <2>3. QED
    BY <2>2 DEF U
<1>8. Sheet!name_width = m + 2
  BY DEF Sheet!name_width, Sheet!Max, Max
<1> HIDE DEF m
<1>9. m \in Nat /\ sheet_name <= m /\ \A r \in I : row_specs[r].n <= m
  BY <1>6, <1>7
<1>10. QED
  BY <1>5, <1>6, <1>8, <1>9

LEMMA BlankTypes ==
  ASSUME NEW s, s = <<>>
  PROVE  /\ s \in Seq([n : Nat, v : BOOLEAN]) /\ s \in Seq([n : Nat, w : Nat, v : BOOLEAN])
         /\ s \in Seq(Nat)
<1>1. \A S : <<>> \in Seq(S)
  OBVIOUS
<1>2. QED
  BY <1>1, Zenon

LEMMA SheetInitInv == ASSUME Sheet!Params, Sheet!Init PROVE SheetInv
<1>1. sheet_name \in Nat
  BY DEF Sheet!Params, Sheet!Init
<1>2. QED
  BY <1>1, BlankTypes DEF Sheet!Init, SheetInv, Sheet!TypeOK

LEMMA SheetClearInv == ASSUME Sheet!Params, SheetInv, Sheet!clear PROVE SheetInv'
BY BlankTypes DEF SheetInv, Sheet!TypeOK, Sheet!clear

(* A sheet that is as wide as it was stays laid out as it was. *)
LEMMA StaysLaid ==
  ASSUME NEW w, Laid(w),
         UNCHANGED <<sheet_name, row_specs, col_specs, sheet_head, sepa, foot>>
  PROVE  Laid(w)'
BY DEF Laid, Sheet!Ruler, Sheet!Names, Sheet!Line, Sheet!Adapted, Sheet!Shown

LEMMA AddColInv ==
  ASSUME Sheet!Params, SheetInv, NEW n \in Title, NEW w \in Width, NEW v \in BOOLEAN,
         Sheet!addCol(n, w, v)
  PROVE  SheetInv'
<1>1. [n |-> n, w |-> w, v |-> v] \in [n : Nat, w : Nat, v : BOOLEAN]
  BY DEF Sheet!Params
<1>2. col_specs' \in Seq([n : Nat, w : Nat, v : BOOLEAN])
  <2> DEFINE S == [n : Nat, w : Nat, v : BOOLEAN]
             x == [n |-> n, w |-> w, v |-> v]
  <2>1. col_specs \in Seq(S) /\ x \in S /\ col_specs' = Append(col_specs, x)
    BY <1>1 DEF SheetInv, Sheet!TypeOK, Sheet!addCol
  <2> HIDE DEF S, x
  <2>2. col_specs' \in Seq(S)
    BY <2>1
  <2>3. QED
    BY <2>2 DEF S
<1>3. QED
  BY <1>2 DEF SheetInv, Sheet!TypeOK, Sheet!addCol

LEMMA AddRowInv ==
  ASSUME Sheet!Params, SheetInv, NEW n \in Title, NEW v \in BOOLEAN, Sheet!addRow(n, v)
  PROVE  SheetInv'
<1>1. [n |-> n, v |-> v] \in [n : Nat, v : BOOLEAN]
  BY DEF Sheet!Params
<1>2. row_specs' \in Seq([n : Nat, v : BOOLEAN])
  <2> DEFINE S == [n : Nat, v : BOOLEAN]
             x == [n |-> n, v |-> v]
  <2>1. row_specs \in Seq(S) /\ x \in S /\ row_specs' = Append(row_specs, x)
    BY <1>1 DEF SheetInv, Sheet!TypeOK, Sheet!addRow
  <2> HIDE DEF S, x
  <2>2. row_specs' \in Seq(S)
    BY <2>1
  <2>3. QED
    BY <2>2 DEF S
<1>3. QED
  BY <1>2 DEF SheetInv, Sheet!TypeOK, Sheet!addRow

LEMMA FillInv ==
  ASSUME Sheet!Params, SheetInv, NEW r \in DOMAIN row_specs, NEW c \in DOMAIN col_specs,
         NEW x \in Number, Sheet!fill(r, c, x)
  PROVE  SheetInv'
<1>1. /\ drawn /\ drawn' = drawn /\ all_data' = [all_data EXCEPT ![r][c] = x]
      /\ UNCHANGED <<sheet_name, row_specs, col_specs, sheet_head, sepa, foot>>
  BY DEF Sheet!fill
<1>2. /\ DOMAIN all_data' = DOMAIN all_data
      /\ \A k \in DOMAIN all_data : DOMAIN all_data'[k] = DOMAIN all_data[k]
  BY <1>1
<1>3. Sheet!TypeOK'
  BY <1>1, <1>2 DEF SheetInv, Sheet!TypeOK
<1>4. QED
  BY <1>1, <1>3, StaysLaid DEF SheetInv

LEMMA SkeletonInv == ASSUME Sheet!Params, SheetInv, Sheet!skeleton PROVE SheetInv'
<1>0. PICK w : w = Sheet!name_width
  OBVIOUS
<1>1. Sheet!TypeOK
  BY DEF SheetInv
<1>2. /\ w \in Nat /\ sheet_name <= w
      /\ \A r \in Sheet!Shown(row_specs) : row_specs[r].n <= w
  BY <1>0, <1>1, NamesFit
<1>3. Sheet!Ruler(w) \in Nat /\ Sheet!Names(w) \in Nat
  BY <1>1, <1>2, HeadNat
<1>4. /\ row_specs' = [i \in DOMAIN row_specs |->
                         IF row_specs[i].v
                         THEN [row_specs[i] EXCEPT !.n = Sheet!Adapted(w, @)]
                         ELSE row_specs[i]]
      /\ sheet_head' = <<Sheet!Ruler(w), Sheet!Names(w)>>
      /\ sepa' = <<Sheet!Ruler(w)>> /\ foot' = <<Sheet!Ruler(w)>>
      /\ all_data' = [r \in DOMAIN row_specs |-> [c \in DOMAIN col_specs |-> Zero]]
      /\ drawn' = TRUE
      /\ UNCHANGED <<sheet_name, col_specs>>
  BY <1>0 DEF Sheet!skeleton
<1>5. \A i \in DOMAIN row_specs : row_specs[i].v => row_specs'[i].n = w
  <2> SUFFICES ASSUME NEW i \in DOMAIN row_specs, row_specs[i].v PROVE row_specs'[i].n = w
    OBVIOUS
  <2>1. row_specs[i].n \in Nat /\ row_specs[i].n <= w
    BY <1>1, <1>2, RowTypes DEF Sheet!Shown
  <2>2. Sheet!Adapted(w, row_specs[i].n) = w
    BY <1>2, <2>1, AdaptedIs
  <2>3. row_specs[i] \in [n : Nat, v : BOOLEAN]
    BY <1>1, RowTypes
  <2>4. QED
    BY <1>4, <2>2, <2>3
<1>6. row_specs' \in Seq([n : Nat, v : BOOLEAN]) /\ DOMAIN row_specs' = DOMAIN row_specs
  <2> DEFINE S == [n : Nat, v : BOOLEAN]
  <2>1. \A i \in DOMAIN row_specs : row_specs'[i] \in S
    <3> SUFFICES ASSUME NEW i \in DOMAIN row_specs PROVE row_specs'[i] \in S
      OBVIOUS
    <3>1. row_specs[i] \in S /\ row_specs[i].n \in Nat
      BY <1>1, RowTypes
    <3>2. Sheet!Adapted(w, row_specs[i].n) \in Nat
      BY <1>2, <3>1, AdaptedIs
    <3>3. QED
      BY <1>4, <3>1, <3>2
  <2>2. DOMAIN row_specs = 1 .. Len(row_specs) /\ Len(row_specs) \in Nat
    BY <1>1 DEF Sheet!TypeOK
  <2>3. /\ DOMAIN row_specs' = DOMAIN row_specs
        /\ \E d : row_specs' = [i \in 1 .. Len(row_specs) |-> d[i]]
    <3> DEFINE d == row_specs'
    <3>1. row_specs' = [i \in 1 .. Len(row_specs) |-> d[i]]
      BY <1>4, <2>2
    <3>2. QED
      BY <3>1, <2>2
  <2> HIDE DEF S
  <2>4. row_specs' \in Seq(S)
    BY <2>1, <2>2, <2>3
  <2>5. QED
    BY <2>3, <2>4 DEF S
<1>7. Sheet!TypeOK'
  <2>1. /\ \A line \in {sheet_head', sepa', foot'} : line \in Seq(Nat)
    BY <1>3, <1>4
  <2>2. /\ DOMAIN all_data' = DOMAIN row_specs
        /\ \A r \in DOMAIN all_data' : DOMAIN all_data'[r] = DOMAIN col_specs
    BY <1>4
  <2>3. QED
    BY <1>1, <1>4, <1>6, <2>1, <2>2 DEF Sheet!TypeOK
<1>8. Laid(w)'
  <2>1. Sheet!Ruler(w)' = Sheet!Ruler(w) /\ Sheet!Names(w)' = Sheet!Names(w)
    BY <1>4 DEF Sheet!Ruler, Sheet!Names, Sheet!Line, Sheet!Adapted
  <2>2. \A r \in Sheet!Shown(row_specs)' : row_specs'[r].n = w
    <3> SUFFICES ASSUME NEW r \in Sheet!Shown(row_specs)' PROVE row_specs'[r].n = w
      OBVIOUS
    <3>1. r \in DOMAIN row_specs /\ row_specs'[r].v
      BY <1>6 DEF Sheet!Shown
    <3>2. row_specs[r] \in [n : Nat, v : BOOLEAN]
      BY <1>1, <3>1, RowTypes
    <3>3. row_specs[r].v
      BY <1>4, <3>1, <3>2
    <3>4. QED
      BY <1>5, <3>1, <3>3
  <2>3. QED
    BY <1>2, <1>4, <2>1, <2>2 DEF Laid
<1>9. QED
  BY <1>2, <1>7, <1>8 DEF SheetInv

LEMMA SheetNextInv ==
  ASSUME Sheet!Params, SheetInv, Sheet!Next \/ UNCHANGED sheet_vars
  PROVE  SheetInv'
<1>1. CASE UNCHANGED sheet_vars
  <2>1. /\ UNCHANGED <<sheet_name, row_specs, col_specs, sheet_head, sepa, foot>>
        /\ all_data' = all_data /\ drawn' = drawn
    BY <1>1 DEF sheet_vars
  <2>2. Sheet!TypeOK'
    BY <2>1 DEF SheetInv, Sheet!TypeOK
  <2>3. QED
    BY <2>1, <2>2, StaysLaid DEF SheetInv
<1>2. QED
  BY <1>1, SheetClearInv, SkeletonInv, AddRowInv, AddColInv, FillInv DEF Sheet!Next

(* All the lines are as wide as the line of dashes. *)
LEMMA AllAligned == ASSUME SheetInv PROVE Sheet!Aligned
<1> SUFFICES ASSUME drawn,
                    \A c \in Sheet!Shown(col_specs) :
                      col_specs[c].w >= col_specs[c].n /\ col_specs[c].w > 2
             PROVE  Sheet!Cardinality(Sheet!make) = 1
  BY DEF Sheet!Aligned
<1>1. PICK w \in Nat : Laid(w)
  BY DEF SheetInv
<1>2. Sheet!TypeOK /\ sheet_name \in Nat
  BY DEF SheetInv, Sheet!TypeOK
<1> DEFINE R == Sheet!Ruler(w)
           Dashes == [c \in DOMAIN col_specs |-> col_specs[c].w]
<1>3. \A c \in DOMAIN col_specs :
        col_specs[c].v => /\ col_specs[c].w \in Nat /\ col_specs[c].n \in Nat
                          /\ col_specs[c].w >= col_specs[c].n /\ col_specs[c].w > 2
  BY <1>2, ColumnTypes DEF Sheet!Shown
<1>4. Sheet!Names(w) = R
  <2> DEFINE Cells == [c \in DOMAIN col_specs |-> Sheet!Adapted(col_specs[c].w, col_specs[c].n)]
  <2>1. Sheet!Adapted(w, sheet_name) = w
    BY <1>1, <1>2, AdaptedIs DEF Laid
  <2>2. \A c \in DOMAIN col_specs : col_specs[c].v => Cells[c] = Dashes[c]
    BY <1>3, AdaptedIs
  <2>3. Sheet!Line(w, Cells) = Sheet!Line(w, Dashes)
    BY <2>2, SameLine
  <2>4. QED
    BY <2>1, <2>3 DEF Sheet!Names, Sheet!Ruler
<1>5. ASSUME NEW r \in Sheet!Shown(row_specs) PROVE Sheet!RowLine(r) = R
  <2> DEFINE Cells == [c \in DOMAIN all_data[r] |-> Sheet!Cell(col_specs[c], all_data[r][c])]
  <2>1. row_specs[r].n = w
    BY <1>1 DEF Laid
  <2>2. DOMAIN all_data[r] = DOMAIN col_specs
    BY <1>2 DEF Sheet!TypeOK, Sheet!Shown
  <2>3. \A c \in DOMAIN col_specs : col_specs[c].v => Cells[c] = Dashes[c]
    <3> SUFFICES ASSUME NEW c \in DOMAIN col_specs, col_specs[c].v
                 PROVE  Sheet!Cell(col_specs[c], all_data[r][c]) = col_specs[c].w
      BY <2>2
    <3>1. col_specs[c].w \in Nat /\ col_specs[c].w - 2 > 0
      BY <1>3
    <3>2. Sheet!fmt(col_specs[c].w - 2, all_data[r][c]) = col_specs[c].w - 2
      BY <3>1 DEF Sheet!fmt
    <3>3. QED
      BY <3>1, <3>2, AdaptedIs DEF Sheet!Cell
  <2>4. Sheet!Line(w, Cells) = Sheet!Line(w, Dashes)
    BY <2>2, <2>3, SameLine
  <2>5. QED
    BY <2>1, <2>4 DEF Sheet!RowLine, Sheet!Ruler
<1>6. Sheet!make = {R}
  <2>1. Sheet!ToSet(sheet_head) = {R} /\ Sheet!ToSet(foot) = {R} /\ Sheet!ToSet(sepa) = {R}
    BY <1>1, <1>4 DEF Laid, Sheet!ToSet
  <2>2. \A r \in Sheet!Shown(row_specs) : Sheet!ToSet(sepa) \cup {Sheet!RowLine(r)} = {R}
    BY <1>5, <2>1
  <2>3. QED
    BY <2>1, <2>2 DEF Sheet!make
<1>7. Cardinality({R}) = 1
  BY FS_Singleton
<1>8. QED
  BY <1>6, <1>7 DEF Sheet!Cardinality, Cardinality

-----------------------------------------------------------------------------
(* TimeDiff *)

Sample == [send_at : Nat, serv_at : Nat, recv_at : Nat, latency : 0 .. MaxTravel]

Estimated(d) == Diff!Estimate(d.send_at, d.serv_at, d.recv_at)

\* The last n of a sequence
LastOf(q, n) == SubSeq(q, Len(q) - n + 1, Len(q))

(* The query under way: none; one whose answer is on its way from the moment it
   was sent; or one that was answered in the meantime. *)
UnderWay ==
  \/ asked = Diff!None /\ served = Diff!None
  \/ /\ asked \in Nat /\ warm = 3 /\ Len(difs) < MaxRounds
     /\ \/ served = Diff!None /\ asked = clock
        \/ /\ served \in Nat
           /\ asked <= served + Ahead /\ served + Ahead <= clock /\ clock <= asked + MaxTravel

\* The numbers of q go from lo to hi.
Spans(q, lo, hi) ==
  /\ \E i \in 1 .. Len(q) : hi = q[i]
  /\ \E i \in 1 .. Len(q) : lo = q[i]
  /\ \A i \in 1 .. Len(q) : lo <= q[i] /\ q[i] <= hi

\* What is kept up of the numbers of q is what all of them together have.
Follows(s, q) ==
  /\ s.cnt = Len(q) /\ s.sum = Sum(q)
  /\ s.sqr = Sum([i \in 1 .. Len(q) |-> q[i] * q[i]])
  /\ IF q = <<>> THEN s.max = Diff!Lowest /\ s.min = Diff!Highest ELSE Spans(q, s.min, s.max)

\* The samples, and what is displayed of them
Collected ==
  /\ difs \in Seq(Sample) /\ Len(difs) <= MaxRounds
  /\ \A i \in 1 .. Len(difs) :
       /\ difs[i].send_at <= difs[i].recv_at
       /\ Estimated(difs[i]) \in Int
       /\ Estimated(difs[i]) - Ahead <= difs[i].latency + 1
       /\ Ahead - Estimated(difs[i]) <= difs[i].latency + 1
  /\ time_diff.cnt \in 0 .. Len(difs)
  /\ time_diff.sum = Sum(LastOf(Diff!Diffs, time_diff.cnt))
  /\ Follows(trans_lag, Diff!Lags)

DiffInv ==
  /\ clock \in Nat /\ Diff!Start <= clock /\ new_line \in Nat /\ warm \in 0 .. 3
  /\ UnderWay
  /\ Collected

LEMMA SameSum == ASSUME NEW q PROVE Diff!Sum(q) = Sum(q)
BY DEF Diff!Sum, Sum, Diff!SumsOf, SumsOf

(* An answer that was given while the query was under way: the mean of the two
   times of the client is off by half of the time under way at most. *)
LEMMA HalfWay ==
  ASSUME NEW s \in Nat, NEW r \in Nat, NEW c \in Int, s <= c, c <= r
  PROVE  /\ (r \div 2 + s \div 2) - c <= ((r - s) \div 2) + 1
         /\ c - (r \div 2 + s \div 2) <= ((r - s) \div 2) + 1
OBVIOUS

(* The two samples of an answer. *)
LEMMA SampleTypes ==
  ASSUME Collected, NEW i \in 1 .. Len(difs)
  PROVE  /\ difs[i] \in Sample /\ difs[i].latency \in 0 .. MaxTravel
         /\ difs[i].send_at \in Nat /\ difs[i].serv_at \in Nat /\ difs[i].recv_at \in Nat
<1>1. difs[i] \in Sample
  BY ElementOfSeq DEF Collected
<1>2. QED
  BY <1>1 DEF Sample

LEMMA SamplesOf ==
  ASSUME Diff!Params, Collected
  PROVE  /\ Len(difs) \in Nat
         /\ Diff!Lags \in Seq(Int) /\ Len(Diff!Lags) = Len(difs)
         /\ \A i \in 1 .. Len(difs) : Diff!Lags[i] = difs[i].latency
         /\ Diff!Diffs \in Seq(Int) /\ Len(Diff!Diffs) = Len(difs)
         /\ \A i \in 1 .. Len(difs) : Diff!Diffs[i] = Estimated(difs[i])
<1>1. Len(difs) \in Nat /\ DOMAIN difs = 1 .. Len(difs)
  BY DEF Collected
<1>2. MaxTravel \in Nat
  BY DEF Diff!Params
<1>3. \A i \in 1 .. Len(difs) : difs[i].latency \in Int /\ Estimated(difs[i]) \in Int
  BY <1>2, SampleTypes DEF Collected
<1>4. /\ Diff!Lags = [i \in 1 .. Len(difs) |-> difs[i].latency]
      /\ Diff!Diffs = [i \in 1 .. Len(difs) |-> Estimated(difs[i])]
  BY <1>1 DEF Diff!Lags, Diff!Diffs, Estimated
<1>5. QED
  BY <1>1, <1>3, <1>4

LEMMA DiffInitInv == ASSUME Diff!Params, Diff!Init PROVE DiffInv
<1>1. Diff!Lags = <<>> /\ Diff!Diffs = <<>>
  BY DEF Diff!Init, Diff!Lags, Diff!Diffs
<1>2. LastOf(<<>>, 0) = <<>>
  BY DEF LastOf
<1>3. [i \in 1 .. Len(<<>>) |-> <<>>[i] * <<>>[i]] = <<>>
  OBVIOUS
<1>4. Follows(trans_lag, Diff!Lags)
  BY <1>1, <1>3, SumEmpty DEF Follows, Diff!Init, Diff!NewStat
<1>5. Collected
  BY <1>1, <1>2, <1>4, SumEmpty DEF Collected, Diff!Init, Diff!NewStat, Diff!Params
<1>6. QED
  BY <1>5 DEF DiffInv, UnderWay, Diff!Init, Diff!Start, Diff!Params

LEMMA StaysCollected ==
  ASSUME Collected, UNCHANGED <<difs, trans_lag, time_diff>>
  PROVE  Collected'
<1>1. /\ Diff!Lags' = Diff!Lags /\ Diff!Diffs' = Diff!Diffs
  BY DEF Diff!Lags, Diff!Diffs, Diff!Estimate
<1>2. QED
  BY <1>1 DEF Collected, Follows, LastOf, Estimated, Diff!Estimate, Sample

LEMMA WarmUpInv == ASSUME Diff!Params, DiffInv, Diff!WarmUp PROVE DiffInv'
<1>1. PICK lag \in 0 .. MaxTravel : clock' = clock + lag
  BY DEF Diff!WarmUp
<1>2. UnderWay'
  BY DEF DiffInv, UnderWay, Diff!WarmUp, Diff!None
<1>3. Collected'
  BY StaysCollected DEF DiffInv, Diff!WarmUp
<1>4. QED
  BY <1>1, <1>2, <1>3 DEF DiffInv, Diff!WarmUp, Diff!Start, Diff!Params

LEMMA SendInv == ASSUME Diff!Params, DiffInv, Diff!Send PROVE DiffInv'
<1>1. UnderWay'
  BY DEF DiffInv, UnderWay, Diff!Send, Diff!None
<1>2. Collected'
  BY StaysCollected DEF DiffInv, Diff!Send
<1>3. QED
  BY <1>1, <1>2 DEF DiffInv, Diff!Send, Diff!Start

LEMMA ServeTimeInv == ASSUME Diff!Params, DiffInv, Diff!ServeTime PROVE DiffInv'
<1>1. PICK lag \in 0 .. MaxTravel : clock' = clock + lag
  BY DEF Diff!ServeTime
<1>2. MaxTravel \in Nat /\ Ahead \in Int /\ Ahead <= 100
  BY DEF Diff!Params, Diff!Start
<1>3. clock' \in Nat /\ 100 <= clock' /\ served' = clock' - Ahead
  BY <1>1, <1>2 DEF DiffInv, Diff!Start, Diff!ServeTime
<1>4. UnderWay'
  BY <1>1, <1>2, <1>3 DEF DiffInv, UnderWay, Diff!ServeTime, Diff!None
<1>5. Collected'
  BY StaysCollected DEF DiffInv, Diff!ServeTime
<1>6. QED
  BY <1>3, <1>4, <1>5 DEF DiffInv, Diff!ServeTime, Diff!Start

LEMMA AppendIs ==
  ASSUME NEW l \in Seq(Int), NEW x \in Int
  PROVE  Append(l, x) = [i \in 1 .. Len(l) + 1 |-> IF i = Len(l) + 1 THEN x ELSE l[i]]
<1> DEFINE p == Append(l, x)
<1>1. /\ Len(l) \in Nat /\ p \in Seq(Int) /\ Len(p) = Len(l) + 1 /\ p[Len(l) + 1] = x
      /\ \A i \in 1 .. Len(l) : p[i] = l[i]
  OBVIOUS
<1> HIDE DEF p
<1>2. p = [i \in 1 .. Len(p) |-> p[i]]
  BY <1>1
<1>3. \A i \in 1 .. Len(l) + 1 : p[i] = IF i = Len(l) + 1 THEN x ELSE l[i]
  BY <1>1
<1>4. QED
  BY <1>1, <1>2, <1>3 DEF p

(* What is kept up of numbers goes on to be that of one more. *)
LEMMA Updated ==
  ASSUME NEW q \in Seq(Int), NEW x \in Diff!Lowest .. Diff!Highest, NEW s, Follows(s, q)
  PROVE  Follows(Diff!update(s, x), Append(q, x))
<1> DEFINE p == Append(q, x)
           n == Len(q)
           t == Diff!update(s, x)
<1>1. /\ x \in Int /\ n \in Nat /\ p \in Seq(Int) /\ Len(p) = n + 1 /\ p # <<>>
      /\ p[n + 1] = x /\ \A i \in 1 .. n : p[i] = q[i] /\ q[i] \in Int
      /\ Diff!Lowest <= x /\ x <= Diff!Highest
  BY DEF Diff!Lowest, Diff!Highest
<1>2. s.max \in Int /\ s.min \in Int
  <2>1. CASE q = <<>>
    BY <2>1 DEF Follows, Diff!Lowest, Diff!Highest
  <2>2. CASE q # <<>>
    BY <1>1, <2>2 DEF Follows, Spans
  <2>3. QED
    BY <2>1, <2>2
<1>3. /\ t.max = IF s.max >= x THEN s.max ELSE x
      /\ t.min = IF s.min <= x THEN s.min ELSE x
  <2>1. Diff!Max({s.max, x}) = Max({s.max, x}) /\ Diff!Min({s.min, x}) = Min({s.min, x})
    BY DEF Diff!Max, Max, Diff!Min, Min
  <2>2. QED
    BY <1>1, <1>2, <2>1, MaxOfTwo, MinOfTwo DEF Diff!update
<1>4. t.cnt = Len(p) /\ t.sum = Sum(p)
  BY <1>1, SumAppend DEF Diff!update, Follows
<1>5. t.sqr = Sum([i \in 1 .. Len(p) |-> p[i] * p[i]])
  <2> DEFINE a == [i \in 1 .. n |-> q[i] * q[i]]
             b == [i \in 1 .. Len(p) |-> p[i] * p[i]]
  <2>1. x * x \in Int /\ \A i \in 1 .. n : q[i] * q[i] \in Int
    BY <1>1
  <2>2. a \in Seq(Int) /\ Len(a) = n
    BY <1>1, <2>1
  <2>3. \A i \in 1 .. n + 1 : b[i] = IF i = n + 1 THEN x * x ELSE a[i]
    BY <1>1
  <2>4. Append(a, x * x) = [i \in 1 .. n + 1 |-> IF i = n + 1 THEN x * x ELSE a[i]]
    BY <2>1, <2>2, AppendIs
  <2>5. b = Append(a, x * x)
    BY <1>1, <2>3, <2>4
  <2>6. Sum(b) = Sum(a) + x * x
    <3> HIDE DEF a, b
    <3>1. QED
      BY <2>1, <2>2, <2>5, SumAppend
  <2>7. QED
    BY <2>6 DEF Diff!update, Follows
<1> HIDE DEF t
<1>6. /\ \E i \in 1 .. n + 1 : t.max = p[i]
      /\ \E i \in 1 .. n + 1 : t.min = p[i]
      /\ \A i \in 1 .. n + 1 : t.min <= p[i] /\ p[i] <= t.max
  <2> HIDE DEF p
  <2>1. CASE q = <<>>
    <3>1. n = 0 /\ s.max <= x /\ x <= s.min
      BY <1>1, <2>1 DEF Follows, Spans
    <3>2. t.max = x /\ t.min = x
      BY <1>1, <1>2, <1>3, <3>1
    <3>3. QED
      BY <1>1, <3>1, <3>2
  <2>2. CASE q # <<>>
    <3>1. /\ \E i \in 1 .. n : s.max = q[i]
          /\ \E i \in 1 .. n : s.min = q[i]
          /\ \A i \in 1 .. n : s.min <= q[i] /\ q[i] <= s.max
      BY <2>2 DEF Follows, Spans
    <3>2. \E i \in 1 .. n + 1 : t.max = p[i]
      <4>1. PICK i \in 1 .. n : s.max = q[i]
        BY <3>1
      <4>2. i \in 1 .. n + 1 /\ p[i] = q[i] /\ n + 1 \in 1 .. n + 1
        BY <1>1
      <4>3. QED
        BY <1>1, <1>3, <4>1, <4>2
    <3>3. \E i \in 1 .. n + 1 : t.min = p[i]
      <4>1. PICK i \in 1 .. n : s.min = q[i]
        BY <3>1
      <4>2. i \in 1 .. n + 1 /\ p[i] = q[i] /\ n + 1 \in 1 .. n + 1
        BY <1>1
      <4>3. QED
        BY <1>1, <1>3, <4>1, <4>2
    <3>4. ASSUME NEW i \in 1 .. n + 1 PROVE t.min <= p[i] /\ p[i] <= t.max
      <4>1. CASE i = n + 1
        BY <1>1, <1>2, <1>3, <4>1
      <4>2. CASE i \in 1 .. n
        <5>1. p[i] = q[i] /\ q[i] \in Int /\ s.min <= q[i] /\ q[i] <= s.max
          BY <1>1, <3>1, <4>2
        <5>2. QED
          BY <1>1, <1>2, <1>3, <5>1, SMTT(30)
      <4>3. QED
        BY <1>1, <4>1, <4>2
    <3>5. QED
      BY <3>2, <3>3, <3>4
  <2>3. QED
    BY <2>1, <2>2
<1>7. QED
  BY <1>1, <1>4, <1>5, <1>6 DEF Follows, Spans, t

(* One more number is one more of the last. *)
LEMMA LastAppended ==
  ASSUME NEW q \in Seq(Int), NEW x \in Int, NEW n \in 0 .. Len(q)
  PROVE  /\ Sum(LastOf(Append(q, x), n + 1)) = Sum(LastOf(q, n)) + x
         /\ Sum(LastOf(q, 0)) = 0
<1> DEFINE p == Append(q, x)
           a == LastOf(q, n)
           b == LastOf(p, n + 1)
<1>1. /\ Len(q) \in Nat /\ p \in Seq(Int) /\ Len(p) = Len(q) + 1 /\ p[Len(q) + 1] = x
      /\ \A i \in 1 .. Len(q) : p[i] = q[i] /\ q[i] \in Int
  OBVIOUS
<1> HIDE DEF p
<1>2. a \in Seq(Int) /\ Len(a) = n /\ \A i \in 1 .. n : a[i] = q[Len(q) - n + i]
  BY <1>1 DEF LastOf
<1>3. b \in Seq(Int) /\ Len(b) = n + 1 /\ \A i \in 1 .. n + 1 : b[i] = p[Len(q) - n + i]
  BY <1>1, SMTT(30) DEF LastOf
<1>4. b[n + 1] = x
  <2>1. n + 1 \in 1 .. n + 1 /\ Len(q) - n + (n + 1) = Len(q) + 1
    BY <1>1
  <2>2. b[n + 1] = p[Len(q) - n + (n + 1)]
    BY <1>3, <2>1, Zenon
  <2>3. QED
    BY <1>1, <2>1, <2>2
<1>5. \A i \in 1 .. n : b[i] = a[i]
  <2> SUFFICES ASSUME NEW i \in 1 .. n PROVE b[i] = a[i]
    OBVIOUS
  <2>1. Len(q) - n + i \in 1 .. Len(q) /\ i \in 1 .. n + 1
    BY <1>1
  <2>2. QED
    BY <1>1, <1>2, <1>3, <2>1
<1> HIDE DEF a, b
<1>6. b = Append(a, x)
  BY <1>1, <1>2, <1>3, <1>4, <1>5
<1>7. Sum(b) = Sum(a) + x
  BY <1>1, <1>2, <1>6, SumAppend
<1>8. LastOf(q, 0) = <<>>
  BY <1>1 DEF LastOf
<1>9. QED
  BY <1>7, <1>8, SumEmpty DEF a, b, p

LEMMA ReceiveInv == ASSUME Diff!Params, DiffInv, Diff!Receive PROVE DiffInv'
<1>1. PICK lag \in 0 .. MaxTravel :
        LET recv == clock + lag
            late == (recv - asked) \div 2
        IN  /\ clock' = recv + Diff!Pause
            /\ difs' = Append(difs, [send_at |-> asked, serv_at |-> served,
                                     recv_at |-> recv, latency |-> late])
            /\ Diff!Shown(late, Diff!Estimate(asked, served, recv))
  BY DEF Diff!Receive
<1> DEFINE recv == clock + lag
           late == (recv - asked) \div 2
           d == [send_at |-> asked, serv_at |-> served, recv_at |-> recv, latency |-> late]
           est == Diff!Estimate(asked, served, recv)
<1>2. /\ MaxTravel \in Nat /\ MaxTravel <= 1000 /\ Ahead \in Int
      /\ NewLine \in Nat /\ clock \in Nat /\ clock >= Diff!Start /\ warm \in 0 .. 3
  BY DEF Diff!Params, DiffInv, Diff!Highest
<1>3. /\ asked \in Nat /\ served \in Nat /\ warm = 3 /\ Len(difs) < MaxRounds
      /\ asked <= served + Ahead /\ served + Ahead <= clock /\ clock <= asked + MaxTravel
  BY DEF Diff!Receive, DiffInv, UnderWay, Diff!None
<1>4. recv \in Nat /\ asked <= recv /\ served + Ahead <= recv /\ recv <= asked + 2 * MaxTravel
  BY <1>2, <1>3, SMTT(30)
<1>5. late \in 0 .. MaxTravel /\ late \in Diff!Lowest .. Diff!Highest
  <2>1. late \in 0 .. MaxTravel
    BY <1>2, <1>3, <1>4
  <2>2. QED
    BY <1>2, <2>1 DEF Diff!Lowest, Diff!Highest
<1>6. est \in Int /\ est - Ahead <= late + 1 /\ Ahead - est <= late + 1
  <2> DEFINE c == served + Ahead
             half == recv \div 2 + asked \div 2
  <2>1. c \in Int /\ asked <= c /\ c <= recv /\ half \in Int
    BY <1>2, <1>3, <1>4
  <2>2. half - c <= late + 1 /\ c - half <= late + 1
    <3> HIDE DEF c, recv
    <3>1. QED
      BY <1>3, <1>4, <2>1, HalfWay
  <2>3. est = half - served
    <3>1. est = recv \div 2 + (asked \div 2 - served)
      BY DEF Diff!Estimate
    <3>2. recv \div 2 \in Int /\ asked \div 2 \in Int
      BY <1>3, <1>4
    <3> HIDE DEF recv, est
    <3>3. QED
      BY <1>3, <3>1, <3>2
  <2> HIDE DEF half, late, est
  <2>4. QED
    BY <1>2, <1>3, <1>5, <2>1, <2>2, <2>3
<1>7. Estimated(d) = est /\ d \in Sample
  BY <1>3, <1>4, <1>5 DEF Estimated, Sample
<1>8. difs' = Append(difs, d) /\ clock' = recv + Diff!Pause /\ Diff!Shown(late, est)
  BY <1>1
<1>9. Collected
  BY DEF DiffInv
<1>10. d.send_at <= d.recv_at /\ d.latency = late
  BY <1>4
<1> HIDE DEF recv, late, est, d
<1>11. /\ Len(difs) \in Nat /\ difs \in Seq(Sample)
       /\ difs' \in Seq(Sample) /\ Len(difs') = Len(difs) + 1
       /\ difs'[Len(difs) + 1] = d
       /\ \A i \in 1 .. Len(difs) : difs'[i] = difs[i]
  BY <1>7, <1>8, <1>9 DEF Collected
<1>12. /\ Diff!Lags \in Seq(Int) /\ Diff!Lags' = Append(Diff!Lags, late)
       /\ Len(Diff!Lags) = Len(difs)
  <2>1. Diff!Lags' = [i \in 1 .. Len(difs) + 1 |-> difs'[i].latency]
    BY <1>11 DEF Diff!Lags
  <2>2. /\ Diff!Lags \in Seq(Int) /\ Len(Diff!Lags) = Len(difs)
        /\ \A i \in 1 .. Len(difs) : Diff!Lags[i] = difs[i].latency
    BY <1>9, SamplesOf
  <2> DEFINE l == Diff!Lags
  <2> HIDE DEF l
  <2>3. Append(l, late) = [i \in 1 .. Len(difs) + 1 |-> IF i = Len(difs) + 1 THEN late ELSE l[i]]
    <3>1. l \in Seq(Int) /\ Len(l) = Len(difs)
      BY <2>2 DEF l
    <3>2. QED
      BY <1>5, <3>1, AppendIs
  <2>4. \A i \in 1 .. Len(difs) + 1 :
          difs'[i].latency = IF i = Len(difs) + 1 THEN late ELSE l[i]
    BY <1>10, <1>11, <2>2 DEF l
  <2>5. QED
    BY <2>1, <2>2, <2>3, <2>4 DEF l
<1>13. /\ Diff!Diffs \in Seq(Int) /\ Diff!Diffs' = Append(Diff!Diffs, est)
       /\ Len(Diff!Diffs) = Len(difs)
  <2>1. Diff!Diffs' = [i \in 1 .. Len(difs) + 1 |-> Estimated(difs'[i])]
    BY <1>11 DEF Diff!Diffs, Estimated
  <2>2. /\ Diff!Diffs \in Seq(Int) /\ Len(Diff!Diffs) = Len(difs)
        /\ \A i \in 1 .. Len(difs) : Diff!Diffs[i] = Estimated(difs[i])
    BY <1>9, SamplesOf
  <2> DEFINE l == Diff!Diffs
  <2> HIDE DEF l
  <2>3. Append(l, est) = [i \in 1 .. Len(difs) + 1 |-> IF i = Len(difs) + 1 THEN est ELSE l[i]]
    <3>1. l \in Seq(Int) /\ Len(l) = Len(difs)
      BY <2>2 DEF l
    <3>2. QED
      BY <1>6, <3>1, AppendIs
  <2>4. \A i \in 1 .. Len(difs) + 1 :
          Estimated(difs'[i]) = IF i = Len(difs) + 1 THEN est ELSE l[i]
    BY <1>7, <1>11, <2>2, SMTT(30) DEF l
  <2>5. QED
    BY <2>1, <2>2, <2>3, <2>4 DEF l
<1>14. Follows(trans_lag, Diff!Lags)'
  <2>1. trans_lag' = Diff!update(trans_lag, late)
    BY <1>8 DEF Diff!Shown
  <2>2. Follows(trans_lag, Diff!Lags)
    BY <1>9 DEF Collected
  <2>3. Follows(Diff!update(trans_lag, late), Append(Diff!Lags, late))
    BY <1>5, <1>12, <2>2, Updated
  <2>4. QED
    BY <1>12, <2>1, <2>3 DEF Follows
<1>15. /\ time_diff'.cnt \in 0 .. Len(difs')
       /\ time_diff'.sum = Sum(LastOf(Diff!Diffs', time_diff'.cnt))
       /\ new_line' \in Nat
  <2>1. time_diff.cnt \in 0 .. Len(difs) /\ time_diff.sum = Sum(LastOf(Diff!Diffs, time_diff.cnt))
    BY <1>9 DEF Collected
  <2>2. CASE asked > new_line
    <3>1. time_diff' = Diff!NewStat /\ new_line' = asked + NewLine
      BY <1>8, <2>2 DEF Diff!Shown
    <3>2. Diff!Diffs' \in Seq(Int)
      BY <1>6, <1>13
    <3>3. Sum(LastOf(Diff!Diffs', 0)) = 0
      <4>1. 0 \in 0 .. Len(Diff!Diffs')
        BY <3>2
      <4>2. QED
        BY <1>6, <3>2, <4>1, LastAppended
    <3>4. QED
      BY <1>2, <1>3, <1>11, <3>1, <3>3 DEF Diff!NewStat
  <2>3. CASE ~ (asked > new_line)
    <3>1. time_diff' = Diff!update(time_diff, est) /\ new_line' = new_line
      BY <1>8, <2>3 DEF Diff!Shown
    <3>2. time_diff'.cnt = time_diff.cnt + 1 /\ time_diff'.sum = time_diff.sum + est
      BY <3>1 DEF Diff!update
    <3>3. Sum(LastOf(Append(Diff!Diffs, est), time_diff.cnt + 1))
            = Sum(LastOf(Diff!Diffs, time_diff.cnt)) + est
      BY <1>6, <1>13, <2>1, LastAppended
    <3>4. QED
      BY <1>11, <1>13, <2>1, <3>1, <3>2, <3>3 DEF DiffInv
  <2>4. QED
    BY <2>2, <2>3
<1>16. ASSUME NEW i \in 1 .. Len(difs')
       PROVE  /\ difs'[i].send_at <= difs'[i].recv_at
              /\ Estimated(difs'[i]) \in Int
              /\ Estimated(difs'[i]) - Ahead <= difs'[i].latency + 1
              /\ Ahead - Estimated(difs'[i]) <= difs'[i].latency + 1
  <2>1. CASE i = Len(difs) + 1
    BY <1>6, <1>7, <1>10, <1>11, <2>1
  <2>2. CASE i \in 1 .. Len(difs)
    BY <1>9, <1>11, <2>2 DEF Collected
  <2>3. QED
    BY <1>11, <2>1, <2>2
<1>17. Collected'
  <2>1. Len(difs') <= MaxRounds
    BY <1>3, <1>11 DEF Diff!Params
  <2>2. Sample' = Sample
    BY DEF Sample
  <2>3. \A x : Estimated(x)' = Estimated(x)
    BY DEF Estimated, Diff!Estimate
  <2>4. LastOf(Diff!Diffs, time_diff.cnt)' = LastOf(Diff!Diffs', time_diff'.cnt)
    BY DEF LastOf
  <2>5. QED
    BY <1>11, <1>14, <1>15, <1>16, <2>1, <2>4 DEF Collected, Estimated, Diff!Estimate, Sample
<1>18. UnderWay'
  BY DEF UnderWay, Diff!Receive, Diff!None
<1>19. clock' \in Nat /\ Diff!Start <= clock'
  <2>1. clock' = recv + 1 /\ recv \in Nat /\ Diff!Start <= recv
    BY <1>2, <1>4, <1>8, SMTT(30) DEF Diff!Pause, Diff!Start, recv
  <2>2. QED
    BY <2>1 DEF Diff!Start
<1>20. QED
  BY <1>2, <1>8, <1>15, <1>17, <1>18, <1>19 DEF DiffInv, Diff!Receive

LEMMA DiffNextInv ==
  ASSUME Diff!Params, DiffInv, Diff!Next \/ UNCHANGED diff_vars
  PROVE  DiffInv'
<1>1. CASE UNCHANGED diff_vars
  <2>1. /\ UNCHANGED <<difs, trans_lag, time_diff>>
        /\ UNCHANGED <<clock, warm, asked, served, new_line>>
    BY <1>1 DEF diff_vars
  <2>2. Collected'
    BY <2>1, StaysCollected DEF DiffInv
  <2>3. UnderWay'
    BY <2>1 DEF DiffInv, UnderWay, Diff!None
  <2>4. QED
    BY <2>1, <2>2, <2>3 DEF DiffInv, Diff!Start
<1>2. QED
  BY <1>1, WarmUpInv, SendInv, ServeTimeInv, ReceiveInv DEF Diff!Next

LEMMA AbsIs == ASSUME NEW n \in Int PROVE Diff!Abs(n) = IF n < 0 THEN -n ELSE n
BY DEF Diff!Abs

\* The last n of some numbers are n of them.
LEMMA LastOfIs ==
  ASSUME NEW q \in Seq(Int), NEW n \in 0 .. Len(q)
  PROVE  /\ LastOf(q, n) \in Seq(Int) /\ Len(LastOf(q, n)) = n
         /\ \A i \in 1 .. n : LastOf(q, n)[i] = q[Len(q) - n + i]
<1> DEFINE lo == Len(q) - n + 1
           x == SubSeq(q, lo, Len(q))
<1>1. Len(q) \in Nat /\ lo \in Nat /\ Len(q) \in Int /\ \A i \in lo .. Len(q) : q[i] \in Int
  OBVIOUS
<1>2. /\ x \in Seq(Int) /\ Len(x) = IF lo <= Len(q) THEN Len(q) - lo + 1 ELSE 0
      /\ \A i \in 1 .. Len(q) - lo + 1 : x[i] = q[lo + i - 1]
  BY <1>1, SubSeqProperties, SMTT(30)
<1> HIDE DEF x
<1>3. Len(x) = n /\ Len(q) - lo + 1 = n
  BY <1>1, <1>2
<1>4. ASSUME NEW i \in 1 .. n PROVE x[i] = q[Len(q) - n + i]
  <2>1. lo + i - 1 = Len(q) - n + i
    BY <1>1
  <2>2. QED
    BY <1>2, <1>3, <2>1
<1>5. QED
  BY <1>2, <1>3, <1>4 DEF LastOf, x

(* The last n estimates of a session are off by their latencies at most. *)
LEMMA RecentOff ==
  ASSUME Diff!Params, Collected, NEW n \in 0 .. Len(difs)
  PROVE  Diff!Abs(Sum(LastOf(Diff!Diffs, n)) - n * Ahead) <= Sum(LastOf(Diff!Lags, n)) + n
<1> DEFINE X == Diff!Diffs
           L == Diff!Lags
           x == LastOf(X, n)
           l == LastOf(L, n)
<1>1. /\ Len(difs) \in Nat /\ Ahead \in Int
      /\ X \in Seq(Int) /\ Len(X) = Len(difs)
      /\ L \in Seq(Int) /\ Len(L) = Len(difs)
  BY SamplesOf DEF Diff!Params
<1>2. \A i \in 1 .. Len(difs) : X[i] - Ahead <= L[i] + 1 /\ Ahead - X[i] <= L[i] + 1
  BY SamplesOf DEF Collected
<1> HIDE DEF X, L
<1>3. x \in Seq(Int) /\ Len(x) = n /\ \A i \in 1 .. n : x[i] = X[Len(difs) - n + i]
  BY <1>1, LastOfIs, ZenonT(60)
<1>4. l \in Seq(Int) /\ Len(l) = n /\ \A i \in 1 .. n : l[i] = L[Len(difs) - n + i]
  BY <1>1, LastOfIs, ZenonT(60)
<1>5. \A i \in 1 .. n : x[i] - Ahead <= l[i] + 1 /\ Ahead - x[i] <= l[i] + 1
  <2> SUFFICES ASSUME NEW i \in 1 .. n
               PROVE  x[i] - Ahead <= l[i] + 1 /\ Ahead - x[i] <= l[i] + 1
    OBVIOUS
  <2>1. Len(difs) - n + i \in 1 .. Len(difs)
    BY <1>1
  <2>2. QED
    BY <1>2, <1>3, <1>4, <2>1
<1> HIDE DEF x, l
<1>6. Sum(x) - n * Ahead <= Sum(l) + n /\ n * Ahead - Sum(x) <= Sum(l) + n
  BY <1>1, <1>3, <1>4, <1>5, SumWithin
<1>7. Sum(x) \in Int /\ Sum(l) \in Int /\ n * Ahead \in Int
  BY <1>1, <1>3, <1>4, SumInt
<1> DEFINE off == Sum(x) - n * Ahead
<1>8. off \in Int /\ off <= Sum(l) + n /\ -off <= Sum(l) + n
  BY <1>6, <1>7
<1> HIDE DEF off
<1>9. Diff!Abs(off) <= Sum(l) + n
  BY <1>8, AbsIs
<1>10. QED
  BY <1>9 DEF off, x, l, X, L

LEMMA OffBy == ASSUME Diff!Params, DiffInv PROVE Diff!OffByLatency
<1>1. Collected /\ Len(difs) \in Nat
  BY SamplesOf DEF DiffInv
<1>2. Len(Diff!Diffs) = Len(difs) /\ Len(Diff!Lags) = Len(difs)
  BY <1>1, SamplesOf
<1>3. ASSUME NEW n \in {Len(difs), time_diff.cnt}
      PROVE  /\ Diff!Abs(Diff!Sum(SubSeq(Diff!Diffs, Len(difs) - n + 1, Len(difs))) - n * Ahead)
                  <= Diff!Sum(SubSeq(Diff!Lags, Len(difs) - n + 1, Len(difs))) + n
             /\ n = time_diff.cnt =>
                  time_diff.sum = Diff!Sum(SubSeq(Diff!Diffs, Len(difs) - n + 1, Len(difs)))
  <2>1. n \in 0 .. Len(difs)
    BY <1>1 DEF Collected
  <2>2. /\ SubSeq(Diff!Diffs, Len(difs) - n + 1, Len(difs)) = LastOf(Diff!Diffs, n)
        /\ SubSeq(Diff!Lags, Len(difs) - n + 1, Len(difs)) = LastOf(Diff!Lags, n)
    BY <1>2 DEF LastOf
  <2>3. /\ Diff!Sum(LastOf(Diff!Diffs, n)) = Sum(LastOf(Diff!Diffs, n))
        /\ Diff!Sum(LastOf(Diff!Lags, n)) = Sum(LastOf(Diff!Lags, n))
    BY SameSum
  <2>4. Diff!Abs(Sum(LastOf(Diff!Diffs, n)) - n * Ahead) <= Sum(LastOf(Diff!Lags, n)) + n
    BY <1>1, <2>1, RecentOff
  <2>5. time_diff.sum = Sum(LastOf(Diff!Diffs, time_diff.cnt))
    BY <1>1 DEF Collected
  <2>6. QED
    BY <2>2, <2>3, <2>4, <2>5
<1>4. QED
  BY <1>3 DEF Diff!OffByLatency

(* What there is in a session has its type. *)
LEMMA SessionTypes == ASSUME Diff!Params, DiffInv PROVE Diff!TypeOK
<1>1. Collected
  BY DEF DiffInv
<1>2. ASSUME NEW d \in Diff!ToSet(difs) PROVE d.send_at <= d.recv_at /\ d.latency \in Nat
  <2>1. PICK i \in 1 .. Len(difs) : d = difs[i]
    BY <1>1 DEF Diff!ToSet, Collected
  <2>2. d.latency \in 0 .. MaxTravel /\ MaxTravel \in Nat
    BY <1>1, <2>1, SampleTypes DEF Diff!Params
  <2>3. QED
    BY <1>1, <2>1, <2>2 DEF Collected
<1>3. asked \in Nat \cup {Diff!None} /\ served \in Nat \cup {Diff!None}
  BY DEF DiffInv, UnderWay
<1>4. QED
  BY <1>1, <1>2, <1>3 DEF DiffInv, Collected, Diff!TypeOK

(* Numbers in order begin with the least of them and end with the greatest. *)
LEMMA Ends ==
  ASSUME NEW q \in Seq(Int), q # <<>>, NEW s, InOrder(s, q, Len(q)), NEW a \in Int, NEW b \in Int,
         Spans(q, b, a)
  PROVE  s[Len(q)] = a /\ s[1] = b
<1> DEFINE n == Len(q)
<1>1. /\ n \in Nat /\ 1 \in 1 .. n /\ n \in 1 .. n
      /\ s \in Seq(Int) /\ Len(s) = n
      /\ \A i \in 1 .. n : s[i] \in Int /\ q[i] \in Int /\ s[1] <= s[i] /\ s[i] <= s[n]
  <2>1. n \in Nat /\ n # 0 /\ \A i \in 1 .. n : q[i] \in Int
    OBVIOUS
  <2>2. s \in Seq(Int) /\ Len(s) = n /\ Ascending(s)
    BY DEF InOrder
  <2> HIDE DEF n
  <2>3. \A i \in 1 .. n : s[i] \in Int
    BY <2>2
  <2>4. 1 \in 1 .. n /\ n \in 1 .. n
    BY <2>1
  <2>5. \A i \in 1 .. n : s[1] <= s[i] /\ s[i] <= s[n]
    BY <2>1, <2>2, <2>4 DEF Ascending
  <2>6. QED
    BY <2>1, <2>2, <2>3, <2>4, <2>5
<1> HIDE DEF n
<1>2. /\ \A i \in 1 .. n : \E j \in 1 .. n : s[i] = q[j]
      /\ \A j \in 1 .. n : \E i \in 1 .. n : s[i] = q[j]
  BY DEF InOrder, n
<1>3. s[n] = a
  <2>1. PICK i \in 1 .. n : a = q[i]
    BY DEF n, Spans
  <2>2. PICK k \in 1 .. n : s[k] = q[i]
    BY <1>2
  <2>3. PICK j \in 1 .. n : s[n] = q[j]
    BY <1>1, <1>2
  <2>4. s[k] <= s[n] /\ q[j] <= a /\ s[n] \in Int
    BY <1>1 DEF n, Spans
  <2>5. QED
    BY <2>1, <2>2, <2>3, <2>4
<1>4. s[1] = b
  <2>1. PICK i \in 1 .. n : b = q[i]
    BY DEF n, Spans
  <2>2. PICK k \in 1 .. n : s[k] = q[i]
    BY <1>2
  <2>3. PICK j \in 1 .. n : s[1] = q[j]
    BY <1>1, <1>2
  <2>4. s[1] <= s[k] /\ b <= q[j] /\ s[1] \in Int
    BY <1>1 DEF n, Spans
  <2>5. QED
    BY <2>1, <2>2, <2>3, <2>4
<1>5. QED
  BY <1>3, <1>4 DEF n

LEMMA SameSorted == ASSUME NEW q PROVE Diff!Sorted(q) = Sorted(q)
BY DEF Diff!Sorted, Sorted, Diff!SortsOf, SortsOf, Diff!Insert, Insert, Diff!InsertAt, InsertAt

(* What was kept up of the numbers of q is what Statistic_t finds in the end. *)
LEMMA FollowsInTheEnd ==
  ASSUME NEW q \in Seq(Int), q # <<>>, NEW t, Follows(t, q)
  PROVE  LET end == Diff!Statistic(q)
         IN  /\ <<t.cnt, t.sum, t.max, t.min>> = <<end.cnt, end.sum, end.max, end.min>>
             /\ end.cnt * Diff!VarOf(t) = end.var
<1> DEFINE n == Len(q)
           s == Sorted(q)
           end == Diff!Statistic(q)
           dev == [i \in 1 .. n |-> n * s[i] - Sum(s)]
           sq == [i \in 1 .. n |-> q[i] * q[i]]
           ss == Sum(sq)
           su == Sum(q)
<1>1. /\ n \in Nat /\ n # 0 /\ DOMAIN q = 1 .. n
      /\ \A i \in 1 .. n : q[i] \in Int
  OBVIOUS
<1>2. InOrder(s, q, n)
  BY SortedInOrder
<1>3. s \in Seq(Int) /\ Len(s) = n
  BY <1>2 DEF InOrder
<1> HIDE DEF s
<1>4. ASSUME NEW f \in [Int -> Int]
      PROVE  Sum([i \in 1 .. n |-> f[s[i]]]) = Sum([i \in 1 .. n |-> f[q[i]]])
  <2>1. Sum(ValuesOf(f, s)) = SumsOf(ValuesOf(f, q))[n]
    BY <1>2 DEF InOrder
  <2>2. Len(ValuesOf(f, q)) = n
    BY <1>1 DEF ValuesOf
  <2>3. ValuesOf(f, s) = [i \in 1 .. n |-> f[s[i]]]
    BY <1>3 DEF ValuesOf
  <2>4. ValuesOf(f, q) = [i \in 1 .. n |-> f[q[i]]]
    BY DEF ValuesOf
  <2>5. Sum(ValuesOf(f, q)) = SumsOf(ValuesOf(f, q))[n]
    BY <2>2 DEF Sum
  <2>6. QED
    BY <2>1, <2>3, <2>4, <2>5
<1>5. Sum(s) = su
  <2> DEFINE id == [z \in Int |-> z]
  <2>1. id \in [Int -> Int]
    OBVIOUS
  <2>2. [i \in 1 .. n |-> id[s[i]]] = s
    BY <1>3
  <2>3. [i \in 1 .. n |-> id[q[i]]] = q
    BY <1>1
  <2> HIDE DEF id
  <2>4. QED
    BY <1>4, <2>1, <2>2, <2>3
<1>6. /\ end.cnt = n /\ end.sum = Sum(s) /\ end.max = s[n] /\ end.min = s[1]
      /\ end.var = Sum(Diff!Squares(dev))
  <2>1. Diff!Sorted(q) = s /\ Diff!Sum(s) = Sum(s)
    BY SameSorted, SameSum DEF s
  <2>2. Diff!Sum(Diff!Squares(dev)) = Sum(Diff!Squares(dev))
    BY SameSum
  <2> HIDE DEF n
  <2>3. QED
    BY <1>1, <1>3, <2>1, <2>2 DEF Diff!Statistic
<1>7. su \in Int /\ ss \in Int
  <2>1. sq \in Seq(Int)
    BY <1>1
  <2> HIDE DEF sq
  <2>2. QED
    BY <2>1, SumInt
<1>8. Sum(Diff!Squares(dev)) = (n * n) * ss - (2 * n * su) * su + n * (su * su)
  <2> HIDE DEF su
  <2> DEFINE f == [z \in Int |-> (n * z - su) * (n * z - su)]
  <2>1. \A z \in Int : (n * z - su) * (n * z - su) \in Int
    BY <1>1, <1>7
  <2>2. f \in [Int -> Int]
    BY <2>1
  <2>3. Diff!Squares(dev) = [i \in 1 .. n |-> dev[i] * dev[i]]
    BY DEF Diff!Squares
  <2>4. [i \in 1 .. n |-> dev[i] * dev[i]] = [i \in 1 .. n |-> f[s[i]]]
    <3>1. ASSUME NEW i \in 1 .. n PROVE dev[i] * dev[i] = f[s[i]]
      <4>1. dev[i] = n * s[i] - su /\ s[i] \in Int
        BY <1>3, <1>5
      <4>2. f[s[i]] = (n * s[i] - su) * (n * s[i] - su)
        BY <4>1
      <4> HIDE DEF f, dev
      <4>3. QED
        BY <4>1, <4>2
    <3> HIDE DEF f, dev
    <3>2. QED
      BY <3>1, Zenon
  <2> DEFINE D == [i \in 1 .. n |-> (n * q[i] - su) * (n * q[i] - su)]
  <2>5. [i \in 1 .. n |-> f[q[i]]] = D
    BY <1>1
  <2>6. Sum([i \in 1 .. n |-> f[s[i]]]) = Sum([i \in 1 .. n |-> f[q[i]]])
    BY <1>4, <2>2
  <2>7. Sum(D) = (n * n) * Sum(sq) - (2 * n * su) * Sum(q) + Len(q) * (su * su)
    <3>1. n \in Int /\ su \in Int
      BY <1>1, <1>7
    <3> HIDE DEF n
    <3>2. Sum([i \in 1 .. Len(q) |-> (n * q[i] - su) * (n * q[i] - su)])
            = (n * n) * Sum([i \in 1 .. Len(q) |-> q[i] * q[i]])
                - (2 * n * su) * Sum(q) + Len(q) * (su * su)
      BY <3>1, Deviations, Zenon
    <3>3. QED
      BY <3>2, Zenon DEF n
  <2> HIDE DEF f, dev, D, sq
  <2>8. QED
    BY <2>3, <2>4, <2>5, <2>6, <2>7 DEF su
<1>9. /\ t.cnt = n /\ t.sum = su /\ t.sqr = ss
      /\ t.max = s[n] /\ t.min = s[1]
  <2>1. t.cnt = n /\ t.sum = su /\ t.sqr = ss
    BY DEF Follows
  <2>2. Spans(q, t.min, t.max)
    BY DEF Follows
  <2>3. t.max \in Int /\ t.min \in Int
    BY <1>1, <2>2 DEF Spans
  <2>4. s[n] = t.max /\ s[1] = t.min
    BY <1>2, <2>2, <2>3, Ends
  <2>5. QED
    BY <2>1, <2>4
<1>10. n * Diff!VarOf(t) = (n * n) * ss - (2 * n * su) * su + n * (su * su)
  <2>1. CASE n = 1
    <3>1. Diff!VarOf(t) = 0
      BY <1>9, <2>1 DEF Diff!VarOf
    <3>2. su = q[1] /\ ss = q[1] * q[1]
      <4>1. \A r : Len(r) = 1 => Sum(r) = 0 + r[1]
        <5> SUFFICES ASSUME NEW r, Len(r) = 1 PROVE Sum(r) = 0 + r[1]
          OBVIOUS
        <5>1. SumsOf(r)[0] = 0 /\ SumsOf(r)[1] = SumsOf(r)[1 - 1] + r[1]
          BY SumsStep
        <5>2. QED
          BY <5>1 DEF Sum
      <4>2. Len(sq) = 1 /\ sq[1] = q[1] * q[1] /\ q[1] * q[1] \in Int
        BY <1>1, <2>1
      <4> HIDE DEF sq
      <4>3. QED
        BY <1>1, <2>1, <4>1, <4>2
    <3> HIDE DEF su, ss, n
    <3>3. q[1] \in Int /\ su * su = ss
      BY <1>1, <2>1, <3>2
    <3>4. (n * n) * ss = ss /\ (2 * n * su) * su = 2 * (su * su) /\ n * (su * su) = su * su
      BY <1>7, <2>1, <3>3
    <3>5. n * Diff!VarOf(t) = 0
      BY <2>1, <3>1
    <3>6. QED
      BY <1>7, <3>3, <3>4, <3>5
  <2>2. CASE n > 1
    <3>1. Diff!VarOf(t) = n * ss - 2 * su * su + su * su
      BY <1>1, <1>9, <2>2 DEF Diff!VarOf
    <3> HIDE DEF su, ss, n
    <3> DEFINE u == su * su
    <3>2. u \in Int /\ 2 * su * su = 2 * u /\ (2 * n * su) * su = 2 * (n * u)
      BY <1>1, <1>7
    <3>3. n * ss \in Int /\ (n * n) * ss = n * (n * ss)
      BY <1>1, <1>7
    <3> DEFINE w == n * ss
    <3>4. n * (w - 2 * u + u) = n * w - 2 * (n * u) + n * u
      <4> HIDE DEF u, w
      <4>1. u \in Int /\ w \in Int
        BY <3>2, <3>3 DEF w
      <4>2. w - 2 * u + u = w - u /\ n * (w - u) = n * w - n * u
        BY <1>1, <4>1
      <4>3. n * w \in Int /\ n * u \in Int
        BY <1>1, <4>1
      <4>4. QED
        BY <4>2, <4>3
    <3>5. QED
      BY <3>1, <3>2, <3>3, <3>4
  <2>3. QED
    BY <1>1, <2>1, <2>2
<1>11. QED
  <2> HIDE DEF end, dev, n, su, ss
  <2>1. n * Diff!VarOf(t) = end.var
    BY <1>6, <1>8, <1>10
  <2>2. QED
    BY <1>5, <1>6, <1>9, <2>1 DEF end

LEMMA SameEnd == ASSUME Diff!Params, DiffInv PROVE Diff!SameInTheEnd
<1>1. SUFFICES ASSUME difs # <<>>
               PROVE  LET end == Diff!Statistic(Diff!Lags)
                      IN  /\ <<trans_lag.cnt, trans_lag.sum, trans_lag.max, trans_lag.min>>
                               = <<end.cnt, end.sum, end.max, end.min>>
                          /\ end.cnt * Diff!VarOf(trans_lag) = end.var
  BY DEF Diff!SameInTheEnd
<1>2. Collected
  BY DEF DiffInv
<1>3. Diff!Lags \in Seq(Int) /\ Len(Diff!Lags) = Len(difs) /\ Len(difs) \in Nat
  BY <1>2, SamplesOf
<1>4. Diff!Lags # <<>>
  <2>1. Len(difs) # 0
    BY <1>1, <1>2 DEF Collected
  <2>2. QED
    BY <1>3, <2>1
<1>5. Follows(trans_lag, Diff!Lags)
  BY <1>2 DEF Collected
<1>6. QED
  BY <1>3, <1>4, <1>5, FollowsInTheEnd, Zenon

-----------------------------------------------------------------------------
(* The parts together *)

PartsInv ==
  /\ RingInv /\ StackInv /\ ClockInv /\ SheetInv
  /\ HugeInv /\ CpuInv /\ ProcInv /\ DiffInv

LEMMA EachInit ==
  Init => /\ RingInit /\ StackInit /\ ClockInit /\ Sheet!Init
          /\ Huge!Init /\ Cpu!Init /\ Proc!Init /\ Diff!Init
BY DEF Init

LEMMA EachNext ==
  [Next]_vars => /\ [RingNext]_ring_vars /\ [StackNext]_stack_vars /\ [ClockNext]_clock_vars
                 /\ [Sheet!Next]_sheet_vars /\ [Huge!Next]_huge_vars /\ [Cpu!Next]_cpu_vars
                 /\ [Proc!Next]_proc_vars /\ [Diff!Next]_diff_vars
<1>1. CASE UNCHANGED vars
  BY <1>1 DEF vars
<1>2. ASSUME NEW p, Only(p)
      PROVE  /\ p = "ring" \/ UNCHANGED ring_vars
             /\ p = "stack" \/ UNCHANGED stack_vars
             /\ p = "clock" \/ UNCHANGED clock_vars
             /\ p = "sheet" \/ UNCHANGED sheet_vars
             /\ p = "huge" \/ UNCHANGED huge_vars
             /\ p = "cpu" \/ UNCHANGED cpu_vars
             /\ p = "proc" \/ UNCHANGED proc_vars
             /\ p = "diff" \/ UNCHANGED diff_vars
  BY <1>2, Zenon DEF Only
<1>3. CASE Only("ring") /\ RingNext
  BY <1>2, <1>3
<1>4. CASE Only("stack") /\ StackNext
  BY <1>2, <1>4
<1>5. CASE Only("clock") /\ ClockNext
  BY <1>2, <1>5
<1>6. CASE Only("sheet") /\ Sheet!Next
  BY <1>2, <1>6
<1>7. CASE Only("huge") /\ Huge!Next
  BY <1>2, <1>7
<1>8. CASE Only("cpu") /\ Cpu!Next
  BY <1>2, <1>8
<1>9. CASE Only("proc") /\ Proc!Next
  BY <1>2, <1>9
<1>10. CASE Only("diff") /\ Diff!Next
  BY <1>2, <1>10
<1>11. QED
  BY <1>1, <1>3, <1>4, <1>5, <1>6, <1>7, <1>8, <1>9, <1>10 DEF Next

(* Each part behaves as by itself: chosen or not, what it does is what its own
   specification lets it do. *)
THEOREM EachPart ==
  Spec => /\ RingSpec /\ StackSpec /\ ClockSpec /\ Sheet!Spec
          /\ Huge!Spec /\ Cpu!Spec /\ Proc!Spec /\ Diff!Spec
<1>1. /\ Sheet!vars = sheet_vars /\ Huge!vars = huge_vars /\ Cpu!vars = cpu_vars
      /\ Proc!vars = proc_vars /\ Diff!vars = diff_vars
  BY DEF Sheet!vars, sheet_vars, Huge!vars, huge_vars, Cpu!vars, cpu_vars,
         Proc!vars, proc_vars, Diff!vars, diff_vars
<1>2. [Next]_vars => /\ [Sheet!Next]_Sheet!vars /\ [Huge!Next]_Huge!vars /\ [Cpu!Next]_Cpu!vars
                     /\ [Proc!Next]_Proc!vars /\ [Diff!Next]_Diff!vars
  BY EachNext DEF Sheet!vars, sheet_vars, Huge!vars, huge_vars, Cpu!vars, cpu_vars,
                  Proc!vars, proc_vars, Diff!vars, diff_vars
<1>3. QED
  BY EachInit, EachNext, <1>2, PTL
     DEF Spec, RingSpec, StackSpec, ClockSpec, Sheet!Spec, Huge!Spec, Cpu!Spec, Proc!Spec, Diff!Spec

(* The invariants of the parts are inductive together. *)
THEOREM Inductive == Spec => []PartsInv
<1>1. ASSUME Init PROVE PartsInv
  BY <1>1, EachInit, ParamsAssumption, RingInitInv, StackInitInv, ClockInitInv, SheetInitInv,
     HugeInitInv, CpuInitInv, ProcInitInv, DiffInitInv
     DEF PartsInv
<1>2. ASSUME PartsInv, [Next]_vars PROVE PartsInv'
  BY <1>2, EachNext, ParamsAssumption, RingNextInv, StackNextInv, ClockNextInv, SheetNextInv,
     HugeNextInv, CpuNextInv, ProcNextInv, DiffNextInv
     DEF PartsInv
<1>3. QED
  BY <1>1, <1>2, PTL DEF Spec

(* The types of all parts: the widths of a sheet go with its columns, what is
   mapped are whole pages, processors and processes are among those there are, and
   a session has no more queries than it may. *)
THEOREM TypeCorrect == Spec => []TypeOK
<1>1. ASSUME PartsInv PROVE TypeOK
  <2>1. RingTypeOK /\ StackTypeOK /\ ClockTypeOK
    BY <1>1, ParamsAssumption, ClockGoesOn DEF PartsInv, RingInv, StackInv
  <2>2. Sheet!TypeOK /\ Huge!TypeOK /\ Cpu!TypeOK /\ Proc!TypeOK
    BY <1>1 DEF PartsInv, SheetInv, HugeInv, CpuInv, ProcInv
  <2>3. Diff!TypeOK
    BY <1>1, ParamsAssumption, SessionTypes DEF PartsInv
  <2>4. QED
    BY <2>1, <2>2, <2>3 DEF TypeOK
<1>2. QED
  BY <1>1, Inductive, PTL

(* The lines of a table are all of the same width, whatever rows and columns were
   added, hidden, filled and drawn anew. *)
THEOREM Tables == Spec => []Aligned
<1>1. PartsInv => Aligned
  BY AllAligned DEF PartsInv, Aligned
<1>2. QED
  BY <1>1, Inductive, PTL

(* What the program believes of its mapping, of the processors of its threads and
   of its children is what the kernel has, however any of them ends. *)
THEOREM KernelBelieved == Spec => []KernelAgrees
<1>1. PartsInv => KernelAgrees
  BY DEF PartsInv, HugeInv, CpuInv, ProcInv, KernelAgrees
<1>2. QED
  BY <1>1, Inductive, PTL

(* However long the messages of a session take and however many queries it has,
   the estimate is off by the mean latency and the rounding at most, and what was
   displayed on the way is what all samples together give. *)
THEOREM Sessions == Spec => []SessionTells
<1>1. PartsInv => SessionTells
  BY ParamsAssumption, OffBy, SameEnd DEF PartsInv, SessionTells
<1>2. QED
  BY <1>1, Inductive, PTL

(* What the parts promise by themselves they keep here: the elements of the ring
   and its answers, the calls that are printed, the accuracy of the clock, and
   that calibrating makes it no worse. *)
THEOREM PartsKept ==
  Spec => [](Contents /\ AnswersTell /\ ShownIsOpen /\ Accurate) /\ KeepImproves
<1>1. /\ RingSpec => []Contents
      /\ RingSpec => []AnswersTell
      /\ StackSpec => []ShownIsOpen
      /\ ClockSpec => []Accurate
      /\ ClockSpec => KeepImproves
  BY ParamsAssumption, RingContents, RingAnswers, StackShown, ClockAccurate, CalibrationImproves
<1>2. QED
  BY <1>1, EachPart, PTL
=============================================================================
