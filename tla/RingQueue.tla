------------------------------ MODULE RingQueue ------------------------------
(***************************************************************************)
(* RingQue_t<T, SizeType> (include/leonutils/RingQueue.hpp): a ring of one *)
(* thread.  Its indices only grow, modulo what a SizeType can count, and a *)
(* bit mask turns them into places; every answer is computed from the two. *)
(***************************************************************************)
EXTENDS Integers, Sequences, FiniteSetsExt

CONSTANTS
  Goods, Blank,   \* values of T, and the value of a new or moved-from T
  Word,           \* SizeType is unsigned, no narrower than int, and counts
                  \* 0 .. Word - 1
  Wanted,         \* capacities the constructor is asked for
  Most            \* MOST_ELEMENTS, a power of two

VARIABLES
  capa,         \* _mask + 1
  head, tail,   \* _head and _tail
  base,         \* the elements
  queue         \* history: what was put in and not taken out

ring_vars == <<capa, head, tail, base, queue>>

\* std::min( MOST_ELEMENTS, std::bit_ceil( n ) )
CapaOf(n) == Min({Most, Min({c \in {2 ^ k : k \in 0 .. n} : c >= n})})

\* What the module takes of its constants: capacities and the number of values
\* of SizeType are powers of two.
RingParams ==
  /\ Word \in Nat \ {0} /\ Wanted \subseteq Nat
  /\ \A n \in Wanted : CapaOf(n) \in Nat \ {0} /\ Word % CapaOf(n) = 0

\* The constructor throws if SizeType cannot hold the capacity.
Capas == {c \in {CapaOf(n) : n \in Wanted} : c < Word}

RingInit ==
  /\ capa \in Capas
  /\ head = 0 /\ tail = 0
  /\ base = [k \in 0 .. capa - 1 |-> Blank]
  /\ queue = <<>>

\* A slip: the remainder by the mask, not the bits of the mask.
At_ByMask(idx) == IF capa = 1 THEN 0 ELSE idx % (capa - 1)

\* idx & _mask
At(idx) == idx % capa

\* _tail - _head
Difference == (tail - head) % Word

\* A slip: the difference the wrong way round.
size_Reversed == (head - tail) % Word

size == Difference

\* A slip: the ring counts as full one element too late.
full_Late == Difference > capa

full == Difference > capa - 1

(* The operations.  To enque into a full ring, or deque from an empty one, is
   the caller's fault; the caller is taken to ask for the size. *)

\* A slip: the index stops at the largest SizeType.
enque_Saturates(g) ==
  /\ size < capa
  /\ base' = [base EXCEPT ![At(tail)] = g]
  /\ tail' = Min({tail + 1, Word - 1})
  /\ queue' = Append(queue, g)
  /\ UNCHANGED <<capa, head>>

enque(g) ==
  /\ size < capa
  /\ base' = [base EXCEPT ![At(tail)] = g]
  /\ tail' = (tail + 1) % Word
  /\ queue' = Append(queue, g)
  /\ UNCHANGED <<capa, head>>

\* enque() that takes nothing: the element there was, or written through tail()
enqueIndex ==
  /\ size < capa
  /\ tail' = (tail + 1) % Word
  /\ queue' = Append(queue, base[At(tail)])
  /\ UNCHANGED <<capa, head, base>>

\* rq.tail() = g
writeTail(g) ==
  /\ size < capa
  /\ base' = [base EXCEPT ![At(tail)] = g]
  /\ UNCHANGED <<capa, head, tail, queue>>

\* What moving from the element leaves of it is up to T.
deque ==
  /\ size > 0
  /\ base' \in {base, [base EXCEPT ![At(head)] = Blank]}
  /\ head' = (head + 1) % Word
  /\ queue' = Tail(queue)
  /\ UNCHANGED <<capa, tail>>

rtail ==
  /\ size > 0
  /\ tail' = (tail - 1) % Word
  /\ queue' = SubSeq(queue, 1, Len(queue) - 1)
  /\ UNCHANGED <<capa, head, base>>

clear ==
  /\ head' = 0 /\ tail' = 0
  /\ queue' = <<>>
  /\ UNCHANGED <<capa, base>>

RingNext ==
  \/ \E g \in Goods : enque(g) \/ writeTail(g)
  \/ enqueIndex \/ deque \/ rtail \/ clear

RingSpec == RingInit /\ [][RingNext]_ring_vars

-----------------------------------------------------------------------------
\* The type invariant; the history is never longer than the ring.
RingTypeOK ==
  /\ capa \in Nat \ {0} /\ Word % capa = 0
  /\ head \in 0 .. Word - 1 /\ tail \in 0 .. Word - 1
  /\ base \in [0 .. capa - 1 -> Goods \cup {Blank}]
  /\ queue \in Seq(Goods \cup {Blank}) /\ Len(queue) <= capa

(* The ring holds what was put in, in that order, from head() on, however
   often the indices and the places wrap around. *)
Contents ==
  \A i \in 1 .. Len(queue) : base[At(head + i - 1)] = queue[i]

(* size() counts it and full() tells if there is room for one more, on whichever
   sides of the wrap-around of SizeType the two indices are. *)
AnswersTell ==
  /\ size = Len(queue)
  /\ full <=> Len(queue) = capa
=============================================================================
