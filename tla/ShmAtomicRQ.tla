----------------------------- MODULE ShmAtomicRQ -----------------------------
(***************************************************************************)
(* ShmAtmRQ_t: the multi-producer multi-consumer ring that processes share *)
(* through POSIX shared memory (include/leonutils/ShmAtomicRQ.hpp and      *)
(* src/ShmAtomicRQ.cpp), from the moment make() has laid the ring out.     *)
(*                                                                         *)
(* Every load, store and compare-exchange of a word in shared memory is a  *)
(* step of its own; what a call does with its locals is part of the next   *)
(* such step.  A process that is never scheduled again is a process that   *)
(* was killed at that point: the shared words stay as it left them.        *)
(* Interleaving is sequentially consistent, which is what the x86-64 build *)
(* gives this code: a locked CAS separates the two halves of a call, and a *)
(* tag store that lingers in a store buffer is a tag store taken later.    *)
(***************************************************************************)
EXTENDS Integers

CONSTANTS
  Producer,   \* processes (threads) that call enque
  Consumer,   \* processes that call deque and clear
  Observer,   \* processes that call size, full and empty
  Goods,      \* payloads; the 112 bytes of a node are one value
  None,       \* a payload buffer nobody has written yet
  Capa,       \* _capa, a power of two, so that "& _mask" is "% Capa"
  WeakCas,    \* may compare_exchange_weak fail spuriously?  not on x86
  MaxTail,    \* bound: no enque starts once _tail has reached MaxTail
  MaxErrs     \* bound: _errs saturates at MaxErrs

ASSUME CapaAssumption == Capa \in Nat \ {0}
ASSUME NoneAssumption == None \notin Goods
ASSUME BoundAssumption == MaxTail \in Nat /\ MaxErrs \in Nat
ASSUME CasAssumption == WeakCas \in BOOLEAN

Proc == Producer \cup Consumer \cup Observer

Ring == 0 .. Capa - 1

\* _base + ( idx & _mask )
Slot(idx) == idx % Capa

\* "if( ++try_cnt > 3 )"
TRIES == 3

VARIABLES
  head, tail,     \* Meta_t::_head and _tail
  h_tag, t_tag,   \* Node_t::h_tag and t_tag of every node
  goods,          \* Node_t::goods of every node
  errs,           \* _errs of every process's own ShmAtmRQ_t object
  pc,             \* the shared access a process takes next
  cur,            \* cur_idx (in size, full, empty: the local tail)
  old,            \* old_idx of enque
  tries,          \* try_cnt
  buf,            \* *g_: what enque sends or deque hands out
  clearing,       \* the processes whose deque is called by clear()
  log             \* history: log[i] is the payload of the enque that won index i

shared == <<head, tail, h_tag, t_tag, goods>>
vars == <<head, tail, h_tag, t_tag, goods, errs, pc, cur, old, tries, buf,
          clearing, log>>

\* The ring as the loop at the end of make() leaves it.
Init ==
  /\ head = 0
  /\ tail = 0
  /\ h_tag = [k \in Ring |-> k - Capa]
  /\ t_tag = [k \in Ring |-> k]
  /\ goods = [k \in Ring |-> None]
  /\ errs = [p \in Proc |-> 0]
  /\ pc = [p \in Proc |-> "idle"]
  /\ cur = [p \in Proc |-> 0]
  /\ old = [p \in Proc |-> -1]
  /\ tries = [p \in Proc |-> 0]
  /\ buf = [p \in Proc |-> None]
  /\ clearing = {}
  /\ log = <<>>

-----------------------------------------------------------------------------
(* Beginning and end of a call *)

Call(p, first, g) ==
  /\ pc[p] = "idle"
  /\ pc' = [pc EXCEPT ![p] = first]
  /\ buf' = [buf EXCEPT ![p] = g]
  /\ UNCHANGED <<cur, old, tries>>

\* The call returns and its locals are gone.
Return(p) ==
  /\ pc' = [pc EXCEPT ![p] = "idle"]
  /\ cur' = [cur EXCEPT ![p] = 0]
  /\ old' = [old EXCEPT ![p] = -1]
  /\ tries' = [tries EXCEPT ![p] = 0]
  /\ buf' = [buf EXCEPT ![p] = None]
  /\ clearing' = clearing \ {p}

CountError(p) ==
  errs' = [errs EXCEPT ![p] = IF @ < MaxErrs THEN @ + 1 ELSE @]

GoTo(p, label) == pc' = [pc EXCEPT ![p] = label]

-----------------------------------------------------------------------------
(* bool enque( const void* ) *)

EnqCall(p, g) ==
  /\ tail < MaxTail
  /\ Call(p, "enq_load", g)
  /\ UNCHANGED <<shared, errs, clearing, log>>

\* cur_idx = m_tail.load()
EnqLoad(p) ==
  /\ pc[p] = "enq_load"
  /\ cur' = [cur EXCEPT ![p] = tail]
  /\ GoTo(p, "enq_tag")
  /\ UNCHANGED <<shared, errs, old, tries, buf, clearing, log>>

\* A slip: try_cnt is never set back to 0.
EnqRetry_NeverReset(p, c) ==
  \/ tries[p] = TRIES /\ CountError(p) /\ Return(p)
  \/ /\ tries[p] < TRIES
     /\ cur' = [cur EXCEPT ![p] = c]
     /\ old' = [old EXCEPT ![p] = c]
     /\ tries' = [tries EXCEPT ![p] = @ + 1]
     /\ GoTo(p, "enq_load")
     /\ UNCHANGED <<errs, buf, clearing>>

\* A slip: try_cnt is set back to 0 every time round.
EnqRetry_AlwaysReset(p, c) ==
  /\ cur' = [cur EXCEPT ![p] = c]
  /\ old' = [old EXCEPT ![p] = c]
  /\ tries' = [tries EXCEPT ![p] = 1]
  /\ GoTo(p, "enq_load")
  /\ UNCHANGED <<errs, buf, clearing>>

(* The rest of the loop body once the slot was not won: c is cur_idx, which a
   failed compare-exchange has overwritten with the tail it met.  The tries
   are counted anew whenever the index moved. *)
EnqRetry(p, c) ==
  LET n == IF c # old[p] THEN 1 ELSE tries[p] + 1
  IN \/ /\ n > TRIES
        /\ CountError(p)
        /\ Return(p)
     \/ /\ n <= TRIES
        /\ cur' = [cur EXCEPT ![p] = c]
        /\ old' = [old EXCEPT ![p] = c]
        /\ tries' = [tries EXCEPT ![p] = n]
        /\ GoTo(p, "enq_load")
        /\ UNCHANGED <<errs, buf, clearing>>

\* A slip: the node is claimed whether it is recycled or not.
EnqTagFree_Unchecked(p) ==
  /\ pc[p] = "enq_tag"
  /\ GoTo(p, "enq_cas")
  /\ UNCHANGED <<shared, errs, cur, old, tries, buf, clearing, log>>

\* cur_nod->t_tag.load() == cur_idx: the node is recycled and may be claimed
EnqTagFree(p) ==
  /\ pc[p] = "enq_tag"
  /\ t_tag[Slot(cur[p])] = cur[p]
  /\ GoTo(p, "enq_cas")
  /\ UNCHANGED <<shared, errs, cur, old, tries, buf, clearing, log>>

EnqTagBusy(p) ==
  /\ pc[p] = "enq_tag"
  /\ t_tag[Slot(cur[p])] # cur[p]
  /\ EnqRetry(p, cur[p])
  /\ UNCHANGED <<shared, log>>

\* A slip: the node is published before it is filled.
EnqCasWin_Published(p) ==
  /\ pc[p] = "enq_cas"
  /\ tail = cur[p]
  /\ tail' = tail + 1
  /\ h_tag' = [h_tag EXCEPT ![Slot(tail)] = tail]
  /\ log' = [i \in 0 .. tail |-> IF i = tail THEN buf[p] ELSE log[i]]
  /\ GoTo(p, "enq_copy")
  /\ UNCHANGED <<head, t_tag, goods, errs, cur, old, tries, buf, clearing>>

\* m_tail.compare_exchange_weak( cur_idx, cur_idx + 1 )
EnqCasWin(p) ==
  /\ pc[p] = "enq_cas"
  /\ tail = cur[p]
  /\ tail' = tail + 1
  /\ log' = [i \in 0 .. tail |-> IF i = tail THEN buf[p] ELSE log[i]]
  /\ GoTo(p, "enq_copy")
  /\ UNCHANGED <<head, h_tag, t_tag, goods, errs, cur, old, tries, buf,
                 clearing>>

EnqCasLose(p) ==
  /\ pc[p] = "enq_cas"
  /\ tail # cur[p] \/ WeakCas
  /\ EnqRetry(p, tail)
  /\ UNCHANGED <<shared, log>>

\* _errs.store( 0 ) and memcpy() into the node
EnqCopy(p) ==
  /\ pc[p] = "enq_copy"
  /\ goods' = [goods EXCEPT ![Slot(cur[p])] = buf[p]]
  /\ errs' = [errs EXCEPT ![p] = 0]
  /\ GoTo(p, "enq_pub")
  /\ UNCHANGED <<head, tail, h_tag, t_tag, cur, old, tries, buf, clearing, log>>

\* A slip: the tag published is the next index.
EnqPublish_NextTag(p) ==
  /\ pc[p] = "enq_pub"
  /\ h_tag' = [h_tag EXCEPT ![Slot(cur[p])] = cur[p] + 1]
  /\ Return(p)
  /\ UNCHANGED <<head, tail, t_tag, goods, errs, log>>

\* cur_nod->h_tag.store( cur_idx ); return true
EnqPublish(p) ==
  /\ pc[p] = "enq_pub"
  /\ h_tag' = [h_tag EXCEPT ![Slot(cur[p])] = cur[p]]
  /\ Return(p)
  /\ UNCHANGED <<head, tail, t_tag, goods, errs, log>>

-----------------------------------------------------------------------------
(* bool deque( void* ) and void clear(), which calls it until it says false *)

DeqCall(p) ==
  /\ Call(p, "deq_load", None)
  /\ UNCHANGED <<shared, errs, clearing, log>>

ClearCall(p) ==
  /\ Call(p, "deq_load", None)
  /\ clearing' = clearing \cup {p}
  /\ UNCHANGED <<shared, errs, log>>

\* cur_idx = m_head.load()
DeqLoad(p) ==
  /\ pc[p] = "deq_load"
  /\ cur' = [cur EXCEPT ![p] = head]
  /\ GoTo(p, "deq_tag")
  /\ UNCHANGED <<shared, errs, old, tries, buf, clearing, log>>

\* A slip: the node is drained whether it is filled or not.
DeqTagReady_Unchecked(p) ==
  /\ pc[p] = "deq_tag"
  /\ GoTo(p, "deq_cas")
  /\ UNCHANGED <<shared, errs, cur, old, tries, buf, clearing, log>>

DeqTagReady(p) ==
  /\ pc[p] = "deq_tag"
  /\ h_tag[Slot(cur[p])] = cur[p]
  /\ GoTo(p, "deq_cas")
  /\ UNCHANGED <<shared, errs, cur, old, tries, buf, clearing, log>>

\* A slip: the tag is compared with the next index.
DeqTagMiss_NextTag(p) ==
  /\ pc[p] = "deq_tag"
  /\ h_tag[Slot(cur[p])] # cur[p] + 1
  /\ Return(p)
  /\ UNCHANGED <<shared, errs, log>>

\* cur_nod->h_tag.load() != cur_idx: "the queue is empty", return false
DeqTagMiss(p) ==
  /\ pc[p] = "deq_tag"
  /\ h_tag[Slot(cur[p])] # cur[p]
  /\ Return(p)
  /\ UNCHANGED <<shared, errs, log>>

\* A slip: the head is stored without being compared.
DeqCasWin_Store(p) ==
  /\ pc[p] = "deq_cas"
  /\ head' = cur[p] + 1
  /\ GoTo(p, "deq_copy")
  /\ UNCHANGED <<tail, h_tag, t_tag, goods, errs, cur, old, tries, buf,
                 clearing, log>>

DeqCasWin(p) ==
  /\ pc[p] = "deq_cas"
  /\ head = cur[p]
  /\ head' = head + 1
  /\ GoTo(p, "deq_copy")
  /\ UNCHANGED <<tail, h_tag, t_tag, goods, errs, cur, old, tries, buf,
                 clearing, log>>

\* Unlike enque's, this count of tries is never started anew.
DeqCasLose(p) ==
  /\ pc[p] = "deq_cas"
  /\ head # cur[p] \/ WeakCas
  /\ \/ /\ tries[p] + 1 > TRIES
        /\ CountError(p)
        /\ Return(p)
     \/ /\ tries[p] + 1 <= TRIES
        /\ tries' = [tries EXCEPT ![p] = @ + 1]
        /\ GoTo(p, "deq_load")    \* where cur_idx is loaded again
        /\ UNCHANGED <<errs, cur, old, buf, clearing>>
  /\ UNCHANGED <<shared, log>>

\* _errs.store( 0 ) and memcpy() out of the node
DeqCopy(p) ==
  /\ pc[p] = "deq_copy"
  /\ buf' = [buf EXCEPT ![p] = goods[Slot(cur[p])]]
  /\ errs' = [errs EXCEPT ![p] = 0]
  /\ GoTo(p, "deq_pub")
  /\ UNCHANGED <<shared, cur, old, tries, clearing, log>>

\* A slip: the node is handed on a lap too short, by _mask instead of _capa.
DeqRecycle_Mask(p) ==
  /\ pc[p] = "deq_pub"
  /\ t_tag' = [t_tag EXCEPT ![Slot(cur[p])] = cur[p] + Capa - 1]
  /\ Return(p)
  /\ UNCHANGED <<head, tail, h_tag, goods, errs, log>>

\* cur_nod->t_tag.store( cur_idx + _capa ); return true, to clear() or the caller
DeqRecycle(p) ==
  /\ pc[p] = "deq_pub"
  /\ t_tag' = [t_tag EXCEPT ![Slot(cur[p])] = cur[p] + Capa]
  /\ \/ /\ p \notin clearing
        /\ Return(p)
     \/ /\ p \in clearing
        /\ GoTo(p, "deq_load")
        /\ cur' = [cur EXCEPT ![p] = 0]
        /\ tries' = [tries EXCEPT ![p] = 0]
        /\ buf' = [buf EXCEPT ![p] = None]
        /\ UNCHANGED <<old, clearing>>
  /\ UNCHANGED <<head, tail, h_tag, goods, errs, log>>

-----------------------------------------------------------------------------
(* size(), full() and empty(): the tail is loaded first, then the head *)

SizeTail(p) ==
  /\ pc[p] = "idle"
  /\ cur' = [cur EXCEPT ![p] = tail]
  /\ GoTo(p, "size_head")
  /\ UNCHANGED <<shared, errs, old, tries, buf, clearing, log>>

SizeHead(p) ==
  /\ pc[p] = "size_head"
  /\ Return(p)
  /\ UNCHANGED <<shared, errs, log>>

\* What the three answer when they load the head now.
SizeOf(p) == cur[p] - head
\* A slip: full() compares with _mask.
FullOf_Mask(p) == SizeOf(p) >= Capa - 1

FullOf(p) == SizeOf(p) >= Capa
EmptyOf(p) == SizeOf(p) = 0

-----------------------------------------------------------------------------
EnqStep(p) ==
  \/ EnqLoad(p) \/ EnqTagFree(p) \/ EnqTagBusy(p) \/ EnqCasWin(p)
  \/ EnqCasLose(p) \/ EnqCopy(p) \/ EnqPublish(p)

DeqStep(p) ==
  \/ DeqLoad(p) \/ DeqTagReady(p) \/ DeqTagMiss(p) \/ DeqCasWin(p)
  \/ DeqCasLose(p) \/ DeqCopy(p) \/ DeqRecycle(p)

Next ==
  \/ \E p \in Producer : EnqStep(p) \/ \E g \in Goods : EnqCall(p, g)
  \/ \E p \in Consumer : DeqStep(p) \/ DeqCall(p) \/ ClearCall(p)
  \/ \E p \in Observer : SizeTail(p) \/ SizeHead(p)

Spec == Init /\ [][Next]_vars

-----------------------------------------------------------------------------
(* Where a process is *)

Enqueuing == {"enq_load", "enq_tag", "enq_cas", "enq_copy", "enq_pub"}
Dequeuing == {"deq_load", "deq_tag", "deq_cas", "deq_copy", "deq_pub"}

\* Between the CAS on _tail (_head) that won index cur and the tag store.
Fills(p) == pc[p] \in {"enq_copy", "enq_pub"}
Drains(p) == pc[p] \in {"deq_copy", "deq_pub"}

-----------------------------------------------------------------------------
(* The indices stay in order, the tags in their ranges, and the locals of a
   process agree with the call it is in. *)
TypeOK ==
  /\ head \in Nat /\ tail \in Nat
  /\ head <= tail /\ tail <= head + Capa
  /\ h_tag \in [Ring -> Int]
  /\ t_tag \in [Ring -> Nat]
  /\ goods \in [Ring -> Goods \cup {None}]
  /\ errs \in [Proc -> 0 .. MaxErrs]
  /\ pc \in [Proc -> {"idle", "size_head"} \cup Enqueuing \cup Dequeuing]
  /\ cur \in [Proc -> Nat]
  /\ old \in [Proc -> Int]
  /\ tries \in [Proc -> 0 .. TRIES]
  /\ buf \in [Proc -> Goods \cup {None}]
  /\ clearing \subseteq Proc
  /\ log \in [0 .. tail - 1 -> Goods]

(* A node is never in two hands: of the processes between their CAS and their
   tag store, no two work on the same node, whatever interleaving of producers
   and consumers, each of which may have been stalled for laps of the ring. *)
SlotExclusive ==
  \A p, q \in Proc :
    /\ p # q
    /\ Fills(p) \/ Drains(p)
    /\ Fills(q) \/ Drains(q)
    => Slot(cur[p]) # Slot(cur[q])

(* What a deque is about to return for index i is what the enque that won
   index i was given: no payload is lost, torn, repeated or out of order. *)
DeliveredAsSent ==
  \A p \in Proc : pc[p] = "deq_pub" => buf[p] = log[cur[p]]

(* full() never says "full" of a ring with room, although it loads the tail
   before the head and both move: when it answers, every node is taken. *)
FullIsFull == \A p \in Proc :
  pc[p] = "size_head" /\ FullOf(p) => tail - head = Capa

(* The inductive invariant.  Index T = t_tag[k] is the one node k serves now: it
   is free (T >= tail), being filled, filled, or being drained (T < head). *)
NodeInv(k) ==
  LET T == t_tag[k]
  IN /\ Slot(T) = k
     /\ T < head + Capa /\ tail <= T + Capa
     /\ h_tag[k] \in {T - Capa, T}
     /\ T >= tail => h_tag[k] = T - Capa
     /\ T < head => h_tag[k] = T
     /\ h_tag[k] = T => goods[k] = log[T]

ProcInv(p) ==
  LET c == cur[p]
      k == Slot(cur[p])
  IN /\ pc[p] \in Enqueuing => buf[p] \in Goods
     /\ pc[p] \in {"enq_tag", "enq_cas", "size_head"} => c <= tail
     /\ pc[p] \in {"deq_tag", "deq_cas"} => c <= head
     /\ pc[p] = "enq_cas" => t_tag[k] >= c
     /\ pc[p] = "deq_cas" => h_tag[k] >= c
     /\ Fills(p) => /\ head <= c /\ c < tail
                    /\ t_tag[k] = c /\ h_tag[k] = c - Capa
                    /\ buf[p] = log[c]
     /\ pc[p] = "enq_pub" => goods[k] = log[c]
     /\ Drains(p) => c < head /\ t_tag[k] = c /\ h_tag[k] = c
     /\ pc[p] = "deq_pub" => buf[p] = log[c]

Apart(p, q) ==
  (Fills(p) /\ Fills(q)) \/ (Drains(p) /\ Drains(q)) => cur[p] # cur[q]

IInv ==
  /\ TypeOK
  /\ \A k \in Ring : NodeInv(k)
  /\ \A p \in Proc : ProcInv(p)
  /\ \A p, q \in Proc : p # q => Apart(p, q)

-----------------------------------------------------------------------------
(* The ring is a bounded first-in first-out queue: an enque takes effect at its
   CAS on _tail, a deque at its CAS on _head. *)
Queue == [n \in 1 .. tail - head |-> log[head + n - 1]]

Hand == [p \in Proc |-> CASE pc[p] = "deq_copy" -> log[cur[p]]
                           [] pc[p] = "deq_pub" -> buf[p]
                           [] OTHER -> None]

Fifo == INSTANCE BoundedFifo WITH queue <- Queue, hand <- Hand

(* Every behaviour of the ring is one of a bounded FIFO queue in which each
   item accepted is handed out once, in order, to one process. *)
RefinesFifo == Fifo!Spec
=============================================================================
