------------------------- MODULE ShmAtomicRQ_proofs -------------------------
(***************************************************************************)
(* Proofs about ShmAtmRQ_t for every capacity, number of processes and     *)
(* payload: the inductive invariant IInv, what follows from it, that the   *)
(* ring implements a bounded first-in first-out queue, and when it may     *)
(* refuse.                                                                 *)
(***************************************************************************)
EXTENDS ShmAtomicRQ_refusals, NumberLemmas

-----------------------------------------------------------------------------
(* Indices and nodes *)

LEMMA SlotInRing ==
  ASSUME NEW i \in Int
  PROVE  Slot(i) \in Ring
BY CapaAssumption, ModInRange DEF Slot, Ring

LEMMA SlotOfNode ==
  ASSUME NEW k \in Ring
  PROVE  Slot(k) = k
BY CapaAssumption, ModOfSmall DEF Slot, Ring

LEMMA SlotNextLap ==
  ASSUME NEW i \in Int
  PROVE  Slot(i + Capa) = Slot(i)
BY CapaAssumption, NextLap DEF Slot

(* Different indices of one node are at least a lap apart. *)
LEMMA LapApart ==
  ASSUME NEW i \in Int, NEW j \in Int, Slot(i) = Slot(j), i < j
  PROVE  i + Capa <= j
<1>1. SUFFICES ASSUME j < i + Capa PROVE FALSE
  BY CapaAssumption
<1>2. -Capa < j - i /\ j - i < Capa
  BY <1>1, CapaAssumption
<1>3. i = j
  BY <1>2, CapaAssumption, SameNode DEF Slot
<1>4. QED
  BY <1>3

-----------------------------------------------------------------------------
(* The initial ring satisfies the invariant. *)
LEMMA InitIInv == Init => IInv
<1> SUFFICES ASSUME Init PROVE IInv
  OBVIOUS
<1>1. TypeOK
  BY CapaAssumption, BoundAssumption
     DEF Init, TypeOK, Ring, Enqueuing, Dequeuing, TRIES
<1>2. ASSUME NEW k \in Ring PROVE NodeInv(k)
  BY SlotOfNode, CapaAssumption DEF Init, NodeInv, Ring
<1>3. ASSUME NEW p \in Proc PROVE ProcInv(p)
  BY DEF Init, ProcInv, Enqueuing, Fills, Drains
<1>4. ASSUME NEW p \in Proc, NEW q \in Proc PROVE Apart(p, q)
  BY DEF Init, Apart, Fills, Drains
<1>5. QED
  BY <1>1, <1>2, <1>3, <1>4 DEF IInv

-----------------------------------------------------------------------------
(* A step that touches nothing but the locals of p, and leaves p outside the
   stretch between CAS and tag store, needs only be looked at where p is. *)
LEMMA LocalStep ==
  ASSUME IInv, NEW p \in Proc, UNCHANGED <<shared, log>>, TypeOK',
         \A q \in Proc : q # p => /\ pc'[q] = pc[q]
                                  /\ cur'[q] = cur[q]
                                  /\ buf'[q] = buf[q],
         ~Fills(p)', ~Drains(p)', ProcInv(p)'
  PROVE  IInv'
<1>1. ASSUME NEW k \in Ring PROVE NodeInv(k)'
  BY DEF IInv, NodeInv, shared, Ring
<1>2. ASSUME NEW q \in Proc, q # p PROVE ProcInv(q)'
  BY <1>2 DEF IInv, ProcInv, shared, Fills, Drains
<1>3. ASSUME NEW q \in Proc, NEW r \in Proc, q # r PROVE Apart(q, r)'
  BY <1>3 DEF IInv, Apart, Fills, Drains
<1>4. QED
  BY <1>1, <1>2, <1>3 DEF IInv, Ring

(* Return(p) leaves p idle, about which ProcInv and Apart say nothing. *)
LEMMA IdleProc ==
  ASSUME NEW p \in Proc, pc[p] = "idle"
  PROVE  ProcInv(p) /\ ~Fills(p) /\ ~Drains(p)
BY DEF ProcInv, Enqueuing, Fills, Drains

(* A call that returns without having touched the ring. *)
LEMMA ReturnStep ==
  ASSUME IInv, NEW p \in Proc, Return(p), UNCHANGED <<shared, log>>,
         errs' \in [Proc -> 0 .. MaxErrs]
  PROVE  IInv'
<1>1. TypeOK
  BY DEF IInv
<1>2. /\ pc' \in [Proc -> {"idle", "size_head"} \cup Enqueuing \cup Dequeuing]
      /\ cur' \in [Proc -> Nat]
      /\ old' \in [Proc -> Int]
      /\ tries' \in [Proc -> 0 .. TRIES]
      /\ buf' \in [Proc -> Goods \cup {None}]
      /\ clearing' \subseteq Proc
  BY <1>1 DEF TypeOK, Return, TRIES
<1>3. TypeOK'
  BY <1>1, <1>2 DEF TypeOK, shared, Ring
<1>4. pc'[p] = "idle"
  BY <1>1 DEF TypeOK, Return
<1>5. ProcInv(p)' /\ ~Fills(p)' /\ ~Drains(p)'
  BY <1>4 DEF ProcInv, Enqueuing, Fills, Drains
<1>6. QED
  BY <1>1, <1>3, <1>5, LocalStep DEF TypeOK, Return

(* _errs stays within its bound. *)
LEMMA CountErrorType ==
  ASSUME TypeOK, NEW p \in Proc, CountError(p)
  PROVE  errs' \in [Proc -> 0 .. MaxErrs]
BY BoundAssumption DEF TypeOK, CountError

(* The tail of enque's loop, with whatever index it goes on. *)
LEMMA RetryStep ==
  ASSUME IInv, NEW p \in Proc, NEW c \in Nat, pc[p] \in Enqueuing,
         EnqRetry(p, c), UNCHANGED <<shared, log>>
  PROVE  IInv'
<1> DEFINE n == IF c # old[p] THEN 1 ELSE tries[p] + 1
<1>1. TypeOK /\ ProcInv(p)
  BY DEF IInv
<1>2. tries[p] \in 0 .. 3
  BY <1>1 DEF TypeOK, TRIES
<1>3. n = 1 \/ n = tries[p] + 1
  OBVIOUS
<1>4. CASE CountError(p) /\ Return(p)
  BY <1>1, <1>4, CountErrorType, ReturnStep
<1>5. CASE /\ n <= TRIES
           /\ cur' = [cur EXCEPT ![p] = c]
           /\ old' = [old EXCEPT ![p] = c]
           /\ tries' = [tries EXCEPT ![p] = n]
           /\ GoTo(p, "enq_load")
           /\ UNCHANGED <<errs, buf, clearing>>
  <2>1. pc' \in [Proc -> {"idle", "size_head"} \cup Enqueuing \cup Dequeuing]
    BY <1>1, <1>5 DEF TypeOK, GoTo, Enqueuing
  <2>2. n \in 0 .. TRIES
    <3> HIDE DEF n
    <3> QED BY <1>2, <1>3, <1>5 DEF TRIES
  <2>3. tries' \in [Proc -> 0 .. TRIES]
    <3> HIDE DEF n
    <3> QED BY <1>1, <1>5, <2>2 DEF TypeOK
  <2>4. cur' \in [Proc -> Nat] /\ old' \in [Proc -> Int]
    BY <1>1, <1>5 DEF TypeOK
  <2>5. TypeOK'
    BY <1>1, <1>5, <2>1, <2>3, <2>4 DEF TypeOK, shared, Ring
  <2>6. pc'[p] = "enq_load" /\ buf'[p] \in Goods
    BY <1>1, <1>5 DEF TypeOK, GoTo, ProcInv
  <2>7. ProcInv(p)' /\ ~Fills(p)' /\ ~Drains(p)'
    BY <2>6 DEF ProcInv, Enqueuing, Fills, Drains
  <2>8. QED
    BY <1>1, <1>5, <2>5, <2>7, LocalStep DEF TypeOK, GoTo
<1>6. QED
  BY <1>4, <1>5 DEF EnqRetry

(* A step that only moves p to another label, and perhaps loads cur_idx. *)
LEMMA LoadStep ==
  ASSUME IInv, NEW p \in Proc, NEW c \in Nat,
         NEW l \in {"enq_tag", "enq_cas", "deq_tag", "deq_cas", "size_head"},
         GoTo(p, l), cur' = [cur EXCEPT ![p] = c],
         UNCHANGED <<shared, errs, old, tries, buf, clearing, log>>,
         l \in {"enq_tag", "enq_cas"} => pc[p] \in Enqueuing,
         l \in {"enq_tag", "enq_cas", "size_head"} => c <= tail,
         l \in {"deq_tag", "deq_cas"} => c <= head,
         l = "enq_cas" => t_tag[Slot(c)] >= c,
         l = "deq_cas" => h_tag[Slot(c)] >= c
  PROVE  IInv'
<1>1. TypeOK /\ ProcInv(p)
  BY DEF IInv
<1>2. pc' \in [Proc -> {"idle", "size_head"} \cup Enqueuing \cup Dequeuing]
  BY <1>1 DEF TypeOK, GoTo, Enqueuing, Dequeuing
<1>3. TypeOK'
  BY <1>1, <1>2 DEF TypeOK, shared, Ring
<1>4. pc'[p] = l /\ cur'[p] = c /\ buf'[p] = buf[p]
  BY <1>1 DEF TypeOK, GoTo
<1>5. pc[p] \in Enqueuing => buf[p] \in Goods
  BY <1>1 DEF ProcInv
<1>6. ~Fills(p)' /\ ~Drains(p)'
  BY <1>4 DEF Fills, Drains
<1>7. ProcInv(p)'
  BY <1>4, <1>5, <1>6 DEF ProcInv, Enqueuing, shared
<1>8. QED
  BY <1>1, <1>3, <1>6, <1>7, LocalStep DEF TypeOK, GoTo

(* The first step of enque, deque and clear. *)
LEMMA CallStep ==
  ASSUME IInv, NEW p \in Proc, NEW g \in Goods \cup {None},
         NEW l \in {"enq_load", "deq_load"}, l = "enq_load" => g \in Goods,
         Call(p, l, g), UNCHANGED <<shared, errs, log>>,
         clearing' \subseteq Proc
  PROVE  IInv'
<1>1. TypeOK
  BY DEF IInv
<1>2. /\ pc' \in [Proc -> {"idle", "size_head"} \cup Enqueuing \cup Dequeuing]
      /\ buf' \in [Proc -> Goods \cup {None}]
  BY <1>1 DEF TypeOK, Call, Enqueuing, Dequeuing
<1>3. TypeOK'
  BY <1>1, <1>2 DEF TypeOK, Call, shared, Ring
<1>4. pc'[p] = l /\ buf'[p] = g
  BY <1>1 DEF TypeOK, Call
<1>5. ProcInv(p)' /\ ~Fills(p)' /\ ~Drains(p)'
  BY <1>4 DEF ProcInv, Enqueuing, Fills, Drains
<1>6. QED
  BY <1>1, <1>3, <1>5, LocalStep DEF TypeOK, Call

-----------------------------------------------------------------------------
(* The steps that change the ring *)

(* The node of the index that a CAS on _tail has just won is free. *)
LEMMA WonNodeFree ==
  ASSUME IInv, NEW p \in Proc, pc[p] = "enq_cas", tail = cur[p]
  PROVE  /\ t_tag[Slot(tail)] = tail
         /\ h_tag[Slot(tail)] = tail - Capa
         /\ tail < head + Capa
<1> DEFINE k == Slot(tail)
           T == t_tag[k]
<1>1. TypeOK /\ ProcInv(p) /\ head \in Nat /\ tail \in Nat /\ head <= tail
  BY DEF IInv, TypeOK
<1>2. k \in Ring
  BY <1>1, SlotInRing
<1>3. NodeInv(k) /\ T \in Nat
  BY <1>1, <1>2 DEF IInv, TypeOK
<1>4. Slot(T) = k /\ T < head + Capa /\ (T >= tail => h_tag[k] = T - Capa)
  BY <1>3 DEF NodeInv
<1>5. T >= tail
  BY <1>1 DEF ProcInv
<1> HIDE DEF T
<1>6. T = tail
  <2>1. SUFFICES ASSUME T > tail PROVE FALSE
    BY <1>1, <1>3, <1>5
  <2>2. tail + Capa <= T
    BY <2>1, <1>1, <1>3, <1>4, LapApart
  <2>3. QED
    BY <2>2, <1>1, <1>3, <1>4, CapaAssumption
<1>7. QED
  BY <1>1, <1>4, <1>6 DEF T

(* The node of the index that a CAS on _head has just won is filled. *)
LEMMA WonItemReady ==
  ASSUME IInv, NEW p \in Proc, pc[p] = "deq_cas", head = cur[p]
  PROVE  /\ t_tag[Slot(head)] = head
         /\ h_tag[Slot(head)] = head
         /\ head < tail
<1> DEFINE k == Slot(head)
           T == t_tag[k]
           H == h_tag[k]
<1>1. TypeOK /\ ProcInv(p) /\ head \in Nat /\ tail \in Nat /\ head <= tail
  BY DEF IInv, TypeOK
<1>2. k \in Ring
  BY <1>1, SlotInRing
<1>3. NodeInv(k) /\ T \in Nat /\ H \in Int
  BY <1>1, <1>2 DEF IInv, TypeOK
<1>4. /\ Slot(T) = k /\ T < head + Capa /\ H \in {T - Capa, T}
      /\ T >= tail => H = T - Capa
  BY <1>3 DEF NodeInv
<1>5. H >= head
  BY <1>1 DEF ProcInv
<1> HIDE DEF T, H
<1>6. ~(T > head)
  <2>1. SUFFICES ASSUME T > head PROVE FALSE
    OBVIOUS
  <2>2. head + Capa <= T
    BY <2>1, <1>1, <1>3, <1>4, LapApart
  <2>3. QED
    BY <2>2, <1>1, <1>3, <1>4, CapaAssumption
<1>7. T = head /\ H = head /\ head < tail
  BY <1>1, <1>3, <1>4, <1>5, <1>6, CapaAssumption
<1>8. QED
  BY <1>7 DEF T, H

LEMMA EnqCasWinStep ==
  ASSUME IInv, NEW p \in Proc, EnqCasWin(p)
  PROVE  IInv'
<1>1. /\ TypeOK /\ ProcInv(p) /\ head \in Nat /\ tail \in Nat /\ head <= tail
      /\ t_tag \in [Ring -> Nat] /\ h_tag \in [Ring -> Int]
      /\ cur \in [Proc -> Nat]
  BY DEF IInv, TypeOK
<1>2. /\ t_tag[Slot(tail)] = tail
      /\ h_tag[Slot(tail)] = tail - Capa
      /\ tail < head + Capa
  BY WonNodeFree DEF EnqCasWin
<1>3. buf[p] \in Goods /\ cur[p] = tail /\ pc'[p] = "enq_copy"
  BY <1>1 DEF ProcInv, EnqCasWin, GoTo, Enqueuing, TypeOK
<1>4. \A i \in 0 .. tail - 1 : log'[i] = log[i]
  BY <1>1 DEF EnqCasWin
<1>5. log'[tail] = buf[p]
  BY <1>1 DEF EnqCasWin
<1>6. log' \in [0 .. tail' - 1 -> Goods]
  <2>1. tail' - 1 = tail
    BY <1>1 DEF EnqCasWin
  <2>2. ASSUME NEW i \in 0 .. tail
        PROVE  (IF i = tail THEN buf[p] ELSE log[i]) \in Goods
    BY <1>1, <1>3 DEF TypeOK
  <2>3. QED
    BY <2>1, <2>2 DEF EnqCasWin
<1>7. pc' \in [Proc -> {"idle", "size_head"} \cup Enqueuing \cup Dequeuing]
  BY <1>1 DEF TypeOK, EnqCasWin, GoTo, Enqueuing
<1>8. TypeOK'
  BY <1>1, <1>2, <1>6, <1>7, CapaAssumption, SMTT(30) DEF TypeOK, EnqCasWin, Ring
<1>9. ASSUME NEW k \in Ring PROVE NodeInv(k)'
  <2> DEFINE T == t_tag[k]
  <2>1. NodeInv(k) /\ T \in Nat /\ h_tag[k] \in Int
    BY <1>1 DEF IInv
  <2>2. tail + 1 <= T + Capa
    <3>1. SUFFICES ASSUME tail = T + Capa PROVE FALSE
      BY <1>1, <2>1, CapaAssumption DEF NodeInv
    <3>2. Slot(tail) = k
      BY <3>1, <2>1, SlotNextLap DEF NodeInv
    <3>3. QED
      BY <3>1, <3>2, <1>1, <1>2, CapaAssumption
  <2>3. h_tag[k] = T => T \in 0 .. tail - 1
    BY <1>1, <2>1, CapaAssumption DEF NodeInv
  <2>4. t_tag' = t_tag /\ h_tag' = h_tag /\ goods' = goods /\ head' = head
        /\ tail' = tail + 1
    BY DEF EnqCasWin
  <2>5. h_tag[k] = T => goods[k] = log'[T]
    BY <1>4, <2>1, <2>3 DEF NodeInv
  <2>6. QED
    BY <1>1, <2>1, <2>2, <2>4, <2>5 DEF NodeInv
<1>10. ASSUME NEW q \in Proc, q # p PROVE ProcInv(q)'
  <2>1. ProcInv(q) /\ cur[q] \in Nat
    BY <1>1 DEF IInv
  <2>2. UNCHANGED <<head, t_tag, h_tag, goods, cur, buf>> /\ tail' = tail + 1
    BY DEF EnqCasWin
  <2>3. pc'[q] = pc[q]
    BY <1>10, <1>1 DEF EnqCasWin, GoTo, TypeOK
  <2>4. Fills(q) \/ Drains(q) => log'[cur[q]] = log[cur[q]]
    BY <1>1, <1>4, <2>1 DEF ProcInv
  <2>5. QED
    BY <1>1, <2>1, <2>2, <2>3, <2>4 DEF ProcInv, Fills, Drains
<1>11. ProcInv(p)'
  BY <1>1, <1>2, <1>3, <1>5 DEF ProcInv, EnqCasWin, Fills, Drains
<1>12. ASSUME NEW q \in Proc, NEW r \in Proc, q # r PROVE Apart(q, r)'
  <2>1. ProcInv(q) /\ ProcInv(r) /\ Apart(q, r)
    BY <1>12 DEF IInv
  <2>2. \A s \in Proc : s # p => pc'[s] = pc[s]
    BY <1>1 DEF EnqCasWin, GoTo, TypeOK
  <2>3. cur' = cur
    BY DEF EnqCasWin
  <2>4. QED
    BY <1>1, <1>3, <1>12, <2>1, <2>2, <2>3 DEF ProcInv, Apart, Fills, Drains
<1>13. QED
  BY <1>8, <1>9, <1>10, <1>11, <1>12 DEF IInv, Ring

LEMMA DeqCasWinStep ==
  ASSUME IInv, NEW p \in Proc, DeqCasWin(p)
  PROVE  IInv'
<1>1. /\ TypeOK /\ ProcInv(p) /\ head \in Nat /\ tail \in Nat /\ head <= tail
      /\ t_tag \in [Ring -> Nat] /\ h_tag \in [Ring -> Int]
      /\ cur \in [Proc -> Nat]
  BY DEF IInv, TypeOK
<1>2. /\ t_tag[Slot(head)] = head
      /\ h_tag[Slot(head)] = head
      /\ head < tail
  BY WonItemReady DEF DeqCasWin
<1>3. cur[p] = head /\ pc'[p] = "deq_copy" /\ head' = head + 1
  BY <1>1 DEF DeqCasWin, GoTo, TypeOK
<1>4. pc' \in [Proc -> {"idle", "size_head"} \cup Enqueuing \cup Dequeuing]
  BY <1>1 DEF TypeOK, DeqCasWin, GoTo, Dequeuing
<1>5. UNCHANGED <<tail, t_tag, h_tag, goods, errs, cur, old, tries, buf,
                  clearing, log>>
  BY DEF DeqCasWin
<1>6. TypeOK'
  BY <1>1, <1>2, <1>3, <1>4, <1>5, CapaAssumption, SMTT(30) DEF TypeOK, Ring
<1>7. ASSUME NEW k \in Ring PROVE NodeInv(k)'
  <2> DEFINE T == t_tag[k]
  <2>1. NodeInv(k) /\ T \in Nat /\ h_tag[k] \in Int
    BY <1>1 DEF IInv
  <2>2. T = head => h_tag[k] = T
    BY <1>2, <2>1 DEF NodeInv
  <2>3. QED
    BY <1>1, <1>3, <1>5, <2>1, <2>2, CapaAssumption DEF NodeInv
<1>8. \A q \in Proc : q # p => pc'[q] = pc[q]
  BY <1>1 DEF DeqCasWin, GoTo, TypeOK
<1>9. ASSUME NEW q \in Proc, q # p PROVE ProcInv(q)'
  <2>1. ProcInv(q) /\ cur[q] \in Nat
    BY <1>1 DEF IInv
  <2>2. pc'[q] = pc[q]
    BY <1>8, <1>9
  <2>3. Fills(q) => cur[q] # head
    BY <1>1, <1>2, <2>1, CapaAssumption DEF ProcInv
  <2>4. QED
    BY <1>1, <1>3, <1>5, <2>1, <2>2, <2>3 DEF ProcInv, Fills, Drains
<1>10. ProcInv(p)'
  BY <1>1, <1>2, <1>3, <1>5 DEF ProcInv, Fills, Drains, Enqueuing
<1>11. ASSUME NEW q \in Proc, NEW r \in Proc, q # r PROVE Apart(q, r)'
  <2>1. ProcInv(q) /\ ProcInv(r) /\ Apart(q, r)
    BY <1>11 DEF IInv
  <2>2. QED
    BY <1>1, <1>3, <1>5, <1>8, <1>11, <2>1 DEF ProcInv, Apart, Fills, Drains
<1>12. QED
  BY <1>6, <1>7, <1>9, <1>10, <1>11 DEF IInv, Ring

(* The node in the hands of p is in nobody else's. *)
LEMMA OwnNode ==
  ASSUME IInv, NEW p \in Proc, NEW q \in Proc, p # q,
         Fills(p) \/ Drains(p), Fills(q) \/ Drains(q)
  PROVE  Slot(cur[p]) # Slot(cur[q])
<1>1. SUFFICES ASSUME Slot(cur[p]) = Slot(cur[q]) PROVE FALSE
  OBVIOUS
<1>2. /\ ProcInv(p) /\ ProcInv(q) /\ Apart(p, q)
      /\ cur[p] \in Nat /\ cur[q] \in Nat /\ head \in Nat
  BY DEF IInv, TypeOK
<1>3. cur[p] = cur[q]
  BY <1>1, <1>2 DEF ProcInv
<1>4. QED
  BY <1>2, <1>3 DEF ProcInv, Apart

LEMMA EnqCopyStep ==
  ASSUME IInv, NEW p \in Proc, EnqCopy(p)
  PROVE  IInv'
<1> DEFINE k == Slot(cur[p])
<1>1. /\ TypeOK /\ ProcInv(p)
      /\ cur \in [Proc -> Nat] /\ t_tag \in [Ring -> Nat]
  BY DEF IInv, TypeOK
<1>2. k \in Ring
  BY <1>1, SlotInRing
<1>3. Fills(p) /\ pc'[p] = "enq_pub" /\ goods'[k] = buf[p]
  BY <1>1, <1>2 DEF EnqCopy, GoTo, TypeOK, Fills
<1>4. UNCHANGED <<head, tail, h_tag, t_tag, cur, old, tries, buf, clearing, log>>
  BY DEF EnqCopy
<1>5. TypeOK'
  <2>1. goods' \in [Ring -> Goods \cup {None}]
    BY <1>1 DEF EnqCopy, TypeOK
  <2>2. errs' \in [Proc -> 0 .. MaxErrs]
    BY <1>1, BoundAssumption DEF EnqCopy, TypeOK
  <2>3. pc' \in [Proc -> {"idle", "size_head"} \cup Enqueuing \cup Dequeuing]
    BY <1>1 DEF EnqCopy, GoTo, TypeOK, Enqueuing
  <2>4. QED
    BY <1>1, <1>4, <2>1, <2>2, <2>3 DEF TypeOK, Ring
<1>6. ASSUME NEW j \in Ring PROVE NodeInv(j)'
  <2>1. NodeInv(j)
    BY DEF IInv
  <2>2. CASE j = k
    BY <1>1, <1>3, <1>4, <2>1, <2>2, CapaAssumption DEF NodeInv, ProcInv
  <2>3. CASE j # k
    <3>1. goods'[j] = goods[j]
      BY <1>1, <2>3 DEF EnqCopy, TypeOK
    <3>2. QED
      BY <3>1, <1>4, <2>1 DEF NodeInv
  <2>4. QED
    BY <2>2, <2>3
<1>7. \A q \in Proc : q # p => pc'[q] = pc[q]
  BY <1>1 DEF EnqCopy, GoTo, TypeOK
<1>8. ASSUME NEW q \in Proc, q # p PROVE ProcInv(q)'
  <2>1. ProcInv(q) /\ pc'[q] = pc[q]
    BY <1>7, <1>8 DEF IInv
  <2>2. pc[q] = "enq_pub" => goods'[Slot(cur[q])] = goods[Slot(cur[q])]
    <3>1. SUFFICES ASSUME pc[q] = "enq_pub"
                   PROVE  goods'[Slot(cur[q])] = goods[Slot(cur[q])]
      OBVIOUS
    <3>2. Slot(cur[q]) # k /\ Slot(cur[q]) \in Ring
      BY <3>1, <1>1, <1>3, <1>8, OwnNode, SlotInRing DEF Fills
    <3>3. QED
      BY <3>2, <1>1 DEF EnqCopy, TypeOK
  <2>3. QED
    BY <1>4, <2>1, <2>2 DEF ProcInv, Fills, Drains
<1>9. ProcInv(p)'
  BY <1>1, <1>3, <1>4 DEF ProcInv, Fills, Drains, Enqueuing
<1>10. ASSUME NEW q \in Proc, NEW r \in Proc, q # r PROVE Apart(q, r)'
  <2>1. Apart(q, r)
    BY <1>10 DEF IInv
  <2>2. QED
    BY <1>3, <1>4, <1>7, <2>1 DEF Apart, Fills, Drains
<1>11. QED
  BY <1>5, <1>6, <1>8, <1>9, <1>10 DEF IInv, Ring

LEMMA EnqPublishStep ==
  ASSUME IInv, NEW p \in Proc, EnqPublish(p)
  PROVE  IInv'
<1> DEFINE c == cur[p]
           k == Slot(cur[p])
<1>1. /\ TypeOK /\ ProcInv(p) /\ head \in Nat /\ tail \in Nat /\ head <= tail
      /\ cur \in [Proc -> Nat] /\ h_tag \in [Ring -> Int]
      /\ t_tag \in [Ring -> Nat]
  BY DEF IInv, TypeOK
<1>2. k \in Ring
  BY <1>1, SlotInRing
<1>3. /\ Fills(p) /\ pc'[p] = "idle"
      /\ h_tag'[k] = c
      /\ \A j \in Ring : j # k => h_tag'[j] = h_tag[j]
  BY <1>1, <1>2 DEF EnqPublish, Return, TypeOK, Fills
<1>4. UNCHANGED <<head, tail, t_tag, goods, errs, log>>
  BY DEF EnqPublish
<1>5. TypeOK'
  <2>1. h_tag' \in [Ring -> Int]
    <3>1. cur[p] \in Int
      BY <1>1
    <3>2. QED
      BY <1>1, <3>1 DEF EnqPublish
  <2>2. /\ pc' \in [Proc -> {"idle", "size_head"} \cup Enqueuing \cup Dequeuing]
        /\ cur' \in [Proc -> Nat]
        /\ old' \in [Proc -> Int]
        /\ tries' \in [Proc -> 0 .. TRIES]
        /\ buf' \in [Proc -> Goods \cup {None}]
        /\ clearing' \subseteq Proc
    BY <1>1 DEF TypeOK, EnqPublish, Return, TRIES
  <2>3. QED
    BY <1>1, <1>4, <2>1, <2>2 DEF TypeOK, Ring
<1>6. ASSUME NEW j \in Ring PROVE NodeInv(j)'
  <2>1. NodeInv(j)
    BY DEF IInv
  <2>2. CASE j = k
    BY <1>1, <1>3, <1>4, <2>1, <2>2, CapaAssumption
       DEF NodeInv, ProcInv, EnqPublish
  <2>3. CASE j # k
    BY <1>3, <1>4, <2>1, <2>3 DEF NodeInv
  <2>4. QED
    BY <2>2, <2>3
<1>7. \A q \in Proc : q # p => pc'[q] = pc[q] /\ cur'[q] = cur[q] /\ buf'[q] = buf[q]
  BY <1>1 DEF EnqPublish, Return, TypeOK
<1>8. ASSUME NEW q \in Proc, q # p PROVE ProcInv(q)'
  <2>1. ProcInv(q) /\ Slot(cur[q]) \in Ring /\ cur[q] \in Nat
    BY <1>1, SlotInRing DEF IInv
  <2>2. h_tag[Slot(cur[q])] <= h_tag'[Slot(cur[q])]
    BY <1>1, <1>2, <1>3, <2>1, CapaAssumption DEF ProcInv
  <2>3. Fills(q) \/ Drains(q) => Slot(cur[q]) # k
    BY <1>3, <1>8, OwnNode
  <2>4. h_tag'[Slot(cur[q])] \in Int /\ h_tag[Slot(cur[q])] \in Int
    BY <1>1, <1>5, <2>1 DEF TypeOK
  <2>5. pc[q] = "deq_cas" => h_tag'[Slot(cur[q])] >= cur[q]
    BY <2>1, <2>2, <2>4 DEF ProcInv
  <2>6. Fills(q) \/ Drains(q) => h_tag'[Slot(cur[q])] = h_tag[Slot(cur[q])]
    BY <1>3, <2>1, <2>3
  <2>7. pc'[q] = pc[q] /\ cur'[q] = cur[q] /\ buf'[q] = buf[q]
    BY <1>7, <1>8
  <2>8. QED
    BY <1>4, <2>1, <2>5, <2>6, <2>7 DEF ProcInv, Fills, Drains
<1>9. ProcInv(p)' /\ ~Fills(p)' /\ ~Drains(p)'
  BY <1>3 DEF ProcInv, Enqueuing, Fills, Drains
<1>10. ASSUME NEW q \in Proc, NEW r \in Proc, q # r PROVE Apart(q, r)'
  <2>1. Apart(q, r)
    BY <1>10 DEF IInv
  <2>2. QED
    BY <1>7, <1>9, <2>1 DEF Apart, Fills, Drains
<1>11. QED
  BY <1>5, <1>6, <1>8, <1>9, <1>10 DEF IInv, Ring

LEMMA DeqCopyStep ==
  ASSUME IInv, NEW p \in Proc, DeqCopy(p)
  PROVE  IInv'
<1> DEFINE c == cur[p]
           k == Slot(cur[p])
<1>1. /\ TypeOK /\ ProcInv(p) /\ cur \in [Proc -> Nat]
      /\ t_tag \in [Ring -> Nat]
  BY DEF IInv, TypeOK
<1>2. k \in Ring
  BY <1>1, SlotInRing
<1>3. /\ Drains(p) /\ pc'[p] = "deq_pub" /\ buf'[p] = goods[k]
  BY <1>1 DEF DeqCopy, GoTo, TypeOK, Drains
<1>4. UNCHANGED <<head, tail, h_tag, t_tag, goods, cur, old, tries, clearing,
                  log>>
  BY DEF DeqCopy, shared
<1>5. TypeOK'
  <2>1. errs' \in [Proc -> 0 .. MaxErrs]
    BY <1>1, BoundAssumption DEF DeqCopy, TypeOK
  <2>2. pc' \in [Proc -> {"idle", "size_head"} \cup Enqueuing \cup Dequeuing]
    BY <1>1 DEF DeqCopy, GoTo, TypeOK, Dequeuing
  <2>3. buf' \in [Proc -> Goods \cup {None}]
    BY <1>1, <1>2 DEF DeqCopy, TypeOK
  <2>4. QED
    BY <1>1, <1>4, <2>1, <2>2, <2>3 DEF TypeOK, Ring
<1>6. ASSUME NEW j \in Ring PROVE NodeInv(j)'
  BY <1>4 DEF IInv, NodeInv
<1>7. \A q \in Proc : q # p => pc'[q] = pc[q] /\ buf'[q] = buf[q]
  BY <1>1 DEF DeqCopy, GoTo, TypeOK
<1>8. ASSUME NEW q \in Proc, q # p PROVE ProcInv(q)'
  BY <1>4, <1>7, <1>8 DEF IInv, ProcInv, Fills, Drains
<1>9. ProcInv(p)'
  <2>1. goods[k] = log[c]
    BY <1>1, <1>2, <1>3 DEF IInv, NodeInv, ProcInv
  <2>2. QED
    BY <1>1, <1>3, <1>4, <2>1 DEF ProcInv, Fills, Drains, Enqueuing
<1>10. ASSUME NEW q \in Proc, NEW r \in Proc, q # r PROVE Apart(q, r)'
  <2>1. Apart(q, r)
    BY <1>10 DEF IInv
  <2>2. QED
    BY <1>3, <1>4, <1>7, <2>1 DEF Apart, Fills, Drains
<1>11. QED
  BY <1>5, <1>6, <1>8, <1>9, <1>10 DEF IInv, Ring

LEMMA DeqRecycleStep ==
  ASSUME IInv, NEW p \in Proc, DeqRecycle(p)
  PROVE  IInv'
<1> DEFINE c == cur[p]
           k == Slot(cur[p])
<1>1. /\ TypeOK /\ ProcInv(p) /\ head \in Nat /\ tail \in Nat /\ head <= tail
      /\ cur \in [Proc -> Nat] /\ h_tag \in [Ring -> Int]
      /\ t_tag \in [Ring -> Nat] /\ c \in Nat
  BY DEF IInv, TypeOK
<1>2. k \in Ring
  BY <1>1, SlotInRing
<1>3. /\ Drains(p) /\ pc'[p] \in {"idle", "deq_load"}
      /\ t_tag'[k] = c + Capa
      /\ \A j \in Ring : j # k => t_tag'[j] = t_tag[j]
  BY <1>1, <1>2 DEF DeqRecycle, GoTo, Return, TypeOK, Drains
<1>4. UNCHANGED <<head, tail, h_tag, goods, errs, log>>
  BY DEF DeqRecycle
<1>5. TypeOK'
  <2>1. t_tag' \in [Ring -> Nat]
    <3>1. c + Capa \in Nat
      BY <1>1, CapaAssumption
    <3>2. QED
      BY <1>1, <3>1 DEF DeqRecycle
  <2>2. /\ pc' \in [Proc -> {"idle", "size_head"} \cup Enqueuing \cup Dequeuing]
        /\ cur' \in [Proc -> Nat]
        /\ old' \in [Proc -> Int]
        /\ tries' \in [Proc -> 0 .. TRIES]
        /\ buf' \in [Proc -> Goods \cup {None}]
        /\ clearing' \subseteq Proc
    <3>1. CASE Return(p)
      BY <1>1, <3>1 DEF TypeOK, Return, TRIES
    <3>2. CASE /\ GoTo(p, "deq_load")
               /\ cur' = [cur EXCEPT ![p] = 0]
               /\ tries' = [tries EXCEPT ![p] = 0]
               /\ buf' = [buf EXCEPT ![p] = None]
               /\ UNCHANGED <<old, clearing>>
      BY <1>1, <3>2 DEF TypeOK, GoTo, TRIES, Dequeuing
    <3>3. QED
      BY <3>1, <3>2 DEF DeqRecycle
  <2>3. QED
    BY <1>1, <1>4, <2>1, <2>2 DEF TypeOK, Ring
<1>6. ASSUME NEW j \in Ring PROVE NodeInv(j)'
  <2>1. NodeInv(j)
    BY DEF IInv
  <2>2. CASE j = k
    <3>1. /\ t_tag[k] = c /\ h_tag[k] = c /\ c < head
          /\ tail <= c + Capa
      BY <1>1, <1>3, <2>1, <2>2 DEF ProcInv, NodeInv
    <3>2. Slot(c + Capa) = k
      BY <1>1, SlotNextLap
    <3>3. QED
      BY <1>1, <1>3, <1>4, <2>2, <3>1, <3>2, CapaAssumption DEF NodeInv
  <2>3. CASE j # k
    BY <1>3, <1>4, <2>1, <2>3 DEF NodeInv
  <2>4. QED
    BY <2>2, <2>3
<1>7. \A q \in Proc : q # p => pc'[q] = pc[q] /\ cur'[q] = cur[q] /\ buf'[q] = buf[q]
  BY <1>1 DEF DeqRecycle, GoTo, Return, TypeOK
<1>8. ASSUME NEW q \in Proc, q # p PROVE ProcInv(q)'
  <2>1. ProcInv(q) /\ Slot(cur[q]) \in Ring /\ cur[q] \in Nat
    BY <1>1, SlotInRing DEF IInv
  <2>2. pc[q] = "enq_cas" => t_tag'[Slot(cur[q])] >= cur[q]
    BY <1>1, <1>2, <1>3, <2>1, CapaAssumption DEF ProcInv
  <2>3. Fills(q) \/ Drains(q) => t_tag'[Slot(cur[q])] = t_tag[Slot(cur[q])]
    BY <1>3, <1>8, <2>1, OwnNode
  <2>4. pc'[q] = pc[q] /\ cur'[q] = cur[q] /\ buf'[q] = buf[q]
    BY <1>7, <1>8
  <2>5. QED
    BY <1>4, <2>1, <2>2, <2>3, <2>4 DEF ProcInv, Fills, Drains
<1>9. ProcInv(p)' /\ ~Fills(p)' /\ ~Drains(p)'
  BY <1>3 DEF ProcInv, Enqueuing, Fills, Drains
<1>10. ASSUME NEW q \in Proc, NEW r \in Proc, q # r PROVE Apart(q, r)'
  <2>1. Apart(q, r)
    BY <1>10 DEF IInv
  <2>2. QED
    BY <1>7, <1>9, <2>1 DEF Apart, Fills, Drains
<1>11. QED
  BY <1>5, <1>6, <1>8, <1>9, <1>10 DEF IInv, Ring

-----------------------------------------------------------------------------
(* Every step preserves the invariant. *)

LEMMA EnqKeepsIInv ==
  ASSUME IInv, NEW p \in Producer,
         EnqStep(p) \/ \E g \in Goods : EnqCall(p, g)
  PROVE  IInv'
<1>1. /\ TypeOK /\ ProcInv(p) /\ p \in Proc /\ cur[p] \in Nat /\ tail \in Nat
      /\ cur \in [Proc -> Nat]
  BY DEF IInv, TypeOK, Proc
<1>2. CASE EnqLoad(p)
  <2>1. tail <= tail /\ pc[p] \in Enqueuing /\ GoTo(p, "enq_tag")
    BY <1>1, <1>2 DEF EnqLoad, Enqueuing
  <2>2. /\ cur' = [cur EXCEPT ![p] = tail]
        /\ UNCHANGED <<shared, errs, old, tries, buf, clearing, log>>
    BY <1>2 DEF EnqLoad
  <2>3. QED
    BY <1>1, <2>1, <2>2, LoadStep
<1>3. CASE EnqTagFree(p)
  <2>1. cur' = [cur EXCEPT ![p] = cur[p]]
    BY <1>1, <1>3 DEF EnqTagFree
  <2>2. cur[p] <= tail /\ t_tag[Slot(cur[p])] >= cur[p]
    BY <1>1, <1>3 DEF EnqTagFree, ProcInv
  <2>3. QED
    BY <1>1, <1>3, <2>1, <2>2, LoadStep DEF EnqTagFree, Enqueuing
<1>4. CASE EnqTagBusy(p)
  BY <1>1, <1>4, RetryStep DEF EnqTagBusy, Enqueuing
<1>5. CASE EnqCasWin(p)
  BY <1>1, <1>5, EnqCasWinStep
<1>6. CASE EnqCasLose(p)
  BY <1>1, <1>6, RetryStep DEF EnqCasLose, Enqueuing
<1>7. CASE EnqCopy(p)
  BY <1>1, <1>7, EnqCopyStep
<1>8. CASE EnqPublish(p)
  BY <1>1, <1>8, EnqPublishStep
<1>9. CASE \E g \in Goods : EnqCall(p, g)
  BY <1>1, <1>9, CallStep DEF EnqCall, TypeOK
<1>10. QED
  BY <1>2, <1>3, <1>4, <1>5, <1>6, <1>7, <1>8, <1>9 DEF EnqStep

LEMMA DeqKeepsIInv ==
  ASSUME IInv, NEW p \in Consumer, DeqStep(p) \/ DeqCall(p) \/ ClearCall(p)
  PROVE  IInv'
<1>1. /\ TypeOK /\ ProcInv(p) /\ p \in Proc /\ cur[p] \in Nat /\ head \in Nat
      /\ cur \in [Proc -> Nat]
  BY DEF IInv, TypeOK, Proc
<1>2. CASE DeqLoad(p)
  <2>1. head <= head /\ GoTo(p, "deq_tag")
    BY <1>1, <1>2 DEF DeqLoad
  <2>2. /\ cur' = [cur EXCEPT ![p] = head]
        /\ UNCHANGED <<shared, errs, old, tries, buf, clearing, log>>
    BY <1>2 DEF DeqLoad
  <2>3. QED
    BY <1>1, <2>1, <2>2, LoadStep
<1>3. CASE DeqTagReady(p)
  <2>1. cur' = [cur EXCEPT ![p] = cur[p]]
    BY <1>1, <1>3 DEF DeqTagReady
  <2>2. cur[p] <= head /\ h_tag[Slot(cur[p])] >= cur[p]
    BY <1>1, <1>3 DEF DeqTagReady, ProcInv
  <2>3. QED
    BY <1>1, <1>3, <2>1, <2>2, LoadStep DEF DeqTagReady
<1>4. CASE DeqTagMiss(p)
  BY <1>1, <1>4, ReturnStep DEF DeqTagMiss, TypeOK
<1>5. CASE DeqCasWin(p)
  BY <1>1, <1>5, DeqCasWinStep
<1>6. CASE DeqCasLose(p)
  <2>1. CASE CountError(p) /\ Return(p)
    BY <1>1, <1>6, <2>1, CountErrorType, ReturnStep DEF DeqCasLose
  <2>2. CASE /\ tries[p] + 1 <= TRIES
             /\ tries' = [tries EXCEPT ![p] = @ + 1]
             /\ GoTo(p, "deq_load")
             /\ UNCHANGED <<errs, cur, old, buf, clearing>>
    <3>0. tries[p] + 1 \in 0 .. TRIES
      <4>1. p \in Proc /\ tries \in [Proc -> 0 .. TRIES]
        BY <1>1 DEF TypeOK
      <4>2. tries[p] \in 0 .. TRIES
        BY <4>1
      <4>3. QED
        BY <2>2, <4>2 DEF TRIES
    <3>1. /\ pc' \in [Proc -> {"idle", "size_head"} \cup Enqueuing \cup Dequeuing]
          /\ tries' \in [Proc -> 0 .. TRIES]
      BY <1>1, <2>2, <3>0 DEF TypeOK, GoTo, Dequeuing
    <3>2. UNCHANGED <<shared, log>>
      BY <1>6 DEF DeqCasLose
    <3>3. TypeOK'
      BY <1>1, <2>2, <3>1, <3>2 DEF TypeOK, shared, Ring
    <3>4. pc'[p] = "deq_load"
      BY <1>1, <2>2 DEF TypeOK, GoTo
    <3>5. ProcInv(p)' /\ ~Fills(p)' /\ ~Drains(p)'
      BY <3>4 DEF ProcInv, Enqueuing, Fills, Drains
    <3>6. QED
      BY <1>1, <2>2, <3>2, <3>3, <3>5, LocalStep DEF TypeOK, GoTo
  <2>3. QED
    BY <1>6, <2>1, <2>2 DEF DeqCasLose
<1>7. CASE DeqCopy(p)
  BY <1>1, <1>7, DeqCopyStep
<1>8. CASE DeqRecycle(p)
  BY <1>1, <1>8, DeqRecycleStep
<1>9. CASE DeqCall(p)
  BY <1>1, <1>9, CallStep DEF DeqCall, TypeOK
<1>10. CASE ClearCall(p)
  BY <1>1, <1>10, CallStep DEF ClearCall, TypeOK
<1>11. QED
  BY <1>2, <1>3, <1>4, <1>5, <1>6, <1>7, <1>8, <1>9, <1>10 DEF DeqStep

LEMMA SizeKeepsIInv ==
  ASSUME IInv, NEW p \in Observer, SizeTail(p) \/ SizeHead(p)
  PROVE  IInv'
<1>1. TypeOK /\ p \in Proc /\ tail \in Nat
  BY DEF IInv, TypeOK, Proc
<1>2. CASE SizeTail(p)
  <2>1. tail <= tail /\ GoTo(p, "size_head")
    BY <1>1, <1>2 DEF SizeTail
  <2>2. /\ cur' = [cur EXCEPT ![p] = tail]
        /\ UNCHANGED <<shared, errs, old, tries, buf, clearing, log>>
    BY <1>2 DEF SizeTail
  <2>3. QED
    BY <1>1, <2>1, <2>2, LoadStep
<1>3. CASE SizeHead(p)
  BY <1>1, <1>3, ReturnStep DEF SizeHead, TypeOK
<1>4. QED
  BY <1>2, <1>3

(* IInv is inductive. *)
LEMMA NextKeepsIInv == IInv /\ [Next]_vars => IInv'
<1> SUFFICES ASSUME IInv, [Next]_vars PROVE IInv'
  OBVIOUS
<1>1. CASE UNCHANGED vars
  BY <1>1 DEF IInv, TypeOK, NodeInv, ProcInv, Apart, Fills, Drains, vars, Ring
<1>2. CASE \E p \in Producer : EnqStep(p) \/ \E g \in Goods : EnqCall(p, g)
  BY <1>2, EnqKeepsIInv
<1>3. CASE \E p \in Consumer : DeqStep(p) \/ DeqCall(p) \/ ClearCall(p)
  BY <1>3, DeqKeepsIInv
<1>4. CASE \E p \in Observer : SizeTail(p) \/ SizeHead(p)
  BY <1>4, SizeKeepsIInv
<1>5. QED
  BY <1>1, <1>2, <1>3, <1>4 DEF Next

(* The ring keeps its inductive invariant. *)
THEOREM Inductive == Spec => []IInv
<1>1. Init => IInv
  BY InitIInv
<1>2. IInv /\ [Next]_vars => IInv'
  BY NextKeepsIInv
<1>3. QED
  BY <1>1, <1>2, PTL DEF Spec

-----------------------------------------------------------------------------
(* What follows *)

(* The indices stay in order and every word in its range. *)
THEOREM TypeCorrect == Spec => []TypeOK
<1>1. IInv => TypeOK
  BY DEF IInv
<1>2. QED
  BY <1>1, Inductive, PTL

(* No node is ever in two hands, for any number of processes and nodes. *)
THEOREM Exclusion == Spec => []SlotExclusive
<1>1. IInv => SlotExclusive
  BY OwnNode DEF SlotExclusive
<1>2. QED
  BY <1>1, Inductive, PTL

(* What a deque hands out for an index is what the enque of that index got. *)
THEOREM Delivery == Spec => []DeliveredAsSent
<1>1. IInv => DeliveredAsSent
  BY DEF IInv, ProcInv, DeliveredAsSent
<1>2. QED
  BY <1>1, Inductive, PTL

(* full() never says "full" of a ring that has room. *)
THEOREM FullIsTrue == Spec => []FullIsFull
<1>1. ASSUME IInv, NEW p \in Proc, pc[p] = "size_head", FullOf(p)
      PROVE  tail - head = Capa
  <2>1. /\ head \in Nat /\ tail \in Nat /\ tail <= head + Capa
        /\ cur[p] \in Nat /\ cur[p] <= tail
    BY <1>1 DEF IInv, TypeOK, ProcInv
  <2>2. QED
    BY <1>1, <2>1, CapaAssumption DEF FullOf, SizeOf
<1>2. IInv => FullIsFull
  BY <1>1 DEF FullIsFull
<1>3. QED
  BY <1>2, Inductive, PTL

-----------------------------------------------------------------------------
(* The ring as a bounded first-in first-out queue *)

(* The abstract queue has one item for every index between head and tail. *)
QueueFacts ==
  /\ Queue \in Seq(Goods) /\ Len(Queue) = tail - head
  /\ \A n \in 1 .. tail - head : Queue[n] = log[head + n - 1]

LEMMA QueueIsSeq == IInv => QueueFacts
<1> SUFFICES ASSUME IInv PROVE QueueFacts
  OBVIOUS
<1>1. head \in Nat /\ tail \in Nat /\ head <= tail /\ log \in [0 .. tail - 1 -> Goods]
  BY DEF IInv, TypeOK
<1>2. tail - head \in Nat
  BY <1>1
<1>3. ASSUME NEW n \in 1 .. tail - head PROVE log[head + n - 1] \in Goods
  <2>1. head + n - 1 \in 0 .. tail - 1
    BY <1>1
  <2>2. QED
    BY <1>1, <2>1
<1>4. Queue \in [1 .. tail - head -> Goods]
  BY <1>3 DEF Queue
<1>5. QED
  BY <1>2, <1>4 DEF Queue, QueueFacts

LEMMA InitRefines == Init => Fifo!Init
<1> SUFFICES ASSUME Init PROVE Fifo!Init
  OBVIOUS
<1>1. IInv
  BY InitIInv
<1>2. Len(Queue) = 0 /\ Queue \in Seq(Goods)
  BY <1>1, QueueIsSeq DEF Init, QueueFacts
<1>3. Queue = <<>>
  BY <1>2
<1>4. Hand = [p \in Proc |-> None]
  BY DEF Init, Hand
<1>5. QED
  BY <1>3, <1>4 DEF Fifo!Init

(* Winning an index of the tail puts an item. *)
LEMMA PutRefines ==
  ASSUME IInv, IInv', NEW p \in Proc, EnqCasWin(p)
  PROVE  buf[p] \in Goods /\ Fifo!Put(buf[p])
<1>1. /\ head \in Nat /\ tail \in Nat /\ head <= tail
      /\ cur[p] = tail /\ tail < head + Capa
      /\ ProcInv(p) /\ pc[p] \in Enqueuing
  BY WonNodeFree DEF IInv, TypeOK, EnqCasWin, Enqueuing
<1>2. buf[p] \in Goods
  BY <1>1 DEF ProcInv
<1>3. QueueFacts
  BY QueueIsSeq
<1>4. QueueFacts'
  BY QueueIsSeq, PTL
<1>5. /\ head' = head /\ tail' = tail + 1
      /\ log' = [i \in 0 .. tail |-> IF i = tail THEN buf[p] ELSE log[i]]
  BY DEF EnqCasWin
<1>6. Len(Queue) < Capa
  BY <1>1, <1>3, CapaAssumption DEF QueueFacts
<1>7. Queue' = Append(Queue, buf[p])
  <2> DEFINE A == Append(Queue, buf[p])
  <2>1. /\ A \in Seq(Goods) /\ Len(A) = tail + 1 - head
        /\ \A n \in 1 .. tail - head : A[n] = log[head + n - 1]
        /\ A[tail + 1 - head] = buf[p]
    <3>1. Queue \in Seq(Goods) /\ Len(Queue) = tail - head
      BY <1>3 DEF QueueFacts
    <3>2. /\ A \in Seq(Goods) /\ Len(A) = Len(Queue) + 1
          /\ \A n \in 1 .. Len(Queue) : A[n] = Queue[n]
          /\ A[Len(Queue) + 1] = buf[p]
      BY <1>2, <3>1, AppendProperties
    <3> HIDE DEF A
    <3>3. Len(Queue) + 1 = tail + 1 - head
      BY <1>1, <3>1
    <3>4. QED
      BY <1>3, <3>1, <3>2, <3>3 DEF QueueFacts
  <2> HIDE DEF A
  <2>2. Queue' \in Seq(Goods) /\ Len(Queue') = tail + 1 - head
    <3>1. Queue' \in Seq(Goods) /\ Len(Queue') = tail' - head'
      BY <1>4 DEF QueueFacts
    <3>2. tail' - head' = tail + 1 - head
      BY <1>1, <1>5
    <3>3. QED
      BY <3>1, <3>2
  <2>3. ASSUME NEW n \in 1 .. tail + 1 - head
        PROVE  Queue'[n] = A[n]
    <3>1. Queue'[n] = log'[head + n - 1]
      BY <1>1, <1>4, <1>5 DEF QueueFacts
    <3>2. CASE n = tail + 1 - head
      <4>1. head + n - 1 = tail
        BY <1>1, <3>2
      <4>2. log'[tail] = buf[p]
        BY <1>1, <1>5
      <4>3. QED
        BY <2>1, <3>1, <3>2, <4>1, <4>2
    <3>3. CASE n \in 1 .. tail - head
      <4>1. head + n - 1 \in 0 .. tail - 1
        BY <1>1, <3>3
      <4>2. log'[head + n - 1] = log[head + n - 1]
        BY <1>1, <1>5, <4>1
      <4>3. QED
        BY <2>1, <3>1, <3>3, <4>2
    <3>4. QED
      BY <1>1, <3>2, <3>3
  <2>4. Queue' = A
    BY <2>1, <2>2, <2>3, SeqEqual
  <2>5. QED
    BY <2>4 DEF A
<1>8. Hand' = Hand
  <2>1. cur' = cur /\ buf' = buf
    BY DEF EnqCasWin
  <2>2. ASSUME NEW q \in Proc
        PROVE  /\ pc'[q] = "deq_copy" <=> pc[q] = "deq_copy"
               /\ pc'[q] = "deq_pub" <=> pc[q] = "deq_pub"
    BY DEF EnqCasWin, GoTo, IInv, TypeOK
  <2>3. ASSUME NEW q \in Proc, pc[q] = "deq_copy"
        PROVE  log'[cur[q]] = log[cur[q]]
    <3>1. cur[q] \in Nat /\ cur[q] < head
      BY <2>3 DEF IInv, TypeOK, ProcInv, Drains
    <3>2. QED
      BY <1>1, <1>5, <3>1
  <2>4. QED
    BY <2>1, <2>2, <2>3 DEF Hand
<1>9. QED
  BY <1>2, <1>6, <1>7, <1>8 DEF Fifo!Put

(* Winning an index of the head takes the item at the front. *)
LEMMA TakeRefines ==
  ASSUME IInv, IInv', NEW p \in Proc, DeqCasWin(p)
  PROVE  Fifo!Take(p)
<1>1. /\ head \in Nat /\ tail \in Nat /\ head < tail
      /\ cur[p] = head /\ pc[p] = "deq_cas"
  BY WonItemReady DEF IInv, TypeOK, DeqCasWin
<1>2. QueueFacts
  BY QueueIsSeq
<1>3. QueueFacts'
  BY QueueIsSeq, PTL
<1>4. head' = head + 1 /\ UNCHANGED <<tail, log, cur, buf>>
  BY DEF DeqCasWin
<1>5. Queue # <<>> /\ Head(Queue) = log[head]
  BY <1>1, <1>2 DEF QueueFacts
<1>6. Queue' = Tail(Queue)
  <2> DEFINE R == Tail(Queue)
  <2>1. /\ R \in Seq(Goods) /\ Len(R) = Len(Queue) - 1
        /\ \A n \in 1 .. Len(R) : R[n] = Queue[n + 1]
    BY <1>2, <1>5, HeadTailProperties DEF QueueFacts
  <2> HIDE DEF R
  <2>2. Queue' \in Seq(Goods) /\ Len(Queue') = tail - (head + 1)
    BY <1>3, <1>4 DEF QueueFacts
  <2>3. Len(R) = tail - (head + 1)
    BY <1>1, <1>2, <2>1 DEF QueueFacts
  <2>4. ASSUME NEW n \in 1 .. tail - (head + 1)
        PROVE  Queue'[n] = R[n]
    <3>1. n + 1 \in 1 .. tail - head /\ head + 1 + n - 1 = head + (n + 1) - 1
      BY <1>1
    <3>2. Queue'[n] = log[head + 1 + n - 1]
      BY <1>3, <1>4 DEF QueueFacts
    <3>3. QED
      BY <1>2, <2>1, <2>3, <3>1, <3>2 DEF QueueFacts
  <2>5. Queue' = R
    BY <2>1, <2>2, <2>3, <2>4, SeqEqual
  <2>6. QED
    BY <2>5 DEF R
<1>7. Hand[p] = None
  BY <1>1 DEF Hand
<1>8. Hand' = [Hand EXCEPT ![p] = Head(Queue)]
  <2>1. pc' = [pc EXCEPT ![p] = "deq_copy"] /\ pc'[p] = "deq_copy"
    BY DEF DeqCasWin, GoTo, IInv, TypeOK
  <2>2. ASSUME NEW q \in Proc, q # p PROVE pc'[q] = pc[q]
    BY <2>1, <2>2 DEF IInv, TypeOK
  <2>3. QED
    BY <1>1, <1>4, <1>5, <2>1, <2>2 DEF Hand
<1>9. QED
  BY <1>5, <1>6, <1>7, <1>8 DEF Fifo!Take

(* The payload a deque copies out is the item it took. *)
LEMMA CopyRefines ==
  ASSUME IInv, IInv', NEW p \in Proc, DeqCopy(p)
  PROVE  UNCHANGED <<Queue, Hand>>
<1>1. UNCHANGED <<head, tail, cur, log>>
  BY DEF DeqCopy, shared
<1>2. /\ pc[p] = "deq_copy" /\ pc'[p] = "deq_pub"
      /\ \A q \in Proc : q # p => pc'[q] = pc[q] /\ buf'[q] = buf[q]
  BY DEF DeqCopy, GoTo, IInv, TypeOK
<1>3. buf'[p] = log'[cur'[p]]
  BY <1>2 DEF IInv, ProcInv
<1>4. Queue' = Queue
  BY <1>1 DEF Queue
<1>5. Hand' = Hand
  BY <1>1, <1>2, <1>3 DEF Hand
<1>6. QED
  BY <1>4, <1>5

(* Returning the item empties the hand. *)
LEMMA GiveRefines ==
  ASSUME IInv, IInv', NEW p \in Proc, DeqRecycle(p)
  PROVE  Fifo!Give(p)
<1>1. UNCHANGED <<head, tail, log>>
  BY DEF DeqRecycle
<1>2. /\ pc[p] = "deq_pub" /\ pc'[p] \in {"idle", "deq_load"}
      /\ \A q \in Proc : q # p => /\ pc'[q] = pc[q]
                                  /\ cur'[q] = cur[q]
                                  /\ buf'[q] = buf[q]
  BY ZenonT(60) DEF DeqRecycle, GoTo, Return, IInv, TypeOK
<1>3. buf[p] # None
  <2>1. /\ buf[p] = log[cur[p]] /\ cur[p] \in Nat /\ cur[p] < head
        /\ head \in Nat /\ tail \in Nat /\ head <= tail
        /\ log \in [0 .. tail - 1 -> Goods]
    BY <1>2 DEF IInv, TypeOK, ProcInv, Drains
  <2>2. cur[p] \in 0 .. tail - 1
    BY <2>1
  <2>3. QED
    BY <2>1, <2>2, NoneAssumption
<1>4. Hand[p] # None
  BY <1>2, <1>3 DEF Hand
<1>5. Queue' = Queue
  BY <1>1 DEF Queue
<1>6. Hand' = [Hand EXCEPT ![p] = None]
  BY <1>1, <1>2 DEF Hand
<1>7. QED
  BY <1>4, <1>5, <1>6 DEF Fifo!Give

(* A step that leaves the indices and the payloads alone, and moves no process
   into or out of the second half of a deque, shows the user nothing. *)
LEMMA Stutters ==
  ASSUME IInv, NEW p \in Proc, UNCHANGED <<head, tail, log>>,
         \A q \in Proc : q # p => /\ pc'[q] = pc[q]
                                  /\ cur'[q] = cur[q]
                                  /\ buf'[q] = buf[q],
         ~Drains(p), ~Drains(p)'
  PROVE  UNCHANGED <<Queue, Hand>>
<1>1. Queue' = Queue
  BY DEF Queue
<1>2. Hand' = Hand
  BY DEF Hand, Drains
<1>3. QED
  BY <1>1, <1>2

LEMMA EnqRefines ==
  ASSUME IInv, IInv', NEW p \in Producer,
         EnqStep(p) \/ \E g \in Goods : EnqCall(p, g)
  PROVE  [Fifo!Next]_<<Queue, Hand>>
<1>1. p \in Proc /\ TypeOK
  BY DEF IInv, Proc
<1>2. CASE EnqCasWin(p)
  BY <1>1, <1>2, PutRefines DEF Fifo!Next
<1>3. CASE ~EnqCasWin(p)
  <2>1. /\ UNCHANGED <<head, tail, log>> /\ ~Drains(p) /\ ~Drains(p)'
        /\ \A q \in Proc : q # p => /\ pc'[q] = pc[q]
                                    /\ cur'[q] = cur[q]
                                    /\ buf'[q] = buf[q]
    BY <1>1, <1>3, ZenonT(60)
       DEF EnqStep, EnqLoad, EnqTagFree, EnqTagBusy, EnqCasLose, EnqCopy,
           EnqPublish, EnqCall, EnqRetry, Call, Return, GoTo, shared, TypeOK,
           Drains
  <2>2. QED
    BY <1>1, <2>1, Stutters
<1>4. QED
  BY <1>2, <1>3

LEMMA DeqRefines ==
  ASSUME IInv, IInv', NEW p \in Consumer,
         DeqStep(p) \/ DeqCall(p) \/ ClearCall(p)
  PROVE  [Fifo!Next]_<<Queue, Hand>>
<1>1. p \in Proc /\ TypeOK
  BY DEF IInv, Proc
<1>2. CASE DeqCasWin(p)
  BY <1>1, <1>2, TakeRefines DEF Fifo!Next
<1>3. CASE DeqCopy(p)
  BY <1>1, <1>3, CopyRefines
<1>4. CASE DeqRecycle(p)
  BY <1>1, <1>4, GiveRefines DEF Fifo!Next
<1>5. CASE \/ DeqLoad(p) \/ DeqTagReady(p) \/ DeqTagMiss(p) \/ DeqCasLose(p)
           \/ DeqCall(p) \/ ClearCall(p)
  <2>1. /\ UNCHANGED <<head, tail, log>> /\ ~Drains(p) /\ ~Drains(p)'
        /\ \A q \in Proc : q # p => /\ pc'[q] = pc[q]
                                    /\ cur'[q] = cur[q]
                                    /\ buf'[q] = buf[q]
    BY <1>1, <1>5
       DEF DeqLoad, DeqTagReady, DeqTagMiss, DeqCasLose, DeqCall, ClearCall,
           Call, Return, GoTo, shared, TypeOK, Drains
  <2>2. QED
    BY <1>1, <2>1, Stutters
<1>6. QED
  BY <1>2, <1>3, <1>4, <1>5 DEF DeqStep

LEMMA NextRefines == IInv /\ IInv' /\ [Next]_vars => [Fifo!Next]_<<Queue, Hand>>
<1> SUFFICES ASSUME IInv, IInv', [Next]_vars
             PROVE  [Fifo!Next]_<<Queue, Hand>>
  OBVIOUS
<1>1. CASE UNCHANGED vars
  BY <1>1 DEF vars, Queue, Hand
<1>2. CASE \E p \in Producer : EnqStep(p) \/ \E g \in Goods : EnqCall(p, g)
  BY <1>2, EnqRefines
<1>3. CASE \E p \in Consumer : DeqStep(p) \/ DeqCall(p) \/ ClearCall(p)
  BY <1>3, DeqRefines
<1>4. CASE \E p \in Observer : SizeTail(p) \/ SizeHead(p)
  <2>1. PICK p \in Observer : SizeTail(p) \/ SizeHead(p)
    BY <1>4
  <2>2. p \in Proc /\ TypeOK
    BY DEF IInv, Proc
  <2>3. /\ UNCHANGED <<head, tail, log>> /\ ~Drains(p) /\ ~Drains(p)'
        /\ \A q \in Proc : q # p => /\ pc'[q] = pc[q]
                                    /\ cur'[q] = cur[q]
                                    /\ buf'[q] = buf[q]
    BY <2>1, <2>2 DEF SizeTail, SizeHead, Return, GoTo, shared, TypeOK, Drains
  <2>4. QED
    BY <2>2, <2>3, Stutters
<1>5. QED
  BY <1>1, <1>2, <1>3, <1>4 DEF Next

(* The ring is a bounded FIFO queue: whatever processes do with it, in whatever
   order their steps come, each accepted item is handed out once, in order. *)
THEOREM Refinement == Spec => RefinesFifo
<1>1. Init => Fifo!Init
  BY InitRefines
<1>2. IInv /\ IInv' /\ [Next]_vars => [Fifo!Next]_<<Queue, Hand>>
  BY NextRefines
<1>3. QED
  BY <1>1, <1>2, Inductive, PTL DEF RefinesFifo, Fifo!Spec, Spec

-----------------------------------------------------------------------------
(* Refusals *)

(* What a call knows of its refusals so far.  An enque that has counted two tries
   at one index found the node of that index busy while the index was next, or
   the index has moved on; a deque whose head has moved lost it to a rival. *)
Afresh(p) == pc[p] = "idle" => tries[p] = 0 /\ old[p] = -1

EnqWhy(p) ==
  /\ pc[p] \in SeeksNode => old[p] <= tail
  /\ pc[p] = "enq_load" /\ tries[p] >= 2 /\ old[p] = tail => p \in metBusy
  /\ pc[p] \in {"enq_tag", "enq_cas"} =>
       /\ old[p] <= cur[p]
       /\ tries[p] >= 2 /\ old[p] = cur[p] => p \in metBusy

DeqWhy(p) == pc[p] \in {"deq_tag", "deq_cas"} /\ cur[p] # head => p \in metRival

Why(p) == Afresh(p) /\ EnqWhy(p) /\ DeqWhy(p)
WhyInv == \A p \in Proc : Why(p)

LEMMA InitWhy == HInit => WhyInv
BY DEF HInit, Init, WhyInv, Why, Afresh, EnqWhy, DeqWhy, SeeksNode

\* What is remembered of a call stays remembered while it goes on.
LEMMA Remembered ==
  ASSUME HNext, NEW p \in Proc
  PROVE  /\ p \in metBusy /\ {pc[p], pc'[p]} \subseteq SeeksNode => p \in metBusy'
         /\ NodeBusy /\ {pc[p], pc'[p]} \subseteq SeeksNode => p \in metBusy'
         /\ p \in metRival /\ {pc[p], pc'[p]} \subseteq SeeksItem => p \in metRival'
         /\ head' # head /\ {pc[p], pc'[p]} \subseteq SeeksItem => p \in metRival'
BY DEF HNext, Meets

\* A step of another process.
LEMMA OthersWhy ==
  ASSUME IInv, HNext, NEW p \in Proc, Why(p),
         pc'[p] = pc[p], cur'[p] = cur[p], old'[p] = old[p], tries'[p] = tries[p],
         tail' \in Nat, tail <= tail'
  PROVE  Why(p)'
<1>1. TypeOK
  BY DEF IInv
<1>2. EnqWhy(p)'
  BY <1>1, Remembered DEF TypeOK, Why, EnqWhy, SeeksNode
<1>3. DeqWhy(p)'
  BY <1>1, Remembered DEF TypeOK, Why, DeqWhy, SeeksItem
<1>4. QED
  BY <1>2, <1>3 DEF Why, Afresh

\* The locals of the other processes, and the tail, in any step.
LEMMA OthersStay ==
  ASSUME IInv, Next
  PROVE  \E p \in Proc :
           /\ \A q \in Proc : q # p => /\ pc'[q] = pc[q] /\ cur'[q] = cur[q]
                                       /\ old'[q] = old[q] /\ tries'[q] = tries[q]
           /\ tail' \in Nat /\ tail <= tail'
           /\ \/ p \in Producer /\ EnqStep(p)
              \/ p \in Producer /\ \E g \in Goods : EnqCall(p, g)
              \/ p \in Consumer /\ (DeqStep(p) \/ DeqCall(p) \/ ClearCall(p))
              \/ p \in Observer /\ (SizeTail(p) \/ SizeHead(p))
<1>1. TypeOK
  BY DEF IInv
<1> USE DEF Call, Return, GoTo
<1>2. ASSUME NEW p \in Producer, EnqStep(p)
      PROVE  /\ \A q \in Proc : q # p => /\ pc'[q] = pc[q] /\ cur'[q] = cur[q]
                                         /\ old'[q] = old[q] /\ tries'[q] = tries[q]
             /\ tail' \in Nat /\ tail <= tail'
  <2>1. CASE EnqLoad(p) \/ EnqTagFree(p) \/ EnqCasWin(p) \/ EnqCopy(p) \/ EnqPublish(p)
    BY <1>1, <2>1 DEF TypeOK, EnqLoad, EnqTagFree, EnqCasWin, EnqCopy, EnqPublish, shared
  <2>2. CASE EnqTagBusy(p) \/ EnqCasLose(p)
    BY <1>1, <2>2 DEF TypeOK, EnqTagBusy, EnqCasLose, EnqRetry, shared
  <2>3. QED
    BY <1>2, <2>1, <2>2 DEF EnqStep
<1>3. ASSUME NEW p \in Consumer, DeqStep(p) \/ DeqCall(p) \/ ClearCall(p)
      PROVE  /\ \A q \in Proc : q # p => /\ pc'[q] = pc[q] /\ cur'[q] = cur[q]
                                         /\ old'[q] = old[q] /\ tries'[q] = tries[q]
             /\ tail' \in Nat /\ tail <= tail'
  BY <1>1, <1>3, SMTT(30) DEF TypeOK, DeqStep, DeqCall, ClearCall, DeqLoad, DeqTagReady, DeqTagMiss,
    DeqCasWin, DeqCasLose, DeqCopy, DeqRecycle, shared
<1>4. ASSUME NEW p \in Producer, \E g \in Goods : EnqCall(p, g)
      PROVE  /\ \A q \in Proc : q # p => /\ pc'[q] = pc[q] /\ cur'[q] = cur[q]
                                         /\ old'[q] = old[q] /\ tries'[q] = tries[q]
             /\ tail' \in Nat /\ tail <= tail'
  BY <1>1, <1>4 DEF TypeOK, EnqCall, shared
<1>5. ASSUME NEW p \in Observer, SizeTail(p) \/ SizeHead(p)
      PROVE  /\ \A q \in Proc : q # p => /\ pc'[q] = pc[q] /\ cur'[q] = cur[q]
                                         /\ old'[q] = old[q] /\ tries'[q] = tries[q]
             /\ tail' \in Nat /\ tail <= tail'
  BY <1>1, <1>5 DEF TypeOK, SizeTail, SizeHead, shared
<1>6. QED
  BY <1>2, <1>3, <1>4, <1>5 DEF Next, Proc

\* A return leaves nothing to be explained.
LEMMA ReturnWhy ==
  ASSUME TypeOK, NEW p \in Proc, Return(p)
  PROVE  Why(p)'
BY DEF TypeOK, Return, Why, Afresh, EnqWhy, DeqWhy, SeeksNode

\* The lap of an index that is next tells whether its node is busy.
LEMMA BusyWhy ==
  ASSUME ~WeakCas, IInv, HNext, NEW p \in Proc, Why(p), EnqTagBusy(p) \/ EnqCasLose(p)
  PROVE  /\ Why(p)'
         /\ EnqRefused(p) => p \in metBusy
<1>1. TypeOK /\ ProcInv(p)
  BY DEF IInv
<1>2. /\ pc[p] \in {"enq_tag", "enq_cas"} /\ cur[p] \in Nat /\ old[p] \in Int
      /\ tries[p] \in 0 .. 3 /\ head \in Nat /\ tail \in Nat /\ cur[p] <= tail
      /\ UNCHANGED <<head, tail>>
  BY <1>1 DEF TypeOK, TRIES, ProcInv, EnqTagBusy, EnqCasLose, shared
<1>3. PICK c \in Nat : /\ EnqRetry(p, c) /\ c <= tail
                       /\ old[p] <= c
                       /\ c = old[p] => cur[p] = c
                       /\ c = old[p] /\ c = tail => NodeBusy
  <2>1. CASE EnqTagBusy(p)
    BY <1>2, <2>1 DEF EnqTagBusy, NodeBusy, Why, EnqWhy
  <2>2. CASE EnqCasLose(p)
    BY <1>2, <2>2 DEF EnqCasLose, Why, EnqWhy
  <2>3. QED
    BY <2>1, <2>2
<1> DEFINE n == IF c # old[p] THEN 1 ELSE tries[p] + 1
<1>4. CASE n > TRIES /\ CountError(p) /\ Return(p)
  <2>1. c = old[p] /\ tries[p] = 3
    BY <1>2, <1>4 DEF TRIES
  <2>2. p \in metBusy
    BY <1>2, <1>3, <2>1 DEF Why, EnqWhy
  <2>3. QED
    BY <1>1, <1>4, <2>2, ReturnWhy
<1>5. CASE /\ n <= TRIES
           /\ cur' = [cur EXCEPT ![p] = c]
           /\ old' = [old EXCEPT ![p] = c]
           /\ tries' = [tries EXCEPT ![p] = n]
           /\ GoTo(p, "enq_load")
           /\ UNCHANGED <<errs, buf, clearing>>
  <2>1. pc'[p] = "enq_load" /\ old'[p] = c /\ tries'[p] = n
    BY <1>1, <1>5 DEF TypeOK, GoTo
  <2>2. n >= 2 /\ c = tail => p \in metBusy'
    <3>1. n >= 2 => c = old[p]
      BY <1>2
    <3>2. {pc[p], pc'[p]} \subseteq SeeksNode
      BY <1>2, <2>1 DEF SeeksNode
    <3> HIDE DEF n
    <3>3. QED
      BY <1>3, <3>1, <3>2, Remembered
  <2> HIDE DEF n
  <2>3. QED
    BY <1>2, <1>3, <2>1, <2>2 DEF Why, Afresh, EnqWhy, DeqWhy, SeeksNode, EnqRefused
<1>6. QED
  BY <1>3, <1>4, <1>5 DEF EnqRetry

LEMMA EnqStepWhy ==
  ASSUME ~WeakCas, IInv, HNext, NEW p \in Proc, Why(p), EnqStep(p)
  PROVE  Why(p)'
<1>1. TypeOK
  BY DEF IInv
<1>2. tail \in Nat /\ cur[p] \in Nat /\ old[p] \in Int /\ tries[p] \in 0 .. 3
  BY <1>1 DEF TypeOK, TRIES
<1>3. CASE EnqLoad(p)
  <2>1. /\ pc[p] = "enq_load" /\ pc'[p] = "enq_tag" /\ cur'[p] = tail
        /\ UNCHANGED <<tail, old, tries>>
    BY <1>1, <1>3 DEF EnqLoad, GoTo, TypeOK, shared
  <2>2. p \in metBusy => p \in metBusy'
    BY <2>1, Remembered DEF SeeksNode
  <2>3. QED
    BY <1>2, <2>1, <2>2 DEF Why, Afresh, EnqWhy, DeqWhy, SeeksNode
<1>4. CASE EnqTagFree(p)
  <2>1. /\ pc[p] = "enq_tag" /\ pc'[p] = "enq_cas"
        /\ UNCHANGED <<tail, cur, old, tries>>
    BY <1>1, <1>4 DEF EnqTagFree, GoTo, TypeOK, shared
  <2>2. p \in metBusy => p \in metBusy'
    BY <2>1, Remembered DEF SeeksNode
  <2>3. QED
    BY <2>1, <2>2 DEF Why, Afresh, EnqWhy, DeqWhy, SeeksNode
<1>5. CASE EnqCasWin(p) \/ EnqCopy(p)
  <2>1. pc'[p] \in {"enq_copy", "enq_pub"}
    BY <1>1, <1>5 DEF EnqCasWin, EnqCopy, GoTo, TypeOK
  <2>2. QED
    BY <2>1 DEF Why, Afresh, EnqWhy, DeqWhy, SeeksNode
<1>6. CASE EnqPublish(p)
  BY <1>1, <1>6, ReturnWhy DEF EnqPublish
<1>7. QED
  BY <1>3, <1>4, <1>5, <1>6, BusyWhy DEF EnqStep

LEMMA DeqStepWhy ==
  ASSUME ~WeakCas, IInv, HNext, NEW p \in Proc, Why(p), DeqStep(p)
  PROVE  /\ Why(p)'
         /\ DeqRefused(p) => p \in metRival \/ ItemMissing
<1>1. TypeOK
  BY DEF IInv
<1>2. CASE DeqLoad(p)
  <2>1. pc[p] = "deq_load" /\ pc'[p] = "deq_tag" /\ cur'[p] = head /\ head' = head
    BY <1>1, <1>2 DEF DeqLoad, GoTo, TypeOK, shared
  <2>2. QED
    BY <2>1 DEF Why, Afresh, EnqWhy, DeqWhy, SeeksNode, DeqRefused
<1>3. CASE DeqTagReady(p)
  <2>1. pc[p] = "deq_tag" /\ pc'[p] = "deq_cas" /\ UNCHANGED <<cur, head>>
    BY <1>1, <1>3 DEF DeqTagReady, GoTo, TypeOK, shared
  <2>2. p \in metRival => p \in metRival'
    BY <2>1, Remembered DEF SeeksItem
  <2>3. QED
    BY <2>1, <2>2 DEF Why, Afresh, EnqWhy, DeqWhy, SeeksNode, DeqRefused
<1>4. CASE DeqTagMiss(p)
  <2>1. Why(p)'
    BY <1>1, <1>4, ReturnWhy DEF DeqTagMiss
  <2>2. p \in metRival \/ ItemMissing
    BY <1>4 DEF DeqTagMiss, ItemMissing, Why, DeqWhy
  <2>3. QED
    BY <2>1, <2>2
<1>5. CASE DeqCasLose(p)
  <2>1. p \in metRival
    BY <1>5 DEF DeqCasLose, Why, DeqWhy
  <2>2. Return(p) \/ GoTo(p, "deq_load")
    BY <1>5 DEF DeqCasLose
  <2>3. CASE GoTo(p, "deq_load")
    <3>1. pc'[p] = "deq_load"
      BY <1>1, <2>3 DEF GoTo, TypeOK
    <3>2. QED
      BY <2>1, <3>1 DEF Why, Afresh, EnqWhy, DeqWhy, SeeksNode
  <2>4. QED
    BY <1>1, <2>1, <2>2, <2>3, ReturnWhy
<1>6. CASE DeqCasWin(p) \/ DeqCopy(p)
  <2>1. pc'[p] \in {"deq_copy", "deq_pub"}
    BY <1>1, <1>6 DEF DeqCasWin, DeqCopy, GoTo, TypeOK
  <2>2. QED
    BY <2>1 DEF Why, Afresh, EnqWhy, DeqWhy, SeeksNode, DeqRefused
<1>7. CASE DeqRecycle(p)
  <2>1. pc[p] = "deq_pub" /\ (Return(p) \/ GoTo(p, "deq_load"))
    BY <1>7 DEF DeqRecycle
  <2>2. CASE GoTo(p, "deq_load")
    <3>1. pc'[p] = "deq_load"
      BY <1>1, <2>2 DEF GoTo, TypeOK
    <3>2. QED
      BY <2>1, <3>1 DEF Why, Afresh, EnqWhy, DeqWhy, SeeksNode, DeqRefused
  <2>3. QED
    BY <1>1, <2>1, <2>2, ReturnWhy DEF DeqRefused
<1>8. QED
  BY <1>2, <1>3, <1>4, <1>5, <1>6, <1>7 DEF DeqStep

LEMMA CallWhy ==
  ASSUME IInv, NEW p \in Proc, Why(p), NEW g, NEW l \in {"enq_load", "deq_load"},
         Call(p, l, g), UNCHANGED <<shared, errs, log>>
  PROVE  Why(p)'
<1>1. /\ pc[p] = "idle" /\ pc'[p] = l /\ UNCHANGED <<old, tries, tail>>
  BY DEF IInv, TypeOK, Call, shared
<1>2. tail \in Nat
  BY DEF IInv, TypeOK
<1>3. QED
  BY <1>1, <1>2 DEF Why, Afresh, EnqWhy, DeqWhy, SeeksNode

LEMMA ObserverWhy ==
  ASSUME IInv, NEW p \in Proc, Why(p), SizeTail(p) \/ SizeHead(p)
  PROVE  Why(p)'
<1>1. TypeOK
  BY DEF IInv
<1>2. CASE SizeTail(p)
  <2>1. pc'[p] = "size_head"
    BY <1>1, <1>2 DEF SizeTail, GoTo, TypeOK
  <2>2. QED
    BY <2>1 DEF Why, Afresh, EnqWhy, DeqWhy, SeeksNode
<1>3. QED
  BY <1>1, <1>2, ReturnWhy DEF SizeHead

LEMMA NextWhy ==
  ASSUME ~WeakCas, IInv, WhyInv, [HNext]_<<vars, history>>
  PROVE  WhyInv'
<1>1. CASE HNext
  <2>1. PICK p \in Proc :
           /\ \A q \in Proc : q # p => /\ pc'[q] = pc[q] /\ cur'[q] = cur[q]
                                       /\ old'[q] = old[q] /\ tries'[q] = tries[q]
           /\ tail' \in Nat /\ tail <= tail'
           /\ \/ p \in Producer /\ EnqStep(p)
              \/ p \in Producer /\ \E g \in Goods : EnqCall(p, g)
              \/ p \in Consumer /\ (DeqStep(p) \/ DeqCall(p) \/ ClearCall(p))
              \/ p \in Observer /\ (SizeTail(p) \/ SizeHead(p))
    BY <1>1, OthersStay DEF HNext
  <2>2. ASSUME NEW q \in Proc, q # p PROVE Why(q)'
    BY <1>1, <2>1, <2>2, OthersWhy DEF WhyInv
  <2>3. Why(p)
    BY DEF WhyInv
  <2>4. CASE EnqStep(p)
    BY <1>1, <2>2, <2>3, <2>4, EnqStepWhy DEF WhyInv
  <2>5. CASE \E g \in Goods : EnqCall(p, g)
    <3>1. Why(p)'
      BY <2>3, <2>5, CallWhy DEF EnqCall
    <3>2. QED
      BY <2>2, <3>1 DEF WhyInv
  <2>6. CASE DeqStep(p)
    BY <1>1, <2>2, <2>3, <2>6, DeqStepWhy DEF WhyInv
  <2>7. CASE DeqCall(p) \/ ClearCall(p)
    <3>1. Why(p)'
      BY <2>3, <2>7, CallWhy DEF DeqCall, ClearCall
    <3>2. QED
      BY <2>2, <3>1 DEF WhyInv
  <2>8. CASE SizeTail(p) \/ SizeHead(p)
    BY <2>2, <2>3, <2>8, ObserverWhy DEF WhyInv
  <2>9. QED
    BY <2>1, <2>4, <2>5, <2>6, <2>7, <2>8
<1>2. CASE UNCHANGED <<vars, history>>
  BY <1>2 DEF vars, history, WhyInv, Why, Afresh, EnqWhy, DeqWhy
<1>3. QED
  BY <1>1, <1>2

LEMMA HistoryImplements == HSpec => Spec
<1>1. HInit => Init
  BY DEF HInit
<1>2. [HNext]_<<vars, history>> => [Next]_vars
  BY DEF HNext
<1>3. QED
  BY <1>1, <1>2, PTL DEF HSpec, Spec

LEMMA WhyInductive == ASSUME ~WeakCas PROVE HSpec => []WhyInv
<1>1. IInv /\ WhyInv /\ [HNext]_<<vars, history>> => WhyInv'
  BY NextWhy
<1>2. QED
  BY InitWhy, <1>1, HistoryImplements, Inductive, PTL DEF HSpec

\* Only the tag check and the compare-exchange refuse.
LEMMA RefusalSteps ==
  ASSUME IInv, Next, NEW p \in Proc
  PROVE  /\ EnqRefused(p) => EnqTagBusy(p) \/ EnqCasLose(p)
         /\ DeqRefused(p) => DeqStep(p)
<1>1. TypeOK
  BY DEF IInv
<1>2. PICK q \in Proc :
        /\ \A r \in Proc : r # q => /\ pc'[r] = pc[r] /\ cur'[r] = cur[r]
                                    /\ old'[r] = old[r] /\ tries'[r] = tries[r]
        /\ \/ q \in Producer /\ EnqStep(q)
           \/ q \in Producer /\ \E g \in Goods : EnqCall(q, g)
           \/ q \in Consumer /\ (DeqStep(q) \/ DeqCall(q) \/ ClearCall(q))
           \/ q \in Observer /\ (SizeTail(q) \/ SizeHead(q))
  BY OthersStay
<1>3. CASE q # p
  BY <1>2, <1>3 DEF EnqRefused, DeqRefused
<1>4. CASE q = p
  <2>1. CASE EnqStep(p)
    <3>1. CASE EnqLoad(p) \/ EnqTagFree(p) \/ EnqCasWin(p) \/ EnqCopy(p) \/ EnqPublish(p)
      BY <1>1, <3>1 DEF EnqRefused, DeqRefused, EnqLoad, EnqTagFree, EnqCasWin, EnqCopy,
                        EnqPublish, GoTo, TypeOK
    <3>2. CASE EnqTagBusy(p) \/ EnqCasLose(p)
      BY <3>2 DEF DeqRefused, EnqTagBusy, EnqCasLose
    <3>3. QED
      BY <2>1, <3>1, <3>2 DEF EnqStep
  <2>2. CASE DeqStep(p)
    BY <2>2 DEF EnqRefused, DeqStep, DeqLoad, DeqTagReady, DeqTagMiss, DeqCasWin, DeqCasLose,
                DeqCopy, DeqRecycle
  <2>3. CASE (\E g \in Goods : EnqCall(p, g)) \/ DeqCall(p) \/ ClearCall(p)
    BY <2>3 DEF EnqRefused, DeqRefused, EnqCall, DeqCall, ClearCall, Call
  <2>4. CASE SizeTail(p) \/ SizeHead(p)
    BY <2>4 DEF EnqRefused, DeqRefused, SizeTail, SizeHead
  <2>5. QED
    BY <1>2, <1>4, <2>1, <2>2, <2>3, <2>4
<1>5. QED
  BY <1>3, <1>4

(* An enque gives up only when the node it needed had not been recycled during the
   call: losing races for the tail, however many, is no reason.  (A
   compare-exchange that may fail for no reason would be one.) *)
THEOREM EnqRefusals == ASSUME ~WeakCas PROVE HSpec => EnqRefusedWhenBusy
<1> DEFINE A == \A p \in Producer : EnqRefused(p) => p \in metBusy \/ NodeBusy
<1>1. ASSUME IInv, WhyInv, HNext PROVE A
  BY <1>1, RefusalSteps, BusyWhy DEF HNext, WhyInv, Proc
<1>2. IInv /\ WhyInv /\ [HNext]_<<vars, history>> => [A]_vars
  BY <1>1
<1>3. HSpec => [][A]_vars
  <2> HIDE DEF A
  <2> QED
    BY <1>2, HistoryImplements, Inductive, WhyInductive, PTL DEF HSpec
<1>4. QED
  BY <1>3 DEF EnqRefusedWhenBusy

(* A deque gives up only when, during the call, no item was ready at the head or
   other consumers were taking items. *)
THEOREM DeqRefusals == ASSUME ~WeakCas PROVE HSpec => DeqRefusedWhenBare
<1> DEFINE A == \A p \in Consumer :
                  DeqRefused(p) => p \in metBare \cup metRival \/ ItemMissing
<1>1. ASSUME IInv, WhyInv, HNext PROVE A
  BY <1>1, RefusalSteps, DeqStepWhy DEF HNext, WhyInv, Proc
<1>2. IInv /\ WhyInv /\ [HNext]_<<vars, history>> => [A]_vars
  BY <1>1
<1>3. HSpec => [][A]_vars
  <2> HIDE DEF A
  <2> QED
    BY <1>2, HistoryImplements, Inductive, WhyInductive, PTL DEF HSpec
<1>4. QED
  BY <1>3 DEF DeqRefusedWhenBare
=============================================================================
