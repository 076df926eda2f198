-------------------------- MODULE CraflinRQ_proofs --------------------------
(***************************************************************************)
(* Proofs about CraflinRQ_t for every capacity, number of threads and type *)
(* of object, with exceptions and without: no object is made over another, *)
(* moved from or destroyed twice, none leaks, and the ring implements a    *)
(* bounded first-in first-out queue.                                       *)
(***************************************************************************)
EXTENDS CraflinRQ, NumberLemmas

(* t has claimed the index cur[t] and is at work in its node. *)
Fills(t) == pc[t] \in {"enq_make", "enq_pub"}
Drains(t) == pc[t] \in {"deq_move", "deq_destroy", "deq_pub"}
Works(t) == Fills(t) \/ Drains(t)

(* A node serves one index at a time, the one in its tail tag.  It is free if
   that was not claimed yet; being filled, or left by an exception, while the
   head tag is behind; filled when the head tag is the same, and being drained
   once _head is past it. *)
NodeInv(k) ==
  LET T == n_tail[k]
      H == n_head[k]
  IN  /\ Slot(T) = k
      /\ T < head + Capa /\ tail <= T + Capa
      /\ H <= T
      /\ T >= tail => H < T /\ data[k] = Raw
      /\ H < T => T >= head
      /\ H = T /\ T >= head /\ ~gone => data[k] = log[T]

(* What a thread knows of the node at its index. *)
ProcInv(t) ==
  LET c == cur[t]
      k == Slot(cur[t])
  IN  /\ pc[t] # "idle" => ~gone
      /\ pc[t] \in {"enq_tag", "enq_cas", "enq_make", "enq_pub"} => buf[t] \in Goods
      /\ pc[t] \in {"enq_tag", "enq_cas"} => c <= tail
      /\ pc[t] = "enq_cas" => n_tail[k] >= c
      /\ pc[t] \in {"deq_tag", "deq_cas", "size_tail"} => c <= head
      /\ pc[t] = "deq_cas" => n_head[k] >= c
      /\ Fills(t) => /\ c < tail /\ log[c] = buf[t]
                     /\ n_tail[k] = c /\ n_head[k] < c
      /\ Drains(t) => /\ c < head
                      /\ n_tail[k] = c /\ n_head[k] = c
      /\ pc[t] = "enq_make" => data[k] = Raw
      /\ pc[t] \in {"enq_pub", "deq_move", "deq_destroy"} => data[k] = log[c]
      /\ pc[t] = "deq_pub" => data[k] = Raw
      /\ pc[t] \in {"deq_destroy", "deq_pub"} => buf[t] = log[c]

(* No two threads are at work on the same index. *)
Apart(t, u) == Works(t) /\ Works(u) => cur[t] # cur[u]

(* Unless something threw, there is somebody at work at every node that is
   being filled or drained. *)
Manned(k) ==
  LET T == n_tail[k]
      H == n_head[k]
  IN  (T < tail /\ H < T) \/ (H = T /\ T < head) =>
        \E t \in Thread : Works(t) /\ cur[t] = T

IInv ==
  /\ TypeOK
  /\ \A k \in Ring : NodeInv(k)
  /\ \A t \in Thread : ProcInv(t)
  /\ \A t, u \in Thread : t # u => Apart(t, u)
  /\ ~thrown => \A k \in Ring : Manned(k)
  /\ gone /\ ~thrown => \A k \in Ring : data[k] = Raw

-----------------------------------------------------------------------------
(* Indices and nodes *)

LEMMA SlotInRing ==
  ASSUME NEW i \in Int
  PROVE  Slot(i) \in Ring
BY CapaAssumption, ModInRange DEF Slot, Ring

(* Different indices of one node are at least a lap apart. *)
LEMMA LapApart ==
  ASSUME NEW i \in Int, NEW j \in Int, Slot(i) = Slot(j), i < j
  PROVE  i + Capa <= j
<1>1. SUFFICES ASSUME j < i + Capa PROVE FALSE
  BY CapaAssumption
<1>2. -Capa < j - i /\ j - i < Capa
  BY <1>1, CapaAssumption
<1>3. i = j
  BY <1>2, CapaAssumption, SameNode DEF Slot
<1>4. QED
  BY <1>3

LEMMA SlotNextLap ==
  ASSUME NEW i \in Int
  PROVE  Slot(i + Capa) = Slot(i)
<1>1. (i + Capa) % Capa = i % Capa
  BY CapaAssumption, NextLap
<1>2. QED
  BY <1>1 DEF Slot

(* Threads at work are at different nodes, as a node serves one index. *)
LEMMA OwnNode ==
  ASSUME IInv, NEW t \in Thread, NEW u \in Thread, t # u, Works(t), Works(u)
  PROVE  Slot(cur[t]) # Slot(cur[u])
BY DEF IInv, ProcInv, Apart, Works

-----------------------------------------------------------------------------
(* The initial ring satisfies the invariant. *)
LEMMA InitIInv == Init => IInv
<1> SUFFICES ASSUME Init PROVE IInv
  OBVIOUS
<1>1. TypeOK
  BY CapaAssumption, SMTT(30) DEF Init, TypeOK, Ring
<1>2. ASSUME NEW k \in Ring PROVE NodeInv(k)
  <2>1. Slot(k) = k /\ k \in Nat /\ k < Capa
    BY CapaAssumption, ModOfSmall DEF Slot, Ring
  <2>2. QED
    BY <2>1, CapaAssumption DEF Init, NodeInv
<1>3. ASSUME NEW t \in Thread PROVE ProcInv(t) /\ ~Works(t)
  BY DEF Init, ProcInv, Fills, Drains, Works
<1>4. ASSUME NEW k \in Ring PROVE Manned(k)
  <2>1. k \in Nat
    BY DEF Ring
  <2>2. QED
    BY <2>1 DEF Init, Manned
<1>5. QED
  BY <1>1, <1>2, <1>3, <1>4 DEF IInv, Apart, Init

-----------------------------------------------------------------------------
(* A step that touches nothing but the locals of t, which is at work neither
   before nor after, needs only be looked at where t is. *)
LEMMA LocalStep ==
  ASSUME IInv, NEW t \in Thread, UNCHANGED <<shared, log>>, TypeOK',
         \A u \in Thread : u # t => /\ pc'[u] = pc[u]
                                    /\ cur'[u] = cur[u]
                                    /\ buf'[u] = buf[u],
         ~Works(t), ~Works(t)', ProcInv(t)'
  PROVE  IInv'
<1>1. ASSUME NEW k \in Ring PROVE NodeInv(k)'
  BY DEF IInv, NodeInv, shared, Ring
<1>2. ASSUME NEW u \in Thread, u # t PROVE ProcInv(u)' /\ (Works(u)' <=> Works(u))
  BY <1>2 DEF IInv, ProcInv, shared, Fills, Drains, Works
<1>3. ASSUME NEW u \in Thread, NEW v \in Thread, u # v PROVE Apart(u, v)'
  BY <1>2, <1>3 DEF IInv, Apart
<1>4. ASSUME ~thrown', NEW k \in Ring PROVE Manned(k)'
  <2>1. Manned(k)
    BY <1>4 DEF IInv, shared
  <2>2. \A u \in Thread : Works(u) => Works(u)' /\ cur'[u] = cur[u]
    BY <1>2
  <2>3. QED
    BY <2>1, <2>2 DEF Manned, shared
<1>5. QED
  BY <1>1, <1>2, <1>3, <1>4 DEF IInv, shared, Ring

Labels ==
  {"idle", "enq_tag", "enq_cas", "enq_make", "enq_pub", "deq_tag", "deq_cas",
   "deq_move", "deq_destroy", "deq_pub", "size_tail"}

(* The labels and locals keep their types when one thread moves. *)
LEMMA LocalTypes ==
  ASSUME TypeOK, NEW t \in Thread, NEW l \in Labels, GoTo(t, l)
  PROVE  /\ pc' \in [Thread -> Labels] /\ pc'[t] = l
         /\ \A u \in Thread : u # t => pc'[u] = pc[u]
BY DEF TypeOK, GoTo, Labels

LEMMA ReturnTypes ==
  ASSUME TypeOK, NEW t \in Thread, Return(t)
  PROVE  /\ pc' \in [Thread -> Labels] /\ pc'[t] = "idle"
         /\ cur' \in [Thread -> Nat] /\ buf' \in [Thread -> Goods \cup {None}]
         /\ \A u \in Thread : u # t => /\ pc'[u] = pc[u]
                                      /\ cur'[u] = cur[u]
                                      /\ buf'[u] = buf[u]
BY LocalTypes DEF TypeOK, Return, Labels

(* An idle thread is at work nowhere, and nothing is asked of it. *)
LEMMA IdleThread ==
  ASSUME NEW t \in Thread, pc[t] = "idle"
  PROVE  ProcInv(t) /\ ~Works(t)
BY DEF ProcInv, Fills, Drains, Works

(* A call that returns without having touched the ring. *)
LEMMA ReturnStep ==
  ASSUME IInv, NEW t \in Thread, ~Works(t), Return(t), UNCHANGED <<shared, log>>
  PROVE  IInv'
<1>1. TypeOK
  BY DEF IInv
<1>2. TypeOK'
  BY <1>1, ReturnTypes DEF TypeOK, shared, Ring, Labels
<1>3. pc'[t] = "idle"
  BY <1>1, ReturnTypes
<1>4. ProcInv(t)' /\ ~Works(t)'
  BY <1>3 DEF ProcInv, Fills, Drains, Works
<1>5. QED
  BY <1>1, <1>2, <1>4, ReturnTypes, LocalStep

(* A step that only moves t to another label of its loop, and perhaps takes over
   another index. *)
LEMMA LoadStep ==
  ASSUME IInv, NEW t \in Thread, NEW c \in Nat,
         NEW l \in {"enq_tag", "enq_cas", "deq_tag", "deq_cas"},
         GoTo(t, l), cur' = [cur EXCEPT ![t] = c],
         UNCHANGED <<shared, buf, log>>,
         pc[t] \in {"enq_tag", "enq_cas", "deq_tag", "deq_cas"},
         l \in {"enq_tag", "enq_cas"} => pc[t] \in {"enq_tag", "enq_cas"} /\ c <= tail,
         l \in {"deq_tag", "deq_cas"} => c <= head,
         l = "enq_cas" => n_tail[Slot(c)] >= c,
         l = "deq_cas" => n_head[Slot(c)] >= c
  PROVE  IInv'
<1>1. TypeOK /\ ProcInv(t)
  BY DEF IInv
<1>2. l \in Labels
  BY DEF Labels
<1>3. /\ pc' \in [Thread -> Labels] /\ pc'[t] = l
      /\ \A u \in Thread : u # t => pc'[u] = pc[u]
  BY <1>1, <1>2, LocalTypes
<1>4. TypeOK'
  BY <1>1, <1>3 DEF TypeOK, shared, Ring, Labels
<1>5. /\ cur'[t] = c /\ buf' = buf
      /\ \A u \in Thread : u # t => cur'[u] = cur[u]
  BY <1>1 DEF TypeOK
<1>6. ~Works(t) /\ ~Works(t)'
  BY <1>3 DEF Works, Fills, Drains
<1>7. pc[t] \in {"enq_tag", "enq_cas"} => buf[t] \in Goods
  BY <1>1 DEF ProcInv
<1>8. ~gone
  BY <1>1 DEF ProcInv
<1>9. ProcInv(t)'
  BY <1>3, <1>5, <1>7, <1>8 DEF ProcInv, shared, Fills, Drains
<1>10. QED
  BY <1>3, <1>4, <1>5, <1>6, <1>9, LocalStep

(* The first step of enque, deque and size. *)
LEMMA CallStep ==
  ASSUME IInv, NEW t \in Thread, NEW c \in Nat, NEW g \in Goods \cup {None},
         NEW l \in {"enq_tag", "deq_tag", "size_tail"},
         Call(t, l, c, g),
         l = "enq_tag" => g \in Goods /\ c <= tail,
         l \in {"deq_tag", "size_tail"} => c <= head
  PROVE  IInv'
<1>1. TypeOK
  BY DEF IInv
<1>2. l \in Labels
  BY DEF Labels
<1>3. /\ pc' \in [Thread -> Labels] /\ pc'[t] = l
      /\ \A u \in Thread : u # t => pc'[u] = pc[u]
  BY <1>1, <1>2, LocalTypes DEF Call
<1>4. /\ cur' \in [Thread -> Nat] /\ buf' \in [Thread -> Goods \cup {None}]
      /\ cur'[t] = c /\ buf'[t] = g
      /\ \A u \in Thread : u # t => cur'[u] = cur[u] /\ buf'[u] = buf[u]
  BY <1>1 DEF TypeOK, Call
<1>5. TypeOK'
  BY <1>1, <1>3, <1>4 DEF TypeOK, Call, shared, Ring, Labels
<1>6. ~Works(t) /\ ~Works(t)'
  BY <1>3 DEF Works, Fills, Drains, Call
<1>7. ProcInv(t)'
  BY <1>3, <1>4 DEF ProcInv, Call, shared, Fills, Drains
<1>8. QED
  BY <1>3, <1>4, <1>5, <1>6, <1>7, LocalStep DEF Call

-----------------------------------------------------------------------------
(* The two compare-exchanges *)

(* Whoever wins an index of the tail finds its node free. *)
LEMMA WonNodeFree ==
  ASSUME IInv, NEW t \in Thread, pc[t] = "enq_cas", tail = cur[t]
  PROVE  /\ n_tail[Slot(tail)] = tail /\ n_head[Slot(tail)] < tail
         /\ data[Slot(tail)] = Raw
         /\ tail < head + Capa
<1> DEFINE k == Slot(tail)
<1>1. /\ head \in Nat /\ tail \in Nat /\ head <= tail /\ n_tail[k] >= tail
      /\ k \in Ring /\ n_tail[k] \in Nat
  BY SlotInRing, CapaAssumption DEF IInv, TypeOK, ProcInv
<1>2. /\ Slot(n_tail[k]) = Slot(tail) /\ n_tail[k] < head + Capa
      /\ n_tail[k] >= tail => n_head[k] < n_tail[k] /\ data[k] = Raw
  BY <1>1 DEF IInv, NodeInv
<1>3. ~(tail + Capa <= n_tail[k])
  BY <1>1, <1>2, CapaAssumption
<1>4. n_tail[k] = tail
  <2> HIDE DEF k
  <2>1. ~(tail < n_tail[k])
    BY <1>1, <1>2, <1>3, LapApart
  <2>2. QED
    BY <1>1, <2>1
<1>5. QED
  BY <1>1, <1>2, <1>4

(* Whoever wins an index of the head finds the item of that index. *)
LEMMA WonItemReady ==
  ASSUME IInv, NEW t \in Thread, pc[t] = "deq_cas", head = cur[t]
  PROVE  /\ n_tail[Slot(head)] = head /\ n_head[Slot(head)] = head
         /\ data[Slot(head)] = log[head]
         /\ head < tail
<1> DEFINE k == Slot(head)
<1>1. /\ head \in Nat /\ tail \in Nat /\ head <= tail /\ n_head[k] >= head /\ ~gone
      /\ k \in Ring /\ n_tail[k] \in Nat /\ n_head[k] \in Int
  BY SlotInRing, CapaAssumption, SMTT(30) DEF IInv, TypeOK, ProcInv
<1>2. NodeInv(k)
  BY <1>1 DEF IInv
<1> HIDE DEF k
<1>3. /\ Slot(n_tail[k]) = k /\ n_tail[k] < head + Capa
      /\ n_head[k] <= n_tail[k]
      /\ n_tail[k] >= tail => n_head[k] < n_tail[k]
  BY <1>2 DEF NodeInv
<1>4. n_tail[k] = head
  <2>1. ~(head < n_tail[k])
    BY <1>1, <1>3, CapaAssumption, LapApart DEF k
  <2>2. QED
    BY <1>1, <1>3, <2>1
<1>5. n_head[k] = head /\ head < tail
  BY <1>1, <1>3, <1>4
<1>6. data[k] = log[head]
  BY <1>1, <1>2, <1>4, <1>5 DEF NodeInv
<1>7. QED
  BY <1>4, <1>5, <1>6 DEF k

(* Winning an index of the tail claims it. *)
LEMMA EnqCasWinStep ==
  ASSUME IInv, NEW t \in Thread, EnqCasWin(t)
  PROVE  IInv'
<1>1. TypeOK /\ ProcInv(t) /\ pc[t] = "enq_cas" /\ cur[t] = tail /\ ~gone
  BY DEF IInv, EnqCasWin, ProcInv
<1>2. /\ head \in Nat /\ tail \in Nat /\ head <= tail
      /\ n_tail[Slot(tail)] = tail /\ n_head[Slot(tail)] < tail
      /\ data[Slot(tail)] = Raw /\ tail < head + Capa
      /\ buf[t] \in Goods
  BY <1>1, WonNodeFree DEF TypeOK, ProcInv
<1>3. /\ UNCHANGED <<head, n_head, n_tail, data, gone, thrown, cur, buf>>
      /\ tail' = tail + 1
      /\ log' = [i \in 0 .. tail |-> IF i = tail THEN buf[t] ELSE log[i]]
  BY DEF EnqCasWin
<1>4. /\ pc' \in [Thread -> Labels] /\ pc'[t] = "enq_make"
      /\ \A u \in Thread : u # t => pc'[u] = pc[u]
  BY <1>1, LocalTypes DEF EnqCasWin, Labels
<1>5. /\ log' \in [0 .. tail' - 1 -> Goods] /\ log'[tail] = buf[t]
      /\ \A i \in 0 .. tail - 1 : log'[i] = log[i]
  <2>1. tail' - 1 = tail /\ log \in [0 .. tail - 1 -> Goods]
    BY <1>1, <1>2, <1>3 DEF TypeOK
  <2>2. ASSUME NEW i \in 0 .. tail PROVE i = tail \/ i \in 0 .. tail - 1
    BY <1>2
  <2>3. tail \in 0 .. tail /\ \A i \in 0 .. tail - 1 : i \in 0 .. tail /\ i # tail
    BY <1>2
  <2>4. QED
    BY <1>2, <1>3, <2>1, <2>2, <2>3
<1>6. TypeOK'
  <2>1. tail' \in head' .. head' + Capa
    BY <1>2, <1>3, CapaAssumption
  <2>2. QED
    BY <1>1, <1>3, <1>4, <1>5, <2>1 DEF TypeOK, Ring, Labels
<1>7. ASSUME NEW k \in Ring PROVE NodeInv(k)'
  <2>1. NodeInv(k) /\ n_tail[k] \in Nat /\ n_head[k] \in Int
    BY <1>1 DEF IInv, TypeOK
  <2>2. tail + 1 <= n_tail[k] + Capa
    <3>1. SUFFICES ASSUME tail = n_tail[k] + Capa PROVE FALSE
      BY <1>2, <2>1, CapaAssumption DEF NodeInv
    <3>2. Slot(tail) = Slot(n_tail[k])
      BY <2>1, <3>1, SlotNextLap
    <3>3. QED
      BY <1>2, <2>1, <3>1, <3>2, CapaAssumption DEF NodeInv
  <2>3. n_head[k] = n_tail[k] => n_tail[k] \in 0 .. tail - 1
    BY <1>2, <2>1 DEF NodeInv
  <2>4. QED
    BY <1>2, <1>3, <1>5, <2>1, <2>2, <2>3, CapaAssumption DEF NodeInv, Slot
<1>8. ASSUME NEW u \in Thread, u # t
      PROVE  /\ ProcInv(u)' /\ (Works(u)' <=> Works(u))
             /\ Works(u) => cur[u] # tail
  <2>1. ProcInv(u) /\ cur[u] \in Nat /\ pc'[u] = pc[u]
    BY <1>1, <1>4, <1>8 DEF IInv, TypeOK
  <2>2. Works(u) => cur[u] \in 0 .. tail - 1
    BY <1>2, <2>1 DEF ProcInv, Works
  <2>3. Works(u) => log'[cur[u]] = log[cur[u]]
    BY <1>5, <2>2
  <2>4. QED
    BY <1>2, <1>3, <2>1, <2>2, <2>3 DEF ProcInv, Slot, Works, Fills, Drains
<1>9. ProcInv(t)' /\ Works(t)'
  BY <1>1, <1>2, <1>3, <1>4, <1>5 DEF ProcInv, Slot, Works, Fills, Drains
<1>10. ASSUME NEW u \in Thread, NEW v \in Thread, u # v PROVE Apart(u, v)'
  BY <1>1, <1>3, <1>8, <1>10 DEF IInv, Apart
<1>11. ASSUME ~thrown', NEW k \in Ring PROVE Manned(k)'
  <2>1. Manned(k) /\ NodeInv(k) /\ n_tail[k] \in Nat
    BY <1>1, <1>3, <1>11 DEF IInv, TypeOK
  <2>2. CASE n_tail[k] = tail
    BY <1>1, <1>3, <1>9, <2>2 DEF Manned
  <2>3. CASE n_tail[k] # tail
    <3>1. \A u \in Thread : Works(u) => Works(u)' /\ cur'[u] = cur[u]
      BY <1>3, <1>8, <1>9
    <3>2. n_tail[k] < tail + 1 => n_tail[k] < tail
      BY <1>2, <2>1, <2>3
    <3>3. QED
      BY <1>3, <2>1, <3>1, <3>2 DEF Manned
  <2>4. QED
    BY <2>2, <2>3
<1>12. QED
  BY <1>1, <1>3, <1>6, <1>7, <1>8, <1>9, <1>10, <1>11 DEF IInv, Ring

(* Winning an index of the head takes its item over. *)
LEMMA DeqCasWinStep ==
  ASSUME IInv, NEW t \in Thread, DeqCasWin(t)
  PROVE  IInv'
<1>1. TypeOK /\ ProcInv(t) /\ pc[t] = "deq_cas" /\ cur[t] = head /\ ~gone
  BY DEF IInv, DeqCasWin, ProcInv
<1>2. /\ head \in Nat /\ tail \in Nat /\ head < tail /\ tail <= head + Capa
      /\ n_tail[Slot(head)] = head /\ n_head[Slot(head)] = head
      /\ data[Slot(head)] = log[head]
  BY <1>1, WonItemReady, CapaAssumption DEF TypeOK
<1>3. /\ UNCHANGED <<tail, n_head, n_tail, data, gone, thrown, cur, buf, log>>
      /\ head' = head + 1
  BY DEF DeqCasWin
<1>4. /\ pc' \in [Thread -> Labels] /\ pc'[t] = "deq_move"
      /\ \A u \in Thread : u # t => pc'[u] = pc[u]
  BY <1>1, LocalTypes DEF DeqCasWin, Labels
<1>5. TypeOK'
  <2>1. tail' \in head' .. head' + Capa
    BY <1>2, <1>3, CapaAssumption
  <2>2. QED
    BY <1>1, <1>2, <1>3, <1>4, <2>1 DEF TypeOK, Ring, Labels
<1>6. ASSUME NEW k \in Ring PROVE NodeInv(k)'
  <2>1. NodeInv(k) /\ n_tail[k] \in Nat /\ n_head[k] \in Int
    BY <1>1 DEF IInv, TypeOK
  <2>2. n_head[k] < n_tail[k] => n_tail[k] >= head + 1
    BY <1>2, <2>1 DEF NodeInv
  <2>3. QED
    BY <1>2, <1>3, <2>1, <2>2, CapaAssumption DEF NodeInv, Slot
<1>7. ASSUME NEW u \in Thread, u # t
      PROVE  /\ ProcInv(u)' /\ (Works(u)' <=> Works(u))
             /\ Works(u) => cur[u] # head
  <2>1. ProcInv(u) /\ cur[u] \in Nat /\ pc'[u] = pc[u]
    BY <1>1, <1>4, <1>7 DEF IInv, TypeOK
  <2>2. Works(u) => cur[u] # head
    BY <1>2, <2>1 DEF ProcInv, Works
  <2>3. QED
    BY <1>2, <1>3, <2>1, <2>2 DEF ProcInv, Slot, Works, Fills, Drains
<1>8. ProcInv(t)' /\ Works(t)'
  BY <1>1, <1>2, <1>3, <1>4 DEF ProcInv, Slot, Works, Fills, Drains
<1>9. ASSUME NEW u \in Thread, NEW v \in Thread, u # v PROVE Apart(u, v)'
  BY <1>1, <1>3, <1>7, <1>9 DEF IInv, Apart
<1>10. ASSUME ~thrown', NEW k \in Ring PROVE Manned(k)'
  <2>1. Manned(k) /\ n_tail[k] \in Nat
    BY <1>1, <1>3, <1>10 DEF IInv, TypeOK
  <2>2. CASE n_tail[k] = head
    BY <1>1, <1>3, <1>8, <2>2 DEF Manned
  <2>3. CASE n_tail[k] # head
    <3>1. \A u \in Thread : Works(u) => Works(u)' /\ cur'[u] = cur[u]
      BY <1>3, <1>7, <1>8
    <3>2. n_tail[k] < head + 1 => n_tail[k] < head
      BY <1>2, <2>1, <2>3
    <3>3. QED
      BY <1>3, <2>1, <3>1, <3>2 DEF Manned
  <2>4. QED
    BY <2>2, <2>3
<1>11. QED
  BY <1>1, <1>3, <1>5, <1>6, <1>7, <1>8, <1>9, <1>10 DEF IInv, Ring

-----------------------------------------------------------------------------
(* The work on a node *)

(* Work at a node disturbs nobody else: to keep the invariant it must leave the
   node, and what the thread itself knows of it, in order. *)
LEMMA WorkStep ==
  ASSUME IInv, TypeOK', NEW t \in Thread, Works(t),
         NEW k \in Ring, k = Slot(cur[t]),
         UNCHANGED <<head, tail, gone, log>>,
         thrown => thrown',
         \A u \in Thread : u # t => /\ pc'[u] = pc[u]
                                    /\ cur'[u] = cur[u]
                                    /\ buf'[u] = buf[u],
         \A j \in Ring : j # k => /\ n_head'[j] = n_head[j]
                                  /\ n_tail'[j] = n_tail[j]
                                  /\ data'[j] = data[j],
         n_head'[k] >= n_head[k], n_tail'[k] >= n_tail[k],
         Works(t)' => cur'[t] = cur[t],
         NodeInv(k)', ProcInv(t)',
         ~thrown' => Manned(k)'
  PROVE  IInv'
<1>1. /\ TypeOK /\ ProcInv(t) /\ cur[t] \in Nat /\ k \in Ring /\ ~gone
      /\ n_tail[k] = cur[t]
  <2>1. TypeOK /\ ProcInv(t) /\ cur[t] \in Nat
    BY DEF IInv, TypeOK
  <2>2. QED
    BY <2>1, SlotInRing DEF ProcInv, Works, Fills, Drains
<1>2. ASSUME NEW j \in Ring PROVE NodeInv(j)'
  <2>1. CASE j = k
    BY <2>1
  <2>2. CASE j # k
    <3>1. NodeInv(j) /\ n_head'[j] = n_head[j] /\ n_tail'[j] = n_tail[j] /\ data'[j] = data[j]
      BY <2>2 DEF IInv
    <3>2. QED
      BY <3>1 DEF NodeInv, Slot
  <2>3. QED
    BY <2>1, <2>2
<1>3. ASSUME NEW u \in Thread, u # t
      PROVE  ProcInv(u)' /\ (Works(u)' <=> Works(u))
  <2> DEFINE j == Slot(cur[u])
  <2>1. /\ pc'[u] = pc[u] /\ cur'[u] = cur[u] /\ buf'[u] = buf[u]
        /\ cur[u] \in Nat /\ j \in Ring /\ ProcInv(u)
    BY <1>1, <1>3, SlotInRing DEF IInv, TypeOK
  <2>2. Works(u) => j # k
    BY <1>3, OwnNode
  <2>3. /\ n_head'[j] >= n_head[j] /\ n_tail'[j] >= n_tail[j]
        /\ j # k => /\ n_head'[j] = n_head[j] /\ n_tail'[j] = n_tail[j]
                    /\ data'[j] = data[j]
        /\ n_head[j] \in Int /\ n_tail[j] \in Int
        /\ n_head'[j] \in Int /\ n_tail'[j] \in Int
    BY <1>1, <2>1, SMTT(30) DEF TypeOK, Ring
  <2>4. j' = j
    BY <2>1 DEF Slot
  <2>5. (Works(u)' <=> Works(u)) /\ (Fills(u)' <=> Fills(u)) /\ (Drains(u)' <=> Drains(u))
    BY <2>1 DEF Works, Fills, Drains
  <2> HIDE DEF j
  <2>6. CASE Works(u)
    BY <2>1, <2>2, <2>3, <2>4, <2>5, <2>6 DEF ProcInv, Works, Fills, Drains, j
  <2>7. CASE ~Works(u)
    BY <1>1, <2>1, <2>3, <2>4, <2>5, <2>7 DEF ProcInv, Works, Fills, Drains, j
  <2>8. QED
    BY <2>5, <2>6, <2>7
<1>4. ASSUME NEW u \in Thread, NEW v \in Thread, u # v PROVE Apart(u, v)'
  BY <1>3, <1>4 DEF IInv, Apart
<1>5. ASSUME ~thrown', NEW j \in Ring PROVE Manned(j)'
  <2>1. CASE j = k
    BY <1>5, <2>1
  <2>2. CASE j # k
    <3>1. Manned(j) /\ n_head'[j] = n_head[j] /\ n_tail'[j] = n_tail[j] /\ NodeInv(j)
      BY <1>5, <2>2 DEF IInv
    <3>2. cur[t] # n_tail[j]
      BY <1>1, <2>2, <3>1 DEF NodeInv
    <3>3. ASSUME NEW u \in Thread, Works(u), cur[u] = n_tail[j]
          PROVE  Works(u)' /\ cur'[u] = n_tail[j]
      BY <1>3, <3>2, <3>3
    <3>4. QED
      BY <3>1, <3>3 DEF Manned
  <2>3. QED
    BY <2>1, <2>2
<1>6. QED
  BY <1>1, <1>2, <1>3, <1>4, <1>5 DEF IInv

(* What a thread at work knows, before its step. *)
AtWork(t) ==
  /\ TypeOK /\ ProcInv(t) /\ NodeInv(Slot(cur[t]))
  /\ cur[t] \in Nat /\ Slot(cur[t]) \in Ring /\ ~gone
  /\ n_tail[Slot(cur[t])] = cur[t] /\ n_head[Slot(cur[t])] \in Int
  /\ head \in Nat /\ tail \in Nat /\ head <= tail /\ tail <= head + Capa
  /\ cur[t] < tail /\ log[cur[t]] \in Goods

LEMMA WorkerKnows ==
  ASSUME IInv, NEW t \in Thread, Works(t)
  PROVE  AtWork(t)
<1>1. TypeOK /\ ProcInv(t) /\ cur[t] \in Nat
  BY DEF IInv, TypeOK
<1>2. Slot(cur[t]) \in Ring
  BY <1>1, SlotInRing
<1>3. head \in Nat /\ tail \in Nat /\ head <= tail /\ tail <= head + Capa
  BY <1>1, CapaAssumption DEF TypeOK
<1>4. /\ cur[t] < tail /\ n_tail[Slot(cur[t])] = cur[t] /\ ~gone
  BY <1>1, <1>3 DEF ProcInv, Works, Fills, Drains
<1>5. cur[t] \in 0 .. tail - 1
  BY <1>1, <1>3, <1>4
<1>6. QED
  BY <1>1, <1>2, <1>3, <1>4, <1>5 DEF AtWork, IInv, TypeOK

LEMMA EnqMakeStep ==
  ASSUME IInv, NEW t \in Thread, EnqMake(t)
  PROVE  IInv'
<1>1. Works(t) /\ Fills(t) /\ pc[t] = "enq_make"
  BY DEF EnqMake, Works, Fills
<1>2. AtWork(t)
  BY <1>1, WorkerKnows
<1> PICK k \in Ring : k = Slot(cur[t])
  BY <1>2 DEF AtWork
<1>3. /\ UNCHANGED <<head, tail, n_head, n_tail, gone, thrown, cur, buf, log>>
      /\ data' = [data EXCEPT ![k] = buf[t]]
  BY DEF EnqMake
<1>4. /\ pc' \in [Thread -> Labels] /\ pc'[t] = "enq_pub"
      /\ \A u \in Thread : u # t => pc'[u] = pc[u]
  BY <1>2, LocalTypes DEF EnqMake, Labels, AtWork
<1>5. /\ buf[t] \in Goods /\ buf[t] = log[cur[t]] /\ n_head[k] < cur[t]
      /\ cur[t] < tail /\ n_tail[k] = cur[t] /\ ~gone
      /\ data'[k] = buf[t]
      /\ \A j \in Ring : j # k => data'[j] = data[j]
  BY <1>1, <1>2, <1>3 DEF AtWork, ProcInv, TypeOK, Slot
<1>6. TypeOK'
  BY <1>2, <1>3, <1>4, <1>5 DEF TypeOK, AtWork, Ring, Labels
<1>7. ProcInv(t)' /\ Works(t)'
  BY <1>3, <1>4, <1>5 DEF ProcInv, Works, Fills, Drains
<1>8. n_head[k] \in Int /\ tail \in Nat /\ NodeInv(k) /\ cur[t] \in Nat
  BY <1>2 DEF AtWork
<1>9. NodeInv(k)'
  BY <1>3, <1>5, <1>8 DEF NodeInv, Slot
<1>10. Manned(k)'
  BY <1>3, <1>5, <1>7 DEF Manned
<1>11. QED
  BY <1>1, <1>3, <1>4, <1>5, <1>6, <1>7, <1>8, <1>9, <1>10, WorkStep

LEMMA EnqPublishStep ==
  ASSUME IInv, NEW t \in Thread, EnqPublish(t)
  PROVE  IInv'
<1>1. Works(t) /\ Fills(t) /\ pc[t] = "enq_pub"
  BY DEF EnqPublish, Works, Fills
<1>2. AtWork(t)
  BY <1>1, WorkerKnows
<1> PICK k \in Ring : k = Slot(cur[t])
  BY <1>2 DEF AtWork
<1>3. /\ UNCHANGED <<head, tail, n_tail, data, gone, thrown, log>>
      /\ n_head' = [n_head EXCEPT ![k] = cur[t]]
  BY DEF EnqPublish
<1>4. /\ pc' \in [Thread -> Labels] /\ pc'[t] = "idle"
      /\ cur' \in [Thread -> Nat] /\ buf' \in [Thread -> Goods \cup {None}]
      /\ \A u \in Thread : u # t => /\ pc'[u] = pc[u]
                                    /\ cur'[u] = cur[u]
                                    /\ buf'[u] = buf[u]
  BY <1>2, ReturnTypes DEF EnqPublish, AtWork
<1>5. /\ data[k] = log[cur[t]] /\ n_head[k] < cur[t]
      /\ cur[t] < tail /\ n_tail[k] = cur[t] /\ cur[t] \in Nat
      /\ n_head'[k] = cur[t]
      /\ \A j \in Ring : j # k => n_head'[j] = n_head[j]
  BY <1>1, <1>2, <1>3 DEF AtWork, ProcInv, TypeOK
<1>6. TypeOK'
  BY <1>2, <1>3, <1>4, <1>5 DEF TypeOK, AtWork, Ring, Labels
<1>7. ProcInv(t)' /\ ~Works(t)'
  BY <1>4 DEF ProcInv, Works, Fills, Drains
<1>8. /\ n_head[k] \in Int /\ tail \in Nat /\ head \in Nat /\ head <= tail
      /\ NodeInv(k) /\ n_tail[k] >= head
  BY <1>2, <1>5 DEF AtWork, NodeInv
<1>9. NodeInv(k)'
  BY <1>3, <1>5, <1>8 DEF NodeInv, Slot
<1>10. Manned(k)'
  BY <1>3, <1>5, <1>8 DEF Manned
<1>11. QED
  BY <1>1, <1>3, <1>4, <1>5, <1>6, <1>7, <1>8, <1>9, <1>10, WorkStep

(* An exception leaves the node as it is. *)
LEMMA ThrowStep ==
  ASSUME IInv, NEW t \in Thread, EnqThrow(t) \/ DeqThrow(t)
  PROVE  IInv'
<1>1. Works(t) /\ Return(t) /\ thrown'
      /\ UNCHANGED <<head, tail, n_head, n_tail, data, gone, log>>
  BY DEF EnqThrow, DeqThrow, Works, Fills, Drains
<1>2. AtWork(t)
  BY <1>1, WorkerKnows
<1> PICK k \in Ring : k = Slot(cur[t])
  BY <1>2 DEF AtWork
<1>3. /\ pc' \in [Thread -> Labels] /\ pc'[t] = "idle"
      /\ cur' \in [Thread -> Nat] /\ buf' \in [Thread -> Goods \cup {None}]
      /\ \A u \in Thread : u # t => /\ pc'[u] = pc[u]
                                    /\ cur'[u] = cur[u]
                                    /\ buf'[u] = buf[u]
  BY <1>1, <1>2, ReturnTypes DEF AtWork
<1>4. thrown' \in BOOLEAN
  BY DEF EnqThrow, DeqThrow
<1>5. TypeOK'
  BY <1>1, <1>2, <1>3, <1>4 DEF TypeOK, AtWork, Ring, Labels
<1>6. ProcInv(t)' /\ ~Works(t)'
  BY <1>3 DEF ProcInv, Works, Fills, Drains
<1>7. NodeInv(k) /\ n_head[k] \in Int /\ n_tail[k] \in Int
  BY <1>2 DEF AtWork
<1>8. NodeInv(k)'
  BY <1>1, <1>7 DEF NodeInv, Slot
<1>9. QED
  BY <1>1, <1>3, <1>5, <1>6, <1>7, <1>8, WorkStep

LEMMA DeqMoveStep ==
  ASSUME IInv, NEW t \in Thread, DeqMove(t)
  PROVE  IInv'
<1>1. Works(t) /\ Drains(t) /\ pc[t] = "deq_move"
  BY DEF DeqMove, Works, Drains
<1>2. AtWork(t)
  BY <1>1, WorkerKnows
<1> PICK k \in Ring : k = Slot(cur[t])
  BY <1>2 DEF AtWork
<1>3. /\ UNCHANGED <<head, tail, n_head, n_tail, data, gone, thrown, cur, log>>
      /\ buf' = [buf EXCEPT ![t] = data[k]]
  BY DEF DeqMove, shared
<1>4. /\ pc' \in [Thread -> Labels] /\ pc'[t] = "deq_destroy"
      /\ \A u \in Thread : u # t => pc'[u] = pc[u]
  BY <1>2, LocalTypes DEF DeqMove, Labels, AtWork
<1>5. data[k] = log[cur[t]] /\ log[cur[t]] \in Goods
  BY <1>1, <1>2 DEF AtWork, ProcInv
<1>6. /\ buf' \in [Thread -> Goods \cup {None}] /\ buf'[t] = log[cur[t]]
      /\ \A u \in Thread : u # t => buf'[u] = buf[u]
  BY <1>2, <1>3, <1>5 DEF AtWork, TypeOK
<1>7. TypeOK'
  BY <1>2, <1>3, <1>4, <1>6 DEF TypeOK, AtWork, Ring, Labels
<1>8. ProcInv(t)' /\ Works(t)'
  BY <1>1, <1>2, <1>3, <1>4, <1>5, <1>6 DEF AtWork, ProcInv, Works, Fills, Drains, Slot
<1>9. NodeInv(k)'
  BY <1>2, <1>3 DEF AtWork, NodeInv, Slot
<1>10. Manned(k)'
  BY <1>2, <1>3, <1>8 DEF AtWork, Manned
<1>11. n_head[k] \in Int /\ n_tail[k] \in Int
  BY <1>2 DEF AtWork
<1>12. QED
  BY <1>1, <1>3, <1>4, <1>6, <1>7, <1>8, <1>9, <1>10, <1>11, WorkStep

LEMMA DeqDestroyStep ==
  ASSUME IInv, NEW t \in Thread, DeqDestroy(t)
  PROVE  IInv'
<1>1. Works(t) /\ Drains(t) /\ pc[t] = "deq_destroy"
  BY DEF DeqDestroy, Works, Drains
<1>2. AtWork(t)
  BY <1>1, WorkerKnows
<1> PICK k \in Ring : k = Slot(cur[t])
  BY <1>2 DEF AtWork
<1>3. /\ UNCHANGED <<head, tail, n_head, n_tail, gone, thrown, cur, buf, log>>
      /\ data' = [data EXCEPT ![k] = Raw]
  BY DEF DeqDestroy
<1>4. /\ pc' \in [Thread -> Labels] /\ pc'[t] = "deq_pub"
      /\ \A u \in Thread : u # t => pc'[u] = pc[u]
  BY <1>2, LocalTypes DEF DeqDestroy, Labels, AtWork
<1>5. /\ data' \in [Ring -> Goods \cup {Raw}] /\ data'[k] = Raw
      /\ \A j \in Ring : j # k => data'[j] = data[j]
  BY <1>2, <1>3 DEF AtWork, TypeOK
<1>6. TypeOK'
  BY <1>2, <1>3, <1>4, <1>5 DEF TypeOK, AtWork, Ring, Labels
<1>7. ProcInv(t)' /\ Works(t)'
  BY <1>1, <1>2, <1>3, <1>4, <1>5 DEF AtWork, ProcInv, Works, Fills, Drains, Slot
<1>8. cur[t] < head
  BY <1>1, <1>2 DEF AtWork, ProcInv
<1>9. NodeInv(k)'
  BY <1>2, <1>3, <1>5, <1>8 DEF AtWork, NodeInv, Slot
<1>10. Manned(k)'
  BY <1>2, <1>3, <1>7 DEF AtWork, Manned
<1>11. n_head[k] \in Int /\ n_tail[k] \in Int
  BY <1>2 DEF AtWork
<1>12. QED
  BY <1>1, <1>3, <1>4, <1>5, <1>6, <1>7, <1>9, <1>10, <1>11, WorkStep

(* The new tail tag promises the node to the index a lap later. *)
LEMMA DeqRecycleStep ==
  ASSUME IInv, NEW t \in Thread, DeqRecycle(t)
  PROVE  IInv'
<1>1. Works(t) /\ Drains(t) /\ pc[t] = "deq_pub"
  BY DEF DeqRecycle, Works, Drains
<1>2. AtWork(t)
  BY <1>1, WorkerKnows
<1> PICK k \in Ring : k = Slot(cur[t])
  BY <1>2 DEF AtWork
<1>3. /\ UNCHANGED <<head, tail, n_head, data, gone, thrown, log>>
      /\ n_tail' = [n_tail EXCEPT ![k] = cur[t] + Capa]
  BY DEF DeqRecycle
<1>4. /\ pc' \in [Thread -> Labels] /\ pc'[t] = "idle"
      /\ cur' \in [Thread -> Nat] /\ buf' \in [Thread -> Goods \cup {None}]
      /\ \A u \in Thread : u # t => /\ pc'[u] = pc[u]
                                    /\ cur'[u] = cur[u]
                                    /\ buf'[u] = buf[u]
  BY <1>2, ReturnTypes DEF DeqRecycle, AtWork
<1>5. /\ data[k] = Raw /\ n_head[k] = cur[t] /\ n_tail[k] = cur[t]
      /\ cur[t] < head /\ cur[t] \in Nat
  BY <1>1, <1>2 DEF AtWork, ProcInv
<1>6. /\ n_tail' \in [Ring -> Nat] /\ n_tail'[k] = cur[t] + Capa
      /\ \A j \in Ring : j # k => n_tail'[j] = n_tail[j]
  BY <1>2, <1>3, CapaAssumption DEF AtWork, TypeOK
<1>7. TypeOK'
  BY <1>2, <1>3, <1>4, <1>6 DEF TypeOK, AtWork, Ring, Labels
<1>8. ProcInv(t)' /\ ~Works(t)'
  BY <1>4 DEF ProcInv, Works, Fills, Drains
<1>9. Slot(cur[t] + Capa) = k
  BY <1>5, SlotNextLap
<1>10. tail <= cur[t] + Capa /\ head <= tail /\ head \in Nat /\ tail \in Nat
  BY <1>2, <1>5 DEF AtWork, NodeInv
<1>11. NodeInv(k)'
  <2>1. Slot(n_tail'[k]) = k
    BY <1>6, <1>9
  <2>2. QED
    BY <1>3, <1>5, <1>6, <1>10, <2>1, CapaAssumption DEF NodeInv, Slot
<1>12. Manned(k)'
  BY <1>3, <1>5, <1>6, <1>10, CapaAssumption DEF Manned
<1>13. n_tail'[k] >= n_tail[k] /\ n_head'[k] >= n_head[k]
  BY <1>3, <1>5, <1>6, CapaAssumption
<1>14. QED
  BY <1>1, <1>3, <1>4, <1>6, <1>7, <1>8, <1>11, <1>12, <1>13, WorkStep

-----------------------------------------------------------------------------
(* The destructor *)

(* When nobody is at work and nothing ever threw, a node holds an object exactly
   when its index was claimed and not taken out. *)
LEMMA AtRest ==
  ASSUME IInv, ~thrown, \A t \in Thread : pc[t] = "idle", ~gone, NEW k \in Ring
  PROVE  \/ data[k] = Raw /\ n_tail[k] >= tail
         \/ /\ n_tail[k] \in Unclaimed /\ Slot(n_tail[k]) = k
            /\ data[k] = log[n_tail[k]] /\ log[n_tail[k]] \in Goods
<1>1. /\ TypeOK /\ NodeInv(k) /\ Manned(k)
      /\ n_tail[k] \in Nat /\ n_head[k] \in Int /\ head \in Nat /\ tail \in Nat
      /\ log \in [0 .. tail - 1 -> Goods]
  BY CapaAssumption DEF IInv, TypeOK
<1>2. ~((n_tail[k] < tail /\ n_head[k] < n_tail[k])
          \/ (n_head[k] = n_tail[k] /\ n_tail[k] < head))
  BY <1>1, IdleThread DEF Manned
<1>3. CASE n_tail[k] >= tail
  BY <1>1, <1>3 DEF NodeInv
<1>4. CASE n_tail[k] < tail
  <2>1. n_head[k] = n_tail[k] /\ n_tail[k] >= head
    BY <1>1, <1>2, <1>4 DEF NodeInv
  <2>2. n_tail[k] \in 0 .. tail - 1 /\ n_tail[k] \in Unclaimed
    BY <1>1, <1>4, <2>1 DEF Unclaimed
  <2>3. QED
    BY <1>1, <2>1, <2>2 DEF NodeInv
<1>5. QED
  BY <1>1, <1>3, <1>4

LEMMA DestroyStep == IInv /\ Destroy => IInv'
<1> SUFFICES ASSUME IInv, Destroy PROVE IInv'
  OBVIOUS
<1>1. /\ TypeOK /\ ~gone /\ gone' /\ (\A t \in Thread : pc[t] = "idle")
      /\ data' = [k \in Ring |-> IF \E j \in Unclaimed : Slot(j) = k THEN Raw ELSE data[k]]
      /\ UNCHANGED <<head, tail, n_head, n_tail, pc, cur, buf, thrown, log>>
      /\ gone' \in BOOLEAN
  BY DEF IInv, Destroy
<1>2. TypeOK'
  <2>1. data' \in [Ring -> Goods \cup {Raw}]
    BY <1>1 DEF TypeOK
  <2>2. QED
    BY <1>1, <2>1 DEF TypeOK, Ring
<1>3. ASSUME NEW k \in Ring PROVE data'[k] = Raw \/ data'[k] = data[k]
  BY <1>1
<1>4. ASSUME NEW k \in Ring PROVE NodeInv(k)'
  <2>1. NodeInv(k)
    BY DEF IInv
  <2>2. QED
    BY <1>1, <1>3, <2>1 DEF NodeInv, Slot
<1>5. ASSUME NEW t \in Thread PROVE pc'[t] = "idle" /\ ProcInv(t)' /\ ~Works(t) /\ ~Works(t)'
  <2>1. pc[t] = "idle" /\ pc'[t] = "idle"
    BY <1>1
  <2>2. QED
    BY <2>1 DEF ProcInv, Works, Fills, Drains
<1>6. ASSUME ~thrown', NEW k \in Ring PROVE Manned(k)'
  <2>1. Manned(k)
    BY <1>1, <1>6 DEF IInv
  <2>2. QED
    BY <1>1, <1>5, <2>1 DEF Manned
<1>7. ASSUME ~thrown', NEW k \in Ring PROVE data'[k] = Raw
  <2>1. data[k] = Raw \/ \E j \in Unclaimed : Slot(j) = k
    BY <1>1, <1>7, AtRest
  <2>2. QED
    BY <1>1, <2>1
<1>8. QED
  BY <1>2, <1>4, <1>5, <1>6, <1>7 DEF IInv, Apart, Ring

-----------------------------------------------------------------------------
(* The invariant is inductive. *)

LEMMA EnqKeeps ==
  ASSUME IInv, NEW t \in Producer, EnqStep(t) \/ \E g \in Goods : EnqCall(t, g)
  PROVE  IInv'
<1>1. /\ t \in Thread /\ TypeOK /\ ProcInv(t) /\ cur[t] \in Nat
      /\ head \in Nat /\ tail \in Nat
  BY CapaAssumption DEF Thread, IInv, TypeOK
<1>2. CASE \E g \in Goods : EnqCall(t, g)
  <2>1. PICK g \in Goods : Call(t, "enq_tag", tail, g)
    BY <1>2 DEF EnqCall
  <2>2. QED
    BY <1>1, <2>1, CallStep
<1>3. CASE EnqTagFree(t)
  <2>1. cur' = [cur EXCEPT ![t] = cur[t]]
    BY <1>1, <1>3 DEF EnqTagFree, TypeOK
  <2>2. n_tail[Slot(cur[t])] >= cur[t] /\ cur[t] <= tail
    BY <1>1, <1>3 DEF EnqTagFree, ProcInv
  <2>3. QED
    BY <1>1, <1>3, <2>1, <2>2, LoadStep DEF EnqTagFree
<1>4. CASE EnqTagMiss(t)
  BY <1>1, <1>4, ReturnStep DEF EnqTagMiss, Works, Fills, Drains
<1>5. CASE EnqCasWin(t)
  BY <1>1, <1>5, EnqCasWinStep
<1>6. CASE EnqCasLose(t)
  <2>1. /\ GoTo(t, "enq_tag") /\ cur' = [cur EXCEPT ![t] = tail]
        /\ UNCHANGED <<shared, buf, log>> /\ pc[t] = "enq_cas"
    BY <1>6 DEF EnqCasLose
  <2>2. tail <= tail
    BY <1>1
  <2>3. QED
    BY <1>1, <2>1, <2>2, LoadStep
<1>7. CASE EnqMake(t)
  BY <1>1, <1>7, EnqMakeStep
<1>8. CASE EnqThrow(t)
  BY <1>1, <1>8, ThrowStep
<1>9. CASE EnqPublish(t)
  BY <1>1, <1>9, EnqPublishStep
<1>10. QED
  BY <1>2, <1>3, <1>4, <1>5, <1>6, <1>7, <1>8, <1>9 DEF EnqStep

LEMMA DeqKeeps ==
  ASSUME IInv, NEW t \in Consumer, DeqStep(t) \/ DeqCall(t)
  PROVE  IInv'
<1>1. /\ t \in Thread /\ TypeOK /\ ProcInv(t) /\ cur[t] \in Nat
      /\ head \in Nat /\ tail \in Nat
  BY CapaAssumption DEF Thread, IInv, TypeOK
<1>2. CASE DeqCall(t)
  BY <1>1, <1>2, CallStep DEF DeqCall
<1>3. CASE DeqTagReady(t)
  <2>1. cur' = [cur EXCEPT ![t] = cur[t]]
    BY <1>1, <1>3 DEF DeqTagReady, TypeOK
  <2>2. n_head[Slot(cur[t])] >= cur[t] /\ cur[t] <= head
    BY <1>1, <1>3 DEF DeqTagReady, ProcInv
  <2>3. QED
    BY <1>1, <1>3, <2>1, <2>2, LoadStep DEF DeqTagReady
<1>4. CASE DeqTagMiss(t)
  BY <1>1, <1>4, ReturnStep DEF DeqTagMiss, Works, Fills, Drains
<1>5. CASE DeqCasWin(t)
  BY <1>1, <1>5, DeqCasWinStep
<1>6. CASE DeqCasLose(t)
  <2>1. /\ GoTo(t, "deq_tag") /\ cur' = [cur EXCEPT ![t] = head]
        /\ UNCHANGED <<shared, buf, log>> /\ pc[t] = "deq_cas"
    BY <1>6 DEF DeqCasLose
  <2>2. head <= head
    BY <1>1
  <2>3. QED
    BY <1>1, <2>1, <2>2, LoadStep
<1>7. CASE DeqMove(t)
  BY <1>1, <1>7, DeqMoveStep
<1>8. CASE DeqThrow(t)
  BY <1>1, <1>8, ThrowStep
<1>9. CASE DeqDestroy(t)
  BY <1>1, <1>9, DeqDestroyStep
<1>10. CASE DeqRecycle(t)
  BY <1>1, <1>10, DeqRecycleStep
<1>11. QED
  BY <1>2, <1>3, <1>4, <1>5, <1>6, <1>7, <1>8, <1>9, <1>10 DEF DeqStep

LEMMA SizeKeeps ==
  ASSUME IInv, NEW t \in Observer, SizeHead(t) \/ SizeTail(t)
  PROVE  IInv'
<1>1. t \in Thread /\ head \in Nat
  BY DEF Thread, IInv, TypeOK
<1>2. CASE SizeHead(t)
  BY <1>1, <1>2, CallStep DEF SizeHead
<1>3. CASE SizeTail(t)
  BY <1>1, <1>3, ReturnStep DEF SizeTail, Works, Fills, Drains
<1>4. QED
  BY <1>2, <1>3

LEMMA NextKeepsIInv == IInv /\ [Next]_vars => IInv'
<1> SUFFICES ASSUME IInv, [Next]_vars PROVE IInv'
  OBVIOUS
<1>1. CASE UNCHANGED vars
  BY <1>1 DEF vars, IInv, TypeOK, NodeInv, ProcInv, Apart, Manned, Works, Fills,
              Drains, Slot, Ring
<1>2. CASE \E t \in Producer : EnqStep(t) \/ \E g \in Goods : EnqCall(t, g)
  BY <1>2, EnqKeeps
<1>3. CASE \E t \in Consumer : DeqStep(t) \/ DeqCall(t)
  BY <1>3, DeqKeeps
<1>4. CASE \E t \in Observer : SizeHead(t) \/ SizeTail(t)
  BY <1>4, SizeKeeps
<1>5. CASE Destroy
  BY <1>5, DestroyStep
<1>6. QED
  BY <1>1, <1>2, <1>3, <1>4, <1>5 DEF Next

(* Each node serves one index at a time, each index one thread, and unless
   something threw there is a thread at every node that is half way. *)
THEOREM Inductive == Spec => []IInv
BY InitIInv, NextKeepsIInv, PTL DEF Spec

(* The indices, the tags and the locals keep their types, and there are never
   more than Capa items between head and tail: the type invariant. *)
THEOREM TypeCorrect == Spec => []TypeOK
<1>1. IInv => TypeOK
  BY DEF IInv
<1>2. QED
  BY <1>1, Inductive, PTL

(* An enque constructs where no object lives, a deque moves from and destroys
   one that lives, and nobody else is at their node meanwhile. *)
THEOREM LifetimesKept == Spec => []Lifetimes
<1>1. IInv => Lifetimes
  BY DEF IInv, ProcInv, Lifetimes
<1>2. QED
  BY <1>1, Inductive, PTL

LEMMA InvNothingLeaks == IInv => NothingLeaks
<1> SUFFICES ASSUME IInv, ~thrown PROVE NothingLeaks
  BY DEF NothingLeaks
<1>1. ASSUME \A t \in Thread : pc[t] = "idle", ~gone, NEW j \in Unclaimed
      PROVE  data[Slot(j)] # Raw
  <2> DEFINE k == Slot(j)
  <2>1. /\ head \in Nat /\ tail \in Nat /\ j \in Int /\ head <= j /\ j < tail
        /\ tail <= head + Capa /\ TypeOK
    BY CapaAssumption DEF IInv, TypeOK, Unclaimed
  <2>2. k \in Ring
    BY <2>1, SlotInRing
  <2>3. n_tail[k] \in Nat /\ Slot(n_tail[k]) = Slot(j) /\ n_tail[k] < head + Capa
    BY <2>1, <2>2 DEF IInv, NodeInv, TypeOK
  <2>4. data[k] # Raw \/ n_tail[k] >= tail
    BY <1>1, <2>2, AtRest, GoodsAssumption
  <2>5. ~(n_tail[k] >= tail)
    <3> HIDE DEF k
    <3>1. ~(j < n_tail[k])
      BY <2>1, <2>3, CapaAssumption, LapApart
    <3>2. QED
      BY <2>1, <2>3, <3>1
  <2>6. QED
    BY <2>4, <2>5
<1>2. gone => \A k \in Ring : data[k] = Raw
  BY DEF IInv
<1>3. QED
  BY <1>1, <1>2 DEF NothingLeaks

(* The destructor finds an object in every node it walks, each once, and leaves
   none behind, unless an exception was thrown through the ring before. *)
THEOREM NeverLeaks == Spec => []NothingLeaks
BY InvNothingLeaks, Inductive, PTL

(* size() is never below the number of items there are when it loads the tail,
   and so it never wraps below zero. *)
THEOREM SizeNotBelow == Spec => []SizeIsUpper
<1>1. IInv => SizeIsUpper
  BY CapaAssumption DEF IInv, TypeOK, ProcInv, SizeIsUpper, SizeOf
<1>2. QED
  BY <1>1, Inductive, PTL

-----------------------------------------------------------------------------
(* The ring implements a bounded queue. *)

(* The abstract queue has one item for every index between head and tail. *)
QueueFacts ==
  /\ Queue \in Seq(Goods) /\ Len(Queue) = tail - head
  /\ \A n \in 1 .. tail - head : Queue[n] = log[head + n - 1]

LEMMA QueueIsSeq == IInv => QueueFacts
<1> SUFFICES ASSUME IInv PROVE QueueFacts
  OBVIOUS
<1>1. head \in Nat /\ tail \in Nat /\ head <= tail /\ log \in [0 .. tail - 1 -> Goods]
  BY CapaAssumption DEF IInv, TypeOK
<1>2. tail - head \in Nat
  BY <1>1
<1>3. ASSUME NEW n \in 1 .. tail - head PROVE log[head + n - 1] \in Goods
  <2>1. head + n - 1 \in 0 .. tail - 1
    BY <1>1
  <2>2. QED
    BY <1>1, <2>1
<1>4. Queue \in [1 .. tail - head -> Goods]
  BY <1>3 DEF Queue
<1>5. QED
  BY <1>2, <1>4 DEF Queue, QueueFacts

LEMMA InitRefines == Init => Fifo!Init
<1> SUFFICES ASSUME Init PROVE Fifo!Init
  OBVIOUS
<1>1. Len(Queue) = 0 /\ Queue \in Seq(Goods)
  BY InitIInv, QueueIsSeq DEF Init, QueueFacts
<1>2. Queue = <<>>
  BY <1>1
<1>3. Hand = [t \in Thread |-> None]
  BY DEF Init, Hand
<1>4. QED
  BY <1>2, <1>3 DEF Fifo!Init

(* Two queues are the same when they hold the items of the same indices. *)
LEMMA SameQueue ==
  ASSUME NEW Q \in Seq(Goods), NEW R \in Seq(Goods), Len(Q) = Len(R),
         \A n \in 1 .. Len(R) : Q[n] = R[n]
  PROVE  Q = R
BY SeqEqual

(* Winning an index of the tail puts an item, before the item is in the node. *)
LEMMA PutRefines ==
  ASSUME IInv, IInv', NEW t \in Thread, EnqCasWin(t)
  PROVE  buf[t] \in Goods /\ Fifo!Put(buf[t])
<1> DEFINE size == tail - head
           A == Append(Queue, buf[t])
<1>1. /\ head \in Nat /\ tail \in Nat /\ head <= tail /\ tail < head + Capa
      /\ buf[t] \in Goods
  BY WonNodeFree, CapaAssumption DEF IInv, TypeOK, ProcInv, EnqCasWin
<1>2. /\ head' = head /\ tail' = tail + 1 /\ cur' = cur /\ buf' = buf
      /\ pc[t] = "enq_cas" /\ pc' = [pc EXCEPT ![t] = "enq_make"]
      /\ log' = [i \in 0 .. tail |-> IF i = tail THEN buf[t] ELSE log[i]]
  BY DEF EnqCasWin, GoTo
<1>3. /\ Queue \in Seq(Goods) /\ Len(Queue) = size /\ size \in Nat /\ size < Capa
      /\ \A n \in 1 .. size : Queue[n] = log[head + n - 1]
  BY <1>1, QueueIsSeq, CapaAssumption DEF QueueFacts
<1>4. /\ Queue' \in Seq(Goods) /\ Len(Queue') = size + 1
      /\ \A n \in 1 .. size + 1 : Queue'[n] = log'[head + n - 1]
  <2>1. QueueFacts'
    BY QueueIsSeq, PTL
  <2>2. tail' - head' = size + 1
    BY <1>1, <1>2
  <2>3. QED
    BY <1>2, <2>1, <2>2 DEF QueueFacts
<1>5. /\ A \in Seq(Goods) /\ Len(A) = size + 1
      /\ \A n \in 1 .. size : A[n] = Queue[n]
      /\ A[size + 1] = buf[t]
  BY <1>1, <1>3, AppendProperties
<1>6. head + (size + 1) - 1 = tail
  BY <1>1
<1> HIDE DEF A
<1>7. ASSUME NEW n \in 1 .. size + 1 PROVE Queue'[n] = A[n]
  <2>1. CASE n = size + 1
    BY <1>1, <1>2, <1>4, <1>5, <1>6, <2>1
  <2>2. CASE n \in 1 .. size
    <3>1. head + n - 1 \in 0 .. tail /\ head + n - 1 # tail
      BY <1>1, <2>2
    <3>2. QED
      BY <1>2, <1>3, <1>4, <1>5, <2>2, <3>1
  <2>3. QED
    BY <1>3, <2>1, <2>2
<1>8. Queue' = Append(Queue, buf[t])
  <2>1. Queue' = A
    BY <1>4, <1>5, <1>7, SameQueue
  <2>2. QED
    BY <2>1 DEF A
<1>9. Hand' = Hand
  <2>1. ASSUME NEW u \in Thread, pc[u] = "deq_move"
        PROVE  log'[cur[u]] = log[cur[u]]
    <3>1. cur[u] \in Nat /\ cur[u] < head
      BY <2>1 DEF IInv, TypeOK, ProcInv, Drains
    <3>2. cur[u] \in 0 .. tail /\ cur[u] # tail
      BY <1>1, <3>1
    <3>3. QED
      BY <1>2, <3>2
  <2>2. ASSUME NEW u \in Thread
        PROVE  pc'[u] = pc[u] \/ (pc'[u] = "enq_make" /\ pc[u] = "enq_cas")
    BY <1>2 DEF IInv, TypeOK
  <2>3. QED
    BY <1>2, <2>1, <2>2 DEF Hand
<1>10. QED
  BY <1>1, <1>3, <1>8, <1>9 DEF Fifo!Put

(* Winning an index of the head takes the item at the front. *)
LEMMA TakeRefines ==
  ASSUME IInv, IInv', NEW t \in Thread, DeqCasWin(t)
  PROVE  Fifo!Take(t)
<1> DEFINE size == tail - head
           R == Tail(Queue)
<1>1. /\ head \in Nat /\ tail \in Nat /\ head < tail
      /\ cur[t] = head /\ pc[t] = "deq_cas"
  BY WonItemReady, CapaAssumption DEF IInv, TypeOK, DeqCasWin
<1>2. /\ head' = head + 1 /\ UNCHANGED <<tail, log, cur, buf>>
      /\ pc' = [pc EXCEPT ![t] = "deq_move"]
  BY DEF DeqCasWin, GoTo
<1>3. /\ Queue \in Seq(Goods) /\ Len(Queue) = size /\ size \in Nat \ {0}
      /\ \A n \in 1 .. size : Queue[n] = log[head + n - 1]
  BY <1>1, QueueIsSeq DEF QueueFacts
<1>4. /\ Queue' \in Seq(Goods) /\ Len(Queue') = size - 1
      /\ \A n \in 1 .. size - 1 : Queue'[n] = log[head + 1 + n - 1]
  <2>1. QueueFacts'
    BY QueueIsSeq, PTL
  <2>2. tail' - head' = size - 1
    BY <1>1, <1>2
  <2>3. QED
    BY <1>2, <2>1, <2>2 DEF QueueFacts
<1>5. Queue # <<>> /\ Head(Queue) = log[head]
  BY <1>1, <1>3
<1>6. /\ R \in Seq(Goods) /\ Len(R) = size - 1
      /\ \A n \in 1 .. size - 1 : R[n] = Queue[n + 1]
  BY <1>3, <1>5, HeadTailProperties
<1> HIDE DEF R
<1>7. ASSUME NEW n \in 1 .. size - 1 PROVE Queue'[n] = R[n]
  <2>1. n + 1 \in 1 .. size /\ head + 1 + n - 1 = head + (n + 1) - 1
    BY <1>1, <1>3
  <2>2. QED
    BY <1>3, <1>4, <1>6, <2>1
<1>8. Queue' = Tail(Queue)
  <2>1. Queue' = R
    BY <1>4, <1>6, <1>7, SameQueue
  <2>2. QED
    BY <2>1 DEF R
<1>9. Hand[t] = None
  BY <1>1 DEF Hand
<1>10. Hand' = [Hand EXCEPT ![t] = Head(Queue)]
  <2>1. pc'[t] = "deq_move" /\ \A u \in Thread : u # t => pc'[u] = pc[u]
    BY <1>2 DEF IInv, TypeOK
  <2>2. QED
    BY <1>1, <1>2, <1>5, <2>1 DEF Hand
<1>11. QED
  BY <1>5, <1>8, <1>9, <1>10 DEF Fifo!Take

(* The object a deque moves out is the item it took. *)
LEMMA MoveRefines ==
  ASSUME IInv, IInv', NEW t \in Thread, DeqMove(t)
  PROVE  UNCHANGED <<Queue, Hand>>
<1>1. UNCHANGED <<head, tail, cur, log>>
  BY DEF DeqMove, shared
<1>2. /\ pc[t] = "deq_move" /\ pc'[t] = "deq_destroy"
      /\ \A u \in Thread : u # t => pc'[u] = pc[u] /\ buf'[u] = buf[u]
  BY DEF DeqMove, GoTo, IInv, TypeOK
<1>3. buf'[t] = log'[cur'[t]]
  BY <1>2 DEF IInv, ProcInv
<1>4. Queue' = Queue
  BY <1>1 DEF Queue
<1>5. Hand' = Hand
  BY <1>1, <1>2, <1>3 DEF Hand
<1>6. QED
  BY <1>4, <1>5

(* Destroying what is left of it changes nothing. *)
LEMMA DestroyedRefines ==
  ASSUME IInv, NEW t \in Thread, DeqDestroy(t)
  PROVE  UNCHANGED <<Queue, Hand>>
<1>1. UNCHANGED <<head, tail, cur, buf, log>>
  BY DEF DeqDestroy
<1>2. /\ pc[t] = "deq_destroy" /\ pc'[t] = "deq_pub"
      /\ \A u \in Thread : u # t => pc'[u] = pc[u]
  BY DEF DeqDestroy, GoTo, IInv, TypeOK
<1>3. QED
  BY <1>1, <1>2 DEF Queue, Hand

(* Returning the item empties the hand, and so does the exception that loses it. *)
LEMMA GiveRefines ==
  ASSUME IInv, NEW t \in Thread, DeqRecycle(t) \/ DeqThrow(t)
  PROVE  Fifo!Give(t)
<1>1. /\ UNCHANGED <<head, tail, log>> /\ Return(t)
      /\ pc[t] \in {"deq_pub", "deq_move"} /\ Works(t)
  BY DEF DeqRecycle, DeqThrow, Works, Drains
<1>2. AtWork(t)
  BY <1>1, WorkerKnows
<1>3. /\ pc'[t] = "idle"
      /\ \A u \in Thread : u # t => /\ pc'[u] = pc[u]
                                    /\ cur'[u] = cur[u]
                                    /\ buf'[u] = buf[u]
  BY <1>1, <1>2, ReturnTypes DEF AtWork
<1>4. log[cur[t]] # None /\ (pc[t] = "deq_pub" => buf[t] = log[cur[t]])
  BY <1>2, GoodsAssumption DEF AtWork, ProcInv
<1>5. Hand[t] # None
  BY <1>1, <1>4 DEF Hand
<1>6. Queue' = Queue
  BY <1>1 DEF Queue
<1>7. Hand' = [Hand EXCEPT ![t] = None]
  BY <1>1, <1>3 DEF Hand
<1>8. QED
  BY <1>5, <1>6, <1>7 DEF Fifo!Give

(* A step that leaves the indices alone, and moves no thread into or out of the
   second half of a deque, shows the user nothing. *)
LEMMA Stutters ==
  ASSUME IInv, NEW t \in Thread, UNCHANGED <<head, tail, log>>,
         \A u \in Thread : u # t => /\ pc'[u] = pc[u]
                                    /\ cur'[u] = cur[u]
                                    /\ buf'[u] = buf[u],
         ~Drains(t), ~Drains(t)'
  PROVE  UNCHANGED <<Queue, Hand>>
<1>1. Queue' = Queue
  BY DEF Queue
<1>2. Hand' = Hand
  BY DEF Hand, Drains
<1>3. QED
  BY <1>1, <1>2

LEMMA EnqRefines ==
  ASSUME IInv, IInv', NEW t \in Producer,
         EnqStep(t) \/ \E g \in Goods : EnqCall(t, g)
  PROVE  [Fifo!Next]_<<Queue, Hand>>
<1>1. t \in Thread /\ TypeOK
  BY DEF IInv, Thread
<1>2. CASE EnqCasWin(t)
  BY <1>1, <1>2, PutRefines DEF Fifo!Next
<1>3. CASE ~EnqCasWin(t)
  <2>1. /\ UNCHANGED <<head, tail, log>> /\ ~Drains(t) /\ ~Drains(t)'
        /\ \A u \in Thread : u # t => /\ pc'[u] = pc[u]
                                      /\ cur'[u] = cur[u]
                                      /\ buf'[u] = buf[u]
    BY <1>1, <1>3
       DEF EnqStep, EnqTagFree, EnqTagMiss, EnqCasLose, EnqMake, EnqThrow,
           EnqPublish, EnqCall, Call, Return, GoTo, shared, TypeOK, Drains
  <2>2. QED
    BY <1>1, <2>1, Stutters
<1>4. QED
  BY <1>2, <1>3

LEMMA DeqRefines ==
  ASSUME IInv, IInv', NEW t \in Consumer, DeqStep(t) \/ DeqCall(t)
  PROVE  [Fifo!Next]_<<Queue, Hand>>
<1>1. t \in Thread /\ TypeOK
  BY DEF IInv, Thread
<1>2. CASE DeqCasWin(t)
  BY <1>1, <1>2, TakeRefines DEF Fifo!Next
<1>3. CASE DeqMove(t)
  BY <1>1, <1>3, MoveRefines
<1>4. CASE DeqDestroy(t)
  BY <1>1, <1>4, DestroyedRefines
<1>5. CASE DeqRecycle(t) \/ DeqThrow(t)
  BY <1>1, <1>5, GiveRefines DEF Fifo!Next
<1>6. CASE DeqTagReady(t) \/ DeqTagMiss(t) \/ DeqCasLose(t) \/ DeqCall(t)
  <2>1. /\ UNCHANGED <<head, tail, log>> /\ ~Drains(t) /\ ~Drains(t)'
        /\ \A u \in Thread : u # t => /\ pc'[u] = pc[u]
                                      /\ cur'[u] = cur[u]
                                      /\ buf'[u] = buf[u]
    BY <1>1, <1>6
       DEF DeqTagReady, DeqTagMiss, DeqCasLose, DeqCall, Call, Return, GoTo,
           shared, TypeOK, Drains
  <2>2. QED
    BY <1>1, <2>1, Stutters
<1>7. QED
  BY <1>2, <1>3, <1>4, <1>5, <1>6 DEF DeqStep

LEMMA NextRefines == IInv /\ IInv' /\ [Next]_vars => [Fifo!Next]_<<Queue, Hand>>
<1> SUFFICES ASSUME IInv, IInv', [Next]_vars
             PROVE  [Fifo!Next]_<<Queue, Hand>>
  OBVIOUS
<1>1. CASE UNCHANGED vars
  BY <1>1 DEF vars, Queue, Hand
<1>2. CASE \E t \in Producer : EnqStep(t) \/ \E g \in Goods : EnqCall(t, g)
  BY <1>2, EnqRefines
<1>3. CASE \E t \in Consumer : DeqStep(t) \/ DeqCall(t)
  BY <1>3, DeqRefines
<1>4. CASE \E t \in Observer : SizeHead(t) \/ SizeTail(t)
  <2>1. PICK t \in Observer : SizeHead(t) \/ SizeTail(t)
    BY <1>4
  <2>2. t \in Thread /\ TypeOK
    BY DEF IInv, Thread
  <2>3. /\ UNCHANGED <<head, tail, log>> /\ ~Drains(t) /\ ~Drains(t)'
        /\ \A u \in Thread : u # t => /\ pc'[u] = pc[u]
                                      /\ cur'[u] = cur[u]
                                      /\ buf'[u] = buf[u]
    BY <2>1, <2>2 DEF SizeHead, SizeTail, Call, Return, GoTo, shared, TypeOK, Drains
  <2>4. QED
    BY <2>2, <2>3, Stutters
<1>5. CASE Destroy
  BY <1>5 DEF Destroy, Queue, Hand
<1>6. QED
  BY <1>1, <1>2, <1>3, <1>4, <1>5 DEF Next

(* The ring is a bounded FIFO queue, exceptions or none: each accepted item is
   handed to one thread, in order. *)
THEOREM Refinement == Spec => RefinesFifo
<1>1. Init => Fifo!Init
  BY InitRefines
<1>2. IInv /\ IInv' /\ [Next]_vars => [Fifo!Next]_<<Queue, Hand>>
  BY NextRefines
<1>3. QED
  BY <1>1, <1>2, Inductive, PTL DEF RefinesFifo, Fifo!Spec, Spec
=============================================================================
