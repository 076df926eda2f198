------------------------------ MODULE CraflinRQ ------------------------------
(***************************************************************************)
(* CraflinRQ_t<T>: the multi-producer multi-consumer ring that threads of  *)
(* one process share (include/leonutils/CraflinRQ.tpp).  Unlike            *)
(* ShmAtmRQ_t it holds objects, constructed in a node by enque and         *)
(* destroyed there by deque, and it refuses at the first tag that does     *)
(* not fit.  A load, store or compare-exchange of a shared word is a step; *)
(* so is the work on the object of a node.                                 *)
(*                                                                         *)
(* Indices are not wrapped: at 10^9 operations a second 64 bits last for   *)
(* five centuries.                                                         *)
(***************************************************************************)
EXTENDS Integers

CONSTANTS
  Producer, Consumer, Observer,   \* threads that call enque, deque, size
  Goods,      \* values of T
  None,
  Raw,        \* what a node holds when no object lives in it
  Capa,       \* _capa, a power of two
  Throws,     \* may T's constructor and move assignment throw?
  MaxTail     \* bound: no enque starts once _tail has reached MaxTail

ASSUME CapaAssumption == Capa \in Nat \ {0}
ASSUME GoodsAssumption == None \notin Goods /\ Raw \notin Goods
ASSUME BoundAssumption == MaxTail \in Nat /\ Throws \in BOOLEAN

Thread == Producer \cup Consumer \cup Observer
Ring == 0 .. Capa - 1
Slot(idx) == idx % Capa

VARIABLES
  head, tail,       \* _head and _tail
  n_head, n_tail,   \* Node_t::head and Node_t::tail of every node
  data,             \* the object in every node, or Raw
  pc,               \* what a thread does next
  cur,              \* the local head or tail
  buf,              \* src_ of enque, dest_ of deque
  gone,             \* the destructor has run
  thrown,           \* history: an enque or a deque was left by an exception
  log               \* history: log[i] is the value of the enque that won i

shared == <<head, tail, n_head, n_tail, data, gone, thrown>>
vars == <<head, tail, n_head, n_tail, data, pc, cur, buf, gone, thrown, log>>

\* The constructor; the head tag of a new node is (size_t)-1, no index.
Init ==
  /\ head = 0 /\ tail = 0
  /\ n_head = [k \in Ring |-> -1]
  /\ n_tail = [k \in Ring |-> k]
  /\ data = [k \in Ring |-> Raw]
  /\ pc = [t \in Thread |-> "idle"]
  /\ cur = [t \in Thread |-> 0]
  /\ buf = [t \in Thread |-> None]
  /\ gone = FALSE /\ thrown = FALSE
  /\ log = <<>>

GoTo(t, label) == pc' = [pc EXCEPT ![t] = label]

Call(t, first, index, g) ==
  /\ pc[t] = "idle" /\ ~gone
  /\ GoTo(t, first)
  /\ cur' = [cur EXCEPT ![t] = index]
  /\ buf' = [buf EXCEPT ![t] = g]
  /\ UNCHANGED <<shared, log>>

Return(t) ==
  /\ GoTo(t, "idle")
  /\ cur' = [cur EXCEPT ![t] = 0]
  /\ buf' = [buf EXCEPT ![t] = None]

-----------------------------------------------------------------------------
(* bool enque( U&& ) *)

\* _tail is loaded once; afterwards a failed compare-exchange supplies it.
EnqCall(t, g) == tail < MaxTail /\ Call(t, "enq_tag", tail, g)

\* A slip: the tag of the node is not looked at.
EnqTagFree_Unchecked(t) ==
  /\ pc[t] = "enq_tag"
  /\ GoTo(t, "enq_cas")
  /\ UNCHANGED <<shared, cur, buf, log>>

EnqTagFree(t) ==
  /\ pc[t] = "enq_tag"
  /\ n_tail[Slot(cur[t])] = cur[t]
  /\ GoTo(t, "enq_cas")
  /\ UNCHANGED <<shared, cur, buf, log>>

\* return false: the ring is full, or this index was won by another long ago
EnqTagMiss(t) ==
  /\ pc[t] = "enq_tag"
  /\ n_tail[Slot(cur[t])] # cur[t]
  /\ Return(t)
  /\ UNCHANGED <<shared, log>>

EnqCasWin(t) ==
  /\ pc[t] = "enq_cas"
  /\ tail = cur[t]
  /\ tail' = tail + 1
  /\ log' = [i \in 0 .. tail |-> IF i = tail THEN buf[t] ELSE log[i]]
  /\ GoTo(t, "enq_make")
  /\ UNCHANGED <<head, n_head, n_tail, data, gone, thrown, cur, buf>>

\* A slip: the loop goes on to the compare-exchange, not to the tag.
EnqCasLose_NoRecheck(t) ==
  /\ pc[t] = "enq_cas"
  /\ tail # cur[t]
  /\ cur' = [cur EXCEPT ![t] = tail]
  /\ UNCHANGED <<shared, pc, buf, log>>

EnqCasLose(t) ==
  /\ pc[t] = "enq_cas"
  /\ tail # cur[t]
  /\ cur' = [cur EXCEPT ![t] = tail]
  /\ GoTo(t, "enq_tag")
  /\ UNCHANGED <<shared, buf, log>>

\* std::construct_at()
EnqMake(t) ==
  /\ pc[t] = "enq_make"
  /\ data' = [data EXCEPT ![Slot(cur[t])] = buf[t]]
  /\ GoTo(t, "enq_pub")
  /\ UNCHANGED <<head, tail, n_head, n_tail, gone, thrown, cur, buf, log>>

\* T's constructor throws through enque: the index stays claimed for good.
EnqThrow(t) ==
  /\ Throws /\ pc[t] = "enq_make"
  /\ Return(t)
  /\ thrown' = TRUE
  /\ UNCHANGED <<head, tail, n_head, n_tail, data, gone, log>>

\* A slip: the tag published is the next index.
EnqPublish_NextTag(t) ==
  /\ pc[t] = "enq_pub"
  /\ n_head' = [n_head EXCEPT ![Slot(cur[t])] = cur[t] + 1]
  /\ Return(t)
  /\ UNCHANGED <<head, tail, n_tail, data, gone, thrown, log>>

EnqPublish(t) ==
  /\ pc[t] = "enq_pub"
  /\ n_head' = [n_head EXCEPT ![Slot(cur[t])] = cur[t]]
  /\ Return(t)
  /\ UNCHANGED <<head, tail, n_tail, data, gone, thrown, log>>

-----------------------------------------------------------------------------
(* bool deque( T& ) *)

DeqCall(t) == Call(t, "deq_tag", head, None)

DeqTagReady(t) ==
  /\ pc[t] = "deq_tag"
  /\ n_head[Slot(cur[t])] = cur[t]
  /\ GoTo(t, "deq_cas")
  /\ UNCHANGED <<shared, cur, buf, log>>

DeqTagMiss(t) ==
  /\ pc[t] = "deq_tag"
  /\ n_head[Slot(cur[t])] # cur[t]
  /\ Return(t)
  /\ UNCHANGED <<shared, log>>

\* A slip: _head is stored, not compared first.
DeqCasWin_Store(t) ==
  /\ pc[t] = "deq_cas"
  /\ head' = cur[t] + 1
  /\ GoTo(t, "deq_move")
  /\ UNCHANGED <<tail, n_head, n_tail, data, gone, thrown, cur, buf, log>>

DeqCasWin(t) ==
  /\ pc[t] = "deq_cas"
  /\ head = cur[t]
  /\ head' = head + 1
  /\ GoTo(t, "deq_move")
  /\ UNCHANGED <<tail, n_head, n_tail, data, gone, thrown, cur, buf, log>>

DeqCasLose(t) ==
  /\ pc[t] = "deq_cas"
  /\ head # cur[t]
  /\ cur' = [cur EXCEPT ![t] = head]
  /\ GoTo(t, "deq_tag")
  /\ UNCHANGED <<shared, buf, log>>

\* dest_ = std::move( node->data )
DeqMove(t) ==
  /\ pc[t] = "deq_move"
  /\ buf' = [buf EXCEPT ![t] = data[Slot(cur[t])]]
  /\ GoTo(t, "deq_destroy")
  /\ UNCHANGED <<shared, cur, log>>

\* T's move assignment throws through deque: the node is never recycled.
DeqThrow(t) ==
  /\ Throws /\ pc[t] = "deq_move"
  /\ Return(t)
  /\ thrown' = TRUE
  /\ UNCHANGED <<head, tail, n_head, n_tail, data, gone, log>>

\* std::destroy_at()
DeqDestroy(t) ==
  /\ pc[t] = "deq_destroy"
  /\ data' = [data EXCEPT ![Slot(cur[t])] = Raw]
  /\ GoTo(t, "deq_pub")
  /\ UNCHANGED <<head, tail, n_head, n_tail, gone, thrown, cur, buf, log>>

DeqRecycle(t) ==
  /\ pc[t] = "deq_pub"
  /\ n_tail' = [n_tail EXCEPT ![Slot(cur[t])] = cur[t] + Capa]
  /\ Return(t)
  /\ UNCHANGED <<head, tail, n_head, data, gone, thrown, log>>

-----------------------------------------------------------------------------
(* size(): the head is loaded first, then the tail.  And the destructor. *)

\* A slip: the tail is loaded twice.
SizeHead_Tail(t) == Call(t, "size_tail", tail, None)

SizeHead(t) == Call(t, "size_tail", head, None)

SizeTail(t) ==
  /\ pc[t] = "size_tail"
  /\ Return(t)
  /\ UNCHANGED <<shared, log>>

\* A slip: the loop of the destructor ends at the last index, not after it.
Unclaimed_Short == head .. tail - 2

\* The indices the destructor walks
Unclaimed == head .. tail - 1

\* ~CraflinRQ_t(), called when no thread uses the ring any more
Destroy ==
  /\ ~gone /\ \A t \in Thread : pc[t] = "idle"
  /\ gone' = TRUE
  /\ data' = [k \in Ring |-> IF \E j \in Unclaimed : Slot(j) = k THEN Raw ELSE data[k]]
  /\ UNCHANGED <<head, tail, n_head, n_tail, pc, cur, buf, thrown, log>>

EnqStep(t) ==
  \/ EnqTagFree(t) \/ EnqTagMiss(t) \/ EnqCasWin(t) \/ EnqCasLose(t)
  \/ EnqMake(t) \/ EnqThrow(t) \/ EnqPublish(t)

DeqStep(t) ==
  \/ DeqTagReady(t) \/ DeqTagMiss(t) \/ DeqCasWin(t) \/ DeqCasLose(t)
  \/ DeqMove(t) \/ DeqThrow(t) \/ DeqDestroy(t) \/ DeqRecycle(t)

Next ==
  \/ \E t \in Producer : EnqStep(t) \/ \E g \in Goods : EnqCall(t, g)
  \/ \E t \in Consumer : DeqStep(t) \/ DeqCall(t)
  \/ \E t \in Observer : SizeHead(t) \/ SizeTail(t)
  \/ Destroy

Spec == Init /\ [][Next]_vars

-----------------------------------------------------------------------------
(* The type invariant: at most Capa items between the two indices. *)
TypeOK ==
  /\ head \in Nat /\ tail \in head .. head + Capa
  /\ n_head \in [Ring -> Nat \cup {-1}]
  /\ n_tail \in [Ring -> Nat]
  /\ data \in [Ring -> Goods \cup {Raw}]
  /\ pc \in [Thread -> {"idle", "enq_tag", "enq_cas", "enq_make", "enq_pub",
                        "deq_tag", "deq_cas", "deq_move", "deq_destroy",
                        "deq_pub", "size_tail"}]
  /\ cur \in [Thread -> Nat]
  /\ buf \in [Thread -> Goods \cup {None}]
  /\ gone \in BOOLEAN /\ thrown \in BOOLEAN
  /\ log \in [0 .. tail - 1 -> Goods]

(* The lifetimes of the objects: enque constructs where no object lives, deque
   moves from and destroys one that lives, and nobody else is at that node. *)
Lifetimes ==
  \A t \in Thread :
    /\ pc[t] = "enq_make" => data[Slot(cur[t])] = Raw
    /\ pc[t] \in {"enq_pub", "deq_move", "deq_destroy"}
         => data[Slot(cur[t])] = log[cur[t]]
    /\ pc[t] = "deq_pub" => data[Slot(cur[t])] = Raw

(* The destructor destroys what was never taken out, each object once: it
   finds an object in every node it walks, and leaves none behind.  (Not so
   after an exception, which leaves a claimed node without an object, or an
   object in a node behind the head.) *)
NothingLeaks ==
  ~thrown =>
    /\ (\A t \in Thread : pc[t] = "idle") /\ ~gone =>
         \A j \in Unclaimed : data[Slot(j)] # Raw
    /\ gone => \A k \in Ring : data[k] = Raw

\* What size() answers when it loads the tail now.
SizeOf(t) == tail - cur[t]

(* size() may come too large, even larger than the capacity, but never too
   small (and never wraps below zero): all items there are are counted. *)
SizeIsUpper ==
  \A t \in Thread : pc[t] = "size_tail" => SizeOf(t) >= tail - head /\ SizeOf(t) >= 0

Queue == [n \in 1 .. tail - head |-> log[head + n - 1]]

Hand == [t \in Thread |->
  CASE pc[t] = "deq_move" -> log[cur[t]]
    [] pc[t] \in {"deq_destroy", "deq_pub"} -> buf[t]
    [] OTHER -> None]

Fifo == INSTANCE BoundedFifo WITH Proc <- Thread, queue <- Queue, hand <- Hand

(* The ring is a bounded first-in first-out queue, whether or not constructors
   throw in the middle of an enque and assignments in that of a deque. *)
RefinesFifo == Fifo!Spec
=============================================================================
