----------------------------- MODULE BoundedFifo -----------------------------
(***************************************************************************)
(* What a ring of Capa nodes promises its users: a first-in first-out      *)
(* queue of at most Capa items.  An item that was accepted is handed to    *)
(* exactly one process, which holds it until its call returns.  A call may *)
(* also return without effect, which this specification does not see.      *)
(***************************************************************************)
EXTENDS Naturals, Sequences

CONSTANTS Proc, Goods, None, Capa

VARIABLES
  queue,    \* the items accepted and not taken yet
  hand      \* the item a process has taken and not returned yet

Init == queue = <<>> /\ hand = [p \in Proc |-> None]

Put(g) ==
  /\ Len(queue) < Capa
  /\ queue' = Append(queue, g)
  /\ UNCHANGED hand

Take(p) ==
  /\ queue # <<>>
  /\ hand[p] = None
  /\ hand' = [hand EXCEPT ![p] = Head(queue)]
  /\ queue' = Tail(queue)

Give(p) ==
  /\ hand[p] # None
  /\ hand' = [hand EXCEPT ![p] = None]
  /\ UNCHANGED queue

Next == (\E g \in Goods : Put(g)) \/ (\E p \in Proc : Take(p) \/ Give(p))

Spec == Init /\ [][Next]_<<queue, hand>>
=============================================================================
