------------------------ MODULE ShmAtomicRQ_refusals ------------------------
(***************************************************************************)
(* When ShmAtmRQ_t may say no.  History variables follow every enque and   *)
(* deque from its call on and remember what could justify a "false":       *)
(* whether it ever was refused a node, or an item, by the state of the     *)
(* ring, or lost it to another process.                                    *)
(***************************************************************************)
EXTENDS ShmAtomicRQ

VARIABLES
  metBusy,    \* in whose enque the node of the next index was not recycled
  metBare,    \* in whose deque the node at the head was not filled
  metRival    \* in whose deque another process took an item

history == <<metBusy, metBare, metRival>>

\* The node of the index _tail still belongs to the index a lap before.
NodeBusy == t_tag[Slot(tail)] # tail
\* The index _head is not claimed, or is claimed and not published.
ItemMissing == h_tag[Slot(head)] # head

\* The calls that have not won an index yet, the only ones that can be refused.
SeeksNode == {"enq_load", "enq_tag", "enq_cas"}
SeeksItem == {"deq_load", "deq_tag", "deq_cas"}

\* Those of S, and when the event occurs all those at the given labels, as long
\* as they stay there.
Meets(S, labels, event) ==
  {p \in Proc : {pc[p], pc'[p]} \subseteq labels /\ (p \in S \/ event)}

HInit == Init /\ metBusy = {} /\ metBare = {} /\ metRival = {}

HNext ==
  /\ Next
  /\ metBusy' = Meets(metBusy, SeeksNode, NodeBusy)
  /\ metBare' = Meets(metBare, SeeksItem, ItemMissing)
  /\ metRival' = Meets(metRival, SeeksItem, head' # head)

HSpec == HInit /\ [][HNext]_<<vars, history>>

EnqRefused(p) == pc[p] \in {"enq_tag", "enq_cas"} /\ pc'[p] = "idle"
DeqRefused(p) == pc[p] \in {"deq_tag", "deq_cas"} /\ pc'[p] = "idle"

(* An enque gives up only when the ring was full during the call: the node it
   needed had not been recycled.  Losing races for the tail, however many,
   is no reason, since every lost race starts the count of tries anew. *)
EnqRefusedWhenBusy ==
  [][\A p \in Producer : EnqRefused(p) => p \in metBusy \/ NodeBusy]_vars

(* A deque gives up only when, during the call, no item was ready at the head
   or other consumers were taking items. *)
DeqRefusedWhenBare ==
  [][\A p \in Consumer :
       DeqRefused(p) => p \in metBare \cup metRival \/ ItemMissing]_vars
=============================================================================
