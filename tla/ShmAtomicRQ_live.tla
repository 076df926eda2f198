-------------------------- MODULE ShmAtomicRQ_live --------------------------
(***************************************************************************)
(* Progress of ShmAtmRQ_t.  The operating system runs every thread that is *)
(* not killed, so a process in a call takes its next step; the processes   *)
(* of Mortal may be killed at any point, which in this model is being      *)
(* never run again.  A consumer that lives polls: it calls deque again and *)
(* again, as tests/shm-consumer.cpp does, whatever it enques in between,   *)
(* so its calls of deque are strongly fair.                                *)
(***************************************************************************)
EXTENDS ShmAtomicRQ

CONSTANT Mortal     \* the processes that may be killed

ASSUME MortalAssumption == Mortal \subseteq Proc

Survivor == Proc \ Mortal

Fairness ==
  /\ \A p \in Producer \ Mortal : WF_vars(EnqStep(p))
  /\ \A p \in Consumer \ Mortal : WF_vars(DeqStep(p)) /\ SF_vars(DeqCall(p))

LiveSpec == Spec /\ Fairness

\* p was killed with an index it had won, up to i, and not published.
Stuck(p, i) == pc[p] \in {"enq_copy", "enq_pub"} /\ cur[p] <= i

(* Whatever was accepted is handed out in the end, unless a producer was killed
   between its compare-exchange and its tag store for that index or one
   before it: no killed consumer, and no killed producer elsewhere, keeps items
   from the consumers that live. *)
Delivered ==
  \A i \in 0 .. MaxTail - 1 :
    tail > i ~> head > i \/ \E p \in Mortal : []Stuck(p, i)

(* Lock freedom: a call of a process that lives returns wherever the others
   were killed, holding whatever nodes they held.  An enque can be kept
   busy only by others that win indexes, and MaxTail bounds those. *)
CallsReturn ==
  \A p \in Survivor : pc[p] \in Enqueuing \cup Dequeuing ~> pc[p] = "idle"
=============================================================================
