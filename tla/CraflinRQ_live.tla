--------------------------- MODULE CraflinRQ_live ---------------------------
(***************************************************************************)
(* Progress of CraflinRQ_t: the scheduler runs every thread, and consumers *)
(* poll, as the threads of tests/CraflinRQ-test.cpp do.                    *)
(***************************************************************************)
EXTENDS CraflinRQ

LiveSpec ==
  /\ Spec
  /\ \A t \in Producer : WF_vars(EnqStep(t))
  /\ \A t \in Consumer : WF_vars(DeqStep(t)) /\ WF_vars(DeqCall(t))

(* Whatever was accepted is handed out, unless the ring is destroyed or an
   exception has left a node behind: a producer between its compare-exchange
   and its tag store holds the consumers up, but only until it goes on. *)
Delivered == \A i \in 0 .. MaxTail - 1 : tail > i ~> head > i \/ gone \/ thrown
=============================================================================
