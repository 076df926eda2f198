------------------------------ MODULE HugePage ------------------------------
(***************************************************************************)
(* HugePage_t (src/HugePage.cpp): an object that holds one mapping of huge *)
(* pages, or the MAP_FAILED of a failed try.                               *)
(***************************************************************************)
EXTENDS Integers

CONSTANTS
  PAGE,       \* HUGE_PAGE_SIZE
  Sizes       \* sizes make() is asked for, nonsense among them

\* What the module takes of its constants.
Params == PAGE \in Nat \ {0} /\ Sizes \subseteq Int

VARIABLES
  shm_p,      \* _shm_p: "null", "failed" (MAP_FAILED) or "map"
  bytes,      \* _bytes
  mapped,     \* the bytes of huge pages the process has mapped
  asked       \* history: the size the mapping was made for

vars == <<shm_p, bytes, mapped, asked>>

Init == shm_p = "null" /\ bytes = 0 /\ mapped = 0 /\ asked = 0

\* std::ceil( b / _1page ) * _1page
Whole(b) == ((b + PAGE - 1) \div PAGE) * PAGE

Unused == shm_p = "null" /\ bytes = 0

\* make() whose mmap() succeeds
make(b) ==
  /\ Unused /\ Whole(b) > 0
  /\ shm_p' = "map" /\ bytes' = Whole(b) /\ asked' = b
  /\ mapped' = mapped + Whole(b)

\* A slip: the size is set before mmap() is tried.
make_fails_Sized(b) ==
  /\ Unused
  /\ shm_p' = "failed" /\ bytes' = Whole(b)
  /\ UNCHANGED <<mapped, asked>>

(* make() that throws: too few pages are free, or the size is not positive.
   MAP_FAILED stays in the object, which refuses to make() until it has been
   released. *)
make_fails(b) ==
  /\ Unused
  /\ shm_p' = "failed"
  /\ UNCHANGED <<bytes, mapped, asked>>

\* release(), and the destructor; munmap() of MAP_FAILED only complains.
release ==
  /\ shm_p # "null"
  /\ mapped' = IF shm_p = "map" THEN mapped - bytes ELSE mapped
  /\ shm_p' = "null" /\ bytes' = 0
  /\ UNCHANGED asked

Next ==
  \/ \E b \in Sizes : make(b) \/ make_fails(b)
  \/ release

Spec == Init /\ [][Next]_vars

-----------------------------------------------------------------------------
TypeOK ==
  /\ shm_p \in {"null", "failed", "map"}
  /\ bytes \in Nat /\ mapped \in Nat /\ asked \in Int

(* However often making failed in between, the process has exactly the bytes
   mapped that the object tells, in whole pages, and no fewer than asked for. *)
HeldIsMapped ==
  /\ mapped = bytes /\ bytes % PAGE = 0
  /\ shm_p = "map" <=> bytes > 0
  /\ shm_p = "map" => asked \in bytes - PAGE + 1 .. bytes
=============================================================================
