---------------------------- MODULE CpuAffinity ----------------------------
(***************************************************************************)
(* CpuAffinity (src/CpuAffinity.cpp): threads bind themselves to processors*)
(* that a text lists.  Both calls of the kernel act on the calling thread, *)
(* and a thread, or the program a fork starts, is born with the mask of    *)
(* the one that starts it.                                                 *)
(***************************************************************************)
EXTENDS SetOps

CONSTANTS
  Task,      \* threads, and first threads of children
  Main,      \* the one there is from the beginning
  Online,    \* the processors that are on line
  Lists      \* texts to bind to

\* What the module takes of its constants.
Params == Main \in Task /\ Online \in (SUBSET Nat) \ {{}} /\ IsFiniteSet(Online)

VARIABLES
  mask,      \* of each task that runs, else {}
  bound,     \* history: what the only task of the program bound itself to, until
             \* any other call
  all        \* history: the tasks whose last call, or whose parent's, meant "all"

vars == <<mask, bound, all>>

Init ==
  /\ mask \in [Task -> {{}, Online}] /\ \A t \in Task : mask[t] # {} <=> t = Main
  /\ bound = {}
  /\ all = {}

\* sysconf( _SC_NPROCESSORS_ONLN )
GetCpuCount == Cardinality(Online)

\* CPU_SET ignores what is no number of a processor.
_MakeSet(ids) ==
  IF -1 \in ids THEN 0 .. GetCpuCount - 1 ELSE ids \cap Nat

\* A slip: an empty list binds to nothing.
Asked_NotAll(text) == _MakeSet(split2ints(text))

Asked(text) ==
  _MakeSet(IF split2ints(text) = {} THEN {-1} ELSE split2ints(text))

\* A slip: the set is not emptied first.
Bind_Adds(t, text) ==
  /\ mask[t] # {} /\ ~Throws(text)
  /\ Asked(text) \cap Online # {}
  /\ mask' = [mask EXCEPT ![t] = @ \cup (Asked(text) \cap Online)]
  /\ bound' = IF \A u \in Task \ {t} : mask[u] = {} THEN Asked(text) ELSE {}
  /\ all' = all \ {t}

(* ProcessOnlyCPU( text ) and PthreadOnlyCPU( text ), which do the same.  The
   kernel refuses a set without a processor that is on line, and an exception
   leaves before it is asked. *)
Bind(t, text) ==
  /\ mask[t] # {} /\ ~Throws(text)
  /\ IF Asked(text) \cap Online = {}
     THEN UNCHANGED <<mask, bound>>
     ELSE /\ mask' = [mask EXCEPT ![t] = Asked(text) \cap Online]
          /\ bound' = IF \A u \in Task \ {t} : mask[u] = {} THEN Asked(text) ELSE {}
  /\ all' = IF split2set(text) = {} \/ -1 \in split2ints(text)
            THEN all \cup {t} ELSE all \ {t}

\* std::thread, fork(), and forkExec() of ProcCtrl
Start(t, u) ==
  /\ mask[t] # {} /\ mask[u] = {}
  /\ mask' = [mask EXCEPT ![u] = mask[t]]
  /\ all' = IF t \in all THEN all \cup {u} ELSE all
  /\ UNCHANGED bound

Next ==
  \/ \E t \in Task, text \in Lists : Bind(t, text)
  \/ \E t, u \in Task : Start(t, u)

Spec == Init /\ [][Next]_vars

-----------------------------------------------------------------------------
TypeOK ==
  /\ mask \in [Task -> SUBSET Online]
  /\ bound \in SUBSET Nat
  /\ all \in SUBSET Task

(* "Whatever was inherited is bound again": after an empty list, or one with
   -1 in it, a task may run on every processor, however narrow the mask it was
   born with; provided those on line are numbered without a gap. *)
AllMeansAll ==
  Online = 0 .. GetCpuCount - 1 => \A t \in all : mask[t] = Online

(* ProcessOnlyCPU() in a program that has one thread yet limits all its
   threads and children, as long as none of them binds itself. *)
EarlyBindsAll ==
  bound # {} => \A t \in Task : mask[t] \subseteq bound
=============================================================================
