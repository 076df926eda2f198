---------------------------- MODULE ShmLifecycle ----------------------------
(***************************************************************************)
(* How processes come to share one ShmAtmRQ_t ring: make, plug,            *)
(* makeOrPlug, the destructor, delOsFile, releaseOwnership and fork, on    *)
(* one name under /dev/shm (src/ShmAtomicRQ.cpp and, below it, make, plug, *)
(* _mk_plug, unplug and delOsFile of src/ShmBuffer.cpp).                   *)
(*                                                                         *)
(* Every system call is a step.  A process has one ShmAtmRQ_t object; one  *)
(* that dies, by a kill or by SIGBUS, is replaced by a fresh process.  The *)
(* size of a file is counted in nodes, the control area apart: 0 is the    *)
(* file before ftruncate().  What happens in a ring that is in use is the  *)
(* subject of ShmAtomicRQ.                                                 *)
(***************************************************************************)
EXTENDS Naturals, FiniteSetsExt

CONSTANTS
  Proc,
  Maker,      \* the processes that call make
  Visitor,    \* the processes that call plug
  Either,     \* the processes that call makeOrPlug
  Seg,        \* the kernel's shared memory objects
  NoSeg,
  Wanted,     \* the capacities makers ask for
  LEAST_ELEMNTS, MOST_ELEMENTS,
  MaxKills,   \* bound on kills
  Forks,      \* may an owner fork (and the child keep its object)?
  Scarce      \* may system calls fail for lack of resources?

ASSUME SegAssumption == NoSeg \notin Seg
ASSUME WantedAssumption ==
  Wanted \subseteq Nat /\ {LEAST_ELEMNTS, MOST_ELEMENTS} \subseteq Nat \ {0}

(* _AlignCapa(): the next power of two, neither too small nor too large. *)
AlignCapa(w) ==
  LET ceil == Min({c \in {2 ^ k : k \in 0 .. w} : c >= w})
  IN  Min({MOST_ELEMENTS, Max({LEAST_ELEMNTS, ceil})})

Capas == {AlignCapa(w) : w \in Wanted}

\* A consequence of AlignCapa, which the proofs take from here: the provers know
\* nothing of the powers of two.
ASSUME CapasAssumption == Capas \subseteq Nat \ {0}
ASSUME BoundAssumption == MaxKills \in Nat

VARIABLES
  file,     \* the object the name is linked to, or NoSeg
  seg,      \* size and contents of every object
  obj,      \* the ShmAtmRQ_t object of every process
  call,     \* the call a process is in, and its locals
  kills

vars == <<file, seg, obj, call, kills>>

\* The pages of an object that was just created or truncated read as zeros.
Blank == [bytes |-> 0, capa |-> 0, laid |-> FALSE]

\* _buff._shm_p, _buff._bytes, _meta, _capa and _ownr of a new ShmAtmRQ_t
Fresh == [map |-> NoSeg, bytes |-> 0, meta |-> FALSE, capa |-> 0, ownr |-> FALSE]

Idle == [at |-> "idle", want |-> 0, fd |-> NoSeg, rs |-> 0, either |-> FALSE]

Init ==
  /\ file = NoSeg
  /\ seg = [s \in Seg |-> Blank]
  /\ obj = [p \in Proc |-> Fresh]
  /\ call = [p \in Proc |-> Idle]
  /\ kills = 0

At(p, label) == call[p].at = label
GoTo(p, label) == call' = [call EXCEPT ![p].at = label]

\* The call returns, or throws what the caller catches.
Leave(p) == call' = [call EXCEPT ![p] = Idle]

\* The kernel still knows of s: it has a name, a mapping or a descriptor.
Live(s) == s = file \/ \E p \in Proc : s \in {obj[p].map, call[p].fd}

\* The process is gone; another starts in its place.
Die(p) ==
  /\ obj' = [obj EXCEPT ![p] = Fresh]
  /\ call' = [call EXCEPT ![p] = Idle]

-----------------------------------------------------------------------------
(* make( capacity, name ) *)

MakeCall(p, w) ==
  /\ p \in Maker /\ At(p, "idle")
  /\ call' = [call EXCEPT ![p].at = "mk_unlink", ![p].want = AlignCapa(w)]
  /\ UNCHANGED <<file, seg, obj, kills>>

\* A slip: the old file is not removed first.
MakeUnlink_None(p) ==
  /\ At(p, "mk_unlink")
  /\ UNCHANGED file
  /\ IF obj[p].map = NoSeg THEN GoTo(p, "mk_open") ELSE Leave(p)
  /\ UNCHANGED <<seg, obj, kills>>

(* shm_unlink(); then _mk_plug() throws bad_usage if the object is in use,
   by which time the file is gone. *)
MakeUnlink(p) ==
  /\ At(p, "mk_unlink")
  /\ file' = NoSeg
  /\ IF obj[p].map = NoSeg THEN GoTo(p, "mk_open") ELSE Leave(p)
  /\ UNCHANGED <<seg, obj, kills>>

\* shm_open( O_CREAT | O_TRUNC ): a new object, or the one another maker has
\* linked since, emptied.
MakeOpen(p) ==
  /\ At(p, "mk_open")
  /\ \E s \in Seg :
       /\ IF file = NoSeg THEN ~Live(s) ELSE s = file
       /\ file' = s
       /\ seg' = [seg EXCEPT ![s] = Blank]
       /\ call' = [call EXCEPT ![p].at = "mk_size", ![p].fd = s]
  /\ UNCHANGED <<obj, kills>>

\* ftruncate(): what lies beyond the new size is lost
MakeSize(p) ==
  /\ At(p, "mk_size")
  /\ seg' = [seg EXCEPT ![call[p].fd].bytes = call[p].want,
                        ![call[p].fd].laid = @ /\ call[p].want = seg[call[p].fd].bytes]
  /\ GoTo(p, "mk_map")
  /\ UNCHANGED <<file, obj, kills>>

\* mmap() and close()
MakeMap(p) ==
  /\ At(p, "mk_map")
  /\ obj' = [obj EXCEPT ![p].map = call[p].fd]
  /\ call' = [call EXCEPT ![p].at = "mk_check", ![p].fd = NoSeg]
  /\ UNCHANGED <<file, seg, kills>>

\* fs::exists(): if the name is gone by now, the buffer forgets its mapping and
\* throws.
MakeCheck(p) ==
  /\ At(p, "mk_check")
  /\ IF file # NoSeg
     THEN GoTo(p, "mk_bytes") /\ UNCHANGED obj
     ELSE Leave(p) /\ obj' = [obj EXCEPT ![p] = Fresh]
  /\ UNCHANGED <<file, seg, kills>>

(* fs::file_size(), of whatever the name stands for; it throws if that is nothing,
   and the buffer stays mapped, with a size of 0. *)
MakeBytes(p) ==
  /\ At(p, "mk_bytes")
  /\ IF file # NoSeg
     THEN GoTo(p, "mk_capa") /\ obj' = [obj EXCEPT ![p].bytes = seg[file].bytes]
     ELSE Leave(p) /\ UNCHANGED obj
  /\ UNCHANGED <<file, seg, kills>>

\* A slip: make() returns with the tags yet to be written.
MakeCapa_Unlaid(p) ==
  /\ At(p, "mk_capa")
  /\ LET s == obj[p].map
         c == call[p].want
     IN /\ seg' = [seg EXCEPT ![s].capa = c, ![s].laid = FALSE]
        /\ obj' = [obj EXCEPT ![p].meta = TRUE, ![p].capa = c, ![p].ownr = TRUE]
        /\ Leave(p)
  /\ UNCHANGED <<file, kills>>

\* _meta, _capa, _mask, _head, _tail and _ownr; SIGBUS if the file is emptied
MakeCapa(p) ==
  /\ At(p, "mk_capa")
  /\ LET s == obj[p].map
         c == call[p].want
     IN IF seg[s].bytes = 0
        THEN Die(p) /\ UNCHANGED seg
        ELSE /\ seg' = [seg EXCEPT ![s].capa = c, ![s].laid = FALSE]
             /\ obj' = [obj EXCEPT ![p].meta = TRUE, ![p].capa = c, ![p].ownr = TRUE]
             /\ GoTo(p, "mk_lay")
  /\ UNCHANGED <<file, kills>>

\* The loop that writes the tags of every node; SIGBUS if the file has shrunk
MakeLay(p) ==
  /\ At(p, "mk_lay")
  /\ IF seg[obj[p].map].bytes < call[p].want
     THEN Die(p) /\ UNCHANGED seg
     ELSE /\ seg' = [seg EXCEPT ![obj[p].map].laid = TRUE]
          /\ Leave(p)
          /\ UNCHANGED obj
  /\ UNCHANGED <<file, kills>>

-----------------------------------------------------------------------------
(* plug( name ) *)

PlugCall(p) ==
  /\ p \in Visitor /\ At(p, "idle")
  /\ GoTo(p, "pl_exists")
  /\ UNCHANGED <<file, seg, obj, kills>>

PlugExists(p) ==
  /\ At(p, "pl_exists")
  /\ IF file = NoSeg THEN Leave(p) ELSE GoTo(p, "pl_size")
  /\ UNCHANGED <<file, seg, obj, kills>>

\* A slip: the size is noted before there is a mapping.
PlugSize_Early(p) ==
  /\ At(p, "pl_size")
  /\ IF file = NoSeg
     THEN Leave(p) /\ UNCHANGED obj
     ELSE /\ call' = [call EXCEPT ![p].at = "pl_open", ![p].rs = seg[file].bytes]
          /\ obj' = [obj EXCEPT ![p].bytes = seg[file].bytes]
  /\ UNCHANGED <<file, seg, kills>>

\* fs::file_size(), which throws if the name is gone by now
PlugSize(p) ==
  /\ At(p, "pl_size")
  /\ IF file = NoSeg
     THEN Leave(p)
     ELSE call' = [call EXCEPT ![p].at = "pl_open", ![p].rs = seg[file].bytes]
  /\ UNCHANGED <<file, seg, obj, kills>>

\* _mk_plug(): bad_usage if the object is in use, else shm_open()
PlugOpen(p) ==
  /\ At(p, "pl_open")
  /\ IF obj[p].map # NoSeg \/ file = NoSeg
     THEN Leave(p)
     ELSE call' = [call EXCEPT ![p].at = "pl_map", ![p].fd = file]
  /\ UNCHANGED <<file, seg, obj, kills>>

\* mmap(), which refuses a length of 0
PlugMap(p) ==
  /\ At(p, "pl_map")
  /\ IF call[p].rs = 0
     THEN Leave(p) /\ UNCHANGED obj
     ELSE /\ obj' = [obj EXCEPT ![p].map = call[p].fd, ![p].bytes = call[p].rs]
          /\ call' = [call EXCEPT ![p].at = "pl_meta", ![p].fd = NoSeg]
  /\ UNCHANGED <<file, seg, kills>>

\* A slip: the size of the file is not compared with the capacity.
PlugMeta_Unchecked(p) ==
  /\ At(p, "pl_meta")
  /\ LET s == seg[obj[p].map]
     IN IF s.bytes = 0
        THEN Die(p)
        ELSE /\ obj' = [obj EXCEPT ![p].meta = TRUE, ![p].capa = s.capa]
             /\ Leave(p)
  /\ UNCHANGED <<file, seg, kills>>

(* The capacity is read from the ring and must agree with the size of the
   file.  If it does not, plug() throws and leaves _meta set and the buffer
   mapped: the object can only be destroyed now. *)
PlugMeta(p) ==
  /\ At(p, "pl_meta")
  /\ LET s == seg[obj[p].map]
     IN IF s.bytes = 0
        THEN Die(p)
        ELSE /\ obj' = [obj EXCEPT ![p].meta = TRUE,
                                   ![p].capa = IF call[p].rs = s.capa THEN s.capa ELSE 0]
             /\ Leave(p)
  /\ UNCHANGED <<file, seg, kills>>

-----------------------------------------------------------------------------
(* makeOrPlug( capacity, name ): "plug if it exists, make only if it does not" *)

EitherCall(p, w) ==
  /\ p \in Either /\ At(p, "idle")
  /\ call' = [call EXCEPT ![p].at = "mop_exists", ![p].want = AlignCapa(w),
                          ![p].either = TRUE]
  /\ UNCHANGED <<file, seg, obj, kills>>

EitherExists(p) ==
  /\ At(p, "mop_exists")
  /\ GoTo(p, IF file # NoSeg THEN "pl_exists" ELSE "mk_unlink")
  /\ UNCHANGED <<file, seg, obj, kills>>

(* shm_open(), ftruncate(), mmap() or close() fails and _mk_plug() throws: the
   descriptor, and a mapping that was made, are lost to the object until the
   process dies; what was done to the file stays done. *)
KernelRefuses(p) ==
  /\ Scarce
  /\ call[p].at \in {"mk_open", "mk_size", "mk_map", "pl_open", "pl_map"}
  /\ Leave(p)
  /\ UNCHANGED <<file, seg, obj, kills>>

-----------------------------------------------------------------------------
(* The end of an object *)

\* A slip: unplug() clears its name before delOsFile() asks for it.
Destroy_Nameless(p) ==
  /\ At(p, "idle") /\ obj[p].map # NoSeg
  /\ obj' = [obj EXCEPT ![p] = Fresh]
  /\ UNCHANGED <<file, seg, call, kills>>

\* ~ShmAtmRQ_t(): munmap(), and an owner unlinks the name, whatever has it by now
Destroy(p) ==
  /\ At(p, "idle") /\ obj[p].map # NoSeg
  /\ file' = IF obj[p].meta /\ obj[p].ownr THEN NoSeg ELSE file
  /\ obj' = [obj EXCEPT ![p] = Fresh]
  /\ UNCHANGED <<seg, call, kills>>

DelOsFile(p) ==
  /\ At(p, "idle") /\ obj[p].map # NoSeg
  /\ file' = NoSeg
  /\ UNCHANGED <<seg, obj, call, kills>>

ReleaseOwnership(p) ==
  /\ At(p, "idle") /\ obj[p].ownr
  /\ obj' = [obj EXCEPT ![p].ownr = FALSE]
  /\ UNCHANGED <<file, seg, call, kills>>

\* fork() in a process that owns a ring: q is the child, with a copy of it
Fork(p, q) ==
  /\ Forks /\ p # q
  /\ At(p, "idle") /\ obj[p].ownr
  /\ At(q, "idle") /\ obj[q] = Fresh
  /\ obj' = [obj EXCEPT ![q] = obj[p]]
  /\ UNCHANGED <<file, seg, call, kills>>

Kill(p) ==
  /\ kills < MaxKills
  /\ <<obj[p], call[p]>> # <<Fresh, Idle>>
  /\ kills' = kills + 1
  /\ Die(p)
  /\ UNCHANGED <<file, seg>>

-----------------------------------------------------------------------------
MakeStep(p) ==
  \/ MakeUnlink(p) \/ MakeOpen(p) \/ MakeSize(p) \/ MakeMap(p) \/ MakeCheck(p)
  \/ MakeBytes(p) \/ MakeCapa(p) \/ MakeLay(p)

PlugStep(p) ==
  \/ PlugExists(p) \/ PlugSize(p) \/ PlugOpen(p) \/ PlugMap(p) \/ PlugMeta(p)

Next ==
  \E p \in Proc :
    \/ \E w \in Wanted : MakeCall(p, w) \/ EitherCall(p, w)
    \/ PlugCall(p) \/ EitherExists(p)
    \/ MakeStep(p) \/ PlugStep(p) \/ KernelRefuses(p)
    \/ Destroy(p) \/ DelOsFile(p) \/ ReleaseOwnership(p) \/ Kill(p)
    \/ \E q \in Proc : Fork(p, q)

Spec == Init /\ [][Next]_vars

-----------------------------------------------------------------------------
\* make(), plug() or makeOrPlug() has returned without throwing.
Ready(p) == At(p, "idle") /\ obj[p].capa # 0

Labels ==
  {"idle", "mk_unlink", "mk_open", "mk_size", "mk_map", "mk_check", "mk_bytes",
   "mk_capa", "mk_lay", "pl_exists", "pl_size", "pl_open", "pl_map", "pl_meta",
   "mop_exists"}

(* The type invariant; no object is half mapped. *)
TypeOK ==
  /\ file \in Seg \cup {NoSeg}
  /\ seg \in [Seg -> [bytes : Capas \cup {0}, capa : Capas \cup {0}, laid : BOOLEAN]]
  /\ obj \in [Proc -> [map : Seg \cup {NoSeg}, bytes : Capas \cup {0},
                       meta : BOOLEAN, capa : Capas \cup {0}, ownr : BOOLEAN]]
  /\ call \in [Proc -> [at : Labels, want : Capas \cup {0}, fd : Seg \cup {NoSeg},
                        rs : Capas \cup {0}, either : BOOLEAN]]
  /\ kills \in 0 .. MaxKills
  /\ \A p \in Proc : obj[p].map = NoSeg => obj[p] = Fresh

(* A ring that was made or plugged without an exception is as large as its
   object believes, and so are its file and its mapping: no enque or deque of
   it can leave the mapping, whatever was made again, deleted, killed or refused
   by the kernel under that name between the calls plug() is made of. *)
ReadyIsWhole ==
  \A p \in Proc : Ready(p) =>
    /\ obj[p].bytes = obj[p].capa
    /\ seg[obj[p].map].bytes = obj[p].capa
    /\ seg[obj[p].map].capa = obj[p].capa

(* A ring is ready before its tags are written only while its maker is at it;
   after that it can only be that the maker was killed. *)
ReadyIsLaid ==
  \A p \in Proc : Ready(p) /\ ~seg[obj[p].map].laid =>
    kills > 0 \/ \E q \in Proc : At(q, "mk_lay") /\ obj[q].map = obj[p].map

(* The memory of a ring in use is never emptied or resized under its users:
   a later make() of the same name leaves it to them. *)
InUseIsKept ==
  [][\A s \in Seg, p \in Proc :
       Ready(p) /\ obj[p].map = s => seg'[s].bytes = seg[s].bytes]_vars

\* p is making s, or has made it and not given it up.
Keeps(p, s) ==
  \/ call[p].at \in {"mk_size", "mk_map"} /\ call[p].fd = s
  \/ call[p].at \in {"mk_check", "mk_bytes", "mk_capa"} /\ obj[p].map = s
  \/ obj[p].ownr /\ obj[p].map = s

\* What has the name, if anything, has somebody who will take it away.
Tended == file = NoSeg \/ \E p \in Proc : Keeps(p, file)

\* SIGBUS in a make() whose file was emptied or has shrunk
Struck(p) == call[p].at \in {"mk_capa", "mk_lay"} /\ Die(p)

(* Nothing is left under /dev/shm: a file keeps somebody whose destructor deletes
   it until it has lost the name, through makes and makeOrPlugs that cross, calls
   that throw half way, and forks of which one side gives up its ownership.  Only
   a kill, SIGBUS, a system call that fails in make() and the last owner's
   releaseOwnership() leave a file to nobody. *)
NothingIsLeft ==
  [][Tended =>
       \/ Tended'
       \/ \E p \in Proc : \/ Kill(p) \/ Struck(p)
                          \/ KernelRefuses(p) \/ ReleaseOwnership(p)]_vars

(* makeOrPlug() "plugs if the name exists and only otherwise makes": it does
   not take away a file that is there. *)
NeverReplaces ==
  [][\A p \in Proc :
       call[p].either /\ MakeUnlink(p) => file = NoSeg]_vars
=============================================================================
