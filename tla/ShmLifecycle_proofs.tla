------------------------- MODULE ShmLifecycle_proofs -------------------------
(***************************************************************************)
(* Proofs about the life cycle of a shared ring, for any number of         *)
(* processes and kernel objects, with kills, forks and a kernel that       *)
(* refuses.                                                                *)
(***************************************************************************)
EXTENDS ShmLifecycle, TLAPS

Segs == [bytes : Capas \cup {0}, capa : Capas \cup {0}, laid : BOOLEAN]
Objs == [map : Seg \cup {NoSeg}, bytes : Capas \cup {0}, meta : BOOLEAN,
         capa : Capas \cup {0}, ownr : BOOLEAN]
Calls == [at : Labels, want : Capas \cup {0}, fd : Seg \cup {NoSeg},
          rs : Capas \cup {0}, either : BOOLEAN]

Types ==
  /\ file \in Seg \cup {NoSeg}
  /\ seg \in [Seg -> Segs] /\ obj \in [Proc -> Objs] /\ call \in [Proc -> Calls]
  /\ kills \in 0 .. MaxKills

(* From its shm_unlink() to its last look at the name, a make() relies on it. *)
UsesName == {"mk_open", "mk_size", "mk_map", "mk_check", "mk_bytes"}
Making == UsesName \cup {"mk_unlink", "mk_capa", "mk_lay"}

(* What a process holds at each step of a call; no object is half mapped. *)
CallInv(p) ==
  LET c == call[p]
  IN  /\ c.at \in Making \cup {"mop_exists"} => c.want \in Capas
      /\ c.at \in {"mk_size", "mk_map", "pl_map"} => c.fd \in Seg
      /\ c.at \in {"mk_open", "mk_size", "mk_map", "pl_map"} => obj[p] = Fresh
      /\ c.at \in {"mk_check", "mk_bytes", "mk_capa", "mk_lay", "pl_meta"}
           => obj[p].map \in Seg
      /\ obj[p].map = NoSeg => obj[p] = Fresh

TInv == Types /\ \A p \in Proc : CallInv(p)

LEMMA TInvTypeOK == TInv => TypeOK
BY DEF TInv, CallInv, Types, TypeOK, Segs, Objs, Calls

-----------------------------------------------------------------------------
(* Of a step of p: what it makes of the call of p, and of its object. *)
OnlyCall(p, a, w, f, r) ==
  /\ call' \in [Proc -> Calls]
  /\ call'[p].at = a /\ call'[p].want = w /\ call'[p].fd = f /\ call'[p].rs = r
  /\ \A q \in Proc : q # p => call'[q] = call[q]

OnlyObj(p, m, b, t, c, o) ==
  /\ obj' \in [Proc -> Objs]
  /\ obj'[p].map = m /\ obj'[p].bytes = b /\ obj'[p].meta = t
  /\ obj'[p].capa = c /\ obj'[p].ownr = o
  /\ \A q \in Proc : q # p => obj'[q] = obj[q]

LEMMA GoToCall ==
  ASSUME Types, NEW p \in Proc, NEW l \in Labels, GoTo(p, l)
  PROVE  OnlyCall(p, l, call[p].want, call[p].fd, call[p].rs)
BY DEF Types, Calls, GoTo, OnlyCall

LEMMA LeaveCall ==
  ASSUME Types, NEW p \in Proc, Leave(p)
  PROVE  OnlyCall(p, "idle", 0, NoSeg, 0)
<1>1. Idle \in Calls
  BY DEF Idle, Calls, Labels
<1>2. QED
  BY <1>1 DEF Types, Leave, OnlyCall, Idle

LEMMA FreshObj ==
  ASSUME Types, NEW p \in Proc, obj' = [obj EXCEPT ![p] = Fresh]
  PROVE  /\ obj'[p] = Fresh
         /\ OnlyObj(p, NoSeg, 0, FALSE, 0, FALSE)
<1>1. Fresh \in Objs
  BY DEF Fresh, Objs
<1>2. QED
  BY <1>1 DEF Types, OnlyObj, Fresh

LEMMA MakeCallEffect ==
  ASSUME Types, NEW p \in Proc, NEW w \in Wanted, MakeCall(p, w)
  PROVE  OnlyCall(p, "mk_unlink", AlignCapa(w), call[p].fd, call[p].rs)
<1>1. AlignCapa(w) \in Capas /\ "mk_unlink" \in Labels
  BY DEF Capas, Labels
<1>2. QED
  BY <1>1, ZenonT(60) DEF Types, Calls, MakeCall, OnlyCall

LEMMA EitherCallEffect ==
  ASSUME Types, NEW p \in Proc, NEW w \in Wanted, EitherCall(p, w)
  PROVE  OnlyCall(p, "mop_exists", AlignCapa(w), call[p].fd, call[p].rs)
<1>1. AlignCapa(w) \in Capas /\ "mop_exists" \in Labels
  BY DEF Capas, Labels
<1>2. QED
  BY <1>1, ZenonT(60) DEF Types, Calls, EitherCall, OnlyCall

LEMMA MakeOpenEffect ==
  ASSUME Types, NEW p \in Proc, MakeOpen(p)
  PROVE  \E s \in Seg :
           /\ IF file = NoSeg THEN ~Live(s) ELSE s = file
           /\ file' = s
           /\ seg' = [seg EXCEPT ![s] = Blank] /\ seg' \in [Seg -> Segs]
           /\ OnlyCall(p, "mk_size", call[p].want, s, call[p].rs)
<1>1. Blank \in Segs /\ "mk_size" \in Labels
  BY DEF Blank, Segs, Labels
<1>2. PICK s \in Seg :
        /\ IF file = NoSeg THEN ~Live(s) ELSE s = file
        /\ file' = s
        /\ seg' = [seg EXCEPT ![s] = Blank]
        /\ call' = [call EXCEPT ![p].at = "mk_size", ![p].fd = s]
  BY DEF MakeOpen
<1>3. OnlyCall(p, "mk_size", call[p].want, s, call[p].rs)
  BY <1>1, <1>2, ZenonT(60) DEF Types, Calls, OnlyCall
<1>4. seg' \in [Seg -> Segs]
  BY <1>1, <1>2 DEF Types
<1>5. QED
  BY <1>2, <1>3, <1>4

LEMMA MakeSizeEffect ==
  ASSUME Types, NEW p \in Proc, MakeSize(p), call[p].fd \in Seg
  PROVE  /\ OnlyCall(p, "mk_map", call[p].want, call[p].fd, call[p].rs)
         /\ seg' \in [Seg -> Segs]
         /\ seg'[call[p].fd].bytes = call[p].want
         /\ seg'[call[p].fd].capa = seg[call[p].fd].capa
         /\ \A s \in Seg : s # call[p].fd => seg'[s] = seg[s]
<1>1. OnlyCall(p, "mk_map", call[p].want, call[p].fd, call[p].rs)
  BY GoToCall DEF MakeSize, Labels
<1> PICK f \in Seg : f = call[p].fd
  OBVIOUS
<1> PICK w \in Capas \cup {0} : w = call[p].want
  BY DEF Types, Calls
<1> PICK b \in BOOLEAN : b <=> (seg[f].laid /\ w = seg[f].bytes)
  OBVIOUS
<1>2. seg'= [seg EXCEPT ![f].bytes = w, ![f].laid = b]
  BY DEF Types, Segs, MakeSize
<1>3. QED
  BY <1>1, <1>2 DEF Types, Segs

LEMMA MakeMapEffect ==
  ASSUME Types, NEW p \in Proc, MakeMap(p), obj[p] = Fresh, call[p].fd \in Seg
  PROVE  /\ OnlyCall(p, "mk_check", call[p].want, NoSeg, call[p].rs)
         /\ OnlyObj(p, call[p].fd, 0, FALSE, 0, FALSE)
<1>1. OnlyCall(p, "mk_check", call[p].want, NoSeg, call[p].rs)
  BY ZenonT(60) DEF Types, Calls, MakeMap, OnlyCall, Labels
<1>2. PICK f \in Seg : f = call[p].fd
  OBVIOUS
<1>3. obj' = [obj EXCEPT ![p].map = f]
  BY <1>2 DEF MakeMap
<1>4. /\ obj[p].map = NoSeg /\ obj[p].bytes = 0 /\ obj[p].meta = FALSE
      /\ obj[p].capa = 0 /\ obj[p].ownr = FALSE
  BY DEF Fresh
<1>5. OnlyObj(p, f, obj[p].bytes, obj[p].meta, obj[p].capa, obj[p].ownr)
  BY <1>3 DEF Types, Objs, OnlyObj
<1>6. QED
  BY <1>1, <1>2, <1>4, <1>5

LEMMA MakeBytesEffect ==
  ASSUME Types, NEW p \in Proc, MakeBytes(p), file # NoSeg
  PROVE  /\ OnlyCall(p, "mk_capa", call[p].want, call[p].fd, call[p].rs)
         /\ OnlyObj(p, obj[p].map, seg[file].bytes, obj[p].meta, obj[p].capa,
                    obj[p].ownr)
<1>1. OnlyCall(p, "mk_capa", call[p].want, call[p].fd, call[p].rs)
  BY GoToCall DEF MakeBytes, Labels
<1>2. seg[file].bytes \in Capas \cup {0}
  BY DEF Types, Segs
<1>3. obj' = [obj EXCEPT ![p].bytes = seg[file].bytes]
  BY DEF MakeBytes
<1>4. QED
  BY <1>1, <1>2, <1>3 DEF Types, Objs, OnlyObj

LEMMA MakeCapaEffect ==
  ASSUME Types, NEW p \in Proc, MakeCapa(p), obj[p].map \in Seg,
         seg[obj[p].map].bytes # 0
  PROVE  /\ OnlyCall(p, "mk_lay", call[p].want, call[p].fd, call[p].rs)
         /\ OnlyObj(p, obj[p].map, obj[p].bytes, TRUE, call[p].want, TRUE)
         /\ seg' \in [Seg -> Segs]
         /\ seg'[obj[p].map].bytes = seg[obj[p].map].bytes
         /\ seg'[obj[p].map].capa = call[p].want
         /\ \A s \in Seg : s # obj[p].map => seg'[s] = seg[s]
<1>1. OnlyCall(p, "mk_lay", call[p].want, call[p].fd, call[p].rs)
  BY GoToCall DEF MakeCapa, Labels
<1> PICK m \in Seg : m = obj[p].map
  OBVIOUS
<1> PICK w \in Capas \cup {0} : w = call[p].want
  BY DEF Types, Calls
<1>2. seg' = [seg EXCEPT ![m].capa = w, ![m].laid = FALSE]
  BY DEF MakeCapa
<1>3. OnlyObj(p, m, obj[p].bytes, TRUE, w, TRUE)
  <2> DEFINE Differs(f, g) == /\ f \in [Proc -> Objs]
                              /\ f[p].map = g[p].map /\ f[p].bytes = g[p].bytes
                              /\ \A q \in Proc : q # p => f[q] = g[q]
  <2>1. obj \in [Proc -> Objs]
    BY DEF Types
  <2>2. PICK f : f = [obj EXCEPT ![p].meta = TRUE]
    OBVIOUS
  <2>3. Differs(f, obj) /\ f[p].meta = TRUE
    BY <2>1, <2>2, ZenonT(60) DEF Objs
  <2>4. PICK g : g = [f EXCEPT ![p].capa = w]
    OBVIOUS
  <2>5. Differs(g, obj) /\ g[p].meta = TRUE /\ g[p].capa = w
    BY <2>3, <2>4 DEF Objs
  <2>6. obj' = [g EXCEPT ![p].ownr = TRUE]
    BY <2>2, <2>4 DEF MakeCapa
  <2>7. Differs(obj', obj) /\ obj'[p].meta = TRUE /\ obj'[p].capa = w /\ obj'[p].ownr = TRUE
    BY <2>5, <2>6 DEF Objs
  <2>8. QED
    BY <2>7 DEF OnlyObj
<1>4. /\ seg' \in [Seg -> Segs] /\ seg'[m].bytes = seg[m].bytes /\ seg'[m].capa = w
      /\ \A s \in Seg : s # m => seg'[s] = seg[s]
  BY <1>2 DEF Types, Segs
<1>5. QED
  BY <1>1, <1>3, <1>4

LEMMA MakeLayEffect ==
  ASSUME Types, NEW p \in Proc, obj[p].map \in Seg,
         seg' = [seg EXCEPT ![obj[p].map].laid = TRUE]
  PROVE  /\ seg' \in [Seg -> Segs]
         /\ \A s \in Seg : seg'[s].bytes = seg[s].bytes /\ seg'[s].capa = seg[s].capa
         /\ \A s \in Seg : seg'[s].laid <=> seg[s].laid \/ s = obj[p].map
BY ZenonT(60) DEF Types, Segs

LEMMA PlugSizeEffect ==
  ASSUME Types, NEW p \in Proc, PlugSize(p), file # NoSeg
  PROVE  OnlyCall(p, "pl_open", call[p].want, call[p].fd, seg[file].bytes)
<1>1. seg[file].bytes \in Capas \cup {0}
  BY DEF Types, Segs
<1>2. QED
  BY <1>1, SMTT(30) DEF Types, Calls, PlugSize, OnlyCall, Labels

LEMMA PlugOpenEffect ==
  ASSUME Types, NEW p \in Proc, PlugOpen(p), obj[p].map = NoSeg, file # NoSeg
  PROVE  OnlyCall(p, "pl_map", call[p].want, file, call[p].rs)
BY SMTT(30) DEF Types, Calls, PlugOpen, OnlyCall, Labels

LEMMA PlugMapEffect ==
  ASSUME Types, NEW p \in Proc, PlugMap(p), call[p].rs # 0
  PROVE  /\ OnlyCall(p, "pl_meta", call[p].want, NoSeg, call[p].rs)
         /\ OnlyObj(p, call[p].fd, call[p].rs, obj[p].meta, obj[p].capa, obj[p].ownr)
<1>1. OnlyCall(p, "pl_meta", call[p].want, NoSeg, call[p].rs)
  BY DEF Types, Calls, PlugMap, OnlyCall, Labels
<1> PICK f \in Seg \cup {NoSeg} : f = call[p].fd
  BY DEF Types, Calls
<1> PICK r \in Capas \cup {0} : r = call[p].rs
  BY DEF Types, Calls
<1>2. obj' = [obj EXCEPT ![p].map = f, ![p].bytes = r]
  BY DEF PlugMap
<1>3. OnlyObj(p, f, r, obj[p].meta, obj[p].capa, obj[p].ownr)
  BY <1>2, ZenonT(60) DEF Types, Objs, OnlyObj
<1>4. QED
  BY <1>1, <1>3

LEMMA PlugMetaEffect ==
  ASSUME Types, NEW p \in Proc, PlugMeta(p), obj[p].map \in Seg,
         seg[obj[p].map].bytes # 0
  PROVE  /\ OnlyCall(p, "idle", 0, NoSeg, 0)
         /\ OnlyObj(p, obj[p].map, obj[p].bytes, TRUE,
                    IF call[p].rs = seg[obj[p].map].capa THEN seg[obj[p].map].capa ELSE 0,
                    obj[p].ownr)
<1>1. OnlyCall(p, "idle", 0, NoSeg, 0)
  BY LeaveCall DEF PlugMeta
<1> PICK c \in Capas \cup {0} :
      c = IF call[p].rs = seg[obj[p].map].capa THEN seg[obj[p].map].capa ELSE 0
  BY DEF Types, Segs
<1>2. obj' = [obj EXCEPT ![p].meta = TRUE, ![p].capa = c]
  BY DEF PlugMeta
<1>3. OnlyObj(p, obj[p].map, obj[p].bytes, TRUE, c, obj[p].ownr)
  BY <1>2, ZenonT(60) DEF Types, Objs, OnlyObj
<1>4. QED
  BY <1>1, <1>3

LEMMA ReleaseEffect ==
  ASSUME Types, NEW p \in Proc, ReleaseOwnership(p)
  PROVE  OnlyObj(p, obj[p].map, obj[p].bytes, obj[p].meta, obj[p].capa, FALSE)
BY DEF Types, Objs, ReleaseOwnership, OnlyObj

LEMMA ForkEffect ==
  ASSUME Types, NEW p \in Proc, NEW q \in Proc, Fork(p, q)
  PROVE  OnlyObj(q, obj[p].map, obj[p].bytes, obj[p].meta, obj[p].capa, obj[p].ownr)
BY DEF Types, Objs, Fork, OnlyObj

-----------------------------------------------------------------------------
(* The types, and what a process holds, whatever the others do. *)

LEMMA InitTInv == Init => TInv
<1> SUFFICES ASSUME Init PROVE TInv
  OBVIOUS
<1>1. Types
  BY BoundAssumption
     DEF Init, Types, Segs, Objs, Calls, Blank, Fresh, Idle, Labels
<1>2. ASSUME NEW p \in Proc PROVE CallInv(p)
  BY DEF Init, CallInv, Idle, Making, UsesName
<1>3. QED
  BY <1>1, <1>2 DEF TInv

(* A step keeps them if it keeps the types and what its own process holds. *)
LEMMA OwnStep ==
  ASSUME TInv, NEW p \in Proc, Types', CallInv(p)',
         \A q \in Proc : q # p => call'[q] = call[q] /\ obj'[q] = obj[q]
  PROVE  TInv'
BY DEF TInv, CallInv

(* No object of a process and no field of its call is touched by a step that
   changes neither. *)
LEMMA Leaves ==
  ASSUME TInv, NEW p \in Proc, Types', OnlyCall(p, "idle", 0, NoSeg, 0),
         \/ obj' = obj
         \/ obj' = [obj EXCEPT ![p] = Fresh]
  PROVE  TInv'
<1>1. CallInv(p) /\ obj' \in [Proc -> Objs] /\ Types
  BY DEF TInv, Types
<1>2. obj'[p] = obj[p] \/ obj'[p] = Fresh
  BY <1>1 DEF Types
<1>3. CallInv(p)'
  BY <1>1, <1>2 DEF CallInv, OnlyCall, Making, UsesName
<1>4. \A q \in Proc : q # p => call'[q] = call[q] /\ obj'[q] = obj[q]
  BY <1>1 DEF OnlyCall, Types
<1>5. QED
  BY <1>3, <1>4, OwnStep

(* The process dies and another takes its place. *)
LEMMA Dies ==
  ASSUME TInv, NEW p \in Proc, Die(p), UNCHANGED <<file, seg>>, kills' \in 0 .. MaxKills
  PROVE  TInv' /\ OnlyCall(p, "idle", 0, NoSeg, 0) /\ obj' = [obj EXCEPT ![p] = Fresh]
<1>1. Types /\ obj' = [obj EXCEPT ![p] = Fresh] /\ Leave(p)
  BY DEF TInv, Die, Leave
<1>2. OnlyCall(p, "idle", 0, NoSeg, 0) /\ OnlyObj(p, NoSeg, 0, FALSE, 0, FALSE)
  BY <1>1, LeaveCall, FreshObj
<1>3. Types'
  BY <1>1, <1>2 DEF Types, OnlyCall, OnlyObj
<1>4. QED
  BY <1>1, <1>2, <1>3, Leaves

(* A step that moves a call on, and touches no object. *)
LEMMA MovesOn ==
  ASSUME TInv, NEW p \in Proc, NEW a, NEW w, NEW f, NEW r, OnlyCall(p, a, w, f, r),
         obj' = obj, file' \in Seg \cup {NoSeg}, seg' \in [Seg -> Segs], kills' = kills,
         a \in Making \cup {"mop_exists"} => w \in Capas,
         a \in {"mk_size", "mk_map", "pl_map"} => f \in Seg,
         a \in {"mk_open", "mk_size", "mk_map", "pl_map"} => obj[p] = Fresh,
         a \in {"mk_check", "mk_bytes", "mk_capa", "mk_lay", "pl_meta"}
           => obj[p].map \in Seg
  PROVE  TInv'
<1>1. Types'
  BY DEF TInv, Types, OnlyCall
<1>2. CallInv(p)'
  BY DEF TInv, CallInv, OnlyCall
<1>3. QED
  BY <1>1, <1>2, OwnStep DEF OnlyCall

LEMMA MakeKeepsTInv ==
  ASSUME TInv, NEW p \in Proc, MakeStep(p)
  PROVE  TInv'
<1>1. Types /\ CallInv(p)
  BY DEF TInv
<1>2. CASE MakeUnlink(p)
  <2>1. file' = NoSeg /\ UNCHANGED <<seg, obj, kills>> /\ At(p, "mk_unlink")
    BY <1>2 DEF MakeUnlink
  <2>2. CASE obj[p].map = NoSeg
    <3>1. OnlyCall(p, "mk_open", call[p].want, call[p].fd, call[p].rs)
      BY <1>1, <1>2, <2>2, GoToCall DEF MakeUnlink, Labels
    <3>2. obj[p] = Fresh /\ call[p].want \in Capas
      BY <1>1, <2>1, <2>2 DEF CallInv, At, Making
    <3>3. seg' \in [Seg -> Segs]
      BY <1>1, <2>1 DEF Types
    <3>4. QED
      BY <2>1, <3>1, <3>2, <3>3, MovesOn
  <2>3. CASE obj[p].map # NoSeg
    <3>1. OnlyCall(p, "idle", 0, NoSeg, 0)
      BY <1>1, <1>2, <2>3, LeaveCall DEF MakeUnlink
    <3>2. Types'
      BY <1>1, <2>1, <3>1 DEF Types, OnlyCall
    <3>3. QED
      BY <2>1, <3>1, <3>2, Leaves
  <2>4. QED
    BY <2>2, <2>3
<1>3. CASE MakeOpen(p)
  <2>1. PICK s \in Seg : /\ file' = s /\ seg' \in [Seg -> Segs]
                         /\ OnlyCall(p, "mk_size", call[p].want, s, call[p].rs)
    BY <1>1, <1>3, MakeOpenEffect
  <2>2. UNCHANGED <<obj, kills>> /\ obj[p] = Fresh /\ call[p].want \in Capas
    BY <1>1, <1>3 DEF MakeOpen, CallInv, At, Making, UsesName
  <2>3. QED
    BY <2>1, <2>2, MovesOn
<1>4. CASE MakeSize(p)
  <2>1. /\ UNCHANGED <<file, obj, kills>> /\ obj[p] = Fresh /\ call[p].fd \in Seg
        /\ call[p].want \in Capas
    BY <1>1, <1>4 DEF MakeSize, CallInv, At, Making, UsesName
  <2>2. /\ OnlyCall(p, "mk_map", call[p].want, call[p].fd, call[p].rs)
        /\ seg' \in [Seg -> Segs]
    BY <1>1, <1>4, <2>1, MakeSizeEffect
  <2>3. file' \in Seg \cup {NoSeg}
    BY <1>1, <2>1 DEF Types
  <2>4. QED
    BY <2>1, <2>2, <2>3, MovesOn
<1>5. CASE MakeMap(p)
  <2>1. /\ UNCHANGED <<file, seg, kills>> /\ obj[p] = Fresh /\ call[p].fd \in Seg
        /\ call[p].want \in Capas
    BY <1>1, <1>5 DEF MakeMap, CallInv, At, Making, UsesName
  <2>2. /\ OnlyCall(p, "mk_check", call[p].want, NoSeg, call[p].rs)
        /\ OnlyObj(p, call[p].fd, 0, FALSE, 0, FALSE)
    BY <1>1, <1>5, <2>1, MakeMapEffect
  <2>3. Types'
    BY <1>1, <2>1, <2>2 DEF Types, OnlyCall, OnlyObj
  <2>4. CallInv(p)'
    BY <2>1, <2>2, SegAssumption DEF CallInv, OnlyCall, OnlyObj
  <2>5. QED
    BY <2>2, <2>3, <2>4, OwnStep DEF OnlyCall, OnlyObj
<1>6. CASE MakeCheck(p)
  <2>1. /\ UNCHANGED <<file, seg, kills>> /\ obj[p].map \in Seg
        /\ call[p].want \in Capas
    BY <1>1, <1>6 DEF MakeCheck, CallInv, At, Making, UsesName
  <2>2. CASE file # NoSeg
    <3>1. OnlyCall(p, "mk_bytes", call[p].want, call[p].fd, call[p].rs) /\ obj' = obj
      BY <1>1, <1>6, <2>2, GoToCall DEF MakeCheck, Labels
    <3>2. file' \in Seg \cup {NoSeg} /\ seg' \in [Seg -> Segs]
      BY <1>1, <2>1 DEF Types
    <3>3. QED
      BY <2>1, <3>1, <3>2, MovesOn
  <2>3. CASE file = NoSeg
    <3>1. Leave(p) /\ obj' = [obj EXCEPT ![p] = Fresh]
      BY <1>6, <2>3 DEF MakeCheck
    <3>2. /\ OnlyCall(p, "idle", 0, NoSeg, 0)
          /\ OnlyObj(p, NoSeg, 0, FALSE, 0, FALSE)
      BY <1>1, <3>1, LeaveCall, FreshObj
    <3>3. Types'
      BY <1>1, <2>1, <3>2 DEF Types, OnlyCall, OnlyObj
    <3>4. QED
      BY <3>1, <3>2, <3>3, Leaves
  <2>4. QED
    BY <2>2, <2>3
<1>7. CASE MakeBytes(p)
  <2>1. /\ UNCHANGED <<file, seg, kills>> /\ obj[p].map \in Seg
        /\ call[p].want \in Capas
    BY <1>1, <1>7 DEF MakeBytes, CallInv, At, Making, UsesName
  <2>2. CASE file # NoSeg
    <3>1. /\ OnlyCall(p, "mk_capa", call[p].want, call[p].fd, call[p].rs)
          /\ OnlyObj(p, obj[p].map, seg[file].bytes, obj[p].meta, obj[p].capa,
                     obj[p].ownr)
      BY <1>1, <1>7, <2>2, MakeBytesEffect
    <3>2. Types'
      BY <1>1, <2>1, <3>1 DEF Types, OnlyCall, OnlyObj
    <3>3. CallInv(p)'
      BY <2>1, <3>1, SegAssumption DEF CallInv, OnlyCall, OnlyObj
    <3>4. QED
      BY <3>1, <3>2, <3>3, OwnStep DEF OnlyCall, OnlyObj
  <2>3. CASE file = NoSeg
    <3>1. OnlyCall(p, "idle", 0, NoSeg, 0) /\ obj' = obj
      BY <1>1, <1>7, <2>3, LeaveCall DEF MakeBytes
    <3>2. Types'
      BY <1>1, <2>1, <3>1 DEF Types, OnlyCall
    <3>3. QED
      BY <3>1, <3>2, Leaves
  <2>4. QED
    BY <2>2, <2>3
<1>8. CASE MakeCapa(p)
  <2>1. /\ UNCHANGED <<file, kills>> /\ obj[p].map \in Seg /\ call[p].want \in Capas
    BY <1>1, <1>8 DEF MakeCapa, CallInv, At, Making
  <2>2. CASE seg[obj[p].map].bytes # 0
    <3>1. /\ OnlyCall(p, "mk_lay", call[p].want, call[p].fd, call[p].rs)
          /\ OnlyObj(p, obj[p].map, obj[p].bytes, TRUE, call[p].want, TRUE)
          /\ seg' \in [Seg -> Segs]
      BY <1>1, <1>8, <2>1, <2>2, MakeCapaEffect
    <3>2. Types'
      BY <1>1, <2>1, <3>1 DEF Types, OnlyCall, OnlyObj
    <3>3. CallInv(p)'
      BY <2>1, <3>1, SegAssumption DEF CallInv, OnlyCall, OnlyObj
    <3>4. QED
      BY <3>1, <3>2, <3>3, OwnStep DEF OnlyCall, OnlyObj
  <2>3. CASE seg[obj[p].map].bytes = 0
    <3>1. Die(p) /\ UNCHANGED <<file, seg>> /\ kills' \in 0 .. MaxKills
      BY <1>1, <1>8, <2>1, <2>3 DEF MakeCapa, Types
    <3>2. QED
      BY <3>1, Dies
  <2>4. QED
    BY <2>2, <2>3
<1>9. CASE MakeLay(p)
  <2>1. /\ UNCHANGED <<file, kills>> /\ obj[p].map \in Seg /\ kills' \in 0 .. MaxKills
    BY <1>1, <1>9 DEF MakeLay, CallInv, At, Types
  <2>2. CASE seg[obj[p].map].bytes < call[p].want
    BY <1>9, <2>1, <2>2, Dies DEF MakeLay
  <2>3. CASE ~(seg[obj[p].map].bytes < call[p].want)
    <3>1. Leave(p) /\ obj' = obj /\ seg' = [seg EXCEPT ![obj[p].map].laid = TRUE]
      BY <1>9, <2>3 DEF MakeLay
    <3>2. OnlyCall(p, "idle", 0, NoSeg, 0) /\ seg' \in [Seg -> Segs]
      BY <1>1, <2>1, <3>1, LeaveCall, MakeLayEffect
    <3>3. Types'
      BY <1>1, <2>1, <3>1, <3>2 DEF Types, OnlyCall
    <3>4. QED
      BY <3>1, <3>2, <3>3, Leaves
  <2>4. QED
    BY <2>2, <2>3
<1>10. QED
  BY <1>2, <1>3, <1>4, <1>5, <1>6, <1>7, <1>8, <1>9 DEF MakeStep

LEMMA PlugKeepsTInv ==
  ASSUME TInv, NEW p \in Proc, PlugStep(p)
  PROVE  TInv'
<1>1. Types /\ CallInv(p)
  BY DEF TInv
<1>2. /\ UNCHANGED <<file, seg, kills>> /\ file' \in Seg \cup {NoSeg}
      /\ seg' \in [Seg -> Segs] /\ kills' \in 0 .. MaxKills
  BY <1>1 DEF PlugStep, PlugExists, PlugSize, PlugOpen, PlugMap, PlugMeta, Types
<1>3. ASSUME Leave(p), obj' = obj PROVE TInv'
  <2>1. OnlyCall(p, "idle", 0, NoSeg, 0)
    BY <1>1, <1>3, LeaveCall
  <2>2. Types'
    BY <1>1, <1>2, <1>3, <2>1 DEF Types, OnlyCall
  <2>3. QED
    BY <1>3, <2>1, <2>2, Leaves
<1>4. CASE PlugExists(p)
  <2>1. CASE file = NoSeg
    BY <1>3, <1>4, <2>1 DEF PlugExists
  <2>2. CASE file # NoSeg
    <3>1. OnlyCall(p, "pl_size", call[p].want, call[p].fd, call[p].rs) /\ obj' = obj
      BY <1>1, <1>4, <2>2, GoToCall DEF PlugExists, Labels
    <3>2. QED
      BY <1>2, <3>1, MovesOn DEF Making, UsesName
  <2>3. QED
    BY <2>1, <2>2
<1>5. CASE PlugSize(p)
  <2>1. CASE file = NoSeg
    BY <1>3, <1>5, <2>1 DEF PlugSize
  <2>2. CASE file # NoSeg
    <3>1. OnlyCall(p, "pl_open", call[p].want, call[p].fd, seg[file].bytes)
      BY <1>1, <1>5, <2>2, PlugSizeEffect
    <3>2. obj' = obj
      BY <1>5 DEF PlugSize
    <3>3. QED
      BY <1>2, <3>1, <3>2, MovesOn DEF Making, UsesName
  <2>3. QED
    BY <2>1, <2>2
<1>6. CASE PlugOpen(p)
  <2>1. CASE obj[p].map # NoSeg \/ file = NoSeg
    BY <1>3, <1>6, <2>1 DEF PlugOpen
  <2>2. CASE obj[p].map = NoSeg /\ file # NoSeg
    <3>1. OnlyCall(p, "pl_map", call[p].want, file, call[p].rs)
      BY <1>1, <1>6, <2>2, PlugOpenEffect
    <3>2. obj' = obj /\ obj[p] = Fresh /\ file \in Seg
      BY <1>1, <1>6, <2>2 DEF PlugOpen, CallInv, Types
    <3>3. QED
      BY <1>2, <3>1, <3>2, MovesOn DEF Making, UsesName
  <2>3. QED
    BY <2>1, <2>2
<1>7. CASE PlugMap(p)
  <2>1. CASE call[p].rs = 0
    BY <1>3, <1>7, <2>1 DEF PlugMap
  <2>2. CASE call[p].rs # 0
    <3>1. /\ OnlyCall(p, "pl_meta", call[p].want, NoSeg, call[p].rs)
          /\ OnlyObj(p, call[p].fd, call[p].rs, obj[p].meta, obj[p].capa, obj[p].ownr)
      BY <1>1, <1>7, <2>2, PlugMapEffect
    <3>2. Types'
      BY <1>1, <1>2, <3>1 DEF Types, OnlyCall, OnlyObj
    <3>3. call[p].fd \in Seg
      BY <1>1, <1>7 DEF CallInv, PlugMap, At
    <3>4. CallInv(p)'
      BY <3>1, <3>3, SegAssumption DEF CallInv, OnlyCall, OnlyObj, Making, UsesName
    <3>5. QED
      BY <3>1, <3>2, <3>4, OwnStep DEF OnlyCall, OnlyObj
  <2>3. QED
    BY <2>1, <2>2
<1>8. CASE PlugMeta(p)
  <2>1. obj[p].map \in Seg
    BY <1>1, <1>8 DEF CallInv, PlugMeta, At
  <2>2. CASE seg[obj[p].map].bytes = 0
    BY <1>2, <1>8, <2>2, Dies DEF PlugMeta
  <2>3. CASE seg[obj[p].map].bytes # 0
    <3>1. PICK c : /\ OnlyCall(p, "idle", 0, NoSeg, 0)
                   /\ OnlyObj(p, obj[p].map, obj[p].bytes, TRUE, c, obj[p].ownr)
      BY <1>1, <1>8, <2>1, <2>3, PlugMetaEffect
    <3>2. Types'
      BY <1>1, <1>2, <3>1 DEF Types, OnlyCall, OnlyObj
    <3>3. CallInv(p)'
      BY <2>1, <3>1, SegAssumption DEF CallInv, OnlyCall, OnlyObj, Making, UsesName
    <3>4. QED
      BY <3>1, <3>2, <3>3, OwnStep DEF OnlyCall, OnlyObj
  <2>4. QED
    BY <2>2, <2>3
<1>9. QED
  BY <1>4, <1>5, <1>6, <1>7, <1>8 DEF PlugStep

LEMMA CallKeepsTInv ==
  ASSUME TInv, NEW p \in Proc,
         \/ \E w \in Wanted : MakeCall(p, w) \/ EitherCall(p, w)
         \/ PlugCall(p) \/ EitherExists(p)
  PROVE  TInv'
<1>1. Types /\ CallInv(p)
  BY DEF TInv
<1>2. /\ UNCHANGED <<file, seg, obj, kills>> /\ file' \in Seg \cup {NoSeg}
      /\ seg' \in [Seg -> Segs]
  BY <1>1 DEF MakeCall, EitherCall, PlugCall, EitherExists, Types
<1>3. CASE \E w \in Wanted : MakeCall(p, w) \/ EitherCall(p, w)
  <2>1. PICK w \in Wanted : MakeCall(p, w) \/ EitherCall(p, w)
    BY <1>3
  <2>2. AlignCapa(w) \in Capas
    BY DEF Capas
  <2>3. CASE MakeCall(p, w)
    <3>1. OnlyCall(p, "mk_unlink", AlignCapa(w), call[p].fd, call[p].rs)
      BY <1>1, <2>3, MakeCallEffect
    <3>2. QED
      BY <1>2, <2>2, <3>1, MovesOn
  <2>4. CASE EitherCall(p, w)
    <3>1. OnlyCall(p, "mop_exists", AlignCapa(w), call[p].fd, call[p].rs)
      BY <1>1, <2>4, EitherCallEffect
    <3>2. QED
      BY <1>2, <2>2, <3>1, MovesOn
  <2>5. QED
    BY <2>1, <2>3, <2>4
<1>4. CASE PlugCall(p)
  <2>1. OnlyCall(p, "pl_exists", call[p].want, call[p].fd, call[p].rs)
    BY <1>1, <1>4, GoToCall DEF PlugCall, Labels
  <2>2. QED
    BY <1>2, <2>1, MovesOn DEF Making, UsesName
<1>5. CASE EitherExists(p)
  <2>1. call[p].want \in Capas
    BY <1>1, <1>5 DEF CallInv, EitherExists, At
  <2>2. PICK a \in {"pl_exists", "mk_unlink"} :
          OnlyCall(p, a, call[p].want, call[p].fd, call[p].rs)
    <3>1. PICK a \in {"pl_exists", "mk_unlink"} : GoTo(p, a)
      BY <1>5 DEF EitherExists
    <3>2. a \in Labels
      BY DEF Labels
    <3>3. QED
      BY <1>1, <3>1, <3>2, GoToCall
  <2>3. QED
    BY <1>2, <2>1, <2>2, MovesOn
<1>6. QED
  BY <1>3, <1>4, <1>5

LEMMA EndKeepsTInv ==
  ASSUME TInv, NEW p \in Proc,
         \/ KernelRefuses(p) \/ Destroy(p) \/ DelOsFile(p) \/ ReleaseOwnership(p)
         \/ Kill(p) \/ \E q \in Proc : Fork(p, q)
  PROVE  TInv'
<1>1. Types /\ CallInv(p)
  BY DEF TInv
<1>2. CASE KernelRefuses(p)
  <2>1. OnlyCall(p, "idle", 0, NoSeg, 0) /\ UNCHANGED <<file, seg, obj, kills>>
    BY <1>1, <1>2, LeaveCall DEF KernelRefuses
  <2>2. Types'
    BY <1>1, <2>1 DEF Types, OnlyCall
  <2>3. QED
    BY <2>1, <2>2, Leaves
<1>3. CASE Destroy(p)
  <2>1. /\ At(p, "idle") /\ obj' = [obj EXCEPT ![p] = Fresh]
        /\ UNCHANGED <<seg, call, kills>> /\ file' \in Seg \cup {NoSeg}
    BY <1>1, <1>3 DEF Destroy, Types
  <2>2. obj'[p] = Fresh /\ OnlyObj(p, NoSeg, 0, FALSE, 0, FALSE)
    BY <1>1, <2>1, FreshObj
  <2>3. Types'
    BY <1>1, <2>1, <2>2 DEF Types, OnlyObj
  <2>4. CallInv(p)'
    BY <2>1, <2>2 DEF CallInv, At, Making, UsesName
  <2>5. QED
    BY <2>1, <2>2, <2>3, <2>4, OwnStep DEF OnlyObj
<1>4. CASE DelOsFile(p)
  BY <1>4 DEF DelOsFile, TInv, Types, CallInv
<1>5. CASE ReleaseOwnership(p)
  <2>1. At(p, "idle") /\ UNCHANGED <<file, seg, call, kills>> /\ obj[p].ownr
    BY <1>5 DEF ReleaseOwnership
  <2>2. OnlyObj(p, obj[p].map, obj[p].bytes, obj[p].meta, obj[p].capa, FALSE)
    BY <1>1, <1>5, ReleaseEffect
  <2>3. Types'
    BY <1>1, <2>1, <2>2 DEF Types, OnlyObj
  <2>4. obj'[p].map # NoSeg
    BY <1>1, <2>1, <2>2 DEF CallInv, Fresh, OnlyObj
  <2>5. CallInv(p)'
    BY <2>1, <2>4 DEF CallInv, At, Making, UsesName
  <2>6. QED
    BY <2>1, <2>2, <2>3, <2>5, OwnStep DEF OnlyObj
<1>6. CASE Kill(p)
  <2>1. Die(p) /\ UNCHANGED <<file, seg>> /\ kills' \in 0 .. MaxKills
    BY <1>1, <1>6, BoundAssumption DEF Kill, Types
  <2>2. QED
    BY <2>1, Dies
<1>7. ASSUME NEW q \in Proc, Fork(p, q) PROVE TInv'
  <2>1. At(q, "idle") /\ UNCHANGED <<file, seg, call, kills>> /\ obj[p].ownr
    BY <1>7 DEF Fork
  <2>2. OnlyObj(q, obj[p].map, obj[p].bytes, obj[p].meta, obj[p].capa, obj[p].ownr)
    BY <1>1, <1>7, ForkEffect
  <2>3. Types'
    BY <1>1, <2>1, <2>2 DEF Types, OnlyObj
  <2>4. obj'[q].map # NoSeg
    BY <1>1, <2>1, <2>2 DEF CallInv, Fresh, OnlyObj
  <2>5. CallInv(q)'
    BY <2>1, <2>4 DEF CallInv, At, Making, UsesName
  <2>6. QED
    BY <2>1, <2>2, <2>3, <2>5, OwnStep DEF OnlyObj
<1>8. QED
  BY <1>2, <1>3, <1>4, <1>5, <1>6, <1>7

LEMMA NextKeepsTInv == TInv /\ [Next]_vars => TInv'
<1> SUFFICES ASSUME TInv, [Next]_vars PROVE TInv'
  OBVIOUS
<1>1. CASE UNCHANGED vars
  BY <1>1 DEF vars, TInv, Types, CallInv
<1>2. CASE Next
  BY <1>2, CallKeepsTInv, MakeKeepsTInv, PlugKeepsTInv, EndKeepsTInv DEF Next
<1>3. QED
  BY <1>1, <1>2

LEMMA AlwaysTInv == Spec => []TInv
BY InitTInv, NextKeepsTInv, PTL DEF Spec

(* Files, objects and calls keep their types, and an object that maps nothing is
   as good as new, whatever fails or is killed on the way. *)
THEOREM TypeCorrect == Spec => []TypeOK
BY AlwaysTInv, TInvTypeOK, PTL

-----------------------------------------------------------------------------
(* While makers keep apart *)

(* No two processes rely on the name at the same time.  Nothing in the code sees
   to that: it is what the users of a name owe each other. *)
MakesApart ==
  \A p, q \in Proc : call[p].at \in UsesName /\ call[q].at \in UsesName => p = q

(* The object a make() is making, until it writes its capacity there *)
InMake == {"mk_size", "mk_map", "mk_check", "mk_bytes", "mk_capa"}
Target(p) == IF call[p].at \in {"mk_size", "mk_map"} THEN call[p].fd ELSE obj[p].map

(* How far a make() has come, and what a plugged or made object agrees with. *)
MakeInv(p) ==
  LET c == call[p]
      m == obj[p].map
  IN  /\ c.at = "mk_open" => file = NoSeg
      /\ c.at \in {"mk_size", "mk_map"} => file \in {c.fd, NoSeg} /\ seg[c.fd].capa = 0
      /\ c.at = "mk_map" => seg[c.fd].bytes = c.want
      /\ c.at \in {"mk_check", "mk_bytes"} => file \in {m, NoSeg}
      /\ c.at \in {"mk_check", "mk_bytes", "mk_capa"}
           => seg[m].capa = 0 /\ seg[m].bytes = c.want
      /\ c.at \in {"mk_check", "mk_bytes", "mk_capa", "pl_meta"} => obj[p].capa = 0
      /\ c.at \in {"mk_capa", "mk_lay"} => obj[p].bytes = c.want
      /\ c.at = "mk_lay" => obj[p].capa = c.want
      /\ c.at = "pl_meta" => obj[p].bytes = c.rs
      /\ obj[p].capa # 0 => obj[p].bytes = obj[p].capa /\ seg[m].capa = obj[p].capa

(* A capacity that was written is that of the file; the tags follow. *)
SegInv(s) ==
  seg[s].capa # 0 =>
    /\ seg[s].bytes = seg[s].capa
    /\ ~seg[s].laid => kills > 0 \/ \E q \in Proc : At(q, "mk_lay") /\ obj[q].map = s

MadeApart(p, q) ==
  call[p].at \in InMake /\ call[q].at \in InMake => Target(p) # Target(q)

IInv ==
  /\ TInv
  /\ \A p \in Proc : MakeInv(p)
  /\ \A s \in Seg : SegInv(s)
  /\ \A p, q \in Proc : p # q => MadeApart(p, q)

LEMMA InitIInv == Init => IInv
<1> SUFFICES ASSUME Init PROVE IInv
  OBVIOUS
<1>1. TInv
  BY InitTInv
<1>2. ASSUME NEW p \in Proc
      PROVE  call[p].at = "idle" /\ obj[p].capa = 0
  BY DEF Init, Idle, Fresh
<1>3. ASSUME NEW s \in Seg PROVE seg[s].capa = 0
  BY DEF Init, Blank
<1>4. QED
  BY <1>1, <1>2, <1>3 DEF IInv, MakeInv, SegInv, MadeApart, InMake

(* Whatever has a capacity is mapped. *)
LEMMA SizedIsMapped ==
  ASSUME TInv, NEW p \in Proc, obj[p].capa # 0
  PROVE  obj[p].map \in Seg
BY DEF TInv, Types, Objs, CallInv, Fresh

(* A step that leaves the objects of the kernel alone, and may at most delete the
   name, needs only be looked at where it is made. *)
LEMMA QuietStep ==
  ASSUME IInv, TInv', NEW p \in Proc, seg' = seg, file' \in {file, NoSeg},
         kills > 0 => kills' > 0,
         \A q \in Proc : q # p => call'[q] = call[q] /\ obj'[q] = obj[q],
         MakeInv(p)',
         At(p, "mk_lay") => kills' > 0,
         call'[p].at \in InMake => call[p].at \in InMake /\ Target(p)' = Target(p)
  PROVE  IInv'
<1>1. ASSUME NEW q \in Proc, q # p PROVE MakeInv(q)' /\ Target(q)' = Target(q)
  BY <1>1 DEF IInv, MakeInv, Target
<1>2. ASSUME NEW q \in Proc, NEW r \in Proc, q # r PROVE MadeApart(q, r)'
  BY <1>1, <1>2 DEF IInv, MadeApart
<1>3. ASSUME NEW s \in Seg PROVE SegInv(s)'
  <2>1. ASSUME NEW q \in Proc, At(q, "mk_lay"), obj[q].map = s
        PROVE  kills' > 0 \/ (At(q, "mk_lay")' /\ obj'[q].map = s)
    BY <2>1 DEF At
  <2>2. QED
    BY <2>1 DEF IInv, SegInv
<1>4. QED
  BY <1>1, <1>2, <1>3 DEF IInv

(* The end of a call, in whatever way. *)
LEMMA QuietLeave ==
  ASSUME IInv, TInv', NEW p \in Proc, seg' = seg, file' \in {file, NoSeg},
         kills > 0 => kills' > 0,
         OnlyCall(p, "idle", 0, NoSeg, 0),
         obj' = obj \/ obj' = [obj EXCEPT ![p] = Fresh],
         At(p, "mk_lay") => kills' > 0
  PROVE  IInv'
<1>1. obj'[p] = obj[p] \/ obj'[p] = Fresh
  BY DEF IInv, TInv, Types
<1>2. MakeInv(p)'
  <2>1. MakeInv(p)
    BY DEF IInv
  <2>2. Fresh.capa = 0
    BY DEF Fresh
  <2>3. QED
    BY <1>1, <2>1, <2>2 DEF MakeInv, OnlyCall
<1>3. \A q \in Proc : q # p => call'[q] = call[q] /\ obj'[q] = obj[q]
  BY DEF IInv, TInv, Types, OnlyCall
<1>4. call'[p].at \notin InMake
  BY DEF OnlyCall, InMake
<1>5. QED
  BY <1>2, <1>3, <1>4, QuietStep

(* A step within a call that does not look at the ring. *)
LEMMA QuietMove ==
  ASSUME IInv, TInv', NEW p \in Proc, UNCHANGED <<seg, obj, kills>>,
         file' \in {file, NoSeg},
         NEW w, NEW f, NEW r,
         NEW a \in {"mk_unlink", "mk_open", "mop_exists", "pl_exists", "pl_size",
                    "pl_open", "pl_map"},
         OnlyCall(p, a, w, f, r),
         a = "mk_open" => file' = NoSeg,
         ~At(p, "mk_lay")
  PROVE  IInv'
<1>1. MakeInv(p)'
  BY DEF IInv, MakeInv, OnlyCall
<1>2. call'[p].at \notin InMake
  BY DEF OnlyCall, InMake
<1>3. QED
  BY <1>1, <1>2, QuietStep DEF OnlyCall

LEMMA CallKeeps ==
  ASSUME IInv, NEW p \in Proc,
         \/ \E w \in Wanted : MakeCall(p, w) \/ EitherCall(p, w)
         \/ PlugCall(p) \/ EitherExists(p)
  PROVE  IInv'
<1>1. TInv /\ Types /\ TInv'
  BY CallKeepsTInv DEF IInv, TInv
<1>2. UNCHANGED <<file, seg, obj, kills>> /\ ~At(p, "mk_lay")
  BY DEF MakeCall, EitherCall, PlugCall, EitherExists, At
<1>3. CASE \E w \in Wanted : MakeCall(p, w) \/ EitherCall(p, w)
  BY <1>1, <1>2, <1>3, MakeCallEffect, EitherCallEffect, QuietMove
<1>4. CASE PlugCall(p)
  <2>1. OnlyCall(p, "pl_exists", call[p].want, call[p].fd, call[p].rs)
    BY <1>1, <1>4, GoToCall DEF PlugCall, Labels
  <2>2. QED
    BY <1>1, <1>2, <2>1, QuietMove
<1>5. CASE EitherExists(p)
  <2>1. PICK a \in {"pl_exists", "mk_unlink"} : GoTo(p, a)
    BY <1>5 DEF EitherExists
  <2>2. OnlyCall(p, a, call[p].want, call[p].fd, call[p].rs)
    BY <1>1, <2>1, GoToCall DEF Labels
  <2>3. QED
    BY <1>1, <1>2, <2>2, QuietMove
<1>6. QED
  BY <1>3, <1>4, <1>5

LEMMA PlugKeeps ==
  ASSUME IInv, NEW p \in Proc, PlugStep(p)
  PROVE  IInv'
<1>1. TInv /\ Types /\ TInv' /\ MakeInv(p) /\ CallInv(p)
  BY PlugKeepsTInv DEF IInv, TInv
<1>2. UNCHANGED <<file, seg, kills>> /\ ~At(p, "mk_lay")
  BY DEF PlugStep, PlugExists, PlugSize, PlugOpen, PlugMap, PlugMeta, At
<1>3. ASSUME Leave(p), obj' = obj PROVE IInv'
  BY <1>1, <1>2, <1>3, LeaveCall, QuietLeave
<1>4. CASE PlugExists(p)
  <2>1. CASE file = NoSeg
    BY <1>3, <1>4, <2>1 DEF PlugExists
  <2>2. CASE file # NoSeg
    <3>1. OnlyCall(p, "pl_size", call[p].want, call[p].fd, call[p].rs) /\ obj' = obj
      BY <1>1, <1>4, <2>2, GoToCall DEF PlugExists, Labels
    <3>2. QED
      BY <1>1, <1>2, <3>1, QuietMove
  <2>3. QED
    BY <2>1, <2>2
<1>5. CASE PlugSize(p)
  <2>1. CASE file = NoSeg
    BY <1>3, <1>5, <2>1 DEF PlugSize
  <2>2. CASE file # NoSeg
    <3>1. OnlyCall(p, "pl_open", call[p].want, call[p].fd, seg[file].bytes)
      BY <1>1, <1>5, <2>2, PlugSizeEffect
    <3>2. obj' = obj
      BY <1>5 DEF PlugSize
    <3>3. QED
      BY <1>1, <1>2, <3>1, <3>2, QuietMove
  <2>3. QED
    BY <2>1, <2>2
<1>6. CASE PlugOpen(p)
  <2>1. CASE obj[p].map # NoSeg \/ file = NoSeg
    BY <1>3, <1>6, <2>1 DEF PlugOpen
  <2>2. CASE obj[p].map = NoSeg /\ file # NoSeg
    <3>1. OnlyCall(p, "pl_map", call[p].want, file, call[p].rs)
      BY <1>1, <1>6, <2>2, PlugOpenEffect
    <3>2. obj' = obj
      BY <1>6 DEF PlugOpen
    <3>3. QED
      BY <1>1, <1>2, <3>1, <3>2, QuietMove
  <2>3. QED
    BY <2>1, <2>2
<1>7. CASE PlugMap(p)
  <2>1. CASE call[p].rs = 0
    BY <1>3, <1>7, <2>1 DEF PlugMap
  <2>2. CASE call[p].rs # 0
    <3>1. /\ OnlyCall(p, "pl_meta", call[p].want, NoSeg, call[p].rs)
          /\ OnlyObj(p, call[p].fd, call[p].rs, obj[p].meta, obj[p].capa, obj[p].ownr)
      BY <1>1, <1>7, <2>2, PlugMapEffect
    <3>2. obj[p].capa = 0
      BY <1>1, <1>7 DEF CallInv, PlugMap, At, Fresh
    <3>3. MakeInv(p)' /\ call'[p].at \notin InMake
      BY <3>1, <3>2 DEF MakeInv, OnlyCall, OnlyObj, InMake
    <3>4. QED
      BY <1>1, <1>2, <3>1, <3>3, QuietStep DEF OnlyCall, OnlyObj
  <2>3. QED
    BY <2>1, <2>2
<1>8. CASE PlugMeta(p)
  <2>1. obj[p].map \in Seg /\ obj[p].bytes = call[p].rs /\ At(p, "pl_meta")
    BY <1>1, <1>8 DEF CallInv, MakeInv, PlugMeta, At
  <2>2. CASE seg[obj[p].map].bytes = 0
    <3>1. Die(p) /\ kills' \in 0 .. MaxKills
      BY <1>1, <1>2, <1>8, <2>2 DEF PlugMeta, Types
    <3>2. QED
      BY <1>1, <1>2, <3>1, Dies, QuietLeave
  <2>3. CASE seg[obj[p].map].bytes # 0
    <3> DEFINE c == IF call[p].rs = seg[obj[p].map].capa THEN seg[obj[p].map].capa ELSE 0
    <3>1. /\ OnlyCall(p, "idle", 0, NoSeg, 0)
          /\ OnlyObj(p, obj[p].map, obj[p].bytes, TRUE, c, obj[p].ownr)
      BY <1>1, <1>8, <2>1, <2>3, PlugMetaEffect
    <3>2. MakeInv(p)' /\ call'[p].at \notin InMake
      BY <1>2, <2>1, <3>1 DEF MakeInv, OnlyCall, OnlyObj, InMake
    <3>3. QED
      BY <1>1, <1>2, <3>1, <3>2, QuietStep DEF OnlyCall, OnlyObj
  <2>4. QED
    BY <2>2, <2>3
<1>9. QED
  BY <1>4, <1>5, <1>6, <1>7, <1>8 DEF PlugStep

LEMMA EndKeeps ==
  ASSUME IInv, NEW p \in Proc,
         \/ KernelRefuses(p) \/ Destroy(p) \/ DelOsFile(p) \/ ReleaseOwnership(p)
         \/ Kill(p) \/ \E q \in Proc : Fork(p, q)
  PROVE  IInv'
<1>1. TInv /\ Types /\ TInv' /\ MakeInv(p)
  BY EndKeepsTInv DEF IInv, TInv
<1>2. CASE KernelRefuses(p)
  <2>1. /\ OnlyCall(p, "idle", 0, NoSeg, 0) /\ UNCHANGED <<file, seg, obj, kills>>
        /\ ~At(p, "mk_lay")
    BY <1>1, <1>2, LeaveCall DEF KernelRefuses, At
  <2>2. QED
    BY <1>1, <2>1, QuietLeave
<1>3. CASE Destroy(p)
  <2>1. /\ At(p, "idle") /\ UNCHANGED <<seg, call, kills>> /\ file' \in {file, NoSeg}
        /\ obj' = [obj EXCEPT ![p] = Fresh]
    BY <1>3 DEF Destroy
  <2>2. OnlyObj(p, NoSeg, 0, FALSE, 0, FALSE)
    BY <1>1, <2>1, FreshObj
  <2>3. MakeInv(p)' /\ call'[p].at \notin InMake /\ ~At(p, "mk_lay")
    BY <2>1, <2>2 DEF MakeInv, At, OnlyObj, InMake
  <2>4. QED
    BY <1>1, <2>1, <2>2, <2>3, QuietStep DEF OnlyObj
<1>4. CASE DelOsFile(p)
  <2>1. At(p, "idle") /\ UNCHANGED <<seg, obj, call, kills>> /\ file' = NoSeg
    BY <1>4 DEF DelOsFile
  <2>2. MakeInv(p)' /\ call'[p].at \notin InMake /\ ~At(p, "mk_lay")
    BY <1>1, <2>1 DEF MakeInv, At, InMake
  <2>3. QED
    BY <1>1, <2>1, <2>2, QuietStep
<1>5. CASE ReleaseOwnership(p)
  <2>1. At(p, "idle") /\ UNCHANGED <<file, seg, call, kills>>
    BY <1>5 DEF ReleaseOwnership
  <2>2. OnlyObj(p, obj[p].map, obj[p].bytes, obj[p].meta, obj[p].capa, FALSE)
    BY <1>1, <1>5, ReleaseEffect
  <2>3. MakeInv(p)' /\ call'[p].at \notin InMake /\ ~At(p, "mk_lay")
    BY <1>1, <2>1, <2>2 DEF MakeInv, At, OnlyObj, InMake
  <2>4. QED
    BY <1>1, <2>1, <2>2, <2>3, QuietStep DEF OnlyObj
<1>6. CASE Kill(p)
  <2>1. /\ Die(p) /\ UNCHANGED <<file, seg>> /\ kills' \in 0 .. MaxKills /\ kills' > 0
    BY <1>1, <1>6, BoundAssumption DEF Kill, Types
  <2>2. QED
    BY <1>1, <2>1, Dies, QuietLeave
<1>7. ASSUME NEW q \in Proc, Fork(p, q) PROVE IInv'
  <2>1. At(q, "idle") /\ UNCHANGED <<file, seg, call, kills>>
    BY <1>7 DEF Fork
  <2>2. OnlyObj(q, obj[p].map, obj[p].bytes, obj[p].meta, obj[p].capa, obj[p].ownr)
    BY <1>1, <1>7, ForkEffect
  <2>3. MakeInv(q)' /\ call'[q].at \notin InMake /\ ~At(q, "mk_lay")
    BY <1>1, <2>1, <2>2 DEF MakeInv, At, OnlyObj, InMake
  <2>4. QED
    BY <1>1, <2>1, <2>2, <2>3, QuietStep DEF OnlyObj
<1>8. QED
  BY <1>2, <1>3, <1>4, <1>5, <1>6, <1>7

-----------------------------------------------------------------------------
(* The steps of make() that are quiet *)

LEMMA QuietMake ==
  ASSUME IInv, NEW p \in Proc,
         MakeUnlink(p) \/ MakeMap(p) \/ MakeCheck(p) \/ MakeBytes(p)
  PROVE  IInv'
<1>1. TInv /\ Types /\ TInv' /\ MakeInv(p) /\ CallInv(p)
  BY MakeKeepsTInv DEF IInv, TInv, MakeStep
<1>2. UNCHANGED <<seg, kills>> /\ ~At(p, "mk_lay") /\ file' \in {file, NoSeg}
  BY DEF MakeUnlink, MakeMap, MakeCheck, MakeBytes, At
<1>3. ASSUME Leave(p), obj' = obj \/ obj' = [obj EXCEPT ![p] = Fresh] PROVE IInv'
  BY <1>1, <1>2, <1>3, LeaveCall, QuietLeave
<1>4. CASE MakeUnlink(p)
  <2>1. CASE obj[p].map # NoSeg
    BY <1>3, <1>4, <2>1 DEF MakeUnlink
  <2>2. CASE obj[p].map = NoSeg
    <3>1. OnlyCall(p, "mk_open", call[p].want, call[p].fd, call[p].rs)
      BY <1>1, <1>4, <2>2, GoToCall DEF MakeUnlink, Labels
    <3>2. obj' = obj /\ file' = NoSeg
      BY <1>4 DEF MakeUnlink
    <3>3. QED
      BY <1>1, <1>2, <3>1, <3>2, QuietMove
  <2>3. QED
    BY <2>1, <2>2
<1>5. CASE MakeMap(p)
  <2>1. /\ At(p, "mk_map") /\ obj[p] = Fresh /\ call[p].fd \in Seg /\ file' = file
        /\ file \in {call[p].fd, NoSeg} /\ seg[call[p].fd].capa = 0
        /\ seg[call[p].fd].bytes = call[p].want
    BY <1>1, <1>5 DEF MakeMap, At, CallInv, MakeInv
  <2>2. /\ OnlyCall(p, "mk_check", call[p].want, NoSeg, call[p].rs)
        /\ OnlyObj(p, call[p].fd, 0, FALSE, 0, FALSE)
    BY <1>1, <1>5, <2>1, MakeMapEffect
  <2>3. MakeInv(p)'
    BY <1>2, <2>1, <2>2 DEF MakeInv, OnlyCall, OnlyObj
  <2>4. call[p].at \in InMake /\ Target(p)' = Target(p)
    BY <2>1, <2>2 DEF InMake, Target, At, OnlyCall, OnlyObj
  <2>5. QED
    BY <1>1, <1>2, <2>2, <2>3, <2>4, QuietStep DEF OnlyCall, OnlyObj
<1>6. CASE MakeCheck(p)
  <2>1. CASE file = NoSeg
    BY <1>3, <1>6, <2>1 DEF MakeCheck
  <2>2. CASE file # NoSeg
    <3>1. OnlyCall(p, "mk_bytes", call[p].want, call[p].fd, call[p].rs)
      BY <1>1, <1>6, <2>2, GoToCall DEF MakeCheck, Labels
    <3>2. At(p, "mk_check") /\ obj' = obj /\ file' = file
      BY <1>6, <2>2 DEF MakeCheck
    <3>3. MakeInv(p)'
      BY <1>1, <1>2, <3>1, <3>2 DEF MakeInv, OnlyCall, At
    <3>4. call[p].at \in InMake /\ Target(p)' = Target(p)
      BY <3>1, <3>2 DEF InMake, Target, At, OnlyCall
    <3>5. QED
      BY <1>1, <1>2, <3>1, <3>2, <3>3, <3>4, QuietStep DEF OnlyCall
  <2>3. QED
    BY <2>1, <2>2
<1>7. CASE MakeBytes(p)
  <2>1. CASE file = NoSeg
    BY <1>3, <1>7, <2>1 DEF MakeBytes
  <2>2. CASE file # NoSeg
    <3>1. /\ OnlyCall(p, "mk_capa", call[p].want, call[p].fd, call[p].rs)
          /\ OnlyObj(p, obj[p].map, seg[file].bytes, obj[p].meta, obj[p].capa,
                     obj[p].ownr)
      BY <1>1, <1>7, <2>2, MakeBytesEffect
    <3>2. At(p, "mk_bytes") /\ file' = file
      BY <1>7 DEF MakeBytes
    <3>3. MakeInv(p)'
      BY <1>1, <1>2, <2>2, <3>1, <3>2 DEF MakeInv, OnlyCall, OnlyObj, At
    <3>4. call[p].at \in InMake /\ Target(p)' = Target(p)
      BY <3>1, <3>2 DEF InMake, Target, At, OnlyCall, OnlyObj
    <3>5. QED
      BY <1>1, <1>2, <3>1, <3>2, <3>3, <3>4, QuietStep DEF OnlyCall, OnlyObj
  <2>3. QED
    BY <2>1, <2>2
<1>8. QED
  BY <1>4, <1>5, <1>6, <1>7

-----------------------------------------------------------------------------
(* The steps of make() that write to the kernel's object *)

(* shm_open() finds the name gone, and so makes an object nobody has. *)
LEMMA MakeOpenKeeps ==
  ASSUME IInv, MakesApart, NEW p \in Proc, MakeOpen(p)
  PROVE  IInv'
<1>1. TInv /\ Types /\ TInv' /\ MakeInv(p)
  BY MakeKeepsTInv DEF IInv, TInv, MakeStep
<1>2. At(p, "mk_open") /\ file = NoSeg /\ UNCHANGED <<obj, kills>> /\ obj[p] = Fresh
  BY <1>1 DEF MakeOpen, At, MakeInv, TInv, CallInv
<1>3. PICK s \in Seg :
        /\ ~Live(s) /\ file' = s
        /\ seg' = [seg EXCEPT ![s] = Blank]
        /\ OnlyCall(p, "mk_size", call[p].want, s, call[p].rs)
  BY <1>1, <1>2, MakeOpenEffect
<1>4. /\ seg'[s].capa = 0
      /\ \A r \in Seg : r # s => seg'[r] = seg[r]
      /\ \A q \in Proc : obj[q].map # s /\ call[q].fd # s
  BY <1>1, <1>3 DEF Types, Blank, Live
<1>5. ASSUME NEW q \in Proc, q # p
      PROVE  /\ call[q].at \notin UsesName /\ call'[q] = call[q]
             /\ MakeInv(q)' /\ Target(q)' = Target(q) /\ Target(q) # s
  <2>1. call[q].at \notin UsesName /\ call'[q] = call[q] /\ MakeInv(q) /\ CallInv(q)
    BY <1>1, <1>2, <1>3, <1>5 DEF MakesApart, UsesName, At, OnlyCall, IInv, TInv
  <2>2. ASSUME obj[q].map \in Seg PROVE seg'[obj[q].map] = seg[obj[q].map]
    BY <1>4, <2>2
  <2>3. obj[q].capa # 0 => obj[q].map \in Seg
    BY <1>1, SizedIsMapped
  <2>4. call[q].at = "mk_capa" => obj[q].map \in Seg
    BY <2>1 DEF CallInv
  <2>5. QED
    BY <1>2, <1>4, <2>1, <2>2, <2>3, <2>4 DEF MakeInv, UsesName, Target
<1>6. MakeInv(p)' /\ Target(p)' = s
  BY <1>2, <1>3, <1>4 DEF MakeInv, OnlyCall, Fresh, Target
<1>7. ASSUME NEW r \in Seg PROVE SegInv(r)'
  <2>1. CASE r = s
    BY <1>4, <2>1 DEF SegInv
  <2>2. CASE r # s
    <3>1. SegInv(r) /\ seg'[r] = seg[r]
      BY <1>4, <2>2 DEF IInv
    <3>2. ASSUME NEW q \in Proc, At(q, "mk_lay"), obj[q].map = r
          PROVE  At(q, "mk_lay")' /\ obj'[q].map = r
      BY <1>2, <1>5, <3>2 DEF At
    <3>3. QED
      BY <1>2, <3>1, <3>2 DEF SegInv
  <2>3. QED
    BY <2>1, <2>2
<1>8. ASSUME NEW q \in Proc, NEW r \in Proc, q # r PROVE MadeApart(q, r)'
  BY <1>5, <1>6, <1>8 DEF IInv, MadeApart
<1>9. QED
  BY <1>1, <1>5, <1>6, <1>7, <1>8 DEF IInv

(* ftruncate() sizes an object whose capacity is not written yet. *)
LEMMA MakeSizeKeeps ==
  ASSUME IInv, NEW p \in Proc, MakeSize(p)
  PROVE  IInv'
<1>1. TInv /\ Types /\ TInv' /\ MakeInv(p) /\ CallInv(p)
  BY MakeKeepsTInv DEF IInv, TInv, MakeStep
<1>2. /\ At(p, "mk_size") /\ UNCHANGED <<file, obj, kills>> /\ obj[p] = Fresh
      /\ call[p].fd \in Seg /\ file \in {call[p].fd, NoSeg}
  BY <1>1 DEF MakeSize, At, MakeInv, CallInv
<1> PICK f \in Seg : f = call[p].fd
  BY <1>2
<1>3. /\ OnlyCall(p, "mk_map", call[p].want, f, call[p].rs)
      /\ seg'[f].bytes = call[p].want /\ seg'[f].capa = 0 /\ seg[f].capa = 0
      /\ \A s \in Seg : s # f => seg'[s] = seg[s]
  BY <1>1, <1>2, MakeSizeEffect DEF MakeInv, At
<1>4. ASSUME NEW q \in Proc, q # p PROVE MakeInv(q)' /\ Target(q)' = Target(q)
  <2>1. call'[q] = call[q] /\ MakeInv(q) /\ CallInv(q)
    BY <1>1, <1>3, <1>4 DEF OnlyCall, IInv, TInv
  <2>2. call[q].at \in InMake => Target(q) # f /\ Target(q) \in Seg
    <3>1. MadeApart(p, q) /\ Target(p) = f /\ call[p].at \in InMake
      BY <1>2, <1>4 DEF IInv, Target, At, InMake
    <3>2. QED
      BY <2>1, <3>1 DEF MadeApart, CallInv, Target, InMake
  <2>3. obj[q].capa # 0 => obj[q].map \in Seg /\ obj[q].map # f
    BY <1>1, <1>3, <2>1, SizedIsMapped DEF MakeInv
  <2>4. call[q].at \in InMake => seg'[Target(q)] = seg[Target(q)]
    BY <1>3, <2>2
  <2>5. obj[q].capa # 0 => seg'[obj[q].map] = seg[obj[q].map]
    BY <1>3, <2>3
  <2>6. QED
    BY <1>2, <2>1, <2>4, <2>5 DEF MakeInv, Target, InMake
<1>5. MakeInv(p)' /\ Target(p)' = Target(p) /\ call[p].at \in InMake
  BY <1>2, <1>3 DEF MakeInv, OnlyCall, Fresh, Target, At, InMake
<1>6. ASSUME NEW r \in Seg PROVE SegInv(r)'
  <2>1. CASE r = f
    BY <1>3, <2>1 DEF SegInv
  <2>2. CASE r # f
    <3>1. SegInv(r) /\ seg'[r] = seg[r]
      BY <1>3, <2>2 DEF IInv
    <3>2. ASSUME NEW q \in Proc, At(q, "mk_lay"), obj[q].map = r
          PROVE  At(q, "mk_lay")' /\ obj'[q].map = r
      BY <1>2, <1>3, <3>2 DEF At, OnlyCall
    <3>3. QED
      BY <1>2, <3>1, <3>2 DEF SegInv
  <2>3. QED
    BY <2>1, <2>2
<1>7. ASSUME NEW q \in Proc, NEW r \in Proc, q # r PROVE MadeApart(q, r)'
  BY <1>3, <1>4, <1>5, <1>7 DEF IInv, MadeApart, OnlyCall
<1>8. QED
  BY <1>1, <1>4, <1>5, <1>6, <1>7 DEF IInv

(* The capacity is written where there was none, and the file has its size. *)
LEMMA MakeCapaKeeps ==
  ASSUME IInv, NEW p \in Proc, MakeCapa(p)
  PROVE  IInv'
<1>1. TInv /\ Types /\ TInv' /\ MakeInv(p) /\ CallInv(p)
  BY MakeKeepsTInv DEF IInv, TInv, MakeStep
<1>2. /\ At(p, "mk_capa") /\ UNCHANGED <<file, kills>>
      /\ obj[p].map \in Seg /\ call[p].want \in Nat \ {0}
      /\ seg[obj[p].map].capa = 0 /\ seg[obj[p].map].bytes = call[p].want
      /\ obj[p].bytes = call[p].want
  BY <1>1, CapasAssumption DEF MakeCapa, At, MakeInv, CallInv, Making
<1> PICK m \in Seg : m = obj[p].map
  BY <1>2
<1>3. /\ OnlyCall(p, "mk_lay", call[p].want, call[p].fd, call[p].rs)
      /\ OnlyObj(p, m, obj[p].bytes, TRUE, call[p].want, TRUE)
      /\ seg'[m].bytes = seg[m].bytes /\ seg'[m].capa = call[p].want
      /\ \A s \in Seg : s # m => seg'[s] = seg[s]
  BY <1>1, <1>2, MakeCapaEffect
<1>4. ASSUME NEW q \in Proc, q # p
      PROVE  /\ call'[q] = call[q] /\ obj'[q] = obj[q]
             /\ MakeInv(q)' /\ Target(q)' = Target(q)
  <2>1. call'[q] = call[q] /\ obj'[q] = obj[q] /\ MakeInv(q) /\ CallInv(q)
    BY <1>1, <1>3, <1>4 DEF OnlyCall, OnlyObj, IInv, TInv
  <2>2. call[q].at \in InMake => Target(q) # m /\ Target(q) \in Seg
    <3>1. MadeApart(p, q) /\ Target(p) = m /\ call[p].at \in InMake
      BY <1>2, <1>4 DEF IInv, Target, At, InMake
    <3>2. QED
      BY <2>1, <3>1 DEF MadeApart, CallInv, Target, InMake
  <2>3. obj[q].capa # 0 => obj[q].map \in Seg /\ obj[q].map # m
    BY <1>1, <1>2, <2>1, SizedIsMapped DEF MakeInv
  <2>4. call[q].at \in InMake => seg'[Target(q)] = seg[Target(q)]
    BY <1>3, <2>2
  <2>5. obj[q].capa # 0 => seg'[obj[q].map] = seg[obj[q].map]
    BY <1>3, <2>3
  <2>6. QED
    BY <1>2, <2>1, <2>4, <2>5 DEF MakeInv, Target, InMake
<1>5. MakeInv(p)' /\ At(p, "mk_lay")' /\ obj'[p].map = m
  BY <1>2, <1>3 DEF MakeInv, OnlyCall, OnlyObj, At
<1>6. ASSUME NEW r \in Seg PROVE SegInv(r)'
  <2>1. CASE r = m
    BY <1>2, <1>3, <1>5, <2>1 DEF SegInv
  <2>2. CASE r # m
    <3>1. SegInv(r) /\ seg'[r] = seg[r]
      BY <1>3, <2>2 DEF IInv
    <3>2. ASSUME NEW q \in Proc, At(q, "mk_lay"), obj[q].map = r
          PROVE  At(q, "mk_lay")' /\ obj'[q].map = r
      BY <1>2, <1>4, <3>2 DEF At
    <3>3. QED
      BY <1>2, <3>1, <3>2 DEF SegInv
  <2>3. QED
    BY <2>1, <2>2
<1>7. ASSUME NEW q \in Proc, NEW r \in Proc, q # r PROVE MadeApart(q, r)'
  BY <1>4, <1>5, <1>7 DEF IInv, MadeApart, At, InMake
<1>8. QED
  BY <1>1, <1>4, <1>5, <1>6, <1>7 DEF IInv

(* The tags are laid in an object that is large enough for them. *)
LEMMA MakeLayKeeps ==
  ASSUME IInv, NEW p \in Proc, MakeLay(p)
  PROVE  IInv'
<1>1. TInv /\ Types /\ TInv' /\ MakeInv(p) /\ CallInv(p)
  BY MakeKeepsTInv DEF IInv, TInv, MakeStep
<1>2. /\ At(p, "mk_lay") /\ UNCHANGED <<file, kills>>
      /\ obj[p].map \in Seg /\ call[p].want \in Nat \ {0}
      /\ obj[p].capa = call[p].want
  BY <1>1, CapasAssumption DEF MakeLay, At, MakeInv, CallInv, Making
<1> PICK m \in Seg : m = obj[p].map
  BY <1>2
<1>3. seg[m].bytes = call[p].want
  BY <1>1, <1>2 DEF MakeInv, IInv, SegInv
<1>4. Leave(p) /\ obj' = obj /\ seg' = [seg EXCEPT ![m].laid = TRUE]
  BY <1>2, <1>3 DEF MakeLay
<1>5. /\ OnlyCall(p, "idle", 0, NoSeg, 0)
      /\ \A s \in Seg : seg'[s].bytes = seg[s].bytes /\ seg'[s].capa = seg[s].capa
      /\ \A s \in Seg : seg'[s].laid <=> seg[s].laid \/ s = m
  BY <1>1, <1>4, LeaveCall, MakeLayEffect
<1>6. ASSUME NEW q \in Proc
      PROVE  MakeInv(q)' /\ (q # p => call'[q] = call[q] /\ Target(q)' = Target(q))
  <2>1. MakeInv(q) /\ CallInv(q) /\ (obj[q].capa # 0 => obj[q].map \in Seg)
    BY <1>1, SizedIsMapped DEF IInv, TInv
  <2>2. q # p => call'[q] = call[q]
    BY <1>5 DEF OnlyCall
  <2>3. q = p => call'[q].at = "idle"
    BY <1>5 DEF OnlyCall
  <2>4. QED
    BY <1>2, <1>4, <1>5, <2>1, <2>2, <2>3 DEF MakeInv, CallInv, Target
<1>7. ASSUME NEW r \in Seg PROVE SegInv(r)'
  <2>1. SegInv(r)
    BY DEF IInv
  <2>2. ASSUME r # m, NEW q \in Proc, At(q, "mk_lay"), obj[q].map = r
        PROVE  At(q, "mk_lay")' /\ obj'[q].map = r
    BY <1>4, <1>6, <2>2 DEF At
  <2>3. QED
    BY <1>2, <1>5, <2>1, <2>2 DEF SegInv
<1>8. ASSUME NEW q \in Proc, NEW r \in Proc, q # r PROVE MadeApart(q, r)'
  BY <1>5, <1>6, <1>8 DEF IInv, MadeApart, InMake, OnlyCall
<1>9. QED
  BY <1>1, <1>6, <1>7, <1>8 DEF IInv

LEMMA NextKeepsIInv == IInv /\ MakesApart /\ [Next]_vars => IInv'
<1> SUFFICES ASSUME IInv, MakesApart, [Next]_vars PROVE IInv'
  OBVIOUS
<1>1. CASE UNCHANGED vars
  BY <1>1, NextKeepsTInv
     DEF vars, IInv, MakeInv, SegInv, MadeApart, Target, At
<1>2. ASSUME NEW p \in Proc, MakeStep(p) PROVE IInv'
  BY <1>2, QuietMake, MakeOpenKeeps, MakeSizeKeeps, MakeCapaKeeps, MakeLayKeeps
     DEF MakeStep
<1>3. CASE Next
  BY <1>2, <1>3, CallKeeps, PlugKeeps, EndKeeps DEF Next
<1>4. QED
  BY <1>1, <1>3

(* As long as makers keep apart: every object that a make() is making is its own,
   and a capacity that can be read there is that of the file. *)
THEOREM Inductive == Spec /\ []MakesApart => []IInv
BY InitIInv, NextKeepsIInv, PTL DEF Spec

LEMMA InvReadyIsWhole == IInv => ReadyIsWhole
<1> SUFFICES ASSUME IInv, NEW p \in Proc, Ready(p)
             PROVE  /\ obj[p].bytes = obj[p].capa
                    /\ seg[obj[p].map].bytes = obj[p].capa
                    /\ seg[obj[p].map].capa = obj[p].capa
  BY DEF ReadyIsWhole
<1>1. TInv /\ obj[p].capa # 0
  BY DEF IInv, Ready
<1>2. obj[p].map \in Seg
  BY <1>1, SizedIsMapped
<1>3. MakeInv(p) /\ SegInv(obj[p].map)
  BY <1>2 DEF IInv
<1>4. QED
  BY <1>1, <1>3 DEF MakeInv, SegInv

(* A ring that make() or plug() returned is as large as its object, its file and
   its mapping say, whatever was deleted, killed or refused in between, as long
   as no two makers rely on the name at once. *)
THEOREM ReadyWhole == Spec /\ []MakesApart => []ReadyIsWhole
BY InvReadyIsWhole, Inductive, PTL

LEMMA InvReadyIsLaid == IInv => ReadyIsLaid
<1> SUFFICES ASSUME IInv, NEW p \in Proc, Ready(p), ~seg[obj[p].map].laid
             PROVE  kills > 0 \/ \E q \in Proc : At(q, "mk_lay") /\ obj[q].map = obj[p].map
  BY DEF ReadyIsLaid
<1>1. TInv /\ obj[p].capa # 0
  BY DEF IInv, Ready
<1>2. obj[p].map \in Seg
  BY <1>1, SizedIsMapped
<1>3. MakeInv(p) /\ SegInv(obj[p].map)
  BY <1>2 DEF IInv
<1>4. QED
  BY <1>1, <1>3 DEF MakeInv, SegInv

(* Who finds a ring without its tags has found its maker at work on them, or is
   left with what a killed maker began. *)
THEOREM ReadyLaid == Spec /\ []MakesApart => []ReadyIsLaid
BY InvReadyIsLaid, Inductive, PTL

LEMMA StepKeepsInUse ==
  ASSUME IInv, [Next]_vars, NEW s \in Seg, NEW p \in Proc, Ready(p), obj[p].map = s
  PROVE  seg'[s].bytes = seg[s].bytes
<1>1. /\ TInv /\ Types /\ MakeInv(p) /\ obj[p].capa # 0 /\ seg[s].capa # 0
      /\ \A q \in Proc : MakeInv(q) /\ CallInv(q)
  BY DEF IInv, TInv, Ready, MakeInv
<1>2. CASE seg' = seg
  BY <1>2
<1>3. ASSUME NEW q \in Proc, MakeOpen(q) PROVE seg'[s].bytes = seg[s].bytes
  <2>1. file = NoSeg
    BY <1>1, <1>3 DEF MakeOpen, At, MakeInv
  <2>2. PICK r \in Seg : ~Live(r) /\ seg' = [seg EXCEPT ![r] = Blank]
    BY <1>1, <1>3, <2>1, MakeOpenEffect
  <2>3. r # s
    BY <2>2 DEF Live
  <2>4. QED
    BY <1>1, <2>2, <2>3 DEF Types
<1>4. ASSUME NEW q \in Proc, MakeSize(q) PROVE seg'[s].bytes = seg[s].bytes
  <2>1. call[q].fd \in Seg /\ seg[call[q].fd].capa = 0
    BY <1>1, <1>4 DEF MakeSize, At, MakeInv, CallInv
  <2>2. QED
    BY <1>1, <1>4, <2>1, MakeSizeEffect
<1>5. ASSUME NEW q \in Proc, MakeCapa(q) PROVE seg'[s].bytes = seg[s].bytes
  <2>1. obj[q].map \in Seg
    BY <1>1, <1>5 DEF MakeCapa, At, CallInv
  <2>2. CASE seg[obj[q].map].bytes = 0
    BY <1>5, <2>2 DEF MakeCapa
  <2>3. CASE seg[obj[q].map].bytes # 0
    BY <1>1, <1>5, <2>1, <2>3, MakeCapaEffect, ZenonT(60)
  <2>4. QED
    BY <2>2, <2>3
<1>6. ASSUME NEW q \in Proc, MakeLay(q) PROVE seg'[s].bytes = seg[s].bytes
  <2>1. obj[q].map \in Seg
    BY <1>1, <1>6 DEF MakeLay, At, CallInv
  <2>2. seg' = seg \/ seg' = [seg EXCEPT ![obj[q].map].laid = TRUE]
    BY <1>6 DEF MakeLay
  <2>3. QED
    BY <1>1, <2>1, <2>2, MakeLayEffect
<1>7. CASE /\ ~(\E q \in Proc : MakeOpen(q) \/ MakeSize(q) \/ MakeCapa(q) \/ MakeLay(q))
  <2>1. seg' = seg
    BY <1>7, ZenonT(60)
       DEF Next, vars, MakeStep, PlugStep, MakeCall, EitherCall, PlugCall, EitherExists,
           MakeUnlink, MakeMap, MakeCheck, MakeBytes, PlugExists, PlugSize, PlugOpen,
           PlugMap, PlugMeta, KernelRefuses, Destroy, DelOsFile, ReleaseOwnership,
           Kill, Fork
  <2>2. QED
    BY <2>1
<1>8. QED
  BY <1>3, <1>4, <1>5, <1>6, <1>7

(* The memory under a ring in use keeps its size: a make() of the same name takes
   another, as long as no two rely on the name at once. *)
THEOREM InUseKept == Spec /\ []MakesApart => InUseIsKept
<1> DEFINE Kept == \A s \in Seg, p \in Proc :
                     Ready(p) /\ obj[p].map = s => seg'[s].bytes = seg[s].bytes
<1>1. IInv /\ [Next]_vars => [Kept]_vars
  BY StepKeepsInUse
<1>2. QED
  BY <1>1, Inductive, PTL DEF Spec, InUseIsKept

-----------------------------------------------------------------------------
(* Who makes and who owns *)

(* Makers make; an owner has made its ring, and does not plug another. *)
OwnInv(p) ==
  /\ call[p].at \in Making \cup {"mop_exists"} => p \in Maker \cup Either
  /\ obj[p].ownr => obj[p].meta
  /\ At(p, "pl_meta") => ~obj[p].ownr

LInv == TInv /\ \A p \in Proc : OwnInv(p)

LEMMA InitLInv == Init => LInv
<1> SUFFICES ASSUME Init PROVE LInv
  OBVIOUS
<1>1. ASSUME NEW p \in Proc PROVE OwnInv(p)
  BY DEF Init, OwnInv, Idle, Fresh, Making, UsesName, At
<1>2. QED
  BY <1>1, InitTInv DEF LInv

LEMMA OwnQuiet ==
  ASSUME LInv, NEW p \in Proc, OwnInv(p)',
         \A q \in Proc : q # p => call'[q] = call[q] /\ obj'[q] = obj[q]
  PROVE  \A q \in Proc : OwnInv(q)'
BY DEF LInv, OwnInv, At

(* A call that goes on, or ends, while its object stays as it is or is gone. *)
LEMMA OwnCall ==
  ASSUME LInv, NEW p \in Proc,
         NEW a, NEW w, NEW f, NEW r, OnlyCall(p, a, w, f, r),
         a # "pl_meta",
         a \in Making \cup {"mop_exists"} => p \in Maker \cup Either,
         obj' = obj \/ obj' = [obj EXCEPT ![p] = Fresh]
  PROVE  \A q \in Proc : OwnInv(q)'
<1>1. Types /\ OwnInv(p)
  BY DEF LInv, TInv
<1>2. /\ obj'[p] = obj[p] \/ obj'[p] = Fresh
      /\ \A q \in Proc : q # p => call'[q] = call[q] /\ obj'[q] = obj[q]
  BY <1>1 DEF OnlyCall, Types
<1>3. OwnInv(p)'
  BY <1>1, <1>2 DEF OwnInv, OnlyCall, At, Fresh
<1>4. QED
  BY <1>2, <1>3, OwnQuiet

LEMMA MakeKeepsOwn ==
  ASSUME LInv, NEW p \in Proc, MakeStep(p)
  PROVE  \A q \in Proc : OwnInv(q)'
<1>1. TInv /\ Types /\ CallInv(p) /\ OwnInv(p) /\ p \in Maker \cup Either
  <2>1. TInv /\ Types /\ CallInv(p) /\ OwnInv(p)
    BY DEF LInv, TInv
  <2>2. call[p].at \in Making
    BY DEF MakeStep, MakeUnlink, MakeOpen, MakeSize, MakeMap, MakeCheck, MakeBytes,
           MakeCapa, MakeLay, At, Making, UsesName
  <2>3. QED
    BY <2>1, <2>2 DEF OwnInv
<1>2. ASSUME Leave(p), obj' = obj \/ obj' = [obj EXCEPT ![p] = Fresh]
      PROVE  \A q \in Proc : OwnInv(q)'
  BY <1>1, <1>2, LeaveCall, OwnCall DEF Making, UsesName
<1>3. ASSUME NEW a \in Making, NEW f, OnlyCall(p, a, call[p].want, f, call[p].rs),
             obj' = obj
      PROVE  \A q \in Proc : OwnInv(q)'
  BY <1>1, <1>3, OwnCall DEF Making, UsesName
<1>4. CASE MakeUnlink(p)
  <2>1. CASE obj[p].map # NoSeg
    BY <1>2, <1>4, <2>1 DEF MakeUnlink
  <2>2. CASE obj[p].map = NoSeg
    BY <1>1, <1>3, <1>4, <2>2, GoToCall DEF MakeUnlink, Labels, Making, UsesName
  <2>3. QED
    BY <2>1, <2>2
<1>5. CASE MakeOpen(p)
  BY <1>1, <1>3, <1>5, MakeOpenEffect DEF MakeOpen, Making, UsesName
<1>6. CASE MakeSize(p)
  BY <1>1, <1>3, <1>6, GoToCall DEF MakeSize, Labels, Making, UsesName
<1>7. CASE MakeMap(p)
  <2>1. obj[p] = Fresh /\ call[p].fd \in Seg
    BY <1>1, <1>7 DEF MakeMap, At, CallInv
  <2>2. /\ OnlyCall(p, "mk_check", call[p].want, NoSeg, call[p].rs)
        /\ OnlyObj(p, call[p].fd, 0, FALSE, 0, FALSE)
    BY <1>1, <1>7, <2>1, MakeMapEffect
  <2>3. OwnInv(p)'
    BY <1>1, <2>2 DEF OwnInv, OnlyCall, OnlyObj, At
  <2>4. QED
    BY <2>2, <2>3, OwnQuiet DEF OnlyCall, OnlyObj
<1>8. CASE MakeCheck(p)
  <2>1. CASE file = NoSeg
    BY <1>2, <1>8, <2>1 DEF MakeCheck
  <2>2. CASE file # NoSeg
    BY <1>1, <1>3, <1>8, <2>2, GoToCall DEF MakeCheck, Labels, Making, UsesName
  <2>3. QED
    BY <2>1, <2>2
<1>9. CASE MakeBytes(p)
  <2>1. CASE file = NoSeg
    BY <1>2, <1>9, <2>1 DEF MakeBytes
  <2>2. CASE file # NoSeg
    <3>1. /\ OnlyCall(p, "mk_capa", call[p].want, call[p].fd, call[p].rs)
          /\ OnlyObj(p, obj[p].map, seg[file].bytes, obj[p].meta, obj[p].capa,
                     obj[p].ownr)
      BY <1>1, <1>9, <2>2, MakeBytesEffect
    <3>2. OwnInv(p)'
      BY <1>1, <3>1 DEF OwnInv, OnlyCall, OnlyObj, At
    <3>3. QED
      BY <3>1, <3>2, OwnQuiet DEF OnlyCall, OnlyObj
  <2>3. QED
    BY <2>1, <2>2
<1>10. CASE MakeCapa(p)
  <2>1. obj[p].map \in Seg
    BY <1>1, <1>10 DEF MakeCapa, At, CallInv
  <2>2. CASE seg[obj[p].map].bytes = 0
    BY <1>2, <1>10, <2>2 DEF MakeCapa, Die, Leave
  <2>3. CASE seg[obj[p].map].bytes # 0
    <3>1. /\ OnlyCall(p, "mk_lay", call[p].want, call[p].fd, call[p].rs)
          /\ OnlyObj(p, obj[p].map, obj[p].bytes, TRUE, call[p].want, TRUE)
      BY <1>1, <1>10, <2>1, <2>3, MakeCapaEffect
    <3>2. OwnInv(p)'
      BY <1>1, <3>1 DEF OwnInv, OnlyCall, OnlyObj, At
    <3>3. QED
      BY <3>1, <3>2, OwnQuiet DEF OnlyCall, OnlyObj
  <2>4. QED
    BY <2>2, <2>3
<1>11. CASE MakeLay(p)
  BY <1>2, <1>11 DEF MakeLay, Die, Leave
<1>12. QED
  BY <1>4, <1>5, <1>6, <1>7, <1>8, <1>9, <1>10, <1>11 DEF MakeStep

LEMMA CallKeepsOwn ==
  ASSUME LInv, NEW p \in Proc,
         \/ \E w \in Wanted : MakeCall(p, w) \/ EitherCall(p, w)
         \/ PlugCall(p) \/ EitherExists(p)
  PROVE  \A q \in Proc : OwnInv(q)'
<1>1. Types /\ OwnInv(p) /\ obj' = obj /\ file' = file
  BY DEF LInv, TInv, MakeCall, EitherCall, PlugCall, EitherExists
<1>2. CASE \E w \in Wanted : MakeCall(p, w) \/ EitherCall(p, w)
  <2>1. p \in Maker \cup Either
    BY <1>2 DEF MakeCall, EitherCall
  <2>2. PICK a, w : a \in {"mk_unlink", "mop_exists"} /\ OnlyCall(p, a, w, call[p].fd, call[p].rs)
    BY <1>1, <1>2, MakeCallEffect, EitherCallEffect
  <2>3. QED
    BY <1>1, <2>1, <2>2, OwnCall
<1>3. CASE PlugCall(p)
  <2>1. OnlyCall(p, "pl_exists", call[p].want, call[p].fd, call[p].rs)
    BY <1>1, <1>3, GoToCall DEF PlugCall, Labels
  <2>2. QED
    BY <1>1, <2>1, OwnCall DEF Making, UsesName
<1>4. CASE EitherExists(p)
  <2>1. p \in Maker \cup Either
    BY <1>1, <1>4 DEF EitherExists, At, OwnInv
  <2>2. PICK a \in {"pl_exists", "mk_unlink"} : GoTo(p, a)
    BY <1>4 DEF EitherExists
  <2>3. OnlyCall(p, a, call[p].want, call[p].fd, call[p].rs)
    BY <1>1, <2>2, GoToCall DEF Labels
  <2>4. QED
    BY <1>1, <2>1, <2>3, OwnCall
<1>5. QED
  BY <1>2, <1>3, <1>4

LEMMA PlugKeepsOwn ==
  ASSUME LInv, NEW p \in Proc, PlugStep(p)
  PROVE  \A q \in Proc : OwnInv(q)'
<1>1. TInv /\ Types /\ OwnInv(p) /\ CallInv(p) /\ file' = file
  BY DEF LInv, TInv, PlugStep, PlugExists, PlugSize, PlugOpen, PlugMap, PlugMeta
<1>2. ASSUME Leave(p), obj' = obj \/ obj' = [obj EXCEPT ![p] = Fresh]
      PROVE  \A q \in Proc : OwnInv(q)'
  BY <1>1, <1>2, LeaveCall, OwnCall DEF Making, UsesName
<1>3. ASSUME NEW a \in {"pl_size", "pl_open", "pl_map"}, NEW f, NEW r,
             OnlyCall(p, a, call[p].want, f, r), obj' = obj
      PROVE  \A q \in Proc : OwnInv(q)'
  BY <1>1, <1>3, OwnCall DEF Making, UsesName
<1>4. CASE PlugExists(p)
  <2>1. CASE file = NoSeg
    BY <1>2, <1>4, <2>1 DEF PlugExists
  <2>2. CASE file # NoSeg
    BY <1>1, <1>3, <1>4, <2>2, GoToCall DEF PlugExists, Labels
  <2>3. QED
    BY <2>1, <2>2
<1>5. CASE PlugSize(p)
  <2>1. CASE file = NoSeg
    BY <1>2, <1>5, <2>1 DEF PlugSize
  <2>2. CASE file # NoSeg
    BY <1>1, <1>3, <1>5, <2>2, PlugSizeEffect DEF PlugSize
  <2>3. QED
    BY <2>1, <2>2
<1>6. CASE PlugOpen(p)
  <2>1. CASE obj[p].map # NoSeg \/ file = NoSeg
    BY <1>2, <1>6, <2>1 DEF PlugOpen
  <2>2. CASE obj[p].map = NoSeg /\ file # NoSeg
    BY <1>1, <1>3, <1>6, <2>2, PlugOpenEffect DEF PlugOpen
  <2>3. QED
    BY <2>1, <2>2
<1>7. CASE PlugMap(p)
  <2>1. CASE call[p].rs = 0
    BY <1>2, <1>7, <2>1 DEF PlugMap
  <2>2. CASE call[p].rs # 0
    <3>1. /\ OnlyCall(p, "pl_meta", call[p].want, NoSeg, call[p].rs)
          /\ OnlyObj(p, call[p].fd, call[p].rs, obj[p].meta, obj[p].capa, obj[p].ownr)
      BY <1>1, <1>7, <2>2, PlugMapEffect
    <3>2. ~obj[p].ownr
      BY <1>1, <1>7 DEF CallInv, PlugMap, At, Fresh
    <3>3. OwnInv(p)'
      BY <3>1, <3>2 DEF OwnInv, OnlyCall, OnlyObj, At, Making, UsesName
    <3>4. QED
      BY <1>1, <3>1, <3>3, OwnQuiet DEF OnlyCall, OnlyObj
  <2>3. QED
    BY <2>1, <2>2
<1>8. CASE PlugMeta(p)
  <2>1. obj[p].map \in Seg
    BY <1>1, <1>8 DEF CallInv, PlugMeta, At
  <2>2. CASE seg[obj[p].map].bytes = 0
    BY <1>2, <1>8, <2>2 DEF PlugMeta, Die, Leave
  <2>3. CASE seg[obj[p].map].bytes # 0
    <3>1. PICK c : /\ OnlyCall(p, "idle", 0, NoSeg, 0)
                   /\ OnlyObj(p, obj[p].map, obj[p].bytes, TRUE, c, obj[p].ownr)
      BY <1>1, <1>8, <2>1, <2>3, PlugMetaEffect
    <3>2. OwnInv(p)'
      BY <1>1, <3>1 DEF OwnInv, OnlyCall, OnlyObj, At, Making, UsesName
    <3>3. QED
      BY <1>1, <3>1, <3>2, OwnQuiet DEF OnlyCall, OnlyObj
  <2>4. QED
    BY <2>2, <2>3
<1>9. QED
  BY <1>4, <1>5, <1>6, <1>7, <1>8 DEF PlugStep

LEMMA EndKeepsOwn ==
  ASSUME LInv, NEW p \in Proc,
         \/ KernelRefuses(p) \/ Destroy(p) \/ DelOsFile(p) \/ ReleaseOwnership(p)
         \/ Kill(p) \/ \E q \in Proc : Fork(p, q)
  PROVE  \A q \in Proc : OwnInv(q)'
<1>1. TInv /\ Types /\ OwnInv(p)
  BY DEF LInv, TInv
<1>2. CASE KernelRefuses(p) \/ Kill(p)
  <2>1. /\ OnlyCall(p, "idle", 0, NoSeg, 0) /\ file' = file
        /\ obj' = obj \/ obj' = [obj EXCEPT ![p] = Fresh]
    BY <1>1, <1>2, LeaveCall DEF KernelRefuses, Kill, Die, Leave
  <2>2. QED
    BY <2>1, OwnCall DEF Making, UsesName
<1>3. CASE Destroy(p)
  <2>1. /\ At(p, "idle") /\ call' = call /\ file' \in {file, NoSeg}
        /\ obj' = [obj EXCEPT ![p] = Fresh]
    BY <1>3 DEF Destroy
  <2>2. OnlyObj(p, NoSeg, 0, FALSE, 0, FALSE)
    BY <1>1, <2>1, FreshObj
  <2>3. OwnInv(p)'
    BY <2>1, <2>2 DEF OwnInv, At, OnlyObj, Making, UsesName
  <2>4. QED
    BY <2>1, <2>2, <2>3, OwnQuiet DEF OnlyObj
<1>4. CASE DelOsFile(p)
  BY <1>4 DEF DelOsFile, LInv, OwnInv, At
<1>5. CASE ReleaseOwnership(p)
  <2>1. At(p, "idle") /\ UNCHANGED <<file, call>>
    BY <1>5 DEF ReleaseOwnership
  <2>2. OnlyObj(p, obj[p].map, obj[p].bytes, obj[p].meta, obj[p].capa, FALSE)
    BY <1>1, <1>5, ReleaseEffect
  <2>3. OwnInv(p)'
    BY <2>1, <2>2 DEF OwnInv, At, OnlyObj, Making, UsesName
  <2>4. QED
    BY <2>1, <2>2, <2>3, OwnQuiet DEF OnlyObj
<1>6. ASSUME NEW q \in Proc, Fork(p, q) PROVE \A r \in Proc : OwnInv(r)'
  <2>1. At(q, "idle") /\ UNCHANGED <<file, call>>
    BY <1>6 DEF Fork
  <2>2. OnlyObj(q, obj[p].map, obj[p].bytes, obj[p].meta, obj[p].capa, obj[p].ownr)
    BY <1>1, <1>6, ForkEffect
  <2>3. OwnInv(q)'
    BY <1>1, <2>1, <2>2 DEF OwnInv, At, OnlyObj, Making, UsesName
  <2>4. QED
    BY <2>1, <2>2, <2>3, OwnQuiet DEF OnlyObj
<1>7. QED
  BY <1>2, <1>3, <1>4, <1>5, <1>6

LEMMA NextKeepsLInv == LInv /\ [Next]_vars => LInv'
<1> SUFFICES ASSUME LInv, [Next]_vars PROVE LInv'
  OBVIOUS
<1>1. TInv'
  BY NextKeepsTInv DEF LInv
<1>2. CASE UNCHANGED vars
  BY <1>1, <1>2 DEF vars, LInv, OwnInv, At
<1>3. CASE Next
  BY <1>1, <1>3, CallKeepsOwn, MakeKeepsOwn, PlugKeepsOwn, EndKeepsOwn DEF Next, LInv
<1>4. QED
  BY <1>2, <1>3

LEMMA AlwaysLInv == Spec => []LInv
BY InitLInv, NextKeepsLInv, PTL DEF Spec

-----------------------------------------------------------------------------
(* With one maker of the name *)

(* At most one process makes the ring; the others plug it. *)
OneMaker == \A p, q \in Maker \cup Either : p = q

(* Where one process makes the ring and all others plug it, the makers do keep
   apart, and all of the theorems above hold. *)
THEOREM OneMakerKeepsApart ==
  ASSUME OneMaker
  PROVE  Spec => []MakesApart
<1>1. LInv => MakesApart
  BY DEF OneMaker, LInv, OwnInv, MakesApart, Making
<1>2. QED
  BY <1>1, AlwaysLInv, PTL

(* With one maker and any number of visitors, a ring in use is whole and laid out,
   and keeps its size, whatever is deleted, forked, killed or refused. *)
THEOREM OneMakerSafe ==
  ASSUME OneMaker
  PROVE  Spec => [](ReadyIsWhole /\ ReadyIsLaid) /\ InUseIsKept
BY OneMakerKeepsApart, ReadyWhole, ReadyLaid, InUseKept, PTL

-----------------------------------------------------------------------------
(* What is left under /dev/shm, with any number of makers *)

(* The name is gone, or what keeps its file keeps it still. *)
LEMMA KeepsOn ==
  ASSUME Tended, NEW p \in Proc,
         \/ file' = NoSeg
         \/ /\ file' = file
            /\ \A q \in Proc : q # p => call'[q] = call[q] /\ obj'[q] = obj[q]
            /\ file # NoSeg /\ Keeps(p, file) => Keeps(p, file)'
  PROVE  Tended'
BY DEF Tended, Keeps

LEMMA KeepsOnCall ==
  ASSUME Tended, NEW p \in Proc, file' \in {file, NoSeg}, obj' = obj,
         NEW a, NEW w, NEW f, NEW r, OnlyCall(p, a, w, f, r),
         file # NoSeg => /\ call[p].at \in {"mk_size", "mk_map"} =>
                              a \in {"mk_size", "mk_map"} /\ f = call[p].fd
                         /\ call[p].at \in {"mk_check", "mk_bytes", "mk_capa"} =>
                              a \in {"mk_check", "mk_bytes", "mk_capa"}
  PROVE  Tended'
<1>1. file # NoSeg /\ file' = file /\ Keeps(p, file) => Keeps(p, file)'
  BY DEF Keeps, OnlyCall
<1>2. QED
  BY <1>1, KeepsOn DEF OnlyCall

LEMMA MakeTends ==
  ASSUME LInv, Tended, NEW p \in Proc, MakeStep(p), ~Struck(p)
  PROVE  Tended'
<1>1. Types /\ CallInv(p)
  BY DEF LInv, TInv
<1>2. CASE MakeUnlink(p)
  BY <1>2, KeepsOn DEF MakeUnlink
<1>3. CASE MakeOpen(p)
  <2>1. PICK s \in Seg : file' = s /\ OnlyCall(p, "mk_size", call[p].want, s, call[p].rs)
    BY <1>1, <1>3, MakeOpenEffect
  <2>2. QED
    BY <2>1 DEF Tended, Keeps, OnlyCall
<1>4. CASE MakeSize(p)
  <2>1. OnlyCall(p, "mk_map", call[p].want, call[p].fd, call[p].rs)
    BY <1>1, <1>4, GoToCall DEF MakeSize, Labels
  <2>2. call[p].at = "mk_size" /\ obj' = obj /\ file' = file
    BY <1>4 DEF MakeSize, At
  <2>3. QED
    BY <2>1, <2>2, KeepsOnCall
<1>5. CASE MakeMap(p)
  <2>1. call[p].at = "mk_map" /\ file' = file /\ obj[p] = Fresh /\ call[p].fd \in Seg
    BY <1>1, <1>5 DEF MakeMap, At, CallInv
  <2>2. /\ OnlyCall(p, "mk_check", call[p].want, NoSeg, call[p].rs)
        /\ OnlyObj(p, call[p].fd, 0, FALSE, 0, FALSE)
    BY <1>1, <1>5, <2>1, MakeMapEffect
  <2>3. file # NoSeg /\ Keeps(p, file) => Keeps(p, file)'
    BY <2>1, <2>2 DEF Keeps, OnlyCall, OnlyObj, Fresh
  <2>4. QED
    BY <2>1, <2>2, <2>3, KeepsOn DEF OnlyCall, OnlyObj
<1>6. CASE MakeCheck(p)
  <2>1. CASE file = NoSeg
    BY <1>6, <2>1, KeepsOn DEF MakeCheck
  <2>2. CASE file # NoSeg
    <3>1. OnlyCall(p, "mk_bytes", call[p].want, call[p].fd, call[p].rs)
      BY <1>1, <1>6, <2>2, GoToCall DEF MakeCheck, Labels
    <3>2. call[p].at = "mk_check" /\ obj' = obj /\ file' = file
      BY <1>6, <2>2 DEF MakeCheck, At
    <3>3. QED
      BY <3>1, <3>2, KeepsOnCall
  <2>3. QED
    BY <2>1, <2>2
<1>7. CASE MakeBytes(p)
  <2>1. CASE file = NoSeg
    BY <1>7, <2>1, KeepsOn DEF MakeBytes
  <2>2. CASE file # NoSeg
    <3>1. /\ OnlyCall(p, "mk_capa", call[p].want, call[p].fd, call[p].rs)
          /\ OnlyObj(p, obj[p].map, seg[file].bytes, obj[p].meta, obj[p].capa,
                     obj[p].ownr)
      BY <1>1, <1>7, <2>2, MakeBytesEffect
    <3>2. call[p].at = "mk_bytes" /\ file' = file
      BY <1>7 DEF MakeBytes, At
    <3>3. Keeps(p, file) => Keeps(p, file)'
      BY <3>1, <3>2 DEF Keeps, OnlyCall, OnlyObj
    <3>4. QED
      BY <3>1, <3>2, <3>3, KeepsOn DEF OnlyCall, OnlyObj
  <2>3. QED
    BY <2>1, <2>2
<1>8. CASE MakeCapa(p)
  <2>1. call[p].at = "mk_capa" /\ file' = file /\ obj[p].map \in Seg
    BY <1>1, <1>8 DEF MakeCapa, At, CallInv
  <2>2. seg[obj[p].map].bytes # 0
    BY <1>8, <2>1 DEF MakeCapa, Struck
  <2>3. /\ OnlyCall(p, "mk_lay", call[p].want, call[p].fd, call[p].rs)
        /\ OnlyObj(p, obj[p].map, obj[p].bytes, TRUE, call[p].want, TRUE)
    BY <1>1, <1>8, <2>1, <2>2, MakeCapaEffect
  <2>4. Keeps(p, file) => Keeps(p, file)'
    BY <2>1, <2>3 DEF Keeps, OnlyCall, OnlyObj
  <2>5. QED
    BY <2>1, <2>3, <2>4, KeepsOn DEF OnlyCall, OnlyObj
<1>9. CASE MakeLay(p)
  <2>1. call[p].at = "mk_lay" /\ file' = file
    BY <1>9 DEF MakeLay, At
  <2>2. Leave(p) /\ obj' = obj
    BY <1>9, <2>1 DEF MakeLay, Struck
  <2>3. QED
    BY <1>1, <2>1, <2>2, LeaveCall, KeepsOnCall
<1>10. QED
  BY <1>2, <1>3, <1>4, <1>5, <1>6, <1>7, <1>8, <1>9 DEF MakeStep

LEMMA PlugTends ==
  ASSUME LInv, Tended, NEW p \in Proc, PlugStep(p)
  PROVE  Tended'
<1>1. /\ Types /\ CallInv(p) /\ OwnInv(p) /\ file' = file
      /\ call[p].at \in {"pl_exists", "pl_size", "pl_open", "pl_map", "pl_meta"}
  BY DEF LInv, TInv, PlugStep, PlugExists, PlugSize, PlugOpen, PlugMap, PlugMeta, At
<1>2. ASSUME NEW a, NEW w, NEW f, NEW r, OnlyCall(p, a, w, f, r), obj' = obj
      PROVE  Tended'
  BY <1>1, <1>2, KeepsOnCall
<1>3. ASSUME Leave(p), obj' = obj PROVE Tended'
  BY <1>1, <1>2, <1>3, LeaveCall
<1>4. CASE PlugExists(p)
  BY <1>1, <1>2, <1>3, <1>4, GoToCall DEF PlugExists, Labels
<1>5. CASE PlugSize(p)
  BY <1>1, <1>2, <1>3, <1>5, PlugSizeEffect DEF PlugSize
<1>6. CASE PlugOpen(p)
  <2>1. CASE obj[p].map # NoSeg \/ file = NoSeg
    BY <1>3, <1>6, <2>1 DEF PlugOpen
  <2>2. CASE obj[p].map = NoSeg /\ file # NoSeg
    BY <1>1, <1>2, <1>6, <2>2, PlugOpenEffect DEF PlugOpen
  <2>3. QED
    BY <2>1, <2>2
<1>7. CASE PlugMap(p)
  <2>1. CASE call[p].rs = 0
    BY <1>3, <1>7, <2>1 DEF PlugMap
  <2>2. CASE call[p].rs # 0
    <3>1. ~obj[p].ownr
      BY <1>1, <1>7 DEF CallInv, PlugMap, At, Fresh
    <3>2. ~Keeps(p, file)
      BY <1>1, <3>1 DEF Keeps
    <3>3. QED
      BY <1>1, <1>7, <2>2, <3>2, PlugMapEffect, KeepsOn DEF OnlyCall, OnlyObj
  <2>3. QED
    BY <2>1, <2>2
<1>8. CASE PlugMeta(p)
  <2>1. ~Keeps(p, file)
    BY <1>1, <1>8 DEF Keeps, OwnInv, PlugMeta, At
  <2>2. \A q \in Proc : q # p => call'[q] = call[q] /\ obj'[q] = obj[q]
    BY <1>1, <1>8 DEF PlugMeta, Die, Leave, Types
  <2>3. QED
    BY <1>1, <2>1, <2>2, KeepsOn
<1>9. QED
  BY <1>4, <1>5, <1>6, <1>7, <1>8 DEF PlugStep

LEMMA CallTends ==
  ASSUME LInv, Tended, NEW p \in Proc,
         \/ \E w \in Wanted : MakeCall(p, w) \/ EitherCall(p, w)
         \/ PlugCall(p) \/ EitherExists(p)
  PROVE  Tended'
<1>1. /\ Types /\ obj' = obj /\ file' = file
      /\ call[p].at \in {"idle", "mop_exists"}
  BY DEF LInv, TInv, MakeCall, EitherCall, PlugCall, EitherExists, At
<1>2. PICK a, w, f, r : OnlyCall(p, a, w, f, r)
  BY <1>1, MakeCallEffect, EitherCallEffect, GoToCall DEF PlugCall, EitherExists, Labels
<1>3. QED
  BY <1>1, <1>2, KeepsOnCall

LEMMA EndTends ==
  ASSUME LInv, Tended, NEW p \in Proc,
         Destroy(p) \/ DelOsFile(p) \/ \E q \in Proc : Fork(p, q)
  PROVE  Tended'
<1>1. TInv /\ Types /\ OwnInv(p)
  BY DEF LInv, TInv
<1>2. CASE Destroy(p)
  <2>1. CASE obj[p].ownr
    BY <1>1, <1>2, <2>1, KeepsOn DEF Destroy, OwnInv
  <2>2. CASE ~obj[p].ownr
    <3>1. ~Keeps(p, file) /\ file' = file
      BY <1>2, <2>2 DEF Destroy, Keeps, At
    <3>2. \A q \in Proc : q # p => call'[q] = call[q] /\ obj'[q] = obj[q]
      BY <1>1, <1>2 DEF Destroy, Types
    <3>3. QED
      BY <3>1, <3>2, KeepsOn
  <2>3. QED
    BY <2>1, <2>2
<1>3. CASE DelOsFile(p)
  BY <1>3, KeepsOn DEF DelOsFile
<1>4. ASSUME NEW q \in Proc, Fork(p, q) PROVE Tended'
  <2>1. /\ UNCHANGED <<file, call>> /\ obj[q] = Fresh /\ At(q, "idle")
        /\ \A r \in Proc : r # q => obj'[r] = obj[r]
    BY <1>1, <1>4 DEF Fork, Types
  <2>2. file # NoSeg => ~Keeps(q, file)
    BY <2>1 DEF Keeps, At, Fresh
  <2>3. QED
    BY <2>1, <2>2, KeepsOn
<1>5. QED
  BY <1>2, <1>3, <1>4

(* However many processes make, plug, fork and destroy under one name, a file that
   has somebody to delete it keeps somebody until it has lost the name, unless by
   a kill, SIGBUS, a refused system call or an ownership that is given up. *)
THEOREM NothingLeft == Spec => NothingIsLeft
<1> DEFINE Excused == \E p \in Proc : \/ Kill(p) \/ Struck(p)
                                      \/ KernelRefuses(p) \/ ReleaseOwnership(p)
           Stays == Tended => Tended' \/ Excused
<1>1. LInv /\ [Next]_vars => [Stays]_vars
  <2> SUFFICES ASSUME LInv, Next, Tended, ~Excused PROVE Tended'
    BY DEF vars
  <2>1. PICK p \in Proc :
          \/ \E w \in Wanted : MakeCall(p, w) \/ EitherCall(p, w)
          \/ PlugCall(p) \/ EitherExists(p)
          \/ MakeStep(p) \/ PlugStep(p)
          \/ Destroy(p) \/ DelOsFile(p) \/ \E q \in Proc : Fork(p, q)
    BY DEF Next
  <2>2. QED
    BY <2>1, CallTends, MakeTends, PlugTends, EndTends
<1>2. QED
  BY <1>1, AlwaysLInv, PTL DEF Spec, NothingIsLeft
=============================================================================
