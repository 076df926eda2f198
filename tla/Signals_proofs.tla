--------------------------- MODULE Signals_proofs ---------------------------
(***************************************************************************)
(* Proofs about the signal module for any number of threads: a protected   *)
(* worker survives its crashes, and a take-over that was revoked left no   *)
(* trace in the dispositions it saved.                                     *)
(***************************************************************************)
EXTENDS Signals, TLAPS

(* Only a thread that was started has a handler to return from. *)
Handlers == \A t \in Thread : under[t].set => t \in born

Backups == \A s \in DOMAIN saved : saved[s] \in {"default", "global", "crash"}

TypeInv == TypeOK /\ Handlers /\ Backups

-----------------------------------------------------------------------------
(* Type correctness.  The steps of a thread change its own mask, and what they
   put there is a mask that was one before. *)

USE DEF Thread, Sig, Crashing, Unset, MaskOf, NoBackup, Runs, MainAt, global, local

LEMMA InitTypes == Init => TypeInv
<1> SUFFICES ASSUME Init PROVE TypeInv
  OBVIOUS
<1> USE DEF Init, TypeOK
<1>1. crashes \in [Thread -> 0 .. MaxCrashes]
  BY BoundAssumption
<1>2. /\ point \in [Thread -> [set : BOOLEAN, mask : SUBSET Sig]]
      /\ under \in [Thread -> [set : BOOLEAN, mask : SUBSET Sig]]
  OBVIOUS
<1>3. DOMAIN saved \subseteq Sig
  OBVIOUS
<1>4. \A t \in Thread : ~under[t].set
  OBVIOUS
<1>5. QED
  BY <1>1, <1>2, <1>3, <1>4 DEF TypeInv, Handlers, Backups

LEMMA MainTypes == TypeInv /\ MainStep => TypeInv'
<1> SUFFICES ASSUME TypeInv, MainStep PROVE TypeInv'
  OBVIOUS
<1> USE DEF TypeInv, TypeOK, Handlers, Backups
<1>1. CASE CatchBackup
  BY <1>1 DEF CatchBackup
<1>2. CASE CatchHup
  BY <1>2 DEF CatchHup
<1>3. CASE CatchMask
  BY <1>3 DEF CatchMask
<1>4. CASE CatchCrash
  BY <1>4 DEF CatchCrash
<1>5. CASE CatchEnd
  BY <1>5 DEF CatchEnd
<1>6. CASE RevocRestore
  <2>1. disp' \in [Sig -> {"default", "global", "crash"}]
    BY <1>6 DEF RevocRestore
  <2>2. DOMAIN saved' = {}
    BY <1>6 DEF RevocRestore
  <2>3. QED
    BY <1>6, <2>1, <2>2 DEF RevocRestore
<1>7. CASE RevocMask
  BY <1>7 DEF RevocMask
<1>8. CASE RevocEnd
  BY <1>8 DEF RevocEnd
<1>9. QED
  BY <1>1, <1>2, <1>3, <1>4, <1>5, <1>6, <1>7, <1>8 DEF MainStep

LEMMA ThreadTypes ==
  ASSUME TypeInv, NEW t \in Thread, ThreadStep(t)
  PROVE  TypeInv'
<1> USE DEF TypeInv, TypeOK, Handlers, Backups
<1>1. CASE Start(t)
  BY <1>1 DEF Start
<1>2. CASE CatchCrashSig(t)
  BY <1>2 DEF CatchCrashSig
<1>3. CASE RevocCrashSig(t)
  BY <1>3 DEF RevocCrashSig
<1>4. CASE SetPoint(t)
  BY <1>4 DEF SetPoint
<1>5. CASE Hup(t)
  <2>1. CASE disp["hup"] = "default"
    BY <1>5, <2>1 DEF Hup
  <2>2. CASE disp["hup"] # "default"
    <3>1. /\ under' = [under EXCEPT ![t] = [set |-> TRUE, mask |-> mask[t]]]
          /\ mask' = [mask EXCEPT ![t] = Sig]
          /\ t \in born
          /\ UNCHANGED <<global, local, born, state>>
      BY <1>5, <2>2 DEF Hup, Takes
    <3>2. /\ under' \in [Thread -> [set : BOOLEAN, mask : SUBSET Sig]]
          /\ mask' \in [Thread -> SUBSET Sig]
      BY <3>1
    <3>3. \A u \in Thread : under'[u].set => mask'[u] = Sig /\ u \in born
      BY <3>1
    <3>4. QED
      BY <3>1, <3>2, <3>3
  <2>3. QED
    BY <2>1, <2>2
<1>6. CASE HandlerReturns(t)
  <2>1. /\ under' \in [Thread -> [set : BOOLEAN, mask : SUBSET Sig]]
        /\ mask' \in [Thread -> SUBSET Sig]
    BY <1>6 DEF HandlerReturns
  <2>2. \A u \in Thread : under'[u].set => mask'[u] = Sig /\ u \in born
    BY <1>6 DEF HandlerReturns
  <2>3. QED
    BY <1>6, <2>1, <2>2 DEF HandlerReturns
<1>7. ASSUME NEW s \in Crashing, Crash(t, s) PROVE TypeInv'
  <2>1. CASE Fatal(t, s)
    BY <1>7, <2>1 DEF Crash
  <2>2. CASE ~Fatal(t, s)
    <3>1. /\ under' = [under EXCEPT ![t] = [set |-> FALSE, mask |-> {}]]
          /\ mask' = [mask EXCEPT ![t] = point[t].mask]
          /\ crashes' = [crashes EXCEPT ![t] = IF @ < MaxCrashes THEN @ + 1 ELSE @]
          /\ state' \in {"up", "wild"}
          /\ UNCHANGED <<global, tl_taken, tl_blocks, point, ready, born>>
      BY <1>7, <2>2 DEF Crash
    <3>2. crashes' \in [Thread -> 0 .. MaxCrashes]
      BY <3>1, BoundAssumption
    <3>3. /\ under' \in [Thread -> [set : BOOLEAN, mask : SUBSET Sig]]
          /\ mask' \in [Thread -> SUBSET Sig]
      BY <3>1
    <3>4. \A u \in Thread : under'[u].set => mask'[u] = Sig /\ u \in born
      BY <3>1
    <3>5. QED
      BY <3>1, <3>2, <3>3, <3>4
  <2>3. QED
    BY <2>1, <2>2
<1>8. QED
  BY <1>1, <1>2, <1>3, <1>4, <1>5, <1>6, <1>7 DEF ThreadStep

LEMMA SameTypes == TypeInv /\ UNCHANGED vars => TypeInv'
BY DEF TypeInv, TypeOK, Handlers, Backups, vars

LEMMA NextTypes == TypeInv /\ [Next]_vars => TypeInv'
BY MainTypes, ThreadTypes, SameTypes DEF Next

LEMMA TypesInductive == Spec => []TypeInv
BY InitTypes, NextTypes, PTL DEF Spec

(* The types, and GlobalAction runs with every signal blocked. *)
THEOREM TypeCorrect == Spec => []TypeOK
<1>1. TypeInv => TypeOK
  BY DEF TypeInv
<1>2. QED
  BY <1>1, TypesInductive, PTL

-----------------------------------------------------------------------------
(* What a take-over saves.  Only Main changes the dispositions, so that each of
   its steps finds them as the one before left them. *)

Plain(f) == f["hup"] = "default" /\ f["segv"] = "default"
Caught(f) == f["segv"] = "crash" /\ f["abrt"] = "crash"
HasBackup == DOMAIN saved = {"hup", "segv"} /\ Plain(saved)

TakeOver ==
  CASE step = "idle" -> IF taken THEN HasBackup /\ Caught(disp) ELSE Plain(disp)
    [] step \in {"catch_hup", "catch_mask", "catch_crash"} -> ~taken /\ HasBackup
    [] step = "catch_end" -> ~taken /\ HasBackup /\ Caught(disp)
    [] step \in {"revoc_mask", "revoc_end"} -> taken /\ Plain(disp)

LEMMA InitTakeOver == Init => TakeOver
BY DEF Init, TakeOver, Plain

LEMMA MainTakeOver == TypeInv /\ TakeOver /\ MainStep => TakeOver'
<1> SUFFICES ASSUME TypeInv, TakeOver, MainStep PROVE TakeOver'
  OBVIOUS
<1> USE DEF TakeOver, HasBackup, Plain, Caught
<1>0. disp \in [Sig -> {"default", "global", "crash"}]
  BY DEF TypeInv, TypeOK
<1>1. CASE CatchBackup
  BY <1>1 DEF CatchBackup
<1>2. CASE CatchHup
  BY <1>2 DEF CatchHup
<1>3. CASE CatchMask
  BY <1>3 DEF CatchMask
<1>4. CASE CatchCrash
  BY <1>0, <1>4 DEF CatchCrash
<1>5. CASE CatchEnd
  BY <1>5 DEF CatchEnd
<1>6. CASE RevocRestore
  BY <1>6 DEF RevocRestore
<1>7. CASE RevocMask
  BY <1>7 DEF RevocMask
<1>8. CASE RevocEnd
  BY <1>8 DEF RevocEnd
<1>9. QED
  BY <1>1, <1>2, <1>3, <1>4, <1>5, <1>6, <1>7, <1>8 DEF MainStep

\* Nothing that a thread does for itself, and no signal, touches the take-over.
LEMMA ThreadIsLocal ==
  ASSUME NEW t \in Thread, ThreadStep(t)
  PROVE  UNCHANGED <<disp, taken, saved, step>>
BY DEF ThreadStep, Start, CatchCrashSig, RevocCrashSig, SetPoint, Hup, HandlerReturns, Crash

LEMMA NextTakeOver == TypeInv /\ TakeOver /\ [Next]_vars => TakeOver'
<1> SUFFICES ASSUME TypeInv, TakeOver, [Next]_vars PROVE TakeOver'
  OBVIOUS
<1>1. CASE MainStep
  BY <1>1, MainTakeOver
<1>2. ASSUME NEW t \in Thread, ThreadStep(t) PROVE TakeOver'
  <2>1. UNCHANGED <<disp, taken, saved, step>>
    BY <1>2, ThreadIsLocal
  <2>2. QED
    BY <2>1 DEF TakeOver, HasBackup, Plain, Caught
<1>3. CASE UNCHANGED vars
  BY <1>3 DEF vars, TakeOver, HasBackup, Plain, Caught
<1>4. QED
  BY <1>1, <1>2, <1>3 DEF Next

LEMMA TakeOverInductive == Spec => []TakeOver
BY InitTakeOver, NextTakeOver, TypesInductive, PTL DEF Spec

(* A take-over that was revoked left no trace in how the regular signals and
   the crash signals it saved are handled. *)
THEOREM Restored == Spec => []SavedIsRestored
<1>1. TakeOver => SavedIsRestored
  BY DEF TakeOver, Plain, SavedIsRestored
<1>2. QED
  BY <1>1, TakeOverInductive, PTL

-----------------------------------------------------------------------------
(* Why a protected worker survives: its crash signals are open, the mask of
   its recovery point opens them too, and a handler brings its mask back. *)

Closed == {"segv", "abrt"}
Own(t) == IF under[t].set THEN under[t].mask ELSE mask[t]
Prepared(t) == tl_taken[t] /\ (point[t].set => t \in ready)

Shielded(t) ==
  /\ tl_taken[t] => t \in born
  /\ t \in ready => point[t].set
  /\ t \in ready \/ ~point[t].set => point[t].mask \cap Closed = {}
  /\ Prepared(t) => Own(t) \cap Closed = {}

Shields == \A t \in Worker : Shielded(t)

LEMMA InitShields == Init => Shields
BY DEF Init, Shields, Shielded, Prepared

\* Of the masks, CatchGlobalSig and RevocGlogalSig change that of Main.
LEMMA MainShields == TypeInv /\ Shields /\ MainStep => Shields'
<1> SUFFICES ASSUME TypeInv, MainStep, NEW t \in Worker, Shielded(t) PROVE Shielded(t)'
  BY DEF Shields
<1>1. UNCHANGED <<local, born, under>>
  BY DEF MainStep, CatchBackup, CatchHup, CatchMask, CatchCrash, CatchEnd, RevocRestore,
         RevocMask, RevocEnd
<1>2. mask'[t] = mask[t]
  BY MainAssumption
  DEF TypeInv, TypeOK, MainStep, CatchBackup, CatchHup, CatchMask, CatchCrash, CatchEnd,
      RevocRestore, RevocMask, RevocEnd
<1>3. QED
  BY <1>1, <1>2 DEF Shielded, Prepared, Own

\* Nobody but the thread that takes a step loses its shield by it.
LEMMA OthersShielded ==
  ASSUME TypeInv, NEW t \in Thread, ThreadStep(t), NEW u \in Worker, u # t, Shielded(u)
  PROVE  Shielded(u)'
<1>1. /\ mask'[u] = mask[u] /\ under'[u] = under[u]
      /\ tl_taken'[u] = tl_taken[u] /\ point'[u] = point[u]
      /\ u \in ready' <=> u \in ready
      /\ u \in born => u \in born'
  BY DEF TypeInv, TypeOK, ThreadStep, Start, CatchCrashSig, RevocCrashSig, SetPoint, Hup,
         HandlerReturns, Crash
<1>2. QED
  BY <1>1 DEF Shielded, Prepared, Own

LEMMA OwnShielded ==
  ASSUME TypeInv, NEW t \in Worker, ThreadStep(t), Shielded(t)
  PROVE  Shielded(t)'
<1> USE DEF TypeInv, TypeOK, Handlers, Shielded, Prepared, Own, Closed
<1>1. CASE Start(t)
  BY <1>1 DEF Start
<1>2. CASE CatchCrashSig(t)
  BY <1>2 DEF CatchCrashSig
<1>3. CASE RevocCrashSig(t)
  BY <1>3 DEF RevocCrashSig
<1>4. CASE SetPoint(t)
  BY <1>4 DEF SetPoint
<1>5. CASE Hup(t)
  <2>1. CASE disp["hup"] = "default"
    BY <1>5, <2>1 DEF Hup
  <2>2. CASE disp["hup"] # "default"
    <3>1. under'[t].set /\ under'[t].mask = mask[t] /\ ~under[t].set
      <4>1. under' = [under EXCEPT ![t] = [set |-> TRUE, mask |-> mask[t]]]
        BY <1>5, <2>2 DEF Hup
      <4>2. "hup" \notin mask[t]
        BY <1>5 DEF Hup, Takes
      <4>3. QED
        BY <4>1, <4>2
    <3>2. UNCHANGED <<tl_taken, point, ready, born>>
      BY <1>5 DEF Hup
    <3>3. QED
      BY <3>1, <3>2
  <2>3. QED
    BY <2>1, <2>2
<1>6. CASE HandlerReturns(t)
  BY <1>6 DEF HandlerReturns
<1>7. ASSUME NEW s \in Crashing, Crash(t, s) PROVE Shielded(t)'
  <2>1. CASE Fatal(t, s)
    BY <1>7, <2>1 DEF Crash
  <2>2. CASE ~Fatal(t, s)
    <3>1. mask'[t] = point[t].mask /\ ~under'[t].set
      BY <1>7, <2>2 DEF Crash
    <3>2. UNCHANGED <<tl_taken, point, ready, born>>
      BY <1>7 DEF Crash
    <3>3. QED
      BY <3>1, <3>2
  <2>3. QED
    BY <2>1, <2>2
<1>8. QED
  BY <1>1, <1>2, <1>3, <1>4, <1>5, <1>6, <1>7 DEF ThreadStep

LEMMA NextShields == TypeInv /\ Shields /\ [Next]_vars => Shields'
<1> SUFFICES ASSUME TypeInv, Shields, [Next]_vars PROVE Shields'
  OBVIOUS
<1>1. CASE MainStep
  BY <1>1, MainShields
<1>2. ASSUME NEW t \in Thread, ThreadStep(t), NEW u \in Worker PROVE Shielded(u)'
  BY <1>2, OthersShielded, OwnShielded DEF Shields
<1>3. CASE UNCHANGED vars
  BY <1>3 DEF vars, Shields, Shielded, Prepared, Own
<1>4. QED
  BY <1>1, <1>2, <1>3 DEF Next, Shields

LEMMA ShieldsInductive == Spec => []Shields
BY InitShields, NextShields, TypesInductive, PTL DEF Spec

LEMMA SurvivesCrash ==
  ASSUME TypeInv, TakeOver, NEW t \in Worker, Shielded(t), Protected(t),
         NEW s \in {"segv", "abrt"}, Crash(t, s)
  PROVE  state' = "up"
<1>1. disp[s] = "crash"
  BY DEF TakeOver, Caught, Protected
<1>2. s \notin mask[t] /\ point[t].set
  BY DEF Shielded, Prepared, Own, Closed, Protected
<1>3. QED
  BY <1>1, <1>2 DEF Crash, Fatal

(* A protected worker survives its crashes, any number of them one after the
   other, whatever handlers it and the others run in between. *)
THEOREM Survival == Spec => ProtectedSurvives
<1> DEFINE A == \A t \in Worker, s \in {"segv", "abrt"} :
                  Protected(t) /\ Crash(t, s) => state' = "up"
<1>1. TypeInv /\ TakeOver /\ Shields => A
  BY SurvivesCrash DEF Shields
<1>2. Spec => [][A]_vars
  <2> HIDE DEF A
  <2> QED
    BY <1>1, TypesInductive, TakeOverInductive, ShieldsInductive, PTL
<1>3. QED
  BY <1>2 DEF ProtectedSurvives
=============================================================================
