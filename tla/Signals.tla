------------------------------- MODULE Signals -------------------------------
(***************************************************************************)
(* The signal module (include/leonutils/Signals.hpp, src/Signals.cpp): the *)
(* main thread takes over the process's signals, every thread opens itself *)
(* to its own crash signals, and the crash handler jumps to the recovery   *)
(* point of the thread that crashed.                                       *)
(*                                                                         *)
(* A signal stands for all that the code treats alike: "hup" for SIGHUP,   *)
(* SIGINT, SIGQUIT, SIGTERM and SIGCHLD, "segv" for SIGILL, SIGFPE and     *)
(* SIGSEGV, "abrt" for SIGABRT, "bus" for SIGBUS and all that the code     *)
(* never names.                                                            *)
(***************************************************************************)
EXTENDS Naturals

CONSTANTS
  Main, Worker,   \* the threads
  MaxCrashes      \* bound: tl_crashing_count saturates there

ASSUME BoundAssumption == MaxCrashes \in Nat
ASSUME MainAssumption == Main \notin Worker

Thread == {Main} \cup Worker
Sig == {"hup", "segv", "abrt", "bus"}
Crashing == {"segv", "abrt", "bus"}   \* raised by the thread they hit

VARIABLES
  disp,       \* sigaction() of every signal
  mask,       \* the blocked signals of every thread
  taken,      \* s_taked_over
  saved,      \* s_sa_backups
  blocks,     \* s_blocks_bak
  step,       \* where Main is in CatchGlobalSig or RevocGlogalSig
  tl_taken,   \* tl_taked_over of every thread
  tl_blocks,  \* tl_blocks_bak of every thread
  crashes,    \* tl_crashing_count of every thread
  point,      \* tl_recovery_point: the mask sigsetjmp saved, if it was called
  ready,      \* history: the threads that only ever called it protected
  born,       \* the threads that were started
  under,      \* the mask to return to, of the threads in GlobalAction
  state       \* of the process: "up", "down", or "wild" after a jump to nowhere

global == <<disp, taken, saved, blocks, step>>
local == <<tl_taken, tl_blocks, crashes, point, ready>>
vars == <<disp, mask, taken, saved, blocks, step, tl_taken, tl_blocks,
          crashes, point, ready, born, under, state>>

Unset == [set |-> FALSE, mask |-> {}]
MaskOf(S) == [set |-> TRUE, mask |-> S]
NoBackup == [s \in {} |-> "default"]

Init ==
  /\ disp = [s \in Sig |-> "default"]
  /\ mask = [t \in Thread |-> {}]
  /\ taken = FALSE
  /\ saved = NoBackup
  /\ blocks = {}
  /\ step = "idle"
  /\ tl_taken = [t \in Thread |-> FALSE]
  /\ tl_blocks = [t \in Thread |-> {}]
  /\ crashes = [t \in Thread |-> 0]
  /\ point = [t \in Thread |-> Unset]
  /\ ready = {}
  /\ born = {Main}
  /\ under = [t \in Thread |-> Unset]
  /\ state = "up"

\* t runs code of its own: not a handler, and not CatchGlobalSig.
Runs(t) ==
  /\ state = "up" /\ t \in born
  /\ ~under[t].set
  /\ t = Main => step = "idle"

\* Main runs that part of CatchGlobalSig or RevocGlogalSig.
MainAt(label) == state = "up" /\ ~under[Main].set /\ step = label

-----------------------------------------------------------------------------
(* CatchGlobalSig() and RevocGlogalSig(), called by Main.  A call that is out
   of turn throws bad_usage and changes nothing. *)

\* A slip: the dispositions are saved once they are changed.
CatchBackup_Late ==
  /\ MainAt("idle") /\ ~taken
  /\ saved' = [s \in {"hup", "segv"} |-> IF s = "hup" THEN "global" ELSE "crash"]
  /\ step' = "catch_hup"
  /\ UNCHANGED <<disp, mask, taken, blocks, local, born, under, state>>

\* Backup() of eight signals; SIGABRT is not among them
CatchBackup ==
  /\ MainAt("idle") /\ ~taken
  /\ saved' = [s \in {"hup", "segv"} |-> disp[s]]
  /\ step' = "catch_hup"
  /\ UNCHANGED <<disp, mask, taken, blocks, local, born, under, state>>

CatchHup ==
  /\ MainAt("catch_hup")
  /\ disp' = [disp EXCEPT !["hup"] = "global"]
  /\ step' = "catch_mask"
  /\ UNCHANGED <<mask, taken, saved, blocks, local, born, under, state>>

\* pthread_sigmask( SIG_BLOCK ): all but the regular signals, crashes included
CatchMask ==
  /\ MainAt("catch_mask")
  /\ blocks' = mask[Main]
  /\ mask' = [mask EXCEPT ![Main] = @ \cup (Sig \ {"hup"})]
  /\ step' = "catch_crash"
  /\ UNCHANGED <<disp, taken, saved, local, born, under, state>>

CatchCrash ==
  /\ MainAt("catch_crash")
  /\ disp' = [disp EXCEPT !["segv"] = "crash", !["abrt"] = "crash"]
  /\ step' = "catch_end"
  /\ UNCHANGED <<mask, taken, saved, blocks, local, born, under, state>>

CatchEnd ==
  /\ MainAt("catch_end")
  /\ taken' = TRUE
  /\ step' = "idle"
  /\ UNCHANGED <<disp, mask, saved, blocks, local, born, under, state>>

RevocRestore ==
  /\ MainAt("idle") /\ taken
  /\ disp' = [s \in Sig |-> IF s \in DOMAIN saved THEN saved[s] ELSE disp[s]]
  /\ saved' = NoBackup
  /\ step' = "revoc_mask"
  /\ UNCHANGED <<mask, taken, blocks, local, born, under, state>>

\* pthread_sigmask( SIG_BLOCK ) with the old mask: it opens nothing
RevocMask ==
  /\ MainAt("revoc_mask")
  /\ mask' = [mask EXCEPT ![Main] = @ \cup blocks]
  /\ step' = "revoc_end"
  /\ UNCHANGED <<disp, taken, saved, blocks, local, born, under, state>>

RevocEnd ==
  /\ MainAt("revoc_end")
  /\ taken' = FALSE
  /\ step' = "idle"
  /\ UNCHANGED <<disp, mask, saved, blocks, local, born, under, state>>

-----------------------------------------------------------------------------
(* What a thread does for itself *)

\* A thread inherits the mask of the one that starts it.
Start(t) ==
  /\ Runs(Main) /\ t \notin born
  /\ born' = born \cup {t}
  /\ mask' = [mask EXCEPT ![t] = mask[Main]]
  /\ UNCHANGED <<global, local, under, state>>

\* A slip: SIGSEGV and its like stay blocked.
CatchCrashSig_AbrtOnly(t) ==
  /\ Runs(t) /\ ~tl_taken[t]
  /\ tl_blocks' = [tl_blocks EXCEPT ![t] = mask[t]]
  /\ mask' = [mask EXCEPT ![t] = @ \ {"abrt"}]
  /\ tl_taken' = [tl_taken EXCEPT ![t] = TRUE]
  /\ UNCHANGED <<global, crashes, point, ready, born, under, state>>

CatchCrashSig(t) ==
  /\ Runs(t) /\ ~tl_taken[t]
  /\ tl_blocks' = [tl_blocks EXCEPT ![t] = mask[t]]
  /\ mask' = [mask EXCEPT ![t] = @ \ {"segv", "abrt"}]
  /\ tl_taken' = [tl_taken EXCEPT ![t] = TRUE]
  /\ UNCHANGED <<global, crashes, point, ready, born, under, state>>

RevocCrashSig(t) ==
  /\ Runs(t) /\ tl_taken[t]
  /\ mask' = [mask EXCEPT ![t] = tl_blocks[t]]
  /\ tl_taken' = [tl_taken EXCEPT ![t] = FALSE]
  /\ UNCHANGED <<global, tl_blocks, crashes, point, ready, born, under, state>>

\* sigsetjmp( tl_recovery_point, 1 ) by the user's code
SetPoint(t) ==
  /\ Runs(t)
  /\ point' = [point EXCEPT ![t] = MaskOf(mask[t])]
  /\ ready' = IF tl_taken[t] /\ (point[t].set => t \in ready)
              THEN ready \cup {t} ELSE ready \ {t}
  /\ UNCHANGED <<global, mask, tl_taken, tl_blocks, crashes, born, under,
                 state>>

-----------------------------------------------------------------------------
(* Signals *)

\* The kernel kills a process for a fault that is blocked; abort() unblocks
\* SIGABRT before it raises it.
Fatal(t, s) == disp[s] = "default" \/ (s \in mask[t] /\ s # "abrt")

\* CrashAction: siglongjmp() leaves the handler, with the mask of the point
Crash(t, s) ==
  /\ state = "up" /\ t \in born
  /\ IF Fatal(t, s)
     THEN state' = "down" /\ UNCHANGED <<mask, crashes, under>>
     ELSE /\ state' = IF point[t].set THEN "up" ELSE "wild"
          /\ crashes' = [crashes EXCEPT ![t] = IF @ < MaxCrashes THEN @ + 1 ELSE @]
          /\ mask' = [mask EXCEPT ![t] = point[t].mask]
          /\ under' = [under EXCEPT ![t] = Unset]
  /\ t = Main => step = "idle"
  /\ UNCHANGED <<global, tl_taken, tl_blocks, point, ready, born>>

\* A regular signal goes to Main unless Main blocks it, then to any thread that
\* does not; the handler runs with every signal blocked.
Takes(t) ==
  /\ t \in born /\ "hup" \notin mask[t]
  /\ t # Main => "hup" \in mask[Main]

\* A slip: sa_mask is left empty.
Hup_Open(t) ==
  /\ state = "up" /\ Takes(t)
  /\ IF disp["hup"] = "default"
     THEN state' = "down" /\ UNCHANGED <<mask, under>>
     ELSE /\ under' = [under EXCEPT ![t] = MaskOf(mask[t])]
          /\ mask' = [mask EXCEPT ![t] = @ \cup {"hup"}]
          /\ UNCHANGED state
  /\ UNCHANGED <<global, local, born>>

Hup(t) ==
  /\ state = "up" /\ Takes(t)
  /\ IF disp["hup"] = "default"
     THEN state' = "down" /\ UNCHANGED <<mask, under>>
     ELSE /\ under' = [under EXCEPT ![t] = MaskOf(mask[t])]
          /\ mask' = [mask EXCEPT ![t] = Sig]
          /\ UNCHANGED state
  /\ UNCHANGED <<global, local, born>>

\* GlobalAction returns
HandlerReturns(t) ==
  /\ state = "up" /\ under[t].set
  /\ mask' = [mask EXCEPT ![t] = under[t].mask]
  /\ under' = [under EXCEPT ![t] = Unset]
  /\ UNCHANGED <<global, local, born, state>>

-----------------------------------------------------------------------------
MainStep ==
  \/ CatchBackup \/ CatchHup \/ CatchMask \/ CatchCrash \/ CatchEnd
  \/ RevocRestore \/ RevocMask \/ RevocEnd

ThreadStep(t) ==
  \/ Start(t) \/ CatchCrashSig(t) \/ RevocCrashSig(t) \/ SetPoint(t)
  \/ Hup(t) \/ HandlerReturns(t) \/ \E s \in Crashing : Crash(t, s)

Next == MainStep \/ \E t \in Thread : ThreadStep(t)

Spec == Init /\ [][Next]_vars

-----------------------------------------------------------------------------
\* The type invariant; GlobalAction runs with every signal blocked.
TypeOK ==
  /\ disp \in [Sig -> {"default", "global", "crash"}]
  /\ mask \in [Thread -> SUBSET Sig]
  /\ taken \in BOOLEAN
  /\ DOMAIN saved \subseteq Sig
  /\ blocks \subseteq Sig
  /\ step \in {"idle", "catch_hup", "catch_mask", "catch_crash", "catch_end",
               "revoc_mask", "revoc_end"}
  /\ tl_taken \in [Thread -> BOOLEAN]
  /\ tl_blocks \in [Thread -> SUBSET Sig]
  /\ crashes \in [Thread -> 0 .. MaxCrashes]
  /\ point \in [Thread -> [set : BOOLEAN, mask : SUBSET Sig]]
  /\ ready \subseteq born /\ born \subseteq Thread
  /\ under \in [Thread -> [set : BOOLEAN, mask : SUBSET Sig]]
  /\ state \in {"up", "down", "wild"}
  /\ \A t \in Thread : under[t].set => mask[t] = Sig

\* The process's signals are taken over, the thread's crash protection is on
\* and was on whenever it set its recovery point: a jump to a point of another
\* time brings back a mask that blocks the crashes, for good.
Protected(t) ==
  /\ taken /\ step = "idle"
  /\ tl_taken[t] /\ t \in ready
  /\ ~under[t].set

(* A protected worker survives its crashes, any number of them one after the
   other, whether it was started before or after the take-over, whatever
   handlers it and the other threads run in between.  (Not so Main, if it
   switched its protection on first: CatchGlobalSig blocks its crashes.) *)
ProtectedSurvives ==
  [][\A t \in Worker, s \in {"segv", "abrt"} :
       Protected(t) /\ Crash(t, s) => state' = "up"]_vars

(* A take-over that was revoked left no trace in how the regular signals and
   the crash signals it saved are handled, after any number of take-overs. *)
SavedIsRestored ==
  ~taken /\ step = "idle" => disp["hup"] = "default" /\ disp["segv"] = "default"

(* "Revoke the signal handling of the whole process": all of it. *)
AllIsRestored ==
  ~taken /\ step = "idle" /\ ~tl_taken[Main] /\ ~under[Main].set
    => mask[Main] = {} /\ \A s \in Sig : disp[s] = "default"
=============================================================================
