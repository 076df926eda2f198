------------------------------ MODULE ProcCtrl ------------------------------
(***************************************************************************)
(* ProcCtrlImp_t (src/ProcCtrl.cpp): a program that starts others, signals *)
(* them and buries them.  The kernel gives a pid to another process once   *)
(* it is free, and any process may take it.                                *)
(***************************************************************************)
EXTENDS Integers, FiniteSets

CONSTANTS
  Pid,        \* pids there are for others than the program itself
  MaxWords,   \* the length of c_args
  Flags, Options \* bounds on the arguments without and with a value

\* What the module takes of its constants.
Params == {Flags, Options, MaxWords} \subseteq Nat

VARIABLES
  proc,       \* what runs under a pid
  known,      \* the children that waitExit() has not returned yet
  words       \* history: the most words of c_args that were written

vars == <<proc, known, words>>

Kind == {"free", "copy", "program", "zombie", "stranger"}
Living == {"copy", "program"}

Init ==
  /\ proc = [p \in Pid |-> "free"]
  /\ known = {}
  /\ words = 0

\* forkOnly(): the child goes on as a copy of the program.
forkOnly(p) ==
  /\ proc[p] = "free"
  /\ proc' = [proc EXCEPT ![p] = "copy"]
  /\ known' = known \cup {p}
  /\ UNCHANGED words

\* A slip: the file name and the null pointer are not counted.
Fits_Names(flags, options) == (flags + options) * 2 <= MaxWords

\* The words are counted before the fork as if each argument had a value.
Fits(flags, options) == (flags + options + 1) * 2 <= MaxWords

(* forkExec() with that many arguments.  The child of a failed execv() calls
   exit(). *)
forkExec(p, flags, options) ==
  /\ Fits(flags, options)
  /\ proc[p] = "free"
  /\ proc' \in {[proc EXCEPT ![p] = k] : k \in {"program", "zombie"}}
  /\ known' = known \cup {p}
  /\ words' = LET n == 1 + flags + 2 * options + 1 IN IF n > words THEN n ELSE words

\* sendSign() with a signal that kills: to a zombie it does nothing.
sendSign(p) ==
  /\ p \in known
  /\ proc' = [proc EXCEPT ![p] = IF @ = "zombie" THEN @ ELSE "zombie"]
  /\ UNCHANGED <<known, words>>

\* A child ends by itself.
ChildEnds(p) ==
  /\ proc[p] \in Living
  /\ proc' = [proc EXCEPT ![p] = "zombie"]
  /\ UNCHANGED <<known, words>>

\* A slip: it buries every child that has ended and returns the last.
waitExit_Loops(p) ==
  /\ p \in known /\ proc[p] = "zombie"
  /\ proc' = [q \in Pid |-> IF q \in known /\ proc[q] = "zombie" THEN "free" ELSE proc[q]]
  /\ known' = known \ {p}
  /\ UNCHANGED words

\* waitExit() that returns p: any child that has ended, whose pid is free now.
waitExit(p) ==
  /\ p \in known /\ proc[p] = "zombie"
  /\ proc' = [proc EXCEPT ![p] = "free"]
  /\ known' = known \ {p}
  /\ UNCHANGED words

\* Another process of the machine begins or ends.
Others(p) ==
  /\ proc[p] \in {"free", "stranger"}
  /\ proc' = [proc EXCEPT ![p] = IF @ = "free" THEN "stranger" ELSE "free"]
  /\ UNCHANGED <<known, words>>

Next ==
  \E p \in Pid :
    \/ forkOnly(p) \/ sendSign(p) \/ ChildEnds(p) \/ waitExit(p) \/ Others(p)
    \/ \E f \in 0 .. Flags, o \in 0 .. Options : forkExec(p, f, o)

Spec == Init /\ [][Next]_vars

-----------------------------------------------------------------------------
TypeOK ==
  /\ proc \in [Pid -> Kind]
  /\ known \in SUBSET Pid
  /\ words \in Nat

(* A pid that waitExit() has not returned is never another process's, so that
   sendSign() to it cannot hit a stranger. *)
KnownIsMine == \A p \in known : proc[p] \in Living \cup {"zombie"}

\* Nothing is written behind c_args, whatever mix of flags and options.
WordsFit == words <= MaxWords
=============================================================================
