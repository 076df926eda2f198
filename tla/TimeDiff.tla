------------------------------ MODULE TimeDiff ------------------------------
(***************************************************************************)
(* time-diff (src/TimeDiff.cpp): a client asks a server for its time over  *)
(* and over and estimates how far its own clock is ahead.  Answers take    *)
(* any time in either direction.                                           *)
(***************************************************************************)
EXTENDS Statistics

CONSTANTS
  Ahead,      \* the client's clock minus the server's
  MaxLag,     \* bound on the time a message takes
  MaxRounds,  \* bound on the queries of a session
  NewLine     \* time after which the display starts anew

Start == 100    \* a time before which nothing happens
Pause == 1      \* the 20 ms between two queries, on the scale of the lags

\* What the module takes of its constants: both clocks count from before the
\* session on, and no time of a message is beyond the numbers there are.
Params ==
  /\ Ahead \in Int /\ Ahead <= Start
  /\ {MaxLag, MaxRounds, NewLine} \subseteq Nat /\ MaxLag <= Highest

VARIABLES
  clock,      \* the client's clock
  warm,       \* calls that warm up
  asked,      \* send_at of the query under way, or none
  served,     \* serv_at of its answer, or none
  difs,       \* g_time_difs
  trans_lag, time_diff, \* what is displayed
  new_line

vars == <<clock, warm, asked, served, difs, trans_lag, time_diff, new_line>>

None == -1

Init ==
  /\ clock = Start
  /\ warm = 0
  /\ asked = None /\ served = None
  /\ difs = <<>>
  /\ trans_lag = NewStat /\ time_diff = NewStat
  /\ new_line = Start + NewLine

\* Three calls whose answers are not looked at.
WarmUp ==
  /\ warm < 3
  /\ \E lag \in 0 .. MaxLag : clock' = clock + lag
  /\ warm' = warm + 1
  /\ UNCHANGED <<asked, served, difs, trans_lag, time_diff, new_line>>

Send ==
  /\ warm = 3 /\ asked = None /\ Len(difs) < MaxRounds
  /\ asked' = clock
  /\ UNCHANGED <<clock, warm, served, difs, trans_lag, time_diff, new_line>>

\* ServeTime(), by the server's clock
ServeTime ==
  /\ asked # None /\ served = None
  /\ \E lag \in 0 .. MaxLag : clock' = clock + lag
  /\ served' = clock' - Ahead
  /\ UNCHANGED <<warm, asked, difs, trans_lag, time_diff, new_line>>

\* A slip: the server's time is taken for that of the return.
Estimate_AtReturn(send, serv, recv) == recv - serv

\* Half of one and half of the other, each rounded.
Estimate(send, serv, recv) == recv \div 2 + send \div 2 - serv

\* A slip: the new line starts the latency anew as well, as a comment once did.
Shown_Both(late, est) ==
  IF asked > new_line
  THEN trans_lag' = NewStat /\ time_diff' = NewStat /\ new_line' = asked + NewLine
  ELSE /\ trans_lag' = update(trans_lag, late) /\ time_diff' = update(time_diff, est)
       /\ UNCHANGED new_line

\* What is displayed; a new line starts the difference anew, not the latency.
Shown(late, est) ==
  /\ trans_lag' = update(trans_lag, late)
  /\ IF asked > new_line
     THEN time_diff' = NewStat /\ new_line' = asked + NewLine
     ELSE time_diff' = update(time_diff, est) /\ UNCHANGED new_line

\* The answer arrives, and a pause follows.
Receive ==
  /\ served # None
  /\ \E lag \in 0 .. MaxLag :
       LET recv == clock + lag
           late == (recv - asked) \div 2
       IN  /\ clock' = recv + Pause
           /\ difs' = Append(difs, [send_at |-> asked, serv_at |-> served,
                                    recv_at |-> recv, latency |-> late])
           /\ Shown(late, Estimate(asked, served, recv))
  /\ asked' = None /\ served' = None
  /\ UNCHANGED warm

Next == WarmUp \/ Send \/ ServeTime \/ Receive

Spec == Init /\ [][Next]_vars

-----------------------------------------------------------------------------
\* Calculate(): the samples of its two statistics
Lags == [i \in DOMAIN difs |-> difs[i].latency]
Diffs == [i \in DOMAIN difs |-> Estimate(difs[i].send_at, difs[i].serv_at, difs[i].recv_at)]

Abs(n) == IF n < 0 THEN -n ELSE n

TypeOK ==
  /\ clock \in Nat /\ new_line \in Nat /\ warm \in 0 .. 3
  /\ asked \in Nat \cup {None} /\ served \in Nat \cup {None}
  /\ Len(difs) <= MaxRounds
  /\ \A d \in ToSet(difs) : d.send_at <= d.recv_at /\ d.latency \in Nat

(* However the time is split between the way there and the way back, the mean
   difference of a session, like the one displayed since the last new line, is
   off by no more than the mean latency of the same queries, and the rounding. *)
OffByLatency ==
  \A n \in {Len(difs), time_diff.cnt} :
    LET from == Len(difs) - n + 1
        Recent(q) == SubSeq(q, from, Len(difs))
    IN  /\ Abs(Sum(Recent(Diffs)) - n * Ahead) <= Sum(Recent(Lags)) + n
        /\ n = time_diff.cnt => time_diff.sum = Sum(Recent(Diffs))

(* The latency displayed while a session runs, which is kept up query by query,
   is the one that is calculated from all of them in the end. *)
SameInTheEnd ==
  LET all == Statistic(Lags)
  IN  difs # <<>> =>
        /\ <<trans_lag.cnt, trans_lag.sum, trans_lag.max, trans_lag.min>>
             = <<all.cnt, all.sum, all.max, all.min>>
        /\ all.cnt * VarOf(trans_lag) = all.var
=============================================================================
