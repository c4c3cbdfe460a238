-------------------------------- MODULE Jet --------------------------------
(***************************************************************************)
(* Jet, the crash game (apps/jet/services.py, run_jet.py): one runner      *)
(* drives rounds from betting through the flight to the crash, while the   *)
(* players' requests place, cancel and cash out.  A transaction that needs *)
(* one lock is a step; those that take two (a request: the bet, then its   *)
(* round; the runner: the round, then its bets) are split where they wait. *)
(* The multiplier is a clock that counts from 1 while the plane flies.     *)
(***************************************************************************)
EXTENDS Naturals, FiniteSets

CONSTANTS
  Bets,           \* the bets players may place, each once
  FreeBets,       \* those placed with the one free bet there is
  Target,         \* [Bets -> Nat]: auto cash-out, or where the bet reaches the max win
  Rounds,         \* bound on the rounds, 1..n
  MaxMultiplier,  \* bound on the crash points
  StakeLimit,     \* round_stake_limit, in stakes
  MaxFaults,      \* bound on the runner's exceptions and restarts
  Runner, Nobody

ASSUME JetAssumption ==
  /\ FreeBets \subseteq Bets /\ Target \in [Bets -> Nat \ {0}]
  /\ Rounds \subseteq Nat \ {0}
  /\ MaxMultiplier \in Nat \ {0} /\ {StakeLimit, MaxFaults} \subseteq Nat
  /\ Runner \notin Bets /\ Nobody \notin Bets \union {Runner}

VARIABLES
  round,      \* [Rounds -> status], "none" before the round is opened
  crash,      \* [Rounds -> crash point]
  bet,        \* [Bets -> the bet's row, with its ledger entries]
  free,       \* the free bet: available or used
  clock,      \* the multiplier of the current flight
  runner,     \* where the runner is
  roundLock, betLock,
  req,        \* the cancel or cash-out under way for a bet, with the multiplier it asked at
  faults

vars == <<round, crash, bet, free, clock, runner, roundLock, betLock, req, faults>>

NoBet == [status |-> "none", round |-> 0, at |-> 0, entries |-> {}]
NoReq == [kind |-> "none", at |-> 0]

Init ==
  /\ round = [r \in Rounds |-> "none"] /\ crash = [r \in Rounds |-> 1]
  /\ bet = [b \in Bets |-> NoBet] /\ free = "available"
  /\ clock = 0 /\ runner = "recover"
  /\ roundLock = [r \in Rounds |-> Nobody] /\ betLock = [b \in Bets |-> Nobody]
  /\ req = [b \in Bets |-> NoReq] /\ faults = 0

Open      == {r \in Rounds : round[r] \in {"betting", "flying"}}
Current(r) == r \in Open /\ \A q \in Open : q <= r
Riding(r) == {b \in Bets : bet[b].status = "active" /\ bet[b].round = r}
Earlier(m, n) == IF m < n THEN m ELSE n

-----------------------------------------------------------------------------
\* What happens to a bet's row and its ledger entries, together.

Cashed(b, m) ==
  [bet[b] EXCEPT !.status = "cashed", !.at = m,
     !.entries = @ \union (IF b \notin FreeBets THEN {"payout"} ELSE IF m > 1 THEN {"bonus"} ELSE {})]
Lost(b) == [bet[b] EXCEPT !.status = "lost"]

\* Faulty: the stake of a free bet, which nobody paid, is given back too.
RefundedInMoney(b) == [bet[b] EXCEPT !.status = "refunded", !.entries = @ \union {"refund"}]

Refunded(b) ==
  [bet[b] EXCEPT !.status = "refunded", !.entries = @ \union (IF b \in FreeBets THEN {} ELSE {"refund"})]

\* The free bet of a refunded bet can be used again.
FreeAfter(refunded) == IF refunded \intersect FreeBets # {} THEN "available" ELSE free

-----------------------------------------------------------------------------
\* The players.

\* Real-money stakes on the round that were not cancelled (total_stake).
Staked(r) == {b \in Bets \ FreeBets : bet[b].round = r /\ bet[b].status # "refunded"}

\* The latest round that takes bets.
TakesBets(r) == round[r] = "betting" /\ \A q \in Rounds : round[q] = "betting" => q <= r

\* place_bet locks it.  The request may have waited for the lock until after the end of
\* the countdown.
Place(b) ==
  /\ bet[b].status = "none"
  /\ \E r \in Rounds :
       /\ TakesBets(r) /\ roundLock[r] = Nobody
       /\ b \in FreeBets => free = "available"
       /\ b \notin FreeBets => Cardinality(Staked(r)) < StakeLimit
       /\ bet' = [bet EXCEPT ![b] = [status |-> "active", round |-> r, at |-> 0,
                                    entries |-> IF b \in FreeBets THEN {} ELSE {"stake"}]]
  /\ free' = IF b \in FreeBets THEN "used" ELSE free
  /\ UNCHANGED <<round, crash, clock, runner, roundLock, betLock, req, faults>>

\* A request to cancel or to cash out: its time is read before any lock is waited for.
\* Before take-off that time is a multiplier of 1 (multiplier_at).  To cancel is asked
\* before take-off only: later it would be refused.
Ask(b) ==
  /\ req[b] = NoReq /\ bet[b].status = "active"
  /\ \/ round[bet[b].round] = "betting" /\ req' = [req EXCEPT ![b] = [kind |-> "cancel", at |-> 0]]
     \/ req' = [req EXCEPT ![b] = [kind |-> "cash_out", at |-> IF clock = 0 THEN 1 ELSE clock]]
  /\ UNCHANGED <<round, crash, bet, free, clock, runner, roundLock, betLock, faults>>

LockBet(b) ==
  /\ req[b] # NoReq /\ betLock[b] = Nobody
  /\ betLock' = [betLock EXCEPT ![b] = b]
  /\ UNCHANGED <<round, crash, bet, free, clock, runner, roundLock, req, faults>>

\* The request has the lock on its round too, and ends.
Answer(b) ==
  /\ betLock[b] = b /\ roundLock[bet[b].round] = Nobody
  /\ betLock' = [betLock EXCEPT ![b] = Nobody]
  /\ req' = [req EXCEPT ![b] = NoReq]
  /\ UNCHANGED <<round, crash, clock, runner, roundLock, faults>>

Cancel(b) ==
  /\ req[b].kind = "cancel" /\ Answer(b)
  /\ IF bet[b].status = "active" /\ round[bet[b].round] = "betting"
     THEN bet' = [bet EXCEPT ![b] = Refunded(b)] /\ free' = FreeAfter({b})
     ELSE UNCHANGED <<bet, free>>

\* Faulty: the crash point is not looked at.
InFlight(b) == round[bet[b].round] = "flying"

\* The plane was flying, and had not crashed, at the time asked for.
InTime(b) == round[bet[b].round] = "flying" /\ req[b].at < crash[bet[b].round]

CashOut(b) ==
  /\ req[b].kind = "cash_out" /\ Answer(b)
  /\ bet' = IF bet[b].status = "active" /\ InTime(b)
            THEN [bet EXCEPT ![b] = Cashed(b, Earlier(req[b].at, Target[b]))] ELSE bet
  /\ UNCHANGED free

\* The request fails: the process dies, or Postgres ends it to break a deadlock.
GiveUp(b) ==
  /\ req[b] # NoReq
  /\ req' = [req EXCEPT ![b] = NoReq]
  /\ betLock' = [betLock EXCEPT ![b] = IF @ = b THEN Nobody ELSE @]
  /\ UNCHANGED <<round, crash, bet, free, clock, runner, roundLock, faults>>

-----------------------------------------------------------------------------
\* The runner.

OpenRound(r) ==
  /\ runner = "idle" /\ round[r] = "none" /\ \A q \in Rounds : q < r => round[q] # "none"
  /\ round' = [round EXCEPT ![r] = "betting"]
  /\ \E c \in 1..MaxMultiplier : crash' = [crash EXCEPT ![r] = c]
  /\ clock' = 0 /\ runner' = "betting"
  /\ UNCHANGED <<bet, free, roundLock, betLock, req, faults>>

StartFlight(r) ==
  /\ runner = "betting" /\ Current(r) /\ roundLock[r] = Nobody
  /\ round' = [round EXCEPT ![r] = "flying"]
  /\ clock' = 1 /\ runner' = "flying"
  /\ UNCHANGED <<crash, bet, free, roundLock, betLock, req, faults>>

\* Time passes, and the runner may be late to notice the crash (by one, to bound it).
Tick(r) ==
  /\ Current(r) /\ round[r] = "flying" /\ clock <= crash[r]
  /\ clock' = clock + 1
  /\ UNCHANGED <<round, crash, bet, free, runner, roundLock, betLock, req, faults>>

\* settle_auto_cashouts: a transaction for each bet.
AutoCashOut(r, b) ==
  /\ runner = "flying" /\ Current(r) /\ b \in Riding(r) /\ betLock[b] = Nobody
  /\ Target[b] <= Earlier(clock, crash[r])
  /\ bet' = [bet EXCEPT ![b] = Cashed(b, Target[b])]
  /\ UNCHANGED <<round, crash, free, clock, runner, roundLock, betLock, req, faults>>

\* crash_round locks the round, then its riding bets.
CrashLock(r) ==
  /\ runner = "flying" /\ Current(r) /\ clock >= crash[r] /\ roundLock[r] = Nobody
  /\ roundLock' = [roundLock EXCEPT ![r] = Runner]
  /\ runner' = "crashing"
  /\ UNCHANGED <<round, crash, bet, free, clock, betLock, req, faults>>

\* The riding bets are locked one by one, each when no request holds it.
LockRiding(b) ==
  /\ runner \in {"crashing", "recovering"} /\ \E r \in Open : roundLock[r] = Runner /\ b \in Riding(r)
  /\ betLock[b] = Nobody
  /\ betLock' = [betLock EXCEPT ![b] = Runner]
  /\ UNCHANGED <<round, crash, bet, free, clock, runner, roundLock, req, faults>>

AllLocked(bets) == \A b \in bets : betLock[b] = Runner

RunnerReleases ==
  /\ roundLock' = [r \in Rounds |-> IF roundLock[r] = Runner THEN Nobody ELSE roundLock[r]]
  /\ betLock' = [b \in Bets |-> IF betLock[b] = Runner THEN Nobody ELSE betLock[b]]

\* Faulty: only what the plane has passed, not what it has just reached, is paid.
AtCrashIfPassed(b) == IF Target[b] < crash[bet[b].round] THEN Cashed(b, Target[b]) ELSE Lost(b)

\* What the crash makes of a riding bet.
AtCrash(b) == IF Target[b] <= crash[bet[b].round] THEN Cashed(b, Target[b]) ELSE Lost(b)

CrashRound(r) ==
  /\ runner = "crashing" /\ roundLock[r] = Runner
  /\ AllLocked(Riding(r))
  /\ bet' = [b \in Bets |-> IF b \in Riding(r) THEN AtCrash(b) ELSE bet[b]]
  /\ round' = [round EXCEPT ![r] = "crashed"]
  /\ runner' = "idle" /\ RunnerReleases
  /\ UNCHANGED <<crash, free, clock, req, faults>>

\* recover, at the start and after an exception: every round that is not crashed is
\* locked, then its riding bets.
RecoverLock ==
  /\ runner = "recover" /\ \A r \in Open : roundLock[r] = Nobody
  /\ roundLock' = [r \in Rounds |-> IF r \in Open THEN Runner ELSE roundLock[r]]
  /\ runner' = "recovering"
  /\ UNCHANGED <<round, crash, bet, free, clock, betLock, req, faults>>

PaysOnRecovery(b) == round[bet[b].round] = "flying" /\ Target[b] <= crash[bet[b].round]

\* Faulty: the rounds are closed, their bets are not looked at.
RecoverRoundsOnly ==
  /\ runner = "recovering"
  /\ round' = [r \in Rounds |-> IF r \in Open THEN "crashed" ELSE round[r]]
  /\ runner' = "idle" /\ RunnerReleases
  /\ UNCHANGED <<crash, bet, free, clock, req, faults>>

\* Faulty: only rounds that were taking bets are closed.
RecoverBetting ==
  LET closed == {r \in Open : round[r] = "betting"}
  IN /\ runner = "recovering" /\ AllLocked(UNION {Riding(r) : r \in Open})
     /\ bet' = [b \in Bets |-> IF \E r \in closed : b \in Riding(r) THEN Refunded(b) ELSE bet[b]]
     /\ free' = FreeAfter(UNION {Riding(r) : r \in closed})
     /\ round' = [r \in Rounds |-> IF r \in closed THEN "crashed" ELSE round[r]]
     /\ runner' = "idle" /\ RunnerReleases
     /\ UNCHANGED <<crash, clock, req, faults>>

Recover ==
  LET riding == UNION {Riding(r) : r \in Open}
  IN /\ runner = "recovering" /\ AllLocked(riding)
     /\ bet' = [b \in Bets |-> IF b \notin riding THEN bet[b]
                               ELSE IF PaysOnRecovery(b) THEN Cashed(b, Target[b]) ELSE Refunded(b)]
     /\ free' = FreeAfter({b \in riding : ~PaysOnRecovery(b)})
     /\ round' = [r \in Rounds |-> IF r \in Open THEN "crashed" ELSE round[r]]
     /\ runner' = "idle" /\ RunnerReleases
     /\ UNCHANGED <<crash, clock, req, faults>>

\* An exception in a round, or a restart, leads to recover.  An exception in recover is
\* logged and the runner goes on with the next round.
Fail ==
  /\ faults < MaxFaults
  /\ \/ runner' = "recover"
     \/ runner \in {"recover", "recovering"} /\ runner' = "idle"
  /\ faults' = faults + 1
  /\ RunnerReleases
  /\ UNCHANGED <<round, crash, bet, free, clock, req>>

-----------------------------------------------------------------------------
Player(b) == Place(b) \/ Ask(b) \/ LockBet(b) \/ Cancel(b) \/ CashOut(b) \/ GiveUp(b)

\* The runner's next step in the round at hand, which it takes unless it fails.
Drive ==
  \/ RecoverLock \/ Recover
  \/ \E r \in Rounds : StartFlight(r) \/ CrashLock(r) \/ CrashRound(r)

Next ==
  \/ Drive \/ Fail
  \/ \E r \in Rounds : OpenRound(r) \/ Tick(r) \/ \E b \in Bets : AutoCashOut(r, b)
  \/ \E b \in Bets : LockRiding(b) \/ Player(b)

Spec == Init /\ [][Next]_vars

\* The runner is a loop, started again when it stops; time passes; a request ends.  A row
\* lock is granted in the order it is asked for, so that new requests for a bet do not keep
\* the runner from it for ever.
FairSpec ==
  /\ Spec
  /\ WF_vars(Drive) /\ WF_vars(\E r \in Rounds : Tick(r))
  /\ \A b \in Bets : SF_vars(LockRiding(b)) /\ WF_vars(Cancel(b) \/ CashOut(b) \/ GiveUp(b))

-----------------------------------------------------------------------------
BetRecord ==
  [status : {"none", "active", "cashed", "lost", "refunded"}, round : {0} \union Rounds, at : Nat,
   entries : SUBSET {"stake", "payout", "bonus", "refund"}]

\* The rows hold what their columns allow; the runner holds a round's lock only where it
\* closes it, and a request holds its own bet's.
TypeOK ==
  /\ round \in [Rounds -> {"none", "betting", "flying", "crashed"}]
  /\ crash \in [Rounds -> 1..MaxMultiplier] /\ clock \in 0..(MaxMultiplier + 1)
  /\ bet \in [Bets -> BetRecord] /\ free \in {"available", "used"}
  /\ \A r \in Rounds : roundLock[r] # Nobody => roundLock[r] = Runner /\ runner \in {"crashing", "recovering"}
  /\ \A b \in Bets : betLock[b] = b => req[b] # NoReq
  /\ betLock \in [Bets -> Bets \union {Runner, Nobody}]
  /\ req \in [Bets -> [kind : {"none", "cancel", "cash_out"}, at : 0..(MaxMultiplier + 1)]]
  /\ runner \in {"recover", "recovering", "idle", "betting", "flying", "crashing"}
  /\ faults \in 0..MaxFaults

\* "nothing is ever paid or taken twice" (services.py:4-5): the ledger entries of a bet are
\* those of its status, whichever of request, auto cash-out, crash and recovery settled it.
EntriesMatchStatus ==
  \A b \in Bets : bet[b].entries =
    IF b \in FreeBets THEN IF bet[b].status = "cashed" /\ bet[b].at > 1 THEN {"bonus"} ELSE {}
    ELSE CASE bet[b].status = "none"     -> {}
           [] bet[b].status = "cashed"   -> {"stake", "payout"}
           [] bet[b].status = "refunded" -> {"stake", "refund"}
           [] OTHER                      -> {"stake"}

\* "Cash-outs are decided by the server clock" (services.py:6): nobody is paid a multiplier
\* the plane did not reach, or above the bet's own target, however late the request is served.
PaidWithinTheFlight ==
  \A b \in Bets : bet[b].status = "cashed" => bet[b].at \in 1..Earlier(Target[b], crash[bet[b].round])

\* "auto cash-outs at or below it pay" (crash_round): a bet whose target the plane reaches
\* is not lost, whoever of the runner's ticks, the crash and a recovery sees to it.
ReachedTargetsArePaid ==
  \A b \in Bets : bet[b].status = "lost" => Target[b] > crash[bet[b].round]

\* A round that is over has no bet riding on it: no bet slips in while it is closed.
NobodyRidesACrashedRound == \A r \in Rounds : round[r] = "crashed" => Riding(r) = {}

\* The free bet is on one bet that was not refunded, or it is there to be used.
FreeBetUsedOnce ==
  Cardinality({b \in FreeBets : bet[b].status \notin {"none", "refunded"}}) = IF free = "used" THEN 1 ELSE 0

\* "the next round starts clean" (run_jet.py): there is one open round at a time, as long
\* as no recovery fails.
OneRoundAtATime == Cardinality(Open) <= 1

\* A settled bet stays settled as it is.
SettledIsFinal ==
  [][\A b \in Bets : bet[b].status \in {"cashed", "lost", "refunded"} => bet'[b] = bet[b]]_vars

\* Again and again no round is open: each is brought to its end, by the crash or by a
\* recovery, whoever holds its bets.  With NobodyRidesACrashedRound, every bet is settled.
EveryRoundEnds == []<>(Open = {})

=============================================================================
