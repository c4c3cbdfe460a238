----------------------------- MODULE Jet_proofs -----------------------------
(***************************************************************************)
(* What holds of Jet's bets for any players' bets, targets, rounds, crash  *)
(* points and failures of the runner.  The argument: whatever step is      *)
(* taken, one of five things happens to a bet (BetMay), and the safety     *)
(* properties follow from that.                                            *)
(***************************************************************************)
EXTENDS Jet, FiniteSetTheorems, TLAPS

-----------------------------------------------------------------------------
(* Types.                                                                  *)

Locks == roundLock \in [Rounds -> {Runner, Nobody}]

\* A cash-out is asked at a multiplier the clock has shown; a bet that was placed is on a
\* round that was opened.
Asked == \A b \in Bets : req[b].kind = "cash_out" => req[b].at >= 1
OnOpenedRounds ==
  \A b \in Bets : bet[b].status # "none" => bet[b].round \in Rounds /\ round[bet[b].round] # "none"

\* The earlier of two multipliers is one, and no later than either.
LEMMA EarlierType ==
  ASSUME NEW m \in Nat, NEW n \in Nat
  PROVE  Earlier(m, n) \in Nat /\ Earlier(m, n) <= m /\ Earlier(m, n) <= n
  BY DEF Earlier

\* An auto cash-out is at a multiplier the bet may name.
LEMMA TargetType == \A b \in Bets : Target[b] \in Nat /\ Target[b] >= 1
  BY JetAssumption

\* The flight and the requests stay within the multipliers there are.
LEMMA CrashType ==
  ASSUME TypeOK
  PROVE  /\ \A r \in Rounds : crash[r] \in Nat \ {0} /\ crash[r] <= MaxMultiplier
         /\ clock \in Nat /\ clock <= MaxMultiplier + 1
         /\ \A b \in Bets : req[b].at \in Nat /\ req[b].at <= MaxMultiplier + 1
<1>1. MaxMultiplier \in Nat
  BY JetAssumption
<1> QED
  BY <1>1 DEF TypeOK

(* What becomes of a bet's row is a row, and for the same round.           *)
LEMMA RowType ==
  ASSUME TypeOK, NEW b \in Bets
  PROVE  /\ bet[b] \in BetRecord
         /\ Lost(b) \in BetRecord /\ Lost(b).round = bet[b].round
         /\ Refunded(b) \in BetRecord /\ Refunded(b).round = bet[b].round
         /\ \A m \in Nat : Cashed(b, m) \in BetRecord /\ Cashed(b, m).round = bet[b].round
<1>1. bet[b] \in BetRecord
  BY DEF TypeOK
<1>2. Lost(b) \in BetRecord /\ Lost(b).round = bet[b].round
  BY <1>1 DEF Lost, BetRecord
<1>3. Refunded(b) \in BetRecord /\ Refunded(b).round = bet[b].round
  BY <1>1 DEF Refunded, BetRecord
<1>4. ASSUME NEW m \in Nat
      PROVE  Cashed(b, m) \in BetRecord /\ Cashed(b, m).round = bet[b].round
  BY <1>1, <1>4 DEF Cashed, BetRecord
<1> QED
  BY <1>1, <1>2, <1>3, <1>4

(* The runner gives its locks up when it goes on to something else.        *)
LEMMA ReleaseType ==
  ASSUME TypeOK, Locks, RunnerReleases
  PROVE  /\ \A r \in Rounds : roundLock'[r] = Nobody
         /\ Locks'
         /\ betLock' \in [Bets -> Bets \union {Runner, Nobody}]
         /\ \A b \in Bets : betLock'[b] = b => betLock[b] = b
  BY JetAssumption DEF TypeOK, Locks, RunnerReleases

-----------------------------------------------------------------------------
(* What may happen to a bet.                                               *)

BetMay(b) ==
  \/ bet'[b] = bet[b]
  \/ /\ bet[b].status = "none"
     /\ \E r \in Rounds :
          /\ round[r] = "betting"
          /\ bet'[b] = [status |-> "active", round |-> r, at |-> 0,
                        entries |-> IF b \in FreeBets THEN {} ELSE {"stake"}]
  \/ /\ bet[b].status = "active"
     /\ \/ \E m \in 1 .. Earlier(Target[b], crash[bet[b].round]) : bet'[b] = Cashed(b, m)
        \/ Target[b] > crash[bet[b].round] /\ bet'[b] = Lost(b)
        \/ bet'[b] = Refunded(b)

\* What any step may do to one bet.
LEMMA BetsMay ==
  ASSUME TypeOK, Asked, OnOpenedRounds, [Next]_vars, NEW b \in Bets
  PROVE  BetMay(b)
<1>0. Target[b] \in Nat \ {0} /\ bet[b] \in BetRecord
  BY JetAssumption DEF TypeOK
<1>1. bet[b].status = "active" => bet[b].round \in Rounds /\ crash[bet[b].round] \in Nat \ {0}
  BY CrashType DEF OnOpenedRounds
<1>2. bet[b].status = "active" => Earlier(Target[b], crash[bet[b].round]) \in Nat
  BY <1>0, <1>1 DEF Earlier
<1>3. ASSUME NEW c \in Bets, Place(c)
      PROVE  BetMay(b)
  <2>1. PICK r \in Rounds :
          /\ round[r] = "betting"
          /\ bet' = [bet EXCEPT ![c] = [status |-> "active", round |-> r, at |-> 0,
                                       entries |-> IF c \in FreeBets THEN {} ELSE {"stake"}]]
    BY <1>3 DEF Place, TakesBets
  <2>2. bet[c].status = "none"
    BY <1>3 DEF Place
  <2>3. CASE b = c
    <3>1. bet'[b] = [status |-> "active", round |-> r, at |-> 0,
                     entries |-> IF b \in FreeBets THEN {} ELSE {"stake"}]
      BY <2>1, <2>3 DEF TypeOK
    <3> QED
      BY <2>1, <2>2, <2>3, <3>1 DEF BetMay
  <2>4. CASE b # c
    BY <2>1, <2>4 DEF BetMay, TypeOK
  <2> QED
    BY <2>3, <2>4
<1>4. ASSUME NEW c \in Bets, Cancel(c)
      PROVE  BetMay(b)
  BY <1>4 DEF Cancel, BetMay, TypeOK
<1>5. ASSUME NEW c \in Bets, CashOut(c)
      PROVE  BetMay(b)
  <2>1. CASE b = c /\ bet[b].status = "active" /\ InTime(b)
    <3>1. req[b].at \in Nat /\ req[b].at >= 1 /\ req[b].at < crash[bet[b].round]
      BY <1>5, <2>1 DEF CashOut, Asked, InTime, TypeOK
    <3>2. Earlier(req[b].at, Target[b]) \in 1 .. Earlier(Target[b], crash[bet[b].round])
      BY <1>0, <1>1, <2>1, <3>1 DEF Earlier
    <3>3. bet'[b] = Cashed(b, Earlier(req[b].at, Target[b]))
      BY <1>5, <2>1 DEF CashOut, TypeOK
    <3> QED
      BY <2>1, <3>2, <3>3 DEF BetMay
  <2>2. CASE ~ (b = c /\ bet[b].status = "active" /\ InTime(b))
    <3>1. bet'[b] = bet[b]
      BY <1>5, <2>2 DEF CashOut, TypeOK
    <3> QED
      BY <3>1 DEF BetMay
  <2> QED
    BY <2>1, <2>2
<1>6. ASSUME NEW c \in Bets, NEW r \in Rounds, AutoCashOut(r, c)
      PROVE  BetMay(b)
  <2>1. CASE b = c
    <3>1. bet[b].status = "active" /\ bet[b].round = r /\ Target[b] <= Earlier(clock, crash[r])
      BY <1>6, <2>1 DEF AutoCashOut, Riding
    <3>2. clock \in Nat /\ crash[r] \in Nat
      BY <1>1, <3>1, JetAssumption DEF TypeOK
    <3>3. Target[b] \in 1 .. Earlier(Target[b], crash[bet[b].round])
      BY <1>0, <3>1, <3>2 DEF Earlier
    <3>4. bet'[b] = Cashed(b, Target[b])
      BY <1>6, <2>1 DEF AutoCashOut, TypeOK
    <3> QED
      BY <3>1, <3>3, <3>4 DEF BetMay
  <2>2. CASE b # c
    BY <1>6, <2>2 DEF AutoCashOut, BetMay, TypeOK
  <2> QED
    BY <2>1, <2>2
<1>7. ASSUME NEW r \in Rounds, CrashRound(r)
      PROVE  BetMay(b)
  <2>1. CASE b \in Riding(r)
    <3>1. bet[b].status = "active" /\ bet'[b] = AtCrash(b)
      BY <1>7, <2>1 DEF CrashRound, Riding
    <3>2. CASE Target[b] <= crash[bet[b].round]
      BY <1>0, <1>1, <3>1, <3>2 DEF AtCrash, BetMay, Earlier
    <3>3. CASE ~ Target[b] <= crash[bet[b].round]
      BY <1>0, <1>1, <3>1, <3>3 DEF AtCrash, BetMay
    <3> QED
      BY <3>2, <3>3
  <2>2. CASE b \notin Riding(r)
    BY <1>7, <2>2 DEF CrashRound, BetMay
  <2> QED
    BY <2>1, <2>2
<1>8. CASE Recover
  <2> DEFINE riding == UNION {Riding(r) : r \in Open}
  <2>1. CASE b \in riding
    <3>1. /\ bet[b].status = "active"
          /\ bet'[b] = IF PaysOnRecovery(b) THEN Cashed(b, Target[b]) ELSE Refunded(b)
      BY <1>8, <2>1 DEF Recover, Riding
    <3>2. PaysOnRecovery(b) => Target[b] \in 1 .. Earlier(Target[b], crash[bet[b].round])
      BY <1>0, <1>1, <3>1 DEF PaysOnRecovery, Earlier
    <3> QED
      BY <3>1, <3>2 DEF BetMay
  <2>2. CASE b \notin riding
    BY <1>8, <2>2 DEF Recover, BetMay
  <2> QED
    BY <2>1, <2>2
<1>9. ASSUME UNCHANGED bet
      PROVE  BetMay(b)
  BY <1>9 DEF BetMay
<1>10. ASSUME NEW c \in Bets, Ask(c) \/ LockBet(c) \/ GiveUp(c) \/ LockRiding(c)
       PROVE  UNCHANGED bet
  BY <1>10 DEF Ask, LockBet, GiveUp, LockRiding
<1>11. ASSUME NEW r \in Rounds, OpenRound(r) \/ StartFlight(r) \/ Tick(r) \/ CrashLock(r)
       PROVE  UNCHANGED bet
  BY <1>11 DEF OpenRound, StartFlight, Tick, CrashLock
<1>12. ASSUME RecoverLock \/ Fail \/ UNCHANGED vars
       PROVE  UNCHANGED bet
  BY <1>12 DEF RecoverLock, Fail, vars
<1> QED
  BY <1>3, <1>4, <1>5, <1>6, <1>7, <1>8, <1>9, <1>10, <1>11, <1>12 DEF Next, Drive, Player

(* A round is opened once; what it was opened with stays.                  *)
LEMMA RoundsMay ==
  ASSUME TypeOK, [Next]_vars, NEW r \in Rounds, round[r] # "none"
  PROVE  /\ crash'[r] = crash[r]
         /\ round'[r] # "none" /\ (round[r] = "crashed" => round'[r] = "crashed")
<1> USE DEF TypeOK
<1>1. ASSUME NEW q \in Rounds, OpenRound(q)
      PROVE  /\ crash'[r] = crash[r] /\ round'[r] = round[r]
  BY <1>1 DEF OpenRound
<1>2. ASSUME NEW q \in Rounds, StartFlight(q)
      PROVE  /\ crash' = crash /\ round'[r] # "none" /\ (round[r] = "crashed" => round'[r] = "crashed")
  BY <1>2 DEF StartFlight, Current, Open
<1>3. ASSUME NEW q \in Rounds, CrashRound(q)
      PROVE  /\ crash' = crash /\ round'[r] # "none" /\ (round[r] = "crashed" => round'[r] = "crashed")
  BY <1>3 DEF CrashRound
<1>4. CASE Recover
  BY <1>4 DEF Recover, Open
<1>5. ASSUME NEW q \in Rounds, Tick(q) \/ CrashLock(q) \/ \E b \in Bets : AutoCashOut(q, b)
      PROVE  UNCHANGED <<round, crash>>
  BY <1>5 DEF Tick, CrashLock, AutoCashOut
<1>6. ASSUME NEW b \in Bets, Player(b) \/ LockRiding(b)
      PROVE  UNCHANGED <<round, crash>>
  BY <1>6 DEF Player, Place, Ask, LockBet, Answer, Cancel, CashOut, GiveUp, LockRiding
<1>7. CASE RecoverLock \/ Fail \/ UNCHANGED vars
  BY <1>7 DEF RecoverLock, Fail, vars
<1> QED
  BY <1>1, <1>2, <1>3, <1>4, <1>5, <1>6, <1>7 DEF Next, Drive

\* The bets stay a table of the same bets.
LEMMA BetIsAFunction ==
  ASSUME TypeOK, [Next]_vars
  PROVE  bet' = [b \in Bets |-> bet'[b]]
<1>0. bet = [b \in Bets |-> bet[b]]
  BY DEF TypeOK
<1>1. ASSUME NEW b \in Bets, Place(b)
      PROVE  bet' = [c \in Bets |-> bet'[c]]
  BY <1>0, <1>1 DEF Place
<1>2. ASSUME NEW b \in Bets, Cancel(b)
      PROVE  bet' = [c \in Bets |-> bet'[c]]
  BY <1>0, <1>2 DEF Cancel
<1>3. ASSUME NEW b \in Bets, CashOut(b)
      PROVE  bet' = [c \in Bets |-> bet'[c]]
  BY <1>0, <1>3 DEF CashOut
<1>4. ASSUME NEW b \in Bets, NEW r \in Rounds, AutoCashOut(r, b)
      PROVE  bet' = [c \in Bets |-> bet'[c]]
  BY <1>0, <1>4 DEF AutoCashOut
<1>5. ASSUME Recover \/ \E r \in Rounds : CrashRound(r)
      PROVE  bet' = [c \in Bets |-> bet'[c]]
  BY <1>5 DEF Recover, CrashRound
<1>6. ASSUME NEW c \in Bets, Ask(c) \/ LockBet(c) \/ GiveUp(c) \/ LockRiding(c)
      PROVE  UNCHANGED bet
  BY <1>6 DEF Ask, LockBet, GiveUp, LockRiding
<1>7. ASSUME NEW r \in Rounds, OpenRound(r) \/ StartFlight(r) \/ Tick(r) \/ CrashLock(r)
      PROVE  UNCHANGED bet
  BY <1>7 DEF OpenRound, StartFlight, Tick, CrashLock
<1>8. ASSUME RecoverLock \/ Fail \/ UNCHANGED vars
      PROVE  UNCHANGED bet
  BY <1>8 DEF RecoverLock, Fail, vars
<1> QED
  BY <1>0, <1>1, <1>2, <1>3, <1>4, <1>5, <1>6, <1>7, <1>8 DEF Next, Drive, Player

\* A step leaves every bet a row, on a round that was opened.
LEMMA BetRowsType ==
  ASSUME TypeOK, Asked, OnOpenedRounds, [Next]_vars
  PROVE  bet' \in [Bets -> BetRecord] /\ OnOpenedRounds'
<1>1. ASSUME NEW b \in Bets
      PROVE  /\ bet'[b] \in BetRecord
             /\ bet'[b].status # "none" => bet'[b].round \in Rounds /\ round'[bet'[b].round] # "none"
  <2>1. BetMay(b)
    BY BetsMay
  <2>2. bet[b] \in BetRecord
    BY RowType
  <2>3. ASSUME bet[b].status # "none"
        PROVE  /\ bet[b].round \in Rounds /\ round[bet[b].round] # "none"
               /\ round'[bet[b].round] # "none"
    BY <2>3, RoundsMay DEF OnOpenedRounds
  <2>4. CASE bet'[b] = bet[b]
    BY <2>2, <2>3, <2>4
  <2>5. ASSUME NEW r \in Rounds, round[r] = "betting",
               bet'[b] = [status |-> "active", round |-> r, at |-> 0,
                          entries |-> IF b \in FreeBets THEN {} ELSE {"stake"}]
        PROVE  /\ bet'[b] \in BetRecord
               /\ bet'[b].round \in Rounds /\ round'[bet'[b].round] # "none"
    BY <2>5, RoundsMay DEF BetRecord
  <2>6. ASSUME bet[b].status = "active",
               \/ \E m \in 1 .. Earlier(Target[b], crash[bet[b].round]) : bet'[b] = Cashed(b, m)
               \/ bet'[b] = Lost(b) \/ bet'[b] = Refunded(b)
        PROVE  bet'[b] \in BetRecord /\ bet'[b].round = bet[b].round
    <3>1. ASSUME NEW m \in 1 .. Earlier(Target[b], crash[bet[b].round]), bet'[b] = Cashed(b, m)
          PROVE  bet'[b] \in BetRecord /\ bet'[b].round = bet[b].round
      <4>1. m \in Nat
        BY <3>1
      <4> QED
        BY <3>1, <4>1, RowType
    <3> QED
      BY <2>6, <3>1, RowType
  <2>7. ASSUME bet[b].status = "active"
        PROVE  bet[b].status # "none"
    BY <2>7
  <2> QED
    BY <2>1, <2>3, <2>4, <2>5, <2>6, <2>7 DEF BetMay
<1>2. bet' = [b \in Bets |-> bet'[b]]
  BY BetIsAFunction
<1>3. bet' \in [Bets -> BetRecord]
  BY <1>1, <1>2
<1> QED
  BY <1>1, <1>3 DEF OnOpenedRounds

(* The rows, the locks and the requests keep their types: one step per     *)
(* action, given that of the bets.                                         *)
LEMMA TypeStep ==
  ASSUME TypeOK, Locks, Asked, OnOpenedRounds, [Next]_vars
  PROVE  TypeOK' /\ Locks' /\ Asked'
<1>0. MaxMultiplier \in Nat \ {0} /\ MaxFaults \in Nat /\ bet' \in [Bets -> BetRecord]
  BY JetAssumption, BetRowsType
<1> DEFINE TheRest ==
      /\ round' \in [Rounds -> {"none", "betting", "flying", "crashed"}]
      /\ crash' \in [Rounds -> 1..MaxMultiplier] /\ clock' \in 0..(MaxMultiplier + 1)
      /\ free' \in {"available", "used"}
      /\ runner' \in {"recover", "recovering", "idle", "betting", "flying", "crashing"}
      /\ faults' \in 0..MaxFaults
<1> DEFINE LocksFine ==
      /\ \A r \in Rounds : roundLock'[r] # Nobody => roundLock'[r] = Runner /\ runner' \in {"crashing", "recovering"}
      /\ \A b \in Bets : betLock'[b] = b => req'[b] # NoReq
      /\ betLock' \in [Bets -> Bets \union {Runner, Nobody}]
      /\ Locks'
<1> DEFINE RequestsFine ==
      req' \in [Bets -> [kind : {"none", "cancel", "cash_out"}, at : 0..(MaxMultiplier + 1)]] /\ Asked'
<1>1. SUFFICES TheRest /\ LocksFine /\ RequestsFine
  BY <1>0 DEF TypeOK
<1>2. ASSUME UNCHANGED <<round, crash, clock, runner, faults>>, free' \in {"available", "used"}
      PROVE  TheRest
  BY <1>2 DEF TypeOK
<1>3. ASSUME UNCHANGED <<roundLock, betLock, req, runner>>
      PROVE  LocksFine
  BY <1>3 DEF TypeOK, Locks
<1>4. ASSUME UNCHANGED req
      PROVE  RequestsFine
  BY <1>4 DEF TypeOK, Asked
<1>5. ASSUME \A r \in Rounds : roundLock[r] # Nobody => FALSE, UNCHANGED <<roundLock, betLock, req>>
      PROVE  LocksFine
  BY <1>5 DEF TypeOK, Locks
<1>6. ASSUME RunnerReleases, UNCHANGED req
      PROVE  LocksFine
  BY <1>6, ReleaseType DEF TypeOK
<1>7. ASSUME NEW b \in Bets, Place(b)
      PROVE  TheRest /\ LocksFine /\ RequestsFine
  <2>1. free' \in {"available", "used"} /\ UNCHANGED <<round, crash, clock, runner, roundLock, betLock, req, faults>>
    BY <1>7 DEF Place, TypeOK
  <2> QED
    BY <2>1, <1>2, <1>3, <1>4
<1>8. ASSUME NEW b \in Bets, Ask(b)
      PROVE  TheRest /\ LocksFine /\ RequestsFine
  <2>1. UNCHANGED <<round, crash, bet, free, clock, runner, roundLock, betLock, faults>> /\ req[b] = NoReq
    BY <1>8 DEF Ask
  <2>2. \E q \in [kind : {"cancel", "cash_out"}, at : 0..(MaxMultiplier + 1)] :
           req' = [req EXCEPT ![b] = q] /\ (q.kind = "cash_out" => q.at >= 1)
    BY <1>8, <1>0 DEF Ask, TypeOK
  <2>3. PICK q \in [kind : {"cancel", "cash_out"}, at : 0..(MaxMultiplier + 1)] :
           req' = [req EXCEPT ![b] = q] /\ (q.kind = "cash_out" => q.at >= 1)
    BY <2>2
  <2>4. RequestsFine
    BY <2>3 DEF TypeOK, Asked
  <2>5. LocksFine
    BY <2>1, <2>3 DEF TypeOK, Locks, NoReq
  <2>6. TheRest
    BY <2>1, <1>2 DEF TypeOK
  <2> QED
    BY <2>4, <2>5, <2>6
<1>9. ASSUME NEW b \in Bets, LockBet(b)
      PROVE  TheRest /\ LocksFine /\ RequestsFine
  <2>1. /\ UNCHANGED <<round, crash, bet, free, clock, runner, roundLock, req, faults>>
        /\ req[b] # NoReq /\ betLock' = [betLock EXCEPT ![b] = b]
    BY <1>9 DEF LockBet
  <2>2. LocksFine
    BY <2>1 DEF TypeOK, Locks
  <2>3. TheRest
    BY <2>1, <1>2 DEF TypeOK
  <2> QED
    BY <2>1, <2>2, <2>3, <1>4
<1>10. ASSUME NEW b \in Bets, \/ Cancel(b) \/ CashOut(b) \/ GiveUp(b)
       PROVE  TheRest /\ LocksFine /\ RequestsFine
  <2>1. /\ UNCHANGED <<round, crash, clock, runner, roundLock, faults>>
        /\ req' = [req EXCEPT ![b] = NoReq]
        /\ betLock' = [betLock EXCEPT ![b] = IF @ = b THEN Nobody ELSE @]
        /\ free' \in {"available", "used"}
    <3>1. CASE Cancel(b) \/ CashOut(b)
      BY <3>1, <1>10 DEF Cancel, CashOut, Answer, FreeAfter, TypeOK
    <3>2. CASE GiveUp(b)
      BY <3>2 DEF GiveUp, TypeOK
    <3> QED
      BY <1>10, <3>1, <3>2
  <2>2. RequestsFine
    BY <2>1, <1>0 DEF TypeOK, Asked, NoReq
  <2>3. LocksFine
    BY <2>1, JetAssumption DEF TypeOK, Locks
  <2>4. TheRest
    BY <2>1, <1>2
  <2> QED
    BY <2>2, <2>3, <2>4
<1>11. ASSUME NEW b \in Bets, LockRiding(b)
       PROVE  TheRest /\ LocksFine /\ RequestsFine
  <2>1. /\ UNCHANGED <<round, crash, bet, free, clock, runner, roundLock, req, faults>>
        /\ betLock' = [betLock EXCEPT ![b] = Runner]
    BY <1>11 DEF LockRiding
  <2>2. LocksFine
    BY <2>1, JetAssumption DEF TypeOK, Locks
  <2>3. TheRest
    BY <2>1, <1>2 DEF TypeOK
  <2> QED
    BY <2>1, <2>2, <2>3, <1>4
<1>12. ASSUME NEW r \in Rounds, OpenRound(r)
       PROVE  TheRest /\ LocksFine /\ RequestsFine
  <2>1. /\ runner = "idle" /\ round' = [round EXCEPT ![r] = "betting"]
        /\ clock' = 0 /\ runner' = "betting"
        /\ UNCHANGED <<bet, free, roundLock, betLock, req, faults>>
    BY <1>12 DEF OpenRound
  <2>2. crash' \in [Rounds -> 1..MaxMultiplier]
    BY <1>12 DEF OpenRound, TypeOK
  <2>3. TheRest
    <3>1. clock' \in 0..(MaxMultiplier + 1)
      BY <2>1, <1>0
    <3>2. round' \in [Rounds -> {"none", "betting", "flying", "crashed"}]
      BY <2>1 DEF TypeOK
    <3> QED
      BY <2>1, <2>2, <3>1, <3>2 DEF TypeOK
  <2>4. \A q \in Rounds : roundLock[q] # Nobody => FALSE
    BY <2>1 DEF TypeOK
  <2> QED
    BY <2>1, <2>3, <2>4, <1>4, <1>5
<1>13. ASSUME NEW r \in Rounds, StartFlight(r)
       PROVE  TheRest /\ LocksFine /\ RequestsFine
  <2>1. /\ runner = "betting" /\ round' = [round EXCEPT ![r] = "flying"]
        /\ clock' = 1 /\ runner' = "flying"
        /\ UNCHANGED <<crash, bet, free, roundLock, betLock, req, faults>>
    BY <1>13 DEF StartFlight
  <2>2. TheRest
    BY <2>1, <1>0 DEF TypeOK
  <2>3. \A q \in Rounds : roundLock[q] # Nobody => FALSE
    BY <2>1 DEF TypeOK
  <2> QED
    BY <2>1, <2>2, <2>3, <1>4, <1>5
<1>14. ASSUME NEW r \in Rounds, Tick(r)
       PROVE  TheRest /\ LocksFine /\ RequestsFine
  <2>1. /\ clock <= crash[r] /\ clock' = clock + 1
        /\ UNCHANGED <<round, crash, bet, free, runner, roundLock, betLock, req, faults>>
    BY <1>14 DEF Tick
  <2>2. TheRest
    BY <2>1, <1>0, CrashType DEF TypeOK
  <2> QED
    BY <2>1, <2>2, <1>3, <1>4
<1>15. ASSUME NEW r \in Rounds, NEW b \in Bets, AutoCashOut(r, b)
       PROVE  TheRest /\ LocksFine /\ RequestsFine
  <2>1. UNCHANGED <<round, crash, free, clock, runner, roundLock, betLock, req, faults>>
    BY <1>15 DEF AutoCashOut
  <2> QED
    BY <2>1, <1>2, <1>3, <1>4 DEF TypeOK
<1>16. ASSUME NEW r \in Rounds, CrashLock(r)
       PROVE  TheRest /\ LocksFine /\ RequestsFine
  <2>1. /\ roundLock' = [roundLock EXCEPT ![r] = Runner] /\ runner' = "crashing"
        /\ UNCHANGED <<round, crash, bet, free, clock, betLock, req, faults>>
        /\ runner = "flying"
    BY <1>16 DEF CrashLock
  <2>2. TheRest
    BY <2>1 DEF TypeOK
  <2>3. LocksFine
    BY <2>1 DEF TypeOK, Locks
  <2> QED
    BY <2>1, <2>2, <2>3, <1>4
<1>17. ASSUME NEW r \in Rounds, CrashRound(r)
       PROVE  TheRest /\ LocksFine /\ RequestsFine
  <2>1. /\ round' = [round EXCEPT ![r] = "crashed"] /\ runner' = "idle" /\ RunnerReleases
        /\ UNCHANGED <<crash, free, clock, req, faults>>
    BY <1>17 DEF CrashRound
  <2>2. TheRest
    BY <2>1 DEF TypeOK
  <2> QED
    BY <2>1, <2>2, <1>4, <1>6
<1>18. CASE RecoverLock
  <2>1. /\ roundLock' = [r \in Rounds |-> IF r \in Open THEN Runner ELSE roundLock[r]]
        /\ runner' = "recovering"
        /\ UNCHANGED <<round, crash, bet, free, clock, betLock, req, faults>>
        /\ runner = "recover"
    BY <1>18 DEF RecoverLock
  <2>2. TheRest
    BY <2>1 DEF TypeOK
  <2>3. LocksFine
    BY <2>1 DEF TypeOK, Locks
  <2> QED
    BY <2>1, <2>2, <2>3, <1>4
<1>19. CASE Recover
  <2>1. /\ round' = [r \in Rounds |-> IF r \in Open THEN "crashed" ELSE round[r]]
        /\ runner' = "idle" /\ RunnerReleases
        /\ UNCHANGED <<crash, clock, req, faults>>
        /\ free' \in {"available", free}
    BY <1>19 DEF Recover, FreeAfter
  <2>2. TheRest
    BY <2>1 DEF TypeOK
  <2> QED
    BY <2>1, <2>2, <1>4, <1>6
<1>20. CASE Fail
  <2>1. /\ runner' \in {"recover", "idle"} /\ faults' = faults + 1 /\ faults < MaxFaults
        /\ RunnerReleases /\ UNCHANGED <<round, crash, bet, free, clock, req>>
    BY <1>20 DEF Fail
  <2>2. TheRest
    BY <2>1, <1>0 DEF TypeOK
  <2> QED
    BY <2>1, <2>2, <1>4, <1>6
<1>21. CASE UNCHANGED vars
  <2>1. UNCHANGED <<round, crash, free, clock, runner, roundLock, betLock, req, faults>>
    BY <1>21 DEF vars
  <2> QED
    BY <2>1, <1>2, <1>3, <1>4 DEF TypeOK
<1> HIDE DEF TheRest, LocksFine, RequestsFine
<1> QED
  BY <1>7, <1>8, <1>9, <1>10, <1>11, <1>12, <1>13, <1>14, <1>15, <1>16, <1>17, <1>18, <1>19, <1>20, <1>21
  DEF Next, Drive, Player

-----------------------------------------------------------------------------
(* The safety properties, each from what may happen to a bet and a round.  *)

\* No step breaks the match of entries and status.
LEMMA EntriesStep ==
  ASSUME TypeOK, Asked, OnOpenedRounds, EntriesMatchStatus, [Next]_vars
  PROVE  EntriesMatchStatus'
<1> DEFINE Entries(b, row) ==
      row.entries = IF b \in FreeBets THEN IF row.status = "cashed" /\ row.at > 1 THEN {"bonus"} ELSE {}
                    ELSE CASE row.status = "none"     -> {}
                           [] row.status = "cashed"   -> {"stake", "payout"}
                           [] row.status = "refunded" -> {"stake", "refund"}
                           [] OTHER                   -> {"stake"}
<1>1. ASSUME NEW b \in Bets
      PROVE  Entries(b, bet'[b])
  <2>1. BetMay(b) /\ bet[b] \in BetRecord /\ Entries(b, bet[b])
    BY BetsMay, RowType DEF EntriesMatchStatus
  <2>2. CASE bet'[b] = bet[b]
    BY <2>1, <2>2
  <2>3. ASSUME NEW r \in Rounds,
               bet'[b] = [status |-> "active", round |-> r, at |-> 0,
                          entries |-> IF b \in FreeBets THEN {} ELSE {"stake"}]
        PROVE  Entries(b, bet'[b])
    BY <2>3
  <2>4. ASSUME NEW m \in 1 .. Earlier(Target[b], crash[bet[b].round]),
               bet[b].status = "active", bet'[b] = Cashed(b, m)
        PROVE  Entries(b, bet'[b])
    <3>1. bet'[b] = [bet[b] EXCEPT !.status = "cashed", !.at = m,
                       !.entries = bet[b].entries \union (IF b \notin FreeBets THEN {"payout"} ELSE IF m > 1 THEN {"bonus"} ELSE {})]
      BY <2>4 DEF Cashed
    <3>2. bet'[b].status = "cashed" /\ bet'[b].at = m
          /\ bet'[b].entries = bet[b].entries \union (IF b \notin FreeBets THEN {"payout"} ELSE IF m > 1 THEN {"bonus"} ELSE {})
      BY <2>1, <3>1 DEF BetRecord
    <3>3. bet[b].entries = IF b \in FreeBets THEN {} ELSE {"stake"}
      BY <2>1, <2>4
    <3> QED
      BY <3>2, <3>3
  <2>5. ASSUME bet[b].status = "active", bet'[b] = Lost(b) \/ bet'[b] = Refunded(b)
        PROVE  Entries(b, bet'[b])
    BY <2>1, <2>5 DEF Lost, Refunded, BetRecord
  <2> HIDE DEF Entries
  <2> QED
    BY <2>1, <2>2, <2>3, <2>4, <2>5 DEF BetMay
<1> QED
  BY <1>1 DEF EntriesMatchStatus

\* No step pays a bet beyond the flight or its target.
LEMMA PaidStep ==
  ASSUME TypeOK, Asked, OnOpenedRounds, PaidWithinTheFlight, [Next]_vars
  PROVE  PaidWithinTheFlight'
<1>1. ASSUME NEW b \in Bets, bet'[b].status = "cashed"
      PROVE  bet'[b].at \in 1..Earlier(Target[b], crash'[bet'[b].round])
  <2>1. BetMay(b) /\ bet[b] \in BetRecord
    BY BetsMay, RowType
  <2>2. ASSUME bet[b].status # "none"
        PROVE  crash'[bet[b].round] = crash[bet[b].round]
    BY <2>2, RoundsMay DEF OnOpenedRounds
  <2>3. CASE bet'[b] = bet[b]
    BY <1>1, <2>2, <2>3 DEF PaidWithinTheFlight
  <2>4. ASSUME NEW m \in 1 .. Earlier(Target[b], crash[bet[b].round]),
               bet[b].status = "active", bet'[b] = Cashed(b, m)
        PROVE  bet'[b].at \in 1..Earlier(Target[b], crash'[bet'[b].round])
    <3>1. bet'[b].at = m /\ bet'[b].round = bet[b].round
      BY <2>1, <2>4 DEF Cashed, BetRecord
    <3> QED
      BY <2>2, <2>4, <3>1
  <2>5. ~ (bet[b].status = "active" /\ (bet'[b] = Lost(b) \/ bet'[b] = Refunded(b)))
    BY <1>1, <2>1 DEF Lost, Refunded, BetRecord
  <2>6. ASSUME NEW r \in Rounds,
               bet'[b] = [status |-> "active", round |-> r, at |-> 0,
                          entries |-> IF b \in FreeBets THEN {} ELSE {"stake"}]
        PROVE  bet'[b].status = "active"
    BY <2>6
  <2> QED
    BY <1>1, <2>1, <2>3, <2>4, <2>5, <2>6 DEF BetMay
<1> QED
  BY <1>1 DEF PaidWithinTheFlight, Earlier

\* No step loses a bet whose target the flight has reached.
LEMMA ReachedStep ==
  ASSUME TypeOK, Asked, OnOpenedRounds, ReachedTargetsArePaid, [Next]_vars
  PROVE  ReachedTargetsArePaid'
<1>1. ASSUME NEW b \in Bets, bet'[b].status = "lost"
      PROVE  Target[b] > crash'[bet'[b].round]
  <2>1. BetMay(b) /\ bet[b] \in BetRecord
    BY BetsMay, RowType
  <2>2. ASSUME bet[b].status # "none"
        PROVE  crash'[bet[b].round] = crash[bet[b].round]
    BY <2>2, RoundsMay DEF OnOpenedRounds
  <2>3. CASE bet'[b] = bet[b]
    BY <1>1, <2>2, <2>3 DEF ReachedTargetsArePaid
  <2>4. CASE bet[b].status = "active" /\ Target[b] > crash[bet[b].round] /\ bet'[b] = Lost(b)
    BY <2>2, <2>4, RowType
  <2>5. ~ (bet[b].status = "active" /\ \/ bet'[b] = Refunded(b)
                                       \/ \E m \in 1 .. Earlier(Target[b], crash[bet[b].round]) : bet'[b] = Cashed(b, m))
    BY <1>1, <2>1 DEF Cashed, Refunded, BetRecord
  <2>6. ASSUME NEW r \in Rounds,
               bet'[b] = [status |-> "active", round |-> r, at |-> 0,
                          entries |-> IF b \in FreeBets THEN {} ELSE {"stake"}]
        PROVE  bet'[b].status = "active"
    BY <2>6
  <2> QED
    BY <1>1, <2>1, <2>3, <2>4, <2>5, <2>6 DEF BetMay
<1> QED
  BY <1>1 DEF ReachedTargetsArePaid

(* A bet gets onto a round only while the round takes bets, and whatever   *)
(* closes the round settles all bets that ride on it.                      *)
LEMMA NobodyRidesStep ==
  ASSUME TypeOK, Asked, OnOpenedRounds, NobodyRidesACrashedRound, [Next]_vars
  PROVE  NobodyRidesACrashedRound'
<1>1. SUFFICES ASSUME NEW r \in Rounds, round'[r] = "crashed",
                      NEW b \in Bets, bet'[b].status = "active", bet'[b].round = r
               PROVE  FALSE
  BY DEF NobodyRidesACrashedRound, Riding
<1>2. BetMay(b) /\ bet[b] \in BetRecord
  BY BetsMay, RowType
<1>3. ASSUME round[r] = "betting", UNCHANGED round
      PROVE  FALSE
  BY <1>1, <1>3
<1>4. bet'[b] = bet[b] \/ bet[b].status = "none"
  BY <1>1, <1>2 DEF BetMay, Cashed, Lost, Refunded, BetRecord
<1>5. CASE bet[b].status = "none" /\ bet'[b] # bet[b]
  <2>1. round[r] = "betting"
    <3>1. PICK q \in Rounds :
            /\ round[q] = "betting"
            /\ bet'[b] = [status |-> "active", round |-> q, at |-> 0,
                          entries |-> IF b \in FreeBets THEN {} ELSE {"stake"}]
      BY <1>2, <1>5 DEF BetMay
    <3>2. bet'[b].round = q
      BY <3>1
    <3> QED
      BY <1>1, <3>1, <3>2
  <2>2. ASSUME NEW c \in Bets, Player(c) \/ LockRiding(c)
        PROVE  UNCHANGED round
    BY <2>2 DEF Player, Place, Ask, LockBet, Answer, Cancel, CashOut, GiveUp, LockRiding
  <2>3. ASSUME NEW q \in Rounds, NEW c \in Bets, AutoCashOut(q, c)
        PROVE  UNCHANGED round
    BY <2>3 DEF AutoCashOut
  <2>4. ASSUME NEW q \in Rounds, OpenRound(q) \/ StartFlight(q) \/ Tick(q) \/ CrashLock(q)
        PROVE  bet' = bet
    BY <2>4 DEF OpenRound, StartFlight, Tick, CrashLock
  <2>5. ASSUME NEW q \in Rounds, CrashRound(q)
        PROVE  bet'[b] = bet[b]
    BY <2>5, <1>5 DEF CrashRound, Riding
  <2>6. CASE Recover
    BY <2>6, <1>5 DEF Recover, Riding
  <2>7. CASE RecoverLock \/ Fail \/ UNCHANGED vars
    BY <2>7, <1>5 DEF RecoverLock, Fail, vars
  <2> QED
    BY <1>3, <1>5, <2>1, <2>2, <2>3, <2>4, <2>5, <2>6, <2>7 DEF Next, Drive
<1>6. CASE bet'[b] = bet[b] /\ b \in Riding(r)
  <2>1. round[r] # "crashed" /\ round[r] # "none"
    BY <1>6 DEF NobodyRidesACrashedRound, Riding, OnOpenedRounds
  <2>2. r \in Open /\ bet[b].status = "active"
    BY <1>6, <2>1 DEF Open, Riding, TypeOK
  <2>3. ASSUME NEW q \in Rounds, CrashRound(q)
        PROVE  FALSE
    <3>1. q = r
      BY <1>1, <2>1, <2>3 DEF CrashRound, TypeOK
    <3>2. bet'[b] = AtCrash(b)
      BY <1>6, <2>3, <3>1 DEF CrashRound
    <3>3. bet'[b].status # "active"
      BY <1>2, <3>2 DEF AtCrash, Cashed, Lost, BetRecord
    <3> QED
      BY <1>1, <3>3
  <2>4. CASE Recover
    <3>1. b \in UNION {Riding(q) : q \in Open}
      BY <1>6, <2>2
    <3>2. bet'[b] = IF PaysOnRecovery(b) THEN Cashed(b, Target[b]) ELSE Refunded(b)
      BY <2>4, <3>1 DEF Recover
    <3>3. bet'[b].status # "active"
      BY <1>2, <3>2 DEF Cashed, Refunded, BetRecord
    <3> QED
      BY <1>1, <3>3
  <2>5. ASSUME NEW q \in Rounds, OpenRound(q) \/ StartFlight(q)
        PROVE  round'[r] # "crashed"
    BY <2>1, <2>5 DEF OpenRound, StartFlight, TypeOK
  <2>6. ASSUME NEW q \in Rounds, Tick(q) \/ CrashLock(q) \/ \E c \in Bets : AutoCashOut(q, c)
        PROVE  UNCHANGED round
    BY <2>6 DEF Tick, CrashLock, AutoCashOut
  <2>7. ASSUME NEW c \in Bets, Player(c) \/ LockRiding(c)
        PROVE  UNCHANGED round
    BY <2>7 DEF Player, Place, Ask, LockBet, Answer, Cancel, CashOut, GiveUp, LockRiding
  <2>8. CASE RecoverLock \/ Fail \/ UNCHANGED vars
    BY <2>8, <2>1, <1>1 DEF RecoverLock, Fail, vars
  <2> QED
    BY <1>1, <2>1, <2>3, <2>4, <2>5, <2>6, <2>7, <2>8 DEF Next, Drive
<1>7. bet'[b] = bet[b] => b \in Riding(r)
  BY <1>1 DEF Riding
<1> QED
  BY <1>4, <1>5, <1>6, <1>7

-----------------------------------------------------------------------------
(* The free bet.                                                           *)

UsedOn == {b \in FreeBets : bet[b].status \notin {"none", "refunded"}}
FreeBetIsSomewhere == IF free = "used" THEN \E b \in UsedOn : UsedOn = {b} ELSE UsedOn = {}

\* No step loses or doubles a free bet.
LEMMA FreeBetStep ==
  ASSUME TypeOK, Asked, OnOpenedRounds, FreeBetIsSomewhere, [Next]_vars
  PROVE  FreeBetIsSomewhere'
<1>0. FreeBets \subseteq Bets
  BY JetAssumption
<1>1. ASSUME \A b \in FreeBets : b \in UsedOn' <=> b \in UsedOn, free' = free
      PROVE  FreeBetIsSomewhere'
  <2>1. UsedOn' = UsedOn
    BY <1>1 DEF UsedOn
  <2> QED
    BY <1>1, <2>1 DEF FreeBetIsSomewhere
<1>2. ASSUME \A b \in FreeBets : b \in UsedOn' => b \in UsedOn, free' = "available",
             NEW c \in UsedOn, c \notin UsedOn'
      PROVE  FreeBetIsSomewhere'
  <2>1. UsedOn = {c}
    BY <1>2 DEF FreeBetIsSomewhere
  <2>2. UsedOn' = {}
    BY <1>2, <2>1 DEF UsedOn
  <2> QED
    BY <1>2, <2>2 DEF FreeBetIsSomewhere
<1>3. ASSUME NEW b \in FreeBets, bet'[b] = bet[b]
      PROVE  b \in UsedOn' <=> b \in UsedOn
  BY <1>3 DEF UsedOn
<1>4. ASSUME NEW b \in FreeBets, bet[b].status = "active",
             bet'[b] = Lost(b) \/ \E m \in Nat : bet'[b] = Cashed(b, m)
      PROVE  b \in UsedOn' <=> b \in UsedOn
  <2>1. bet[b] \in BetRecord
    BY <1>0, RowType
  <2>2. bet'[b].status \in {"lost", "cashed"}
    BY <1>4, <2>1 DEF Lost, Cashed, BetRecord
  <2> QED
    BY <1>4, <2>2 DEF UsedOn
<1>5. ASSUME NEW b \in FreeBets, bet[b].status = "active", bet'[b] = Refunded(b)
      PROVE  b \notin UsedOn' /\ b \in UsedOn
  <2>1. bet[b] \in BetRecord
    BY <1>0, RowType
  <2>2. bet'[b].status = "refunded"
    BY <1>5, <2>1 DEF Refunded, BetRecord
  <2> QED
    BY <1>5, <2>2 DEF UsedOn
<1>6. ASSUME NEW c \in Bets, Place(c)
      PROVE  FreeBetIsSomewhere'
  <2>1. PICK r \in Rounds :
          bet' = [bet EXCEPT ![c] = [status |-> "active", round |-> r, at |-> 0,
                                    entries |-> IF c \in FreeBets THEN {} ELSE {"stake"}]]
    BY <1>6 DEF Place
  <2>2. \A b \in Bets \ {c} : bet'[b] = bet[b]
    BY <2>1 DEF TypeOK
  <2>3. CASE c \in FreeBets
    <3>1. bet'[c].status = "active"
      BY <2>1 DEF TypeOK
    <3>2. free = "available" /\ free' = "used"
      BY <1>6, <2>3 DEF Place
    <3>3. UsedOn = {}
      BY <3>2 DEF FreeBetIsSomewhere
    <3>4. UsedOn' = {c}
      BY <1>0, <2>2, <2>3, <3>1, <3>3 DEF UsedOn
    <3> QED
      BY <3>2, <3>4 DEF FreeBetIsSomewhere
  <2>4. CASE c \notin FreeBets
    <3>1. \A b \in FreeBets : bet'[b] = bet[b]
      BY <1>0, <2>2, <2>4
    <3>2. free' = free
      BY <1>6, <2>4 DEF Place
    <3> QED
      BY <1>1, <1>3, <3>1, <3>2
  <2> QED
    BY <2>3, <2>4
<1>7. ASSUME NEW c \in Bets, Cancel(c)
      PROVE  FreeBetIsSomewhere'
  <2>1. CASE UNCHANGED <<bet, free>>
    BY <1>1, <1>3, <2>1
  <2>2. CASE bet[c].status = "active" /\ bet' = [bet EXCEPT ![c] = Refunded(c)] /\ free' = FreeAfter({c})
    <3>1. bet'[c] = Refunded(c) /\ \A b \in Bets \ {c} : bet'[b] = bet[b]
      BY <2>2 DEF TypeOK
    <3>2. CASE c \in FreeBets
      <4>1. free' = "available"
        BY <2>2, <3>2 DEF FreeAfter
      <4>2. c \notin UsedOn' /\ c \in UsedOn
        BY <1>5, <2>2, <3>1, <3>2
      <4>3. \A b \in FreeBets : b \in UsedOn' => b \in UsedOn
        BY <1>0, <1>3, <3>1, <4>2
      <4> QED
        BY <1>2, <4>1, <4>2, <4>3
    <3>3. CASE c \notin FreeBets
      <4>1. free' = free
        BY <2>2, <3>3 DEF FreeAfter
      <4>2. \A b \in FreeBets : bet'[b] = bet[b]
        BY <1>0, <3>1, <3>3
      <4> QED
        BY <1>1, <1>3, <4>1, <4>2
    <3> QED
      BY <3>2, <3>3
  <2> QED
    BY <1>7, <2>1, <2>2 DEF Cancel
<1>8. ASSUME \A b \in Bets : \/ bet'[b] = bet[b]
                             \/ /\ bet[b].status = "active"
                                /\ bet'[b] = Lost(b) \/ \E m \in Nat : bet'[b] = Cashed(b, m),
             free' = free
      PROVE  FreeBetIsSomewhere'
  BY <1>0, <1>1, <1>3, <1>4, <1>8
<1>9. ASSUME NEW c \in Bets, CashOut(c)
      PROVE  FreeBetIsSomewhere'
  <2>1. Earlier(req[c].at, Target[c]) \in Nat
    BY CrashType, TargetType, EarlierType
  <2>2. /\ free' = free
        /\ bet' = IF bet[c].status = "active" /\ InTime(c)
                  THEN [bet EXCEPT ![c] = Cashed(c, Earlier(req[c].at, Target[c]))] ELSE bet
    BY <1>9 DEF CashOut
  <2> QED
    BY <1>8, <2>1, <2>2 DEF TypeOK
<1>10. ASSUME NEW r \in Rounds, NEW c \in Bets, AutoCashOut(r, c)
       PROVE  FreeBetIsSomewhere'
  <2>1. bet[c].status = "active" /\ bet' = [bet EXCEPT ![c] = Cashed(c, Target[c])] /\ free' = free
    BY <1>10 DEF AutoCashOut, Riding
  <2> QED
    BY <1>8, <2>1, TargetType DEF TypeOK
<1>11. ASSUME NEW r \in Rounds, CrashRound(r)
       PROVE  FreeBetIsSomewhere'
  <2>1. bet' = [b \in Bets |-> IF b \in Riding(r) THEN AtCrash(b) ELSE bet[b]] /\ free' = free
    BY <1>11 DEF CrashRound
  <2>2. \A b \in Riding(r) : bet[b].status = "active"
    BY DEF Riding
  <2> QED
    BY <1>8, <2>1, <2>2, TargetType DEF AtCrash
<1>12. CASE Recover
  <2> DEFINE riding == UNION {Riding(r) : r \in Open}
             repaid == {b \in riding : ~PaysOnRecovery(b)}
  <2>1. /\ bet' = [b \in Bets |-> IF b \notin riding THEN bet[b]
                                  ELSE IF PaysOnRecovery(b) THEN Cashed(b, Target[b]) ELSE Refunded(b)]
        /\ free' = FreeAfter(repaid)
    BY <1>12 DEF Recover
  <2>2. \A b \in riding : b \in Bets /\ bet[b].status = "active"
    BY DEF Riding
  <2>3. \A b \in FreeBets \ repaid : b \in UsedOn' <=> b \in UsedOn
    BY <1>0, <1>3, <1>4, <2>1, <2>2, TargetType
  <2>4. \A b \in FreeBets \cap repaid : b \notin UsedOn' /\ b \in UsedOn
    BY <1>0, <1>5, <2>1, <2>2
  <2>5. CASE repaid \intersect FreeBets = {}
    <3>1. free' = free
      BY <2>1, <2>5 DEF FreeAfter
    <3> QED
      BY <1>1, <2>3, <2>5, <3>1
  <2>6. CASE repaid \intersect FreeBets # {}
    <3>1. free' = "available"
      BY <2>1, <2>6 DEF FreeAfter
    <3>2. PICK c \in FreeBets \cap repaid : TRUE
      BY <2>6
    <3> QED
      BY <1>2, <2>3, <2>4, <3>1, <3>2
  <2> QED
    BY <2>5, <2>6
<1>13. ASSUME NEW c \in Bets, Ask(c) \/ LockBet(c) \/ GiveUp(c) \/ LockRiding(c)
       PROVE  UNCHANGED <<bet, free>>
  BY <1>13 DEF Ask, LockBet, GiveUp, LockRiding
<1>14. ASSUME NEW r \in Rounds, OpenRound(r) \/ StartFlight(r) \/ Tick(r) \/ CrashLock(r)
       PROVE  UNCHANGED <<bet, free>>
  BY <1>14 DEF OpenRound, StartFlight, Tick, CrashLock
<1>15. ASSUME RecoverLock \/ Fail \/ UNCHANGED vars
       PROVE  UNCHANGED <<bet, free>>
  BY <1>15 DEF RecoverLock, Fail, vars
<1>16. ASSUME UNCHANGED <<bet, free>>
       PROVE  FreeBetIsSomewhere'
  BY <1>8, <1>16
<1> QED
  BY <1>6, <1>7, <1>9, <1>10, <1>11, <1>12, <1>13, <1>14, <1>15, <1>16 DEF Next, Drive, Player

-----------------------------------------------------------------------------
Inv ==
  /\ TypeOK /\ Locks /\ Asked /\ OnOpenedRounds
  /\ EntriesMatchStatus /\ PaidWithinTheFlight /\ ReachedTargetsArePaid
  /\ NobodyRidesACrashedRound /\ FreeBetIsSomewhere

(* The invariant that the properties need together: rows, locks and        *)
(* requests are well-formed, bets are on rounds that were opened, and what *)
(* a bet was paid fits its round's crash point.                            *)
THEOREM Invariance == Spec => []Inv
<1>1. Init => Inv
  <2> SUFFICES ASSUME Init
               PROVE  Inv
    OBVIOUS
  <2>1. MaxMultiplier \in Nat \ {0} /\ MaxFaults \in Nat /\ FreeBets \subseteq Bets
        /\ \A b \in Bets : b # Nobody
    BY JetAssumption
  <2>2. \A b \in Bets : bet[b] = NoBet
    BY DEF Init
  <2>3. NoBet \in BetRecord /\ NoBet.status = "none" /\ NoBet.entries = {}
    BY DEF NoBet, BetRecord
  <2>4. bet \in [Bets -> BetRecord]
    BY <2>3 DEF Init
  <2>5. req \in [Bets -> [kind : {"none", "cancel", "cash_out"}, at : 0..(MaxMultiplier + 1)]] /\ Asked
    BY <2>1 DEF Init, NoReq, Asked
  <2>6. TypeOK /\ Locks
    BY <2>1, <2>4, <2>5 DEF Init, TypeOK, Locks
  <2>7. OnOpenedRounds /\ PaidWithinTheFlight /\ ReachedTargetsArePaid
    BY <2>2, <2>3 DEF OnOpenedRounds, PaidWithinTheFlight, ReachedTargetsArePaid
  <2>8. EntriesMatchStatus
    BY <2>2, <2>3 DEF EntriesMatchStatus
  <2>9. NobodyRidesACrashedRound
    BY DEF Init, NobodyRidesACrashedRound
  <2>10. FreeBetIsSomewhere
    BY <2>1, <2>2, <2>3 DEF FreeBetIsSomewhere, UsedOn, Init
  <2> QED
    BY <2>6, <2>5, <2>7, <2>8, <2>9, <2>10 DEF Inv
<1>2. Inv /\ [Next]_vars => Inv'
  BY TypeStep, BetRowsType, EntriesStep, PaidStep, ReachedStep, NobodyRidesStep, FreeBetStep DEF Inv
<1> QED
  BY <1>1, <1>2, PTL DEF Spec

(* "Nothing is ever paid or taken twice" (services.py:4-5): whichever of   *)
(* request, auto cash-out, crash and recovery settles a bet, its ledger    *)
(* entries are those of its status.                                        *)
THEOREM NothingIsPaidTwice == Spec => []EntriesMatchStatus
<1>1. Inv => EntriesMatchStatus
  BY DEF Inv
<1> QED
  BY <1>1, Invariance, PTL

(* Nobody is paid a multiplier that the plane did not reach, or one above  *)
(* the bet's own target, however late the request is served (cash_out).    *)
THEOREM PaymentsFitTheFlight == Spec => []PaidWithinTheFlight
<1>1. Inv => PaidWithinTheFlight
  BY DEF Inv
<1> QED
  BY <1>1, Invariance, PTL

(* A bet whose target the plane reaches is not lost (crash_round).         *)
THEOREM ReachedTargetsWin == Spec => []ReachedTargetsArePaid
<1>1. Inv => ReachedTargetsArePaid
  BY DEF Inv
<1> QED
  BY <1>1, Invariance, PTL

(* A round that is over has no bet riding on it (crash_round, recover).    *)
THEOREM CrashedRoundsAreSettled == Spec => []NobodyRidesACrashedRound
<1>1. Inv => NobodyRidesACrashedRound
  BY DEF Inv
<1> QED
  BY <1>1, Invariance, PTL

(* The one free bet rides on at most one bet that was not refunded, and it *)
(* can be used as long as it rides on none (place_bet, _refund).           *)
THEOREM FreeBetIsUsedOnce == Spec => []FreeBetUsedOnce
<1>1. ASSUME Inv
      PROVE  FreeBetUsedOnce
  <2>1. CASE free = "used"
    <3>1. PICK b \in UsedOn : UsedOn = {b}
      BY <1>1, <2>1 DEF Inv, FreeBetIsSomewhere
    <3>2. Cardinality(UsedOn) = 1
      BY <3>1, FS_Singleton
    <3> QED
      BY <2>1, <3>2 DEF FreeBetUsedOnce, UsedOn
  <2>2. CASE free # "used"
    <3>1. UsedOn = {}
      BY <1>1, <2>2 DEF Inv, FreeBetIsSomewhere
    <3>2. Cardinality(UsedOn) = 0
      BY <3>1, FS_EmptySet
    <3> QED
      BY <2>2, <3>2 DEF FreeBetUsedOnce, UsedOn
  <2> QED
    BY <2>1, <2>2
<1> QED
  BY <1>1, Invariance, PTL

(* A settled bet stays settled as it is: no step of a request, of the      *)
(* runner or of a recovery changes its row or adds to its entries.         *)
THEOREM SettlementIsFinal == Spec => SettledIsFinal
<1>1. ASSUME Inv, [Next]_vars
      PROVE  \A b \in Bets : bet[b].status \in {"cashed", "lost", "refunded"} => bet'[b] = bet[b]
  BY <1>1, BetsMay DEF BetMay, Inv
<1> QED
  BY <1>1, Invariance, PTL DEF Spec, SettledIsFinal

=============================================================================
