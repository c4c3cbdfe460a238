------------------------------- MODULE Bonus -------------------------------
(***************************************************************************)
(* The Bonus wallet of one player (apps/wallet/bonus.py), as placing,      *)
(* confirming and settling multiples and crediting bonuses use it: bonus   *)
(* tickets are to stake the whole Bonus wallet, pay back into it, and      *)
(* after WinsToConvert of them won in a row the wallet moves to Winnings.  *)
(*                                                                         *)
(* Rows and transactions are as in Tickets: db is what is committed, now   *)
(* what the holder of a row's lock has made of it.  A transaction keeps    *)
(* its locks until it ends.  The locks on legs, markets and matches, and   *)
(* the other wallets of the player, are left to Tickets and Wallet.        *)
(***************************************************************************)
EXTENDS Integers, FiniteSets, Sequences, SequencesExt

CONSTANTS
  Tickets,        \* multiples paid from the Bonus wallet
  Bonuses,        \* the bonuses that may be credited
  BonusAmount,    \* [Bonuses -> amount]
  Verdicts,       \* what the legs of the tickets may come to
  Odds,           \* a winning ticket pays Odds times its stake
  WinsToConvert,  \* bonus_wins_to_convert
  MaxConversion,  \* bonus_max_conversion
  Settlers,       \* the transactions that settle
  MaxCrashes,     \* bound on the transactions a crash rolls back
  Nobody

ASSUME BonusAssumption ==
  /\ IsFiniteSet(Tickets) /\ IsFiniteSet(Bonuses) /\ IsFiniteSet(Settlers)
  /\ BonusAmount \in [Bonuses -> Nat \ {0}]
  /\ Verdicts \subseteq [Tickets -> {"won", "lost", "void"}]
  /\ Odds \in Nat \ {0} /\ WinsToConvert \in Nat \ {0} /\ MaxConversion \in Nat
  /\ MaxCrashes \in Nat
  /\ Tickets \intersect (Bonuses \union Settlers) = {} /\ Bonuses \intersect Settlers = {}
  /\ Nobody \notin Tickets \union Bonuses \union Settlers
  /\ Tickets \intersect {"wallet", "rollover"} = {}

Owners == Tickets \union Bonuses \union Settlers
Rows   == {"wallet", "rollover"} \union Tickets

VARIABLES
  db,       \* the committed value of every row
  now,      \* what the row's lock holder has made of it (db, when it is not held)
  lock,     \* who holds the row
  job,      \* the transaction each owner is running
  log,      \* the bonuses credited and the tickets settled, as they were committed
  verdict,  \* what the legs of each ticket come to
  crashes

bonusVars == <<db, now, lock, job, log, verdict, crashes>>

Idle == [stage |-> "idle", amount |-> 0, todo |-> <<>>, done |-> <<>>]

\* A new player who has bonus money to come, and no ticket yet.
BonusInit ==
  /\ db = [r \in Rows |->
       CASE r = "wallet"   -> [bonus |-> 0, winnings |-> 0, forfeited |-> 0, credited |-> {}]
         [] r = "rollover" -> 0
         [] OTHER -> [status |-> "none", stake |-> 0, back |-> 0]]
  /\ now = db
  /\ lock = [r \in Rows |-> Nobody]
  /\ job = [o \in Owners |-> Idle]
  /\ log = <<>>
  /\ verdict \in Verdicts
  /\ crashes = 0

-----------------------------------------------------------------------------
\* Rows, as the transaction of o sees, locks and writes them.

View(o, r) == IF lock[r] = o THEN now[r] ELSE db[r]
Free(o, r) == lock[r] \in {o, Nobody}

Write(o, r, v) ==
  /\ lock' = [lock EXCEPT ![r] = o]
  /\ now' = [now EXCEPT ![r] = v]

\* End the transaction of o: publish the rows n, and log what it did.
Commit(o, n, what) ==
  /\ db' = [r \in Rows |-> IF lock[r] = o THEN n[r] ELSE db[r]]
  /\ now' = n
  /\ lock' = [r \in Rows |-> IF lock[r] = o THEN Nobody ELSE lock[r]]
  /\ job' = [job EXCEPT ![o] = Idle]
  /\ log' = log \o what

Rollback(o) ==
  /\ now' = [r \in Rows |-> IF lock[r] = o THEN db[r] ELSE now[r]]
  /\ lock' = [r \in Rows |-> IF lock[r] = o THEN Nobody ELSE lock[r]]
  /\ job' = [job EXCEPT ![o] = Idle]
  /\ UNCHANGED <<db, log, verdict>>

\* The ticket a settlement is at.
Current(s) == Head(job[s].todo)

\* The row a transaction has to lock next.
Wants(o) ==
  CASE job[o].stage \in {"stake", "refund", "pay"} -> {"wallet"}
    [] job[o].stage \in {"reset", "count"} -> {"rollover"}
    [] job[o].stage = "ticket" /\ job[o].todo # <<>> -> {Current(o)}
    [] OTHER -> {}

\* A transaction goes on when that row is free: every later action of it is guarded so.
MayGoOn(o) == job[o].stage # "idle" /\ \A r \in Wants(o) : Free(o, r)

Credited(w, amount) == [w EXCEPT !.bonus = @ + amount]

-----------------------------------------------------------------------------
\* Placing and confirming.  The transaction on ticket t is named t.

\* check_ticket: the stake has to be what the wallet holds, read without a lock.
Check(t) ==
  /\ job[t] = Idle /\ db[t].status = "none"
  /\ db["wallet"].bonus > 0
  /\ job' = [job EXCEPT ![t] = [Idle EXCEPT !.stage = "stake", !.amount = db["wallet"].bonus]]
  /\ UNCHANGED <<db, now, lock, log, verdict, crashes>>

\* The debit of place_accumulator: the wallet is locked and has to hold the stake.
\* The ticket is open, or, in play, to be accepted first.
Stake(t) ==
  LET w == db["wallet"]
      stake == job[t].amount
  IN  /\ job[t].stage = "stake" /\ MayGoOn(t)
      /\ IF w.bonus >= stake
         THEN \E status \in {"OPEN", "ACCEPTING"} :
                LET made == [status |-> status, stake |-> stake, back |-> 0]
                    paid == [w EXCEPT !.bonus = @ - stake]
                IN  /\ db' = [db EXCEPT !["wallet"] = paid, ![t] = made]
                    /\ now' = [now EXCEPT !["wallet"] = paid, ![t] = made]
         ELSE UNCHANGED <<db, now>>      \* InsufficientFunds
      /\ job' = [job EXCEPT ![t] = Idle]
      /\ UNCHANGED <<lock, log, verdict, crashes>>

\* confirm_live_bet: with the ticket locked, it is accepted, or is to be refunded.
ConfirmLive(t) ==
  /\ job[t] = Idle /\ db[t].status = "ACCEPTING" /\ Free(t, t)
  /\ \/ /\ db' = [db EXCEPT ![t].status = "OPEN"]
        /\ now' = [now EXCEPT ![t].status = "OPEN"]
        /\ UNCHANGED <<lock, job>>
     \/ /\ Write(t, t, [now[t] EXCEPT !.status = "REJECTED", !.back = now[t].stake])
        /\ job' = [job EXCEPT ![t] = [Idle EXCEPT !.stage = "refund"]]
        /\ UNCHANGED db
  /\ UNCHANGED <<log, verdict, crashes>>

\* _reject_accepting: the stake goes back to the Bonus wallet.
Refund(t) ==
  LET w == Credited(db["wallet"], now[t].stake)
  IN  /\ job[t].stage = "refund" /\ MayGoOn(t)
      /\ db' = [db EXCEPT !["wallet"] = w, ![t] = now[t]]
      /\ now' = [now EXCEPT !["wallet"] = w]
      /\ lock' = [lock EXCEPT ![t] = Nobody]
      /\ job' = [job EXCEPT ![t] = Idle]
      /\ UNCHANGED <<log, verdict, crashes>>

-----------------------------------------------------------------------------
\* Crediting a bonus (post_entry of kind 'bonus', and bonus.reset in its transaction).

Credit(b) ==
  /\ job[b] = Idle /\ b \notin db["wallet"].credited /\ Free(b, "wallet")
  /\ Write(b, "wallet", [Credited(now["wallet"], BonusAmount[b]) EXCEPT !.credited = @ \union {b}])
  /\ job' = [job EXCEPT ![b] = [Idle EXCEPT !.stage = "reset"]]
  /\ UNCHANGED <<db, log, verdict, crashes>>

\* UPDATE ... SET wins = 0, which waits for the row, and commit.
Reset(b) ==
  /\ job[b].stage = "reset" /\ MayGoOn(b)
  /\ db' = [db EXCEPT !["wallet"] = now["wallet"], !["rollover"] = 0]
  /\ now' = [now EXCEPT !["rollover"] = 0]
  /\ lock' = [lock EXCEPT !["wallet"] = Nobody]
  /\ job' = [job EXCEPT ![b] = Idle]
  /\ log' = Append(log, b)
  /\ UNCHANGED <<verdict, crashes>>

-----------------------------------------------------------------------------
\* Settling: one transaction goes through the tickets its event or market touched.

Touched == SetToAllKPermutations({t \in Tickets : db[t].status \in {"OPEN", "ACCEPTING"}})

Begin(s) ==
  /\ job[s] = Idle
  /\ \E todo \in Touched \ {<<>>} :
       job' = [job EXCEPT ![s] = [Idle EXCEPT !.stage = "ticket", !.todo = todo]]
  /\ UNCHANGED <<db, now, lock, log, verdict, crashes>>

Goto(s, stage) == job' = [job EXCEPT ![s].stage = stage]

\* On to the next ticket, this one settled (or else passed over).
Proceed(s, settled) ==
  job' = [job EXCEPT ![s].stage = "ticket", ![s].todo = Tail(@),
                     ![s].done = @ \o (IF settled THEN <<Current(s)>> ELSE <<>>)]

\* Only an open ticket is settled (_settle_slip_if_ready, with the row locked).
LockTicket(s) ==
  /\ job[s].stage = "ticket" /\ job[s].todo # <<>> /\ MayGoOn(s)
  /\ LET t == Current(s)
         row == View(s, t)
         lost == verdict[t] = "lost"
         back == CASE lost -> 0
                   [] verdict[t] = "won" -> Odds * row.stake
                   [] verdict[t] = "void" -> row.stake
     IN IF row.status = "OPEN"
        THEN /\ Write(s, t, [row EXCEPT !.status = IF lost THEN "LOST" ELSE "WON", !.back = back])
             /\ Goto(s, IF lost THEN "count" ELSE "pay")
        ELSE Write(s, t, row) /\ Proceed(s, FALSE)
  /\ UNCHANGED <<db, log, verdict, crashes>>

\* Faulty: a ticket whose legs are all void counts as a win.
CountsAnyPaid(t) == TRUE

\* A ticket that only got its stake back counts as neither.
Counts(t) == verdict[t] # "void"

\* pay_out: what a bonus ticket returns goes back into the Bonus wallet.
Pay(s) ==
  LET t == Current(s)
      returned == IF verdict[t] = "won" THEN Odds * now[t].stake ELSE now[t].stake
  IN  /\ job[s].stage = "pay" /\ MayGoOn(s)
      /\ Write(s, "wallet", Credited(View(s, "wallet"), returned))
      /\ IF Counts(t) THEN Goto(s, "count") ELSE Proceed(s, TRUE)
      /\ UNCHANGED <<db, log, verdict, crashes>>

\* Faulty: what moved to Winnings is forfeited as well.
ConvertedAndForfeited(w) ==
  LET moved == IF w.bonus < MaxConversion THEN w.bonus ELSE MaxConversion
  IN  [w EXCEPT !.bonus = 0, !.winnings = @ + moved, !.forfeited = @ + w.bonus]

\* _convert: the Bonus wallet moves to Winnings up to the limit, the rest is forfeited.
Converted(w) ==
  LET moved == IF w.bonus < MaxConversion THEN w.bonus ELSE MaxConversion
  IN  [w EXCEPT !.bonus = 0, !.winnings = @ + moved, !.forfeited = @ + w.bonus - moved]

\* The count after one more ticket.
Counted(wins, won) == IF won /\ wins + 1 < WinsToConvert THEN wins + 1 ELSE 0

\* ticket_settled: with the count's row locked; the wallet is already, by the payout.
Count(s) ==
  LET won  == verdict[Current(s)] # "lost"
      wins == View(s, "rollover")
      converts == won /\ wins + 1 >= WinsToConvert
  IN  /\ job[s].stage = "count" /\ MayGoOn(s)
      /\ lock' = [lock EXCEPT !["rollover"] = s]
      /\ now' = [now EXCEPT !["rollover"] = Counted(wins, won),
                            !["wallet"] = IF converts THEN Converted(@) ELSE @]
      /\ Proceed(s, TRUE)
      /\ UNCHANGED <<db, log, verdict, crashes>>

Finish(s) ==
  /\ job[s].stage = "ticket" /\ job[s].todo = <<>>
  /\ Commit(s, now, job[s].done)
  /\ UNCHANGED <<verdict, crashes>>

-----------------------------------------------------------------------------
\* Transactions that do not end.

\* Faulty: nobody is seen to wait for the count.
WaitsForMoney(o, q) == \E r \in Wants(o) \ {"rollover"} : q # o /\ lock[r] = q

WaitsFor(o, q) == \E r \in Wants(o) : q # o /\ lock[r] = q

InACircle(o) ==
  \E circle \in SUBSET {p \in Owners : \E q \in Owners : WaitsFor(p, q)} :
    /\ o \in circle
    /\ \A p \in circle : (\E q \in circle : WaitsFor(p, q)) /\ (\E q \in circle : WaitsFor(q, p))

\* The database aborts one of the transactions that wait for each other.
DeadlockAbort(o) ==
  /\ InACircle(o)
  /\ Rollback(o)
  /\ UNCHANGED crashes

Crash(o) ==
  /\ crashes < MaxCrashes
  /\ job[o] # Idle
  /\ Rollback(o)
  /\ crashes' = crashes + 1

\* Everything is settled and no bonus is to come: nothing is left to do.
Done ==
  /\ \A o \in Owners : job[o] = Idle
  /\ \A t \in Tickets : db[t].status \in {"none", "WON", "LOST", "REJECTED"}
  /\ UNCHANGED bonusVars

BonusNext ==
  \/ \E t \in Tickets : Check(t) \/ Stake(t) \/ ConfirmLive(t) \/ Refund(t)
  \/ \E b \in Bonuses : Credit(b) \/ Reset(b)
  \/ \E s \in Settlers : Begin(s) \/ LockTicket(s) \/ Pay(s) \/ Count(s) \/ Finish(s)
  \/ \E o \in Owners : DeadlockAbort(o) \/ Crash(o)
  \/ Done

BonusSpec == BonusInit /\ [][BonusNext]_bonusVars

-----------------------------------------------------------------------------
\* Properties.

(* The variables keep their types: the count stays below what converts,    *)
(* and no wallet of the player goes below zero.                            *)
WalletType == [bonus : Nat, winnings : Nat, forfeited : Nat, credited : SUBSET Bonuses]
TicketType == [status : {"none", "ACCEPTING", "OPEN", "WON", "LOST", "REJECTED"}, stake : Nat, back : Nat]
JobType == [stage : {"idle", "stake", "refund", "reset", "ticket", "pay", "count"},
            amount : Nat, todo : Seq(Tickets), done : Seq(Tickets)]
RowsOK(v) ==
  /\ DOMAIN v = Rows
  /\ v["wallet"] \in WalletType
  /\ v["rollover"] \in 0 .. WinsToConvert - 1
  /\ \A t \in Tickets : v[t] \in TicketType

BonusTypeOK ==
  /\ RowsOK(db) /\ RowsOK(now)
  /\ lock \in [Rows -> Owners \union {Nobody}]
  /\ job \in [Owners -> JobType]
  /\ log \in Seq(Tickets \union Bonuses)
  /\ verdict \in Verdicts /\ crashes \in 0 .. MaxCrashes

Won(x)    == x \in Tickets /\ verdict[x] = "won"
Resets(x) == x \in Bonuses \/ verdict[x] = "lost"

\* The tickets won in a row up to the i-th of the results s.
InARow(s, i) == Cardinality({j \in 1 .. i : Won(s[j]) /\ \A k \in j .. i : ~ Resets(s[k])})

\* The wins among the results s that complete WinsToConvert in a row.
Conversions(s) ==
  Cardinality({i \in DOMAIN s : Won(s[i]) /\ InARow(s, i) % WinsToConvert = 0})

(* However settlements and bonus credits interleave, the count is the      *)
(* number of bonus tickets won in a row since the last conversion, lost    *)
(* ticket or new bonus, and Winnings received no more than the limit for   *)
(* every WinsToConvert of them (ticket_settled, reset, _convert).          *)
RolloverFollowsResults ==
  /\ db["rollover"] = InARow(log, Len(log)) % WinsToConvert
  /\ db["wallet"].winnings <= MaxConversion * Conversions(log)

(* What was credited, plus what tickets returned, less what they staked,   *)
(* is in the Bonus wallet, was moved to Winnings or was forfeited: a       *)
(* ticket stakes once and returns once, and conversions lose nothing.      *)
MoneyAddsUp ==
  LET w == db["wallet"]
      net == [t \in Tickets |-> db[t].back - db[t].stake]
  IN  w.bonus + w.winnings + w.forfeited
        = SumFunctionOnSet(BonusAmount, w.credited) + SumFunction(net)

(* Transactions never all wait for each other, though a settlement takes   *)
(* the count before the wallet when a lost ticket comes first, and a bonus *)
(* credit or a won ticket takes them the other way round: some transaction *)
(* under way can go on, or waits in a circle that the database will break. *)
NoStandstill ==
  (\E o \in Owners : job[o] # Idle) => \E o \in Owners : MayGoOn(o) \/ InACircle(o)
=============================================================================
