----------------------------- MODULE Withdrawals ----------------------------
(***************************************************************************)
(* apps/wallet/withdrawals.py: requests to be paid out of a wallet, from   *)
(* the player's asking to staff paying or declining, with the fraud engine *)
(* (Risk) holding and releasing them.  Ledger operations are atomic here,  *)
(* as Accounts specifies them and Wallet provides them.                    *)
(*                                                                         *)
(* A decision (cancel, mark_paid, reject) keeps the request's row locked   *)
(* from its first read to its commit, so it is one step.  Asking is not:   *)
(* the limits, the review flag and the funds are read one after the other, *)
(* and the request is invisible to everybody else until the commit.        *)
(* The model covers one day; KYC and turnover are taken as satisfied.      *)
(***************************************************************************)
EXTENDS Risk, Integers, FiniteSets, Functions

CONSTANTS Requests,     \* ids of withdrawal requests
          Legacy,       \* requests from before holds existed
          Amounts,      \* what players ask for
          Opening,      \* each player's wallet at the start of the day
          DailyMax,     \* WithdrawalSettings.daily_max; 0 is no cap
          FeePercent,
          SwingBound    \* bound: how far play moves a wallet

ASSUME WithdrawalsAssumption ==
  /\ IsFiniteSet(Requests) /\ Legacy \subseteq Requests
  /\ Amounts \subseteq Nat \ {0}
  /\ Opening \in Nat /\ DailyMax \in Nat /\ FeePercent \in 0 .. 100

Kinds == {"hold", "return", "paid", "fee", "legacy-return"}
Decided == {"paid", "rejected", "cancelled"}

VARIABLES
  status,    \* "asked" and "reviewed" are requests no transaction committed yet
  owner,
  amount,
  held,      \* risk_hold
  posted,    \* the ledger entries of requests
  funds,     \* the wallet the requests are paid from
  played     \* what bets have added to or taken from it

requestVars == <<status, owner, amount, held, posted, funds, played>>
vars == <<underReview, frozen, bonusBlocked, suspended, case,
          status, owner, amount, held, posted, funds, played>>

Init ==
  /\ RiskInit
  /\ status = [r \in Requests |-> IF r \in Legacy THEN "requested" ELSE "new"]
  /\ owner \in [Requests -> Players]
  /\ amount \in [Requests -> Amounts]
  /\ held = [r \in Requests |-> FALSE]
  /\ posted = {}
  /\ funds = [p \in Players |-> Opening]
  /\ played = [p \in Players |-> 0]

-----------------------------------------------------------------------------
\* fee_for: a percentage, rounded half to even like Decimal.quantize.
FeeFor(a) ==
  LET part == a * FeePercent
      whole == part \div 100
      rest == part % 100
  IN  IF rest > 50 \/ (rest = 50 /\ whole % 2 = 1) THEN whole + 1 ELSE whole

\* requested_today: what others can see of p's requests, less those undone.
RequestedToday(p) ==
  SumFunctionOnSet(amount,
    {r \in Requests \ Legacy : owner[r] = p /\ status[r] \in {"requested", "paid"}})

EntryOf(r, kind, value) == [req |-> r, kind |-> kind, value |-> value]

\* One request's entries; a key (request and kind) posted before is skipped.
Post(r, entries) ==
  LET fresh == {e \in entries : \A old \in posted : <<old.req, old.kind>> # <<e.req, e.kind>>}
  IN  /\ posted' = posted \cup fresh
      /\ funds' = [funds EXCEPT ![owner[r]] = @ + SumFunction([e \in fresh |-> e.value])]

Hold(r) == EntryOf(r, "hold", -amount[r])
ReturnHold(r) == EntryOf(r, "return", amount[r])

\* _give_back: the money goes back, by the way it was taken.
GiveBack(r) ==
  IF r \in Legacy THEN {EntryOf(r, "legacy-return", amount[r])} ELSE {ReturnHold(r)}

\* Faulty variant: the fee is taken besides the amount, not out of it.
PayWithFeeOnTop(r) ==
  LET fee == FeeFor(amount[r])
  IN  IF r \in Legacy THEN {}
      ELSE {ReturnHold(r), EntryOf(r, "paid", -amount[r])}
           \cup (IF fee > 0 THEN {EntryOf(r, "fee", -fee)} ELSE {})

\* mark_paid: the hold is released, and the payout and the fee are posted.
PayEntries(r) ==
  LET fee == FeeFor(amount[r])
  IN  IF r \in Legacy THEN {}
      ELSE {ReturnHold(r), EntryOf(r, "paid", fee - amount[r])}
           \cup (IF fee > 0 THEN {EntryOf(r, "fee", -fee)} ELSE {})

\* _hold_pending_withdrawals, over the requests the transaction can see.
HoldPending(p, visible) ==
  [r \in Requests |-> held[r] \/ (r \in visible /\ owner[r] = p)]

Pending == {r \in Requests : status[r] = "requested"}

-----------------------------------------------------------------------------
\* request, as far as the limits: all read before the wallet is locked.
Ask(r) ==
  LET p == owner[r]
  IN  /\ status[r] = "new"
      /\ ~Blocked(p)
      /\ DailyMax # 0 => RequestedToday(p) + amount[r] <= DailyMax
      /\ amount[r] <= funds[p]
      /\ status' = [status EXCEPT ![r] = "asked"]
      /\ UNCHANGED <<owner, amount, held, posted, funds, played>>
      /\ UNCHANGED riskVars

\* needs_review, stored with the request that is about to be created.
Review(r) ==
  /\ status[r] = "asked"
  /\ held' = [held EXCEPT ![r] = underReview[owner[r]]]
  /\ status' = [status EXCEPT ![r] = "reviewed"]
  /\ UNCHANGED <<owner, amount, posted, funds, played>>
  /\ UNCHANGED riskVars

\* The hold is debited under the wallet's lock, and the detectors look at the
\* request before it is committed.
Submit(r, finding) ==
  LET p == owner[r]
  IN  /\ status[r] = "reviewed"
      /\ amount[r] <= funds[p]
      /\ status' = [status EXCEPT ![r] = "requested"]
      /\ Post(r, {Hold(r)})
      /\ Act(p, finding)
      /\ held' = IF finding = "suspend" THEN HoldPending(p, Pending \cup {r}) ELSE held
      /\ UNCHANGED <<owner, amount, played>>

\* The funds are gone by now, or the process died: nothing is left of it.
Abandon(r) ==
  /\ status[r] \in {"asked", "reviewed"}
  /\ status' = [status EXCEPT ![r] = "new"]
  /\ held' = [held EXCEPT ![r] = FALSE]
  /\ UNCHANGED <<owner, amount, posted, funds, played>>
  /\ UNCHANGED riskVars

\* Faulty variant: whoever comes last decides.
SettleAgain(r, outcome, entries) ==
  /\ status[r] \in Decided \cup {"requested"}
  /\ Post(r, entries)
  /\ status' = [status EXCEPT ![r] = outcome]
  /\ UNCHANGED <<owner, amount, held, played>>
  /\ UNCHANGED riskVars

Settle(r, outcome, entries) ==
  /\ status[r] = "requested"
  /\ Post(r, entries)
  /\ status' = [status EXCEPT ![r] = outcome]
  /\ UNCHANGED <<owner, amount, held, played>>
  /\ UNCHANGED riskVars

Cancel(r) == Settle(r, "cancelled", GiveBack(r))
Reject(r) == Settle(r, "rejected", GiveBack(r))

\* Faulty variant: risk_hold is not looked at.
MarkPaidThoughHeld(r) == Settle(r, "paid", PayEntries(r))

MarkPaid(r) ==
  /\ ~held[r]
  /\ Settle(r, "paid", PayEntries(r))

-----------------------------------------------------------------------------
\* Faulty variant: the freeze leaves pending requests alone.
FlagOnly(p, finding) ==
  /\ Act(p, finding)
  /\ UNCHANGED requestVars

\* A detector's finding: at a deposit, a bet, a sign-up or in the sweep.
Flag(p, finding) ==
  /\ Act(p, finding)
  /\ held' = IF finding = "suspend" THEN HoldPending(p, Pending) ELSE held
  /\ UNCHANGED <<status, owner, amount, posted, funds, played>>

Dismiss(p) ==
  /\ Lift(p)
  /\ held' = [r \in Requests |-> held[r] /\ ~(owner[r] = p /\ status[r] \in Decided \cup {"requested"})]
  /\ UNCHANGED <<status, owner, amount, posted, funds, played>>

Confirm(p) == Uphold(p) /\ UNCHANGED requestVars

Freeze(p, freeze) ==
  /\ SetRestrictions(p, freeze, bonusBlocked[p])
  /\ held' = IF freeze THEN HoldPending(p, Pending) ELSE held
  /\ UNCHANGED <<status, owner, amount, posted, funds, played>>

StaffSuspend(p, how) == SetSuspended(p, how) /\ UNCHANGED requestVars

\* Bets are staked from, and pay into, the same wallet.
Play(p, by) ==
  /\ played[p] + by \in -SwingBound .. SwingBound
  /\ funds[p] + by >= 0
  /\ funds' = [funds EXCEPT ![p] = @ + by]
  /\ played' = [played EXCEPT ![p] = @ + by]
  /\ UNCHANGED <<status, owner, amount, held, posted>>
  /\ UNCHANGED riskVars

Next ==
  \/ \E r \in Requests :
       \/ Ask(r) \/ Review(r) \/ Abandon(r)
       \/ \E finding \in Findings : Submit(r, finding)
       \/ Cancel(r) \/ Reject(r) \/ MarkPaid(r)
  \/ \E p \in Players :
       \/ \E finding \in Findings \ {"low"} : Flag(p, finding)
       \/ Dismiss(p) \/ Confirm(p)
       \/ \E freeze \in BOOLEAN : Freeze(p, freeze)
       \/ \E how \in {"no", "staff"} : StaffSuspend(p, how)
       \/ \E by \in {-1, 1} : Play(p, by)

Spec == Init /\ [][Next]_vars

-----------------------------------------------------------------------------
TypeOK ==
  /\ RiskTypeOK
  /\ status \in [Requests -> {"new", "asked", "reviewed", "requested"} \cup Decided]
  /\ owner \in [Requests -> Players]
  /\ amount \in [Requests -> Amounts]
  /\ held \in [Requests -> BOOLEAN]
  /\ posted \subseteq [req : Requests, kind : Kinds, value : Int]
  /\ funds \in [Players -> Int]
  /\ played \in [Players -> Int]

\* What a request in a given state is to have in the ledger, all told.
Expected(r) ==
  CASE status[r] \in {"new", "asked", "reviewed"} -> {}
    [] status[r] = "requested" -> IF r \in Legacy THEN {} ELSE {Hold(r)}
    [] status[r] = "paid" -> IF r \in Legacy THEN {} ELSE {Hold(r)} \cup PayEntries(r)
    [] status[r] \in {"rejected", "cancelled"} ->
         IF r \in Legacy THEN GiveBack(r) ELSE {Hold(r)} \cup GiveBack(r)

(* The ledger has for each request exactly the entries its status calls    *)
(* for: a hold while it waits; the hold, its return, the payout and the    *)
(* fee when it is paid; the hold and its return when it is not.  Whoever   *)
(* decides it, and however often they try.                                 *)
LedgerMatchesStatus ==
  \A r \in Requests : {e \in posted : e.req = r} = Expected(r)

\* What a request in a given state has done to its owner's wallet, all told.
Share(r) ==
  CASE r \notin Legacy /\ status[r] \in {"requested", "paid"} -> -amount[r]
    [] r \in Legacy /\ status[r] \in {"rejected", "cancelled"} -> amount[r]
    [] OTHER -> 0

(* No money is made or lost between the wallet and the requests: a wallet  *)
(* has what it opened with, what play added, less what its requests hold   *)
(* or have paid out, plus what came back of requests older than holds.     *)
(* However the fee is rounded, it comes out of the amount.                 *)
WalletAddsUp ==
  \A p \in Players :
    funds[p] = Opening + played[p]
               + SumFunctionOnSet([r \in Requests |-> Share(r)], {r \in Requests : owner[r] = p})

(* Play and requests that compete for the same money never overdraw it.    *)
FundsNeverNegative == \A p \in Players : funds[p] >= 0

(* A request is decided once: paid, declined and taken back exclude each   *)
(* other, and nothing is posted for it afterwards.                         *)
DecidedOnce ==
  [][\A r \in Requests :
       status[r] \in Decided =>
         /\ status'[r] = status[r]
         /\ {e \in posted' : e.req = r} = {e \in posted : e.req = r}]_vars

(* A held request is not paid, and only the dismissal of the player's case *)
(* lets go of it: not the player, not staff, not an unfreeze.              *)
OnlyADismissalReleases ==
  [][\A r \in Requests :
       held[r] /\ status[r] = "requested" =>
         /\ status'[r] # "paid"
         /\ held'[r] \/ (case[owner[r]] # "none" /\ ~underReview'[owner[r]])]_vars

(* A freeze reaches every request that was waiting when it happened.       *)
FreezeReachesPending ==
  [][\A r \in Pending :
       ~frozen[owner[r]] /\ frozen'[owner[r]] => held'[r]]_vars

(* daily_max: "Most one player may request in a day".  Not kept when two   *)
(* requests are made at the same time.                                     *)
DailyCapKept ==
  \A p \in Players : DailyMax # 0 => RequestedToday(p) <= DailyMax

(* risk/services.py: when an account is suspended automatically,           *)
(* "withdrawals are frozen (and pending ones held)".  Not kept for a       *)
(* request that is being made at that moment.                              *)
FrozenMeansHeld ==
  \A r \in Pending : suspended[owner[r]] = "auto" /\ frozen[owner[r]] => held[r]
=============================================================================
