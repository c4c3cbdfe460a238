------------------------------ MODULE Tickets ------------------------------
(***************************************************************************)
(* Sportsbook tickets (apps/sportsbook/services.py and cashout.py): single *)
(* bets and multiples are placed, accepted in play, cashed out and settled *)
(* by database transactions that run at the same time.                     *)
(*                                                                         *)
(* The database is Postgres at READ COMMITTED.  A row is a committed value *)
(* (db), the value its lock holder has written so far (now) and the holder *)
(* (lock).  A transaction reads its own writes and what others committed,  *)
(* waits for a row that another holds, and keeps its locks until it ends.  *)
(***************************************************************************)
EXTENDS Naturals, FiniteSets

CONSTANTS
  Events,        \* matches
  Picks,         \* what can be backed: a 1X2 selection or an outcome of a market
  EventOf,       \* [Picks -> Events]
  Main,          \* the picks that are 1X2 selections; the others are market outcomes
  TradedInPlay,  \* the picks the feed keeps trading after kick-off
  Abandoned,     \* matches that may be cancelled, or that the feed may fall silent on
  Late,          \* those of them whose full time the feed may report all the same
  Hasty,         \* matches at which an operator may settle at any time, and by any result
  Tickets,
  LegsOf,        \* [Tickets -> SUBSET Picks]; one pick: a Bet, more: a BetSlip
  Workers,       \* the Celery workers that settle
  Desk,          \* the operators' requests that settle
  Facts,         \* what the match facts may turn out to say of the picks
  MaxCrashes,    \* bound on the transactions a crash rolls back
  Mortal,        \* bound: whose transactions those are
  Nobody

ASSUME TicketsAssumption ==
  /\ EventOf \in [Picks -> Events] /\ Main \subseteq Picks
  /\ TradedInPlay \subseteq Picks /\ Abandoned \subseteq Events /\ Late \subseteq Abandoned
  /\ Hasty \subseteq Events
  /\ LegsOf \in [Tickets -> (SUBSET Picks) \ {{}}]
  \* a multiple takes one selection per match
  /\ \A t \in Tickets : \A p, q \in LegsOf[t] : EventOf[p] = EventOf[q] => p = q
  /\ Facts \subseteq [Picks -> {"won", "lost", "unknown"}]
  /\ \A f \in Facts : \A p \in Main : f[p] # "unknown"
  /\ MaxCrashes \in Nat /\ Mortal \subseteq Tickets \union Workers \union Desk
  /\ Tickets \intersect (Workers \union Desk) = {} /\ Workers \intersect Desk = {}
  /\ Nobody \notin Tickets \union Workers \union Desk

Settlers == Workers \union Desk

Bets    == {t \in Tickets : Cardinality(LegsOf[t]) = 1}
Slips   == Tickets \ Bets
Markets == Picks \ Main

Results  == {"won", "lost", "void"}
Live     == {"ACCEPTING", "OPEN"}
Settled  == {"WON", "LOST", "VOID", "REJECTED", "CASHED_OUT"}
Returns  == {"payout", "refund", "cashout"}

TicketRow(t) == <<"ticket", t>>
LegRow(t, p) == <<"leg", t, p>>
PickRow(p)   == <<"outcome", p>>
EventRow(e)  == <<"event", e>>

TicketRows == {TicketRow(t) : t \in Tickets}
LegRows    == UNION {{LegRow(t, p) : p \in LegsOf[t]} : t \in Slips}
PickRows   == {PickRow(p) : p \in Markets}
EventRows  == {EventRow(e) : e \in Events}
Rows       == TicketRows \union LegRows \union PickRows \union EventRows

VARIABLES
  db,      \* the committed value of every row
  now,     \* what the row's lock holder has made of it (db, when it is not held)
  lock,    \* who holds the row
  plan,    \* what the transaction on a ticket has decided to make of it
  job,     \* the settlement each settler is running
  truth,   \* what the match facts say of each pick, "unknown" if they do not
  crashes

vars == <<db, now, lock, plan, job, truth, crashes>>

Idle == [stage |-> "idle"]

Init ==
  /\ db = [r \in Rows |-> CASE r \in TicketRows -> [status |-> "none", entries |-> {}]
                            [] r \in EventRows -> "prematch"
                            [] OTHER -> "pending"]
  /\ now = db
  /\ lock = [r \in Rows |-> Nobody]
  /\ plan = [t \in Tickets |-> "none"]
  /\ job = [s \in Settlers |-> Idle]
  /\ truth \in Facts
  /\ crashes = 0

-----------------------------------------------------------------------------
\* Rows, as the transaction of w sees and locks them.

View(w, r) == IF lock[r] = w THEN now[r] ELSE db[r]
Free(w, r) == lock[r] \in {w, Nobody}
Held(w)    == {r \in Rows : lock[r] = w}

Take(w, R) == lock' = [r \in Rows |-> IF r \in R THEN w ELSE lock[r]]
Write(w, r, v) == Take(w, {r}) /\ now' = [now EXCEPT ![r] = v]
Drop(w)    == lock' = [r \in Rows |-> IF lock[r] = w THEN Nobody ELSE lock[r]]

\* End the transaction of w, whose rows now have the values in n.
Publish(w, n) ==
  /\ now' = n
  /\ db' = [r \in Rows |-> IF lock[r] = w THEN n[r] ELSE db[r]]
  /\ Drop(w)

Rollback(w) ==
  /\ now' = [r \in Rows |-> IF lock[r] = w THEN db[r] ELSE now[r]]
  /\ Drop(w)
  /\ UNCHANGED db

StatusSeen(w, t) == View(w, TicketRow(t)).status
LegSeen(w, t, p) == View(w, LegRow(t, p))

-----------------------------------------------------------------------------
\* Placing, confirming and cashing out.  The transaction on ticket t is named t.

\* A price can be had for the pick: before kick-off, or in play while it is traded.
Trading(w, p) ==
  /\ \/ View(w, EventRow(EventOf[p])) = "prematch"
     \/ View(w, EventRow(EventOf[p])) = "live" /\ p \in TradedInPlay
  /\ p \in Markets => View(w, PickRow(p)) = "pending"

\* place_bet, place_accumulator: a market outcome is checked with its row and its
\* match's row locked (select_related under FOR UPDATE), a 1X2 pick without a lock.
PlaceRows(t) ==
  {TicketRow(t)} \union {PickRow(p) : p \in LegsOf[t] \ Main} \union {EventRow(EventOf[p]) : p \in LegsOf[t] \ Main}

Place(t) ==
  /\ plan[t] = "none" /\ db[TicketRow(t)].status = "none"
  /\ \A r \in PlaceRows(t) : Free(t, r)
  /\ \A p \in LegsOf[t] : Trading(t, p)
  /\ plan' = [plan EXCEPT ![t] =
       IF \E p \in LegsOf[t] : db[EventRow(EventOf[p])] = "live" THEN "ACCEPTING" ELSE "OPEN"]
  /\ Take(t, PlaceRows(t))
  /\ UNCHANGED <<db, now, job, truth, crashes>>

\* confirm_live_bet: the ticket is locked, the match and the outcome are only read.
\* A goal, a moved price or a feed that stays silent may reject any ticket.
Stands(t) ==
  \A p \in LegsOf[t] : db[EventRow(EventOf[p])] = "prematch" \/ Trading(t, p)

Confirm(t) ==
  /\ plan[t] = "none" /\ Free(t, TicketRow(t))
  /\ db[TicketRow(t)].status = "ACCEPTING"
  /\ \/ Stands(t) /\ plan' = [plan EXCEPT ![t] = "OPEN"]
     \/ plan' = [plan EXCEPT ![t] = "REJECTED"]
  /\ Take(t, {TicketRow(t)})
  /\ UNCHANGED <<db, now, job, truth, crashes>>

\* Faulty: lost legs are not looked for.
OfferedOnAnyLeg(t) ==
  /\ t \in Slips => \E p \in LegsOf[t] : LegSeen(t, t, p) = "pending"
  /\ \A p \in LegsOf[t] : (t \in Slips => LegSeen(t, t, p) = "pending") => Trading(t, p)

\* bet_offer, slip_offer: no leg lost, some leg undecided, every undecided leg trading.
Offered(t) ==
  IF t \in Bets
  THEN \A p \in LegsOf[t] : Trading(t, p)
  ELSE /\ \A p \in LegsOf[t] : LegSeen(t, t, p) # "lost"
       /\ \E p \in LegsOf[t] : LegSeen(t, t, p) = "pending"
       /\ \A p \in LegsOf[t] : LegSeen(t, t, p) = "pending" => Trading(t, p)

\* cash_out: full, or part of the stake with the rest still riding.
CashOut(t) ==
  /\ plan[t] = "none" /\ Free(t, TicketRow(t))
  /\ db[TicketRow(t)].status = "OPEN" /\ Offered(t)
  /\ \E how \in {"CASHED_OUT", "PART"} : plan' = [plan EXCEPT ![t] = how]
  /\ Take(t, {TicketRow(t)})
  /\ UNCHANGED <<db, now, job, truth, crashes>>

\* The ticket after its transaction: its status and its ledger entries, together.
Made(t) ==
  LET row == db[TicketRow(t)]
      with(s, k) == [status |-> s, entries |-> row.entries \union k]
  IN CASE row.status = "none"      -> with(plan[t], {"stake"})
       [] plan[t] = "OPEN"         -> with("OPEN", {})
       [] plan[t] = "REJECTED"     -> with("REJECTED", {"refund"})
       [] plan[t] = "CASHED_OUT"   -> with("CASHED_OUT", {"cashout"})
       [] plan[t] = "PART"         -> row  \* less stake, and an entry with a key of its own

Finish(t) ==
  /\ plan[t] # "none"
  /\ Publish(t, [now EXCEPT ![TicketRow(t)] = Made(t)])
  /\ plan' = [plan EXCEPT ![t] = "none"]
  /\ UNCHANGED <<job, truth, crashes>>

-----------------------------------------------------------------------------
\* The matches, as the feed reports them (sync_fixture with the match's row locked).

KickOff(e) ==
  /\ db[EventRow(e)] = "prematch" /\ lock[EventRow(e)] = Nobody
  /\ db' = [db EXCEPT ![EventRow(e)] = "live"]
  /\ now' = [now EXCEPT ![EventRow(e)] = "live"]
  /\ UNCHANGED <<lock, plan, job, truth, crashes>>

\* Cancelled, abandoned, or without a word from the feed for so long that it is voided.
GoSilent(e) ==
  /\ e \in Abandoned /\ lock[EventRow(e)] = Nobody
  /\ db[EventRow(e)] \in {"prematch", "live"}
  /\ db' = [db EXCEPT ![EventRow(e)] = "silent"]
  /\ now' = [now EXCEPT ![EventRow(e)] = "silent"]
  /\ UNCHANGED <<lock, plan, job, truth, crashes>>

-----------------------------------------------------------------------------
\* Settlements.

PicksOf(e)   == {p \in Picks : EventOf[p] = e}
MarketsOf(e) == PicksOf(e) \ Main
Placed(t)    == db[TicketRow(t)].status # "none"

\* Faulty: multiples do not count.
OpenBetsOn(e) ==
  \/ \E p \in MarketsOf(e) : db[PickRow(p)] = "pending"
  \/ \E t \in Bets : db[TicketRow(t)].status = "OPEN" /\ LegsOf[t] \subseteq PicksOf(e)

\* What makes a match worth another settlement (auto_resolve_markets).
OpenStuff(e) ==
  \/ \E p \in MarketsOf(e) : db[PickRow(p)] = "pending"
  \/ \E t \in Bets : db[TicketRow(t)].status = "OPEN" /\ LegsOf[t] \subseteq PicksOf(e)
  \/ \E t \in Slips : Placed(t) /\ \E p \in LegsOf[t] \intersect PicksOf(e) : db[LegRow(t, p)] = "pending"

\* A settlement goes through units: the 1X2 of the match (settle_event), then
\* each of its markets (_settle_market).  says gives the results it applies.
Job(e, says, unit, markets) ==
  [stage |-> IF unit = {} THEN "legs" ELSE "unit", event |-> e, says |-> says, unit |-> unit,
   markets |-> markets /\ MarketsOf(e) # {}, left |-> {}, todo |-> {}, touched |-> {}]

Start(s, j) == job' = [job EXCEPT ![s] = j]

\* sync_fixture and settle_event_from_score: full time is saved and everything the
\* facts decide is settled in one transaction, the facts of markets perhaps later.
FullTime(s, e) ==
  /\ job[s] = Idle /\ Free(s, EventRow(e))
  /\ db[EventRow(e)] = "FT" => OpenStuff(e)
  /\ db[EventRow(e)] = "silent" => e \in Late
  /\ \E published \in BOOLEAN :
       Start(s, Job(e, [p \in PicksOf(e) |-> IF p \in Main \/ published THEN truth[p] ELSE "unknown"],
                    Main \intersect PicksOf(e), TRUE))
  /\ Write(s, EventRow(e), "FT")
  /\ UNCHANGED <<db, plan, truth, crashes>>

\* What is to be made of a pick, by how its match has ended.
Says(status, p) == IF status = "silent" \/ truth[p] = "unknown" THEN "void" ELSE truth[p]

\* _auto_resolve_event: what the facts cannot decide is void.
AutoResolve(s, e) ==
  /\ job[s] = Idle /\ db[EventRow(e)] = "FT" /\ OpenStuff(e)
  /\ Start(s, Job(e, [p \in PicksOf(e) |-> IF truth[p] = "unknown" THEN "void" ELSE truth[p]],
                  Main \intersect PicksOf(e), TRUE))
  /\ UNCHANGED <<db, now, lock, plan, truth, crashes>>

\* settle_event(void) of a match that is not going to finish.
VoidMatch(s, e) ==
  /\ job[s] = Idle /\ db[EventRow(e)] = "silent" /\ OpenStuff(e)
  /\ Start(s, Job(e, [p \in PicksOf(e) |-> "void"], Main \intersect PicksOf(e), TRUE))
  /\ UNCHANGED <<db, now, lock, plan, truth, crashes>>

\* What an operator rules on: a market outcome, or the 1X2 and, if it is void, the markets.
Ruled(e, unit, void) == IF void /\ unit \subseteq Main THEN PicksOf(e) ELSE unit

Verdict(e, unit, winners, void) ==
  [p \in PicksOf(e) |-> IF p \notin Ruled(e, unit, void) THEN "unknown"
                       ELSE IF void THEN "void" ELSE IF p \in winners THEN "won" ELSE "lost"]

\* settle_event and settle_market_manually, from the operator's desk: at most one pick of
\* the unit wins and the others lose, or it is void.  The code asks for no more.  Except at
\* a Hasty match, the operator waits until it is over, settles while something is left to
\* settle, and goes by the facts.
ByHand(s, e) ==
  /\ job[s] = Idle
  /\ \E unit \in {Main \intersect PicksOf(e)} \union {{p} : p \in MarketsOf(e)} :
       \E winners \in SUBSET unit, void \in BOOLEAN :
         LET says == Verdict(e, unit, winners, void)
         IN /\ unit # {} \/ void
            /\ \A p, q \in winners : p = q
            /\ e \notin Hasty =>
                 /\ db[EventRow(e)] \in {"FT", "silent"} /\ OpenStuff(e)
                 /\ \A p \in Ruled(e, unit, void) : says[p] = Says(db[EventRow(e)], p)
            /\ Start(s, Job(e, says, unit, Ruled(e, unit, void) # unit))
  /\ UNCHANGED <<db, now, lock, plan, truth, crashes>>

\* The result of a market outcome is saved if it changes; then the open bets are listed.
OpenBets(s, unit) == {t \in Bets : StatusSeen(s, t) = "OPEN" /\ LegsOf[t] \subseteq unit}

ListBets(s) ==
  /\ job[s].stage = "unit"
  /\ LET j == job[s]
         changed == {p \in j.unit \ Main : View(s, PickRow(p)) # j.says[p]}
     IN /\ \A p \in changed : Free(s, PickRow(p))
        /\ now' = [r \in Rows |-> IF \E p \in changed : r = PickRow(p)
                                  THEN j.says[r[2]] ELSE now[r]]
        /\ Take(s, {PickRow(p) : p \in changed})
        /\ Start(s, [j EXCEPT !.stage = "bets", !.todo = OpenBets(s, j.unit)])
  /\ UNCHANGED <<db, plan, truth, crashes>>

\* Faulty: the status is not looked at again.
BetAfterAnyway(row, result) ==
  [status |-> IF result = "won" THEN "WON" ELSE "LOST",
   entries |-> row.entries \union (IF result = "won" THEN {"payout"} ELSE {})]

\* settle_bet: the row is locked and its status looked at again.
BetAfter(row, result) ==
  IF row.status # "OPEN" THEN row
  ELSE CASE result = "won"  -> [status |-> "WON",  entries |-> row.entries \union {"payout"}]
         [] result = "void" -> [status |-> "VOID", entries |-> row.entries \union {"refund"}]
         [] OTHER           -> [status |-> "LOST", entries |-> row.entries]

SettleBet(s, t) ==
  /\ job[s].stage = "bets" /\ t \in job[s].todo /\ Free(s, TicketRow(t))
  /\ \E p \in LegsOf[t] : Write(s, TicketRow(t), BetAfter(View(s, TicketRow(t)), job[s].says[p]))
  /\ job' = [job EXCEPT ![s].todo = @ \ {t}]
  /\ UNCHANGED <<db, plan, truth, crashes>>

\* The undecided legs on the unit: of open slips for the 1X2, of any slip for a market.
PendingLegs(s, unit) ==
  {l \in UNION {{<<t, p>> : p \in LegsOf[t] \intersect unit} : t \in Slips} :
     /\ StatusSeen(s, l[1]) # "none" /\ LegSeen(s, l[1], l[2]) = "pending"
     /\ l[2] \in Main => StatusSeen(s, l[1]) = "OPEN"}

ListLegs(s) ==
  /\ job[s].stage = "bets" /\ job[s].todo = {}
  /\ Start(s, [job[s] EXCEPT !.stage = "legs", !.todo = PendingLegs(s, job[s].unit)])
  /\ UNCHANGED <<db, now, lock, plan, truth, crashes>>

\* leg.save writes what was listed, whatever the leg has become meanwhile.
SaveLeg(s, l) ==
  /\ job[s].stage = "legs" /\ l \in job[s].todo /\ Free(s, LegRow(l[1], l[2]))
  /\ Write(s, LegRow(l[1], l[2]), job[s].says[l[2]])
  /\ job' = [job EXCEPT ![s].todo = @ \ {l}, ![s].touched = @ \union {l[1]}]
  /\ UNCHANGED <<db, plan, truth, crashes>>

\* Faulty: does not wait for the undecided legs.
SlipAfterAtOnce(row, results) ==
  IF row.status # "OPEN" THEN row
  ELSE IF "lost" \in results THEN [status |-> "LOST", entries |-> row.entries]
  ELSE [status |-> "WON", entries |-> row.entries \union {"payout"}]

\* _settle_slip_if_ready.
SlipAfter(row, results) ==
  IF row.status # "OPEN" \/ "pending" \in results THEN row
  ELSE IF "lost" \in results THEN [status |-> "LOST", entries |-> row.entries]
  ELSE [status |-> "WON", entries |-> row.entries \union {"payout"}]

\* Faulty: a multiple that is not ready is only read, not locked.
SettleSlipOnceReady(s, t) ==
  /\ job[s].stage = "legs" /\ job[s].todo = {} /\ t \in job[s].touched
  /\ LET after == SlipAfter(View(s, TicketRow(t)), {LegSeen(s, t, p) : p \in LegsOf[t]})
     IN IF after = View(s, TicketRow(t)) THEN UNCHANGED <<now, lock>>
        ELSE Free(s, TicketRow(t)) /\ Write(s, TicketRow(t), after)
  /\ job' = [job EXCEPT ![s].touched = @ \ {t}]
  /\ UNCHANGED <<db, plan, truth, crashes>>

SettleSlip(s, t) ==
  /\ job[s].stage = "legs" /\ job[s].todo = {} /\ t \in job[s].touched /\ Free(s, TicketRow(t))
  /\ Write(s, TicketRow(t), SlipAfter(View(s, TicketRow(t)), {LegSeen(s, t, p) : p \in LegsOf[t]}))
  /\ job' = [job EXCEPT ![s].touched = @ \ {t}]
  /\ UNCHANGED <<db, plan, truth, crashes>>

UnitDone(s) == job[s].stage = "legs" /\ job[s].todo = {} /\ job[s].touched = {}

\* After the 1X2: the markets that are not settled and that the facts decide.
Undecided(s, j) ==
  IF j.markets THEN {p \in MarketsOf(j.event) : View(s, PickRow(p)) = "pending" /\ j.says[p] # "unknown"}
  ELSE j.left

NextUnit(s) ==
  /\ UnitDone(s)
  /\ \E p \in Undecided(s, job[s]) :
       Start(s, [job[s] EXCEPT !.stage = "unit", !.unit = {p}, !.markets = FALSE,
                               !.left = Undecided(s, job[s]) \ {p}])
  /\ UNCHANGED <<db, now, lock, plan, truth, crashes>>

Commit(s) ==
  /\ UnitDone(s) /\ Undecided(s, job[s]) = {}
  /\ Publish(s, now)
  /\ Start(s, Idle)
  /\ UNCHANGED <<plan, truth, crashes>>

\* A process dies, or its transaction fails: no funds, a statement that errs, a deadlock
\* that Postgres ends.
Crash(w) ==
  /\ crashes < MaxCrashes
  /\ \/ w \in Settlers /\ job[w] # Idle /\ Start(w, Idle) /\ UNCHANGED plan
     \/ w \in Tickets /\ plan[w] # "none" /\ plan' = [plan EXCEPT ![w] = "none"] /\ UNCHANGED job
  /\ Rollback(w)
  /\ crashes' = crashes + 1
  /\ UNCHANGED truth

-----------------------------------------------------------------------------
OnTicket(t) == Place(t) \/ Confirm(t) \/ CashOut(t) \/ Finish(t)

Work(s) ==
  \/ ListBets(s) \/ ListLegs(s) \/ NextUnit(s) \/ Commit(s)
  \/ \E t \in Tickets : SettleBet(s, t) \/ SettleSlip(s, t)
  \/ \E t \in Slips : \E p \in LegsOf[t] : SaveLeg(s, <<t, p>>)

Settle(s) ==
  \/ s \in Workers /\ \E e \in Events : FullTime(s, e) \/ AutoResolve(s, e) \/ VoidMatch(s, e)
  \/ s \in Desk /\ \E e \in Events : ByHand(s, e)
  \/ Work(s)

Next ==
  \/ \E t \in Tickets : OnTicket(t)
  \/ \E s \in Settlers : Settle(s)
  \/ \E e \in Events : KickOff(e) \/ GoSilent(e)
  \/ \E w \in Mortal : Crash(w)

Spec == Init /\ [][Next]_vars

\* A transaction that has begun runs on; the sweep (sync_live_odds) confirms every
\* ticket that waits to be accepted; the beat queues auto_resolve_markets every ten
\* minutes, and the workers take tasks in turn, so that it is not passed over for ever.
\* (Each of these steps changes what its subscript names.)
Backstop(e) == \E s \in Workers : AutoResolve(s, e) \/ VoidMatch(s, e)

FairSpec ==
  /\ Spec
  /\ \A s \in Settlers : WF_<<job[s]>>(Work(s))
  /\ \A t \in Tickets : WF_<<plan[t]>>(Confirm(t)) /\ WF_<<plan[t]>>(Finish(t))
  /\ \A e \in Events : SF_job(Backstop(e))

-----------------------------------------------------------------------------
TicketRecord == [status : {"none"} \union Live \union Settled,
                 entries : SUBSET ({"stake"} \union Returns)]

\* The rows hold what their columns allow, and a row nobody holds is committed.
TypeOK ==
  /\ \A t \in Tickets : {db[TicketRow(t)], now[TicketRow(t)]} \subseteq TicketRecord
  /\ \A r \in LegRows \union PickRows : {db[r], now[r]} \subseteq {"pending"} \union Results
  /\ \A r \in EventRows : {db[r], now[r]} \subseteq {"prematch", "live", "FT", "silent"}
  /\ lock \in [Rows -> Tickets \union Settlers \union {Nobody}]
  /\ \A r \in Rows : lock[r] = Nobody => now[r] = db[r]
  /\ plan \in [Tickets -> {"none", "PART", "CASHED_OUT", "REJECTED"} \union Live]
  /\ \A s \in Settlers : job[s].stage \in {"idle", "unit", "bets", "legs"}
  /\ crashes \in 0..MaxCrashes

Row(t) == db[TicketRow(t)]

\* Money goes back for a ticket at most once, and as its status says (settle_bet,
\* _settle_slip_if_ready, _reject_accepting and cash_out, in any order).
ReturnedOnce ==
  \A t \in Tickets : Row(t).entries \intersect Returns =
    CASE Row(t).status = "WON"                  -> {"payout"}
      [] Row(t).status \in {"VOID", "REJECTED"} -> {"refund"}
      [] Row(t).status = "CASHED_OUT"           -> {"cashout"}
      [] OTHER                                  -> {}

\* A multiple is won or lost as all of its legs say (_settle_slip_if_ready).
SlipFollowsLegs ==
  \A t \in Slips :
    LET results == {db[LegRow(t, p)] : p \in LegsOf[t]}
    IN /\ Row(t).status = "WON" => results \intersect {"pending", "lost"} = {}
       /\ Row(t).status = "LOST" => "lost" \in results /\ "pending" \notin results

\* Two settlements that each decide one leg of a multiple do not both leave it to the
\* other: with no settlement running, no open multiple has all its legs decided.
NothingLeftBehind ==
  (\A s \in Settlers : job[s] = Idle) =>
    \A t \in Slips : Row(t).status = "OPEN" => \E p \in LegsOf[t] : db[LegRow(t, p)] = "pending"

\* A ticket that is settled, rejected or cashed out stays as it is.
SettledIsFinal ==
  [][\A t \in Tickets : Row(t).status \in Settled => Row(t)' = Row(t)]_vars

\* A multiple is never cashed out with a leg that is known to be lost: from the offer
\* (slip_offer) to the payment, no settlement makes one of its legs lost.
NoCashOutOfALostLeg ==
  \A t \in Slips : plan[t] \in {"PART", "CASHED_OUT"} => \A p \in LegsOf[t] : db[LegRow(t, p)] # "lost"

\* "every market on every finished match ends up settled, and nothing waits on an
\* operator forever" (auto_resolve_markets): a ticket whose matches have all ended is settled.
Due(t) == Row(t).status \in Live /\ \A p \in LegsOf[t] : db[EventRow(EventOf[p])] \in {"FT", "silent"}

\* The exception: acceptance read match and outcome before full time and commits after the
\* markets were settled, which passed the ticket over; no settlement looks at it again.
AcceptedTooLate(t) ==
  /\ Row(t).status = "OPEN"
  /\ IF t \in Bets THEN \E p \in LegsOf[t] \ Main : db[PickRow(p)] # "pending"
     ELSE \A p \in LegsOf[t] : db[LegRow(t, p)] # "pending"

EveryTicketSettles ==
  \A t \in Tickets : Due(t) ~> Row(t).status \in Settled \/ AcceptedTooLate(t)

=============================================================================
