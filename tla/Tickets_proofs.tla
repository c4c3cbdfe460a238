--------------------------- MODULE Tickets_proofs ---------------------------
(***************************************************************************)
(* What holds of sportsbook tickets for any matches, picks, tickets,       *)
(* settlers and crashes: money goes back once, what is settled stays, no   *)
(* multiple is left behind with all its legs decided, and none is cashed   *)
(* out on a lost leg.  The argument is about locks: a settlement that has  *)
(* made a leg's result holds the ticket's row, too, before it can commit,  *)
(* so that between a look at the legs and the end of the transaction that  *)
(* has the ticket nobody commits a leg of it.                              *)
(***************************************************************************)
EXTENDS Tickets, TLAPS

-----------------------------------------------------------------------------
(* The inductive invariant.                                                *)

Over == {"FT", "silent"}
Ended(e) == db[EventRow(e)] \in Over \/ e \in Hasty
T(t) == db[TicketRow(t)].status

\* Rows and their locks.  A transaction on a ticket writes when it ends; only settlements
\* hold legs; who does nothing holds nothing.
Locking ==
  /\ lock \in [Rows -> Tickets \union Settlers \union {Nobody}]
  /\ DOMAIN db = Rows /\ DOMAIN now = Rows
  /\ plan \in [Tickets -> {"none", "PART", "CASHED_OUT", "REJECTED"} \union Live]
  /\ \A r \in Rows : lock[r] \in Tickets \union {Nobody} => now[r] = db[r]
  /\ \A t, u \in Tickets : lock[TicketRow(t)] = u => t = u /\ plan[t] # "none"
  /\ \A t \in Slips : \A p \in LegsOf[t] : lock[LegRow(t, p)] \notin Tickets
  /\ \A s \in Settlers : job[s] = Idle => \A r \in Rows : lock[r] # s

\* What a transaction on a ticket has decided fits what the ticket is, as long as it runs.
Plans ==
  \A t \in Tickets : plan[t] # "none" =>
    /\ lock[TicketRow(t)] = t
    /\ \/ T(t) = "none"      /\ plan[t] \in Live
       \/ T(t) = "ACCEPTING" /\ plan[t] \in {"OPEN", "REJECTED"}
       \/ T(t) = "OPEN"      /\ plan[t] \in {"CASHED_OUT", "PART"}

\* A ticket's money is as its status says, committed or not, and a settled ticket is not
\* written over.
GoodRow(row) ==
  /\ row \in TicketRecord
  /\ row.entries \intersect Returns =
       CASE row.status = "WON"                  -> {"payout"}
         [] row.status \in {"VOID", "REJECTED"} -> {"refund"}
         [] row.status = "CASHED_OUT"           -> {"cashout"}
         [] OTHER                               -> {}

Rewrites(was, made) ==
  /\ was.status \in Settled \union {"none"} => made = was
  /\ made.status # "none" \/ was.status = "none"

GoodTickets ==
  \A t \in Tickets :
    /\ GoodRow(db[TicketRow(t)]) /\ GoodRow(now[TicketRow(t)])
    /\ Rewrites(db[TicketRow(t)], now[TicketRow(t)])

\* A settlement works on one match, which is over as it sees it.
JobRecord ==
  [stage : {"unit", "bets", "legs"}, event : Events,
   says : UNION {[ps -> Results \union {"unknown"}] : ps \in SUBSET Picks},
   unit : SUBSET Picks, markets : BOOLEAN, left : SUBSET Picks,
   todo : SUBSET (Tickets \union (Tickets \X Picks)), touched : SUBSET Tickets]

Working(s, j) ==
  /\ j \in JobRecord
  /\ j.unit \union j.left \subseteq PicksOf(j.event)
  /\ DOMAIN j.says = PicksOf(j.event)
  /\ j.stage = "bets" => j.todo \subseteq Bets
  /\ j.stage = "legs" =>
       \A t \in Slips : \A p \in LegsOf[t] : <<t, p>> \in j.todo => Placed(t) /\ p \in j.unit
  /\ j.touched \subseteq {t \in Slips : Placed(t)}
  /\ Ended(j.event) \/ lock[EventRow(j.event)] = s

Jobs ==
  /\ DOMAIN job = Settlers
  /\ \A s \in Settlers : job[s] # Idle => Working(s, job[s])
  /\ \A e \in Events : lock[EventRow(e)] \in Settlers => now[EventRow(e)] = "FT"

\* A decided leg is one of a placed ticket, on a match that is over.  A settlement that
\* holds a leg has yet to look at its ticket, or holds the ticket, too.
Decided ==
  \A t \in Slips : \A p \in LegsOf[t] :
    /\ db[LegRow(t, p)] # "pending" => Placed(t) /\ Ended(EventOf[p])
    /\ \A s \in Settlers : lock[LegRow(t, p)] = s =>
         /\ job[s] # Idle /\ Placed(t) /\ EventOf[p] = job[s].event
         /\ t \in job[s].touched \/ lock[TicketRow(t)] = s

\* No operator settles a leg of a multiple before its match is over, or against the facts.
Orderly == \A t \in Slips : \A p \in LegsOf[t] : EventOf[p] \notin Hasty

\* An open multiple has a leg to wait for: committed, and as the settlement sees it that
\* has looked.
Waiting ==
  \A t \in Slips :
    /\ T(t) = "OPEN" => \E p \in LegsOf[t] : db[LegRow(t, p)] = "pending"
    /\ \A s \in Settlers :
         lock[TicketRow(t)] = s /\ t \notin job[s].touched /\ now[TicketRow(t)].status = "OPEN"
           => \E p \in LegsOf[t] : LegSeen(s, t, p) = "pending"
    /\ plan[t] = "OPEN" => \A p \in LegsOf[t] : db[LegRow(t, p)] = "pending"

Inv ==
  /\ truth \in Facts
  /\ Locking /\ Plans /\ GoodTickets /\ Jobs /\ Decided /\ (Orderly => Waiting) /\ NoCashOutOfALostLeg

-----------------------------------------------------------------------------
(* The rows.                                                               *)

\* Rows of different kinds, or of different things, are different rows.
LEMMA RowsApart ==
  /\ \A t \in Tickets : TicketRow(t) \in Rows
  /\ \A e \in Events : EventRow(e) \in Rows
  /\ \A p \in Markets : PickRow(p) \in Rows
  /\ \A t \in Slips : \A p \in LegsOf[t] : LegRow(t, p) \in Rows
  /\ \A t, u : TicketRow(t) = TicketRow(u) => t = u
  /\ \A d, e : EventRow(d) = EventRow(e) => d = e
  /\ \A p, q : PickRow(p) = PickRow(q) => p = q
  /\ \A t, u, p, q : LegRow(t, p) = LegRow(u, q) => t = u /\ p = q
  /\ \A t, e : TicketRow(t) # EventRow(e)
  /\ \A t, p : TicketRow(t) # PickRow(p) /\ EventRow(t) # PickRow(p)
  /\ \A t, p, x : LegRow(t, p) # TicketRow(x) /\ LegRow(t, p) # EventRow(x) /\ LegRow(t, p) # PickRow(x)
<1>1. /\ \A t \in Tickets : TicketRow(t) \in Rows
      /\ \A e \in Events : EventRow(e) \in Rows
      /\ \A p \in Markets : PickRow(p) \in Rows
  BY DEF Rows, TicketRows, EventRows, PickRows
<1>2. \A t \in Slips : \A p \in LegsOf[t] : LegRow(t, p) \in Rows
  BY DEF Rows, LegRows
<1>3. /\ \A t, u : TicketRow(t) = TicketRow(u) => t = u
      /\ \A d, e : EventRow(d) = EventRow(e) => d = e
      /\ \A p, q : PickRow(p) = PickRow(q) => p = q
      /\ \A t, u, p, q : LegRow(t, p) = LegRow(u, q) => t = u /\ p = q
  BY DEF TicketRow, EventRow, PickRow, LegRow
<1>4. /\ \A t, e : TicketRow(t) # EventRow(e)
      /\ \A t, p : TicketRow(t) # PickRow(p) /\ EventRow(t) # PickRow(p)
  BY DEF TicketRow, EventRow, PickRow
<1>5. \A t, p, x : LegRow(t, p) # TicketRow(x) /\ LegRow(t, p) # EventRow(x) /\ LegRow(t, p) # PickRow(x)
  BY DEF TicketRow, EventRow, PickRow, LegRow
<1> QED  BY <1>1, <1>2, <1>3, <1>4, <1>5

\* Who can hold a row, and what a ticket backs.
LEMMA Actors ==
  /\ Tickets \intersect Settlers = {} /\ Nobody \notin Tickets /\ Nobody \notin Settlers
  /\ Slips \subseteq Tickets /\ Bets \subseteq Tickets /\ Slips \intersect Bets = {}
  /\ \A t \in Tickets : LegsOf[t] \subseteq Picks /\ LegsOf[t] # {}
  /\ \A p \in Picks : EventOf[p] \in Events
BY TicketsAssumption DEF Settlers, Slips, Bets

\* A settlement's state stays good as long as what is placed and over stays so.
LEMMA JobGoesOn ==
  ASSUME NEW s \in Settlers, Working(s, job[s]), job'[s] = job[s],
         \A t \in Slips : Placed(t) => Placed(t)',
         \A e \in Events : Ended(e) \/ lock[EventRow(e)] = s
                           => Ended(e)' \/ lock'[EventRow(e)] = s
  PROVE  Working(s, job[s])'
<1>1. job[s].event \in Events /\ job[s] \in JobRecord
  BY DEF Working, JobRecord
<1>2. job'[s] \in JobRecord /\ DOMAIN job'[s].says = PicksOf(job'[s].event)
      /\ job'[s].unit \union job'[s].left \subseteq PicksOf(job'[s].event)
      /\ (job'[s].stage = "bets" => job'[s].todo \subseteq Bets)
  BY DEF Working
<1>3. job'[s].stage = "legs" =>
        \A t \in Slips : \A p \in LegsOf[t] : <<t, p>> \in job'[s].todo => Placed(t)' /\ p \in job'[s].unit
  BY DEF Working
<1>4. job'[s].touched \subseteq {t \in Slips : Placed(t)'}
  BY DEF Working
<1>5. Ended(job[s].event)' \/ lock'[EventRow(job'[s].event)] = s
  BY <1>1 DEF Working
<1>6. PicksOf(job[s].event)' = PicksOf(job'[s].event) /\ JobRecord' = JobRecord
  BY DEF PicksOf, JobRecord
<1> QED  BY <1>2, <1>3, <1>4, <1>5, <1>6 DEF Working, Over, Ended

\* A ticket's money stays as its status says, whoever writes the row.
LEMMA RowsStayGood ==
  ASSUME NEW row, GoodRow(row), NEW result, NEW results
  PROVE  /\ GoodRow(BetAfter(row, result)) /\ Rewrites(row, BetAfter(row, result))
         /\ GoodRow(SlipAfter(row, results)) /\ Rewrites(row, SlipAfter(row, results))
<1> row.status \in {"none"} \union Live \union Settled /\ row.entries \in SUBSET ({"stake"} \union Returns)
  BY DEF GoodRow, TicketRecord
<1>1. GoodRow(BetAfter(row, result)) /\ Rewrites(row, BetAfter(row, result))
  BY DEF BetAfter, GoodRow, Rewrites, TicketRecord, Returns, Live, Settled
<1>2. GoodRow(SlipAfter(row, results)) /\ Rewrites(row, SlipAfter(row, results))
  BY DEF SlipAfter, GoodRow, Rewrites, TicketRecord, Returns, Live, Settled
<1> QED  BY <1>1, <1>2

\* What a transaction on a ticket makes of it: live, rejected or cashed out, with its money as that says.
LEMMA MadeIsGood ==
  ASSUME NEW t \in Tickets, Plans, GoodTickets, plan[t] # "none"
  PROVE  /\ GoodRow(Made(t)) /\ Made(t).status # "none" /\ T(t) \notin Settled
         /\ T(t) = "none" => Made(t).status = plan[t]
         /\ T(t) # "none" => Made(t).status = IF plan[t] = "PART" THEN T(t) ELSE plan[t]
<1> DEFINE row == db[TicketRow(t)]
<1>1. GoodRow(row)
  BY DEF GoodTickets
<1>2. \/ T(t) = "none"      /\ plan[t] \in Live
      \/ T(t) = "ACCEPTING" /\ plan[t] \in {"OPEN", "REJECTED"}
      \/ T(t) = "OPEN"      /\ plan[t] \in {"CASHED_OUT", "PART"}
  BY DEF Plans
<1> row.entries \in SUBSET ({"stake"} \union Returns) /\ row \in TicketRecord
  BY <1>1 DEF GoodRow, TicketRecord
<1>3. CASE T(t) = "none" /\ plan[t] \in Live
  BY <1>1, <1>3 DEF Made, GoodRow, TicketRecord, Returns, Live, Settled, T
<1>4. CASE T(t) = "ACCEPTING" /\ plan[t] \in {"OPEN", "REJECTED"}
  BY <1>1, <1>4 DEF Made, GoodRow, TicketRecord, Returns, Live, Settled, T
<1>5. CASE T(t) = "OPEN" /\ plan[t] \in {"CASHED_OUT", "PART"}
  BY <1>1, <1>5 DEF Made, GoodRow, TicketRecord, Returns, Live, Settled, T
<1> QED  BY <1>2, <1>3, <1>4, <1>5

-----------------------------------------------------------------------------
(* Transactions on a ticket.                                               *)

\* A transaction that takes a ticket, and rows that are neither tickets nor legs, to make
\* of it what fits.
LEMMA ClaimKeepsInv ==
  ASSUME Inv, NEW t \in Tickets, NEW R \in SUBSET Rows, NEW d \in {"PART", "CASHED_OUT", "REJECTED"} \union Live,
         TicketRow(t) \in R, \A u \in Tickets : TicketRow(u) \in R => u = t,
         \A u \in Slips : \A p \in LegsOf[u] : LegRow(u, p) \notin R,
         \A r \in R : Free(t, r), Take(t, R), plan' = [plan EXCEPT ![t] = d], UNCHANGED <<db, now, job, truth>>,
         \/ T(t) = "none"      /\ d \in Live
         \/ T(t) = "ACCEPTING" /\ d \in {"OPEN", "REJECTED"}
         \/ T(t) = "OPEN"      /\ d \in {"CASHED_OUT", "PART"},
         Orderly /\ t \in Slips /\ d = "OPEN" => \A p \in LegsOf[t] : db[LegRow(t, p)] = "pending",
         t \in Slips /\ d \in {"PART", "CASHED_OUT"} => \A p \in LegsOf[t] : db[LegRow(t, p)] # "lost"
  PROVE  Inv'
<1> Locking /\ Plans /\ GoodTickets /\ Jobs /\ Decided /\ (Orderly => Waiting) /\ NoCashOutOfALostLeg
  BY DEF Inv
<1>1. /\ \A r \in Rows : lock'[r] = IF r \in R THEN t ELSE lock[r]
      /\ \A r \in R : lock[r] \in {t, Nobody}
      /\ \A s \in Settlers : \A r \in Rows : lock'[r] = s <=> lock[r] = s
      /\ lock' \in [Rows -> Tickets \union Settlers \union {Nobody}]
  BY Actors DEF Take, Free, Locking
<1>2. plan'[t] = d /\ d # "none" /\ \A u \in Tickets : u # t => plan'[u] = plan[u]
  BY DEF Locking, Live
<1>3. \A s \in Settlers : \A u \in Slips : \A p \in LegsOf[u] : LegSeen(s, u, p)' = LegSeen(s, u, p)
  BY <1>1, RowsApart DEF LegSeen, View
<1>4. Locking'
  <2>1. \A r \in Rows : (lock[r] \in Tickets \union {Nobody})' => (now[r] = db[r])'
    BY <1>1, Actors DEF Locking
  <2>2. \A u, v \in Tickets : lock'[TicketRow(u)] = v => u = v /\ plan'[u] # "none"
    BY <1>1, <1>2, RowsApart DEF Locking
  <2>3. \A u \in Slips : \A p \in LegsOf[u] : lock'[LegRow(u, p)] \notin Tickets
    BY <1>1, RowsApart DEF Locking
  <2>4. \A s \in Settlers : job'[s] = Idle => \A r \in Rows : lock'[r] # s
    BY <1>1 DEF Locking
  <2> QED  BY <1>1, <1>2, <2>1, <2>2, <2>3, <2>4 DEF Locking, Live
<1>5. Plans'
  BY <1>1, <1>2, RowsApart DEF Plans, T
<1>6. GoodTickets'
  BY DEF GoodTickets
<1>7. Jobs'
  <2>1. ASSUME NEW s \in Settlers, job'[s] # Idle PROVE Working(s, job[s])'
    BY <1>1, <2>1, RowsApart, JobGoesOn DEF Jobs, Placed, Ended
  <2>2. \A e \in Events : lock'[EventRow(e)] \in Settlers => now'[EventRow(e)] = "FT"
    BY <1>1, RowsApart DEF Jobs
  <2> QED  BY <2>1, <2>2 DEF Jobs
<1>8. Decided'
  BY <1>1, RowsApart, Actors DEF Decided, Placed, Ended
<1>9. Orderly => Waiting'
  BY <1>1, <1>2, <1>3, RowsApart, Actors DEF Waiting, T
<1>10. NoCashOutOfALostLeg'
  BY <1>2, Actors DEF NoCashOutOfALostLeg
<1> QED  BY <1>4, <1>5, <1>6, <1>7, <1>8, <1>9, <1>10 DEF Inv

\* No row of a leg is held by a ticket's transaction: it sees what is committed.
LEMMA TicketsSeeLegs ==
  ASSUME Locking, NEW t \in Slips, NEW p \in LegsOf[t]
  PROVE  LegSeen(t, t, p) = db[LegRow(t, p)]
BY Actors, RowsApart DEF Locking, LegSeen, View

\* place_bet and place_accumulator take rows of markets and matches with the ticket's own.
LEMMA PlaceKeepsInv == ASSUME Inv, NEW t \in Tickets, Place(t)  PROVE Inv'
<1> DEFINE R == PlaceRows(t)
           d == plan'[t]
<1>1. /\ R \in SUBSET Rows /\ TicketRow(t) \in R
      /\ \A u \in Tickets : TicketRow(u) \in R => u = t
      /\ \A u \in Slips : \A p \in LegsOf[u] : LegRow(u, p) \notin R
  BY RowsApart, Actors DEF PlaceRows, Markets
<1>2. /\ \A r \in R : Free(t, r)
      /\ Take(t, R) /\ UNCHANGED <<db, now, job, truth>>
  BY DEF Place
<1>3. plan' = [plan EXCEPT ![t] = d] /\ d \in Live
  BY DEF Place, Inv, Locking, Live
<1>4. T(t) = "none" /\ ~Placed(t)
  BY DEF Place, T, Placed
<1>5. t \in Slips => \A p \in LegsOf[t] : db[LegRow(t, p)] = "pending"
  BY <1>4 DEF Inv, Decided
<1>6. d \notin {"PART", "CASHED_OUT"}
  BY <1>3 DEF Live
<1> HIDE DEF R, d
<1> QED  BY <1>1, <1>2, <1>3, <1>4, <1>5, <1>6, ClaimKeepsInv

\* confirm_live_bet accepts a multiple only while none of its matches is over.
LEMMA ConfirmKeepsInv == ASSUME Inv, NEW t \in Tickets, Confirm(t)  PROVE Inv'
<1> DEFINE R == {TicketRow(t)}
           d == plan'[t]
<1>1. /\ R \in SUBSET Rows /\ TicketRow(t) \in R
      /\ \A u \in Tickets : TicketRow(u) \in R => u = t
      /\ \A u \in Slips : \A p \in LegsOf[u] : LegRow(u, p) \notin R
  BY RowsApart
<1>2. /\ \A r \in R : Free(t, r)
      /\ Take(t, R) /\ UNCHANGED <<db, now, job, truth>>
  BY DEF Confirm
<1>3. plan' = [plan EXCEPT ![t] = d] /\ d \in {"OPEN", "REJECTED"} /\ (d = "OPEN" => Stands(t))
  BY DEF Confirm, Inv, Locking
<1>4. T(t) = "ACCEPTING"
  BY DEF Confirm, T
<1>5. ASSUME Orderly, t \in Slips, d = "OPEN", NEW p \in LegsOf[t]  PROVE db[LegRow(t, p)] = "pending"
  <2>1. db[EventRow(EventOf[p])] = "prematch" \/ View(t, EventRow(EventOf[p])) \in {"prematch", "live"}
    BY <1>3, <1>5 DEF Stands, Trading
  <2>2. View(t, EventRow(EventOf[p])) = db[EventRow(EventOf[p])]
    BY RowsApart, Actors DEF View, Inv, Locking
  <2> QED  BY <2>1, <2>2, <1>5, Actors DEF Inv, Decided, Over, Ended, Orderly
<1>6. d \in Live \union {"REJECTED"} /\ d \notin {"PART", "CASHED_OUT"}
  BY <1>3 DEF Live
<1> HIDE DEF R, d
<1> QED  BY <1>1, <1>2, <1>3, <1>4, <1>5, <1>6, ClaimKeepsInv

\* cash_out pays for a multiple only as its offer found it, with no leg lost.
LEMMA CashOutKeepsInv == ASSUME Inv, NEW t \in Tickets, CashOut(t)  PROVE Inv'
<1> DEFINE R == {TicketRow(t)}
           d == plan'[t]
<1>1. /\ R \in SUBSET Rows /\ TicketRow(t) \in R
      /\ \A u \in Tickets : TicketRow(u) \in R => u = t
      /\ \A u \in Slips : \A p \in LegsOf[u] : LegRow(u, p) \notin R
  BY RowsApart
<1>2. /\ \A r \in R : Free(t, r)
      /\ Take(t, R) /\ UNCHANGED <<db, now, job, truth>>
  BY DEF CashOut
<1>3. plan' = [plan EXCEPT ![t] = d] /\ d \in {"PART", "CASHED_OUT"}
  BY DEF CashOut, Inv, Locking
<1>4. T(t) = "OPEN"
  BY DEF CashOut, T
<1>5. ASSUME t \in Slips, NEW p \in LegsOf[t]  PROVE db[LegRow(t, p)] # "lost"
  BY <1>5, TicketsSeeLegs, Actors DEF CashOut, Offered, Inv
<1> HIDE DEF R, d
<1> QED  BY <1>1, <1>2, <1>3, <1>4, <1>5, ClaimKeepsInv

\* The transaction on a ticket commits.
LEMMA FinishKeepsInv == ASSUME Inv, NEW t \in Tickets, Finish(t)  PROVE Inv'
<1> Locking /\ Plans /\ GoodTickets /\ Jobs /\ Decided /\ (Orderly => Waiting) /\ NoCashOutOfALostLeg
  BY DEF Inv
<1> plan[t] # "none" /\ job' = job /\ truth' = truth
  BY DEF Finish
<1>1. /\ lock[TicketRow(t)] = t
      /\ lock' \in [Rows -> Tickets \union Settlers \union {Nobody}]
      /\ \A r \in Rows : lock'[r] = IF lock[r] = t THEN Nobody ELSE lock[r]
      /\ \A s \in Settlers : \A r \in Rows : lock'[r] = s <=> lock[r] = s
      /\ DOMAIN db' = Rows /\ DOMAIN now' = Rows
      /\ now'[TicketRow(t)] = Made(t) /\ db'[TicketRow(t)] = Made(t)
      /\ \A r \in Rows : r # TicketRow(t) => now'[r] = now[r] /\ db'[r] = db[r]
  BY Actors, RowsApart DEF Finish, Publish, Drop, Locking, Plans
<1>2. plan'[t] = "none" /\ \A u \in Tickets : u # t => plan'[u] = plan[u]
  BY DEF Finish, Locking
<1>3. /\ GoodRow(Made(t)) /\ Made(t).status # "none" /\ T(t) \notin Settled
      /\ T(t) = "none" => Made(t).status = plan[t]
      /\ T(t) # "none" => Made(t).status = IF plan[t] = "PART" THEN T(t) ELSE plan[t]
  BY MadeIsGood
<1>4. \A u \in Tickets : Placed(u) => Placed(u)'
  BY <1>1, <1>3, RowsApart DEF Placed
<1>5. \A s \in Settlers : \A u \in Slips : \A p \in LegsOf[u] : LegSeen(s, u, p)' = LegSeen(s, u, p)
  BY <1>1, RowsApart DEF LegSeen, View
<1>6. /\ \A u \in Slips : \A p \in LegsOf[u] : db'[LegRow(u, p)] = db[LegRow(u, p)]
      /\ \A e \in Events : db'[EventRow(e)] = db[EventRow(e)] /\ now'[EventRow(e)] = now[EventRow(e)]
      /\ \A u \in Tickets : u # t => db'[TicketRow(u)] = db[TicketRow(u)] /\ now'[TicketRow(u)] = now[TicketRow(u)]
  BY <1>1, RowsApart
<1>7. Locking'
  <2>1. \A r \in Rows : (lock[r] \in Tickets \union {Nobody})' => (now[r] = db[r])'
    BY <1>1, Actors DEF Locking
  <2>2. \A u, v \in Tickets : lock'[TicketRow(u)] = v => u = v /\ plan'[u] # "none"
    BY <1>1, <1>2, RowsApart, Actors DEF Locking
  <2>3. \A u \in Slips : \A p \in LegsOf[u] : lock'[LegRow(u, p)] \notin Tickets
    BY <1>1, RowsApart, Actors DEF Locking
  <2>4. \A s \in Settlers : job'[s] = Idle => \A r \in Rows : lock'[r] # s
    BY <1>1 DEF Locking
  <2>5. plan' \in [Tickets -> {"none", "PART", "CASHED_OUT", "REJECTED"} \union Live]
    BY DEF Finish, Locking
  <2> QED  BY <1>1, <2>1, <2>2, <2>3, <2>4, <2>5 DEF Locking, Live
<1>8. Plans'
  BY <1>1, <1>2, <1>6, RowsApart, Actors DEF Plans, T
<1>9. GoodTickets'
  BY <1>1, <1>3, <1>6 DEF GoodTickets, Rewrites
<1>10. Jobs'
  <2>1. ASSUME NEW s \in Settlers, job'[s] # Idle PROVE Working(s, job[s])'
    BY <1>1, <1>4, <1>6, <2>1, RowsApart, Actors, JobGoesOn DEF Jobs, Ended
  <2>2. \A e \in Events : lock'[EventRow(e)] \in Settlers => now'[EventRow(e)] = "FT"
    BY <1>1, <1>6, RowsApart, Actors DEF Jobs
  <2> QED  BY <2>1, <2>2 DEF Jobs
<1>11. Decided'
  BY <1>1, <1>4, <1>6, RowsApart, Actors DEF Decided, Ended
<1>12. Orderly => Waiting'
  <2> SUFFICES ASSUME Orderly PROVE Waiting'
    OBVIOUS
  <2> Waiting
    OBVIOUS
  <2>1. ASSUME NEW u \in Slips, T(u)' = "OPEN"  PROVE \E p \in LegsOf[u] : db'[LegRow(u, p)] = "pending"
    <3>1. CASE u = t /\ T(t) # "OPEN"
      BY <1>1, <1>3, <1>6, <2>1, <3>1, Actors DEF Waiting, Plans, T
    <3>2. CASE u # t \/ T(t) = "OPEN"
      BY <1>6, <2>1, <3>2, Actors DEF Waiting, T
    <3> QED  BY <3>1, <3>2
  <2>2. ASSUME NEW u \in Slips, NEW s \in Settlers, lock'[TicketRow(u)] = s, u \notin job'[s].touched,
               now'[TicketRow(u)].status = "OPEN"
        PROVE  \E p \in LegsOf[u] : LegSeen(s, u, p)' = "pending"
    BY <1>1, <1>5, <1>6, <2>2, RowsApart, Actors DEF Waiting
  <2>3. \A u \in Slips : plan'[u] = "OPEN" => \A p \in LegsOf[u] : db'[LegRow(u, p)] = "pending"
    BY <1>2, <1>6, Actors DEF Waiting
  <2> QED  BY <2>1, <2>2, <2>3 DEF Waiting
<1>13. NoCashOutOfALostLeg'
  BY <1>2, <1>6, Actors DEF NoCashOutOfALostLeg
<1> QED  BY <1>7, <1>8, <1>9, <1>10, <1>11, <1>12, <1>13 DEF Inv

-----------------------------------------------------------------------------
(* The matches.                                                            *)

\* The feed moves a match on that nobody holds and that is not over.
LEMMA FeedKeepsInv ==
  ASSUME Inv, NEW e \in Events, KickOff(e) \/ GoSilent(e)  PROVE Inv'
<1> Locking /\ Plans /\ GoodTickets /\ Jobs /\ Decided /\ (Orderly => Waiting) /\ NoCashOutOfALostLeg
  BY DEF Inv
<1> UNCHANGED <<lock, plan, job, truth>>
  BY DEF KickOff, GoSilent
<1>1. /\ lock[EventRow(e)] = Nobody /\ db[EventRow(e)] \in {"prematch", "live"}
      /\ db'[EventRow(e)] = now'[EventRow(e)]
      /\ DOMAIN db' = Rows /\ DOMAIN now' = Rows
      /\ \A r \in Rows : r # EventRow(e) => db'[r] = db[r] /\ now'[r] = now[r]
  BY RowsApart DEF KickOff, GoSilent, Locking
<1>2. /\ \A t \in Tickets : db'[TicketRow(t)] = db[TicketRow(t)] /\ now'[TicketRow(t)] = now[TicketRow(t)]
      /\ \A t \in Slips : \A p \in LegsOf[t] :
           db'[LegRow(t, p)] = db[LegRow(t, p)] /\ now'[LegRow(t, p)] = now[LegRow(t, p)]
      /\ \A d \in Events : d # e => db'[EventRow(d)] = db[EventRow(d)] /\ now'[EventRow(d)] = now[EventRow(d)]
  BY <1>1, RowsApart
<1>3. Locking'
  BY <1>1, Actors DEF Locking
<1>4. Plans'
  BY <1>2 DEF Plans, T
<1>5. GoodTickets'
  BY <1>2 DEF GoodTickets
<1>6. \A t \in Tickets : Placed(t)' <=> Placed(t)
  BY <1>2 DEF Placed
<1>7. Jobs'
  <2>1. ASSUME NEW s \in Settlers, job'[s] # Idle PROVE Working(s, job[s])'
    <3>1. \A d \in Events : Ended(d) \/ lock[EventRow(d)] = s
                            => Ended(d)' \/ lock'[EventRow(d)] = s
      BY <1>1, <1>2, Actors DEF Over, Ended
    <3> QED  BY <1>6, <2>1, <3>1, Actors, JobGoesOn DEF Jobs
  <2>2. \A d \in Events : lock'[EventRow(d)] \in Settlers => now'[EventRow(d)] = "FT"
    BY <1>1, <1>2, Actors DEF Jobs
  <2> QED  BY <2>1, <2>2 DEF Jobs
<1>8. Decided'
  BY <1>1, <1>2, <1>6, Actors DEF Decided, Over, Ended
<1>9. Orderly => Waiting'
  BY <1>2, Actors DEF Waiting, T, LegSeen, View
<1>10. NoCashOutOfALostLeg'
  BY <1>2 DEF NoCashOutOfALostLeg
<1> QED  BY <1>3, <1>4, <1>5, <1>7, <1>8, <1>9, <1>10 DEF Inv

-----------------------------------------------------------------------------
(* Settlements.                                                            *)

\* A settlement that only makes up its mind what to do next.
LEMMA MindKeepsInv ==
  ASSUME Inv, NEW s \in Settlers, UNCHANGED <<db, now, lock, plan, truth>>,
         DOMAIN job' = Settlers, \A v \in Settlers : v # s => job'[v] = job[v],
         job'[s] # Idle, Working(s, job[s])',
         job[s] # Idle => job'[s].event = job[s].event /\ job'[s].touched = job[s].touched
  PROVE  Inv'
<1> Locking /\ Plans /\ GoodTickets /\ Jobs /\ Decided /\ (Orderly => Waiting) /\ NoCashOutOfALostLeg
  BY DEF Inv
<1>1. Locking'
  BY DEF Locking
<1>2. Plans' /\ GoodTickets' /\ NoCashOutOfALostLeg'
  BY DEF Plans, T, GoodTickets, NoCashOutOfALostLeg
<1>3. Jobs'
  <2>1. ASSUME NEW v \in Settlers, v # s, job'[v] # Idle PROVE Working(v, job[v])'
    BY <2>1, JobGoesOn DEF Jobs, Placed, Ended
  <2> QED  BY <2>1 DEF Jobs
<1>4. Decided'
  BY Actors DEF Decided, Placed, Ended
<1>5. Orderly => Waiting'
  <2> SUFFICES ASSUME Orderly PROVE Waiting'
    OBVIOUS
  <2> Waiting
    OBVIOUS
  <2>1. \A t \in Slips : \A v \in Settlers : lock[TicketRow(t)] = v => job[v] # Idle
    BY RowsApart, Actors DEF Locking
  <2> QED  BY <2>1 DEF Waiting, T, LegSeen, View
<1> QED  BY <1>1, <1>2, <1>3, <1>4, <1>5 DEF Inv

\* A settlement as it begins.
Fresh(e, j) ==
  /\ j \in JobRecord /\ j # Idle /\ j.event = e /\ DOMAIN j.says = PicksOf(e)
  /\ j.unit \subseteq PicksOf(e) /\ j.left = {}
  /\ j.stage \in {"unit", "legs"} /\ j.todo = {} /\ j.touched = {}

\* Job makes such a settlement.
LEMMA NewJob ==
  ASSUME NEW e \in Events, NEW says \in [PicksOf(e) -> Results \union {"unknown"}],
         NEW unit \in SUBSET PicksOf(e), NEW markets \in BOOLEAN
  PROVE  Fresh(e, Job(e, says, unit, markets))
<1> DEFINE j == Job(e, says, unit, markets)
<1>1. PicksOf(e) \subseteq Picks
  BY DEF PicksOf
<1>2. says \in UNION {[ps -> Results \union {"unknown"}] : ps \in SUBSET Picks}
  BY <1>1
<1>3. j \in JobRecord
  BY <1>1, <1>2 DEF Job, JobRecord
<1>4. j # Idle /\ j.event = e /\ DOMAIN j.says = PicksOf(e) /\ j.unit \subseteq PicksOf(e) /\ j.left = {}
  BY DEF Job, Idle
<1>5. j.stage \in {"unit", "legs"} /\ j.todo = {} /\ j.touched = {}
  BY DEF Job
<1> QED  BY <1>3, <1>4, <1>5 DEF Fresh

\* What the settlements apply are results, or nothing yet.
LEMMA SaysAreResults ==
  ASSUME truth \in Facts, NEW e \in Events
  PROVE  /\ \A p \in PicksOf(e) : truth[p] \in {"won", "lost", "unknown"}
         /\ Main \intersect PicksOf(e) \in SUBSET PicksOf(e)
BY TicketsAssumption DEF PicksOf

\* A settlement of a match that is over already begins.
LEMMA BeginKeepsInv ==
  ASSUME Inv, NEW s \in Settlers, NEW e \in Events, AutoResolve(s, e) \/ VoidMatch(s, e) \/ ByHand(s, e)
  PROVE  Inv'
<1> Jobs /\ truth \in Facts
  BY DEF Inv
<1>1. job[s] = Idle /\ Ended(e) /\ UNCHANGED <<db, now, lock, plan, truth>>
  BY DEF AutoResolve, VoidMatch, ByHand, Over, Ended
<1>2. PICK j : Fresh(e, j) /\ job' = [job EXCEPT ![s] = j]
  <2>1. CASE AutoResolve(s, e)
    <3> DEFINE says == [p \in PicksOf(e) |-> IF truth[p] = "unknown" THEN "void" ELSE truth[p]]
    <3>1. says \in [PicksOf(e) -> Results \union {"unknown"}]
      BY SaysAreResults DEF Results
    <3>2. job' = [job EXCEPT ![s] = Job(e, says, Main \intersect PicksOf(e), TRUE)]
      BY <2>1 DEF AutoResolve, Start
    <3> HIDE DEF says
    <3> QED  BY <3>1, <3>2, SaysAreResults, NewJob
  <2>2. CASE VoidMatch(s, e)
    <3> DEFINE says == [p \in PicksOf(e) |-> "void"]
    <3>1. says \in [PicksOf(e) -> Results \union {"unknown"}]
      BY DEF Results
    <3>2. job' = [job EXCEPT ![s] = Job(e, says, Main \intersect PicksOf(e), TRUE)]
      BY <2>2 DEF VoidMatch, Start
    <3> HIDE DEF says
    <3> QED  BY <3>1, <3>2, SaysAreResults, NewJob
  <2>3. CASE ByHand(s, e)
    <3>0. PICK unit \in {Main \intersect PicksOf(e)} \union {{p} : p \in MarketsOf(e)} :
            \E winners \in SUBSET unit, void \in BOOLEAN :
              job' = [job EXCEPT ![s] = Job(e, Verdict(e, unit, winners, void), unit, Ruled(e, unit, void) # unit)]
      BY <2>3 DEF ByHand, Start
    <3>1. PICK winners \in SUBSET unit, void \in BOOLEAN :
            job' = [job EXCEPT ![s] = Job(e, Verdict(e, unit, winners, void), unit, Ruled(e, unit, void) # unit)]
      BY <3>0
    <3>2. Verdict(e, unit, winners, void) \in [PicksOf(e) -> Results \union {"unknown"}]
      BY DEF Verdict, Results
    <3>3. unit \in SUBSET PicksOf(e)
      BY SaysAreResults DEF MarketsOf
    <3> QED  BY <3>1, <3>2, <3>3, NewJob
  <2> QED  BY <2>1, <2>2, <2>3
<1>3. job'[s] = j /\ DOMAIN job' = Settlers /\ \A v \in Settlers : v # s => job'[v] = job[v]
  BY <1>2 DEF Jobs
<1>4. Working(s, job[s])'
  BY <1>1, <1>2, <1>3 DEF Fresh, Working, JobRecord, PicksOf, Over, Ended
<1>5. j # Idle
  BY <1>2 DEF Fresh
<1> QED  BY <1>1, <1>3, <1>4, <1>5, MindKeepsInv

\* A settlement takes and writes rows that are its own or free: what others see stays.
LEMMA WriteKeeps ==
  ASSUME Inv, NEW s \in Settlers, NEW R \in SUBSET Rows, \A r \in R : Free(s, r), Take(s, R),
         DOMAIN now' = Rows, \A r \in Rows : r \notin R => now'[r] = now[r],
         UNCHANGED <<db, plan, truth>>,
         DOMAIN job' = Settlers, \A v \in Settlers : v # s => job'[v] = job[v],
         job'[s] # Idle, Working(s, job[s])',
         \A e \in Events : EventRow(e) \in R => now'[EventRow(e)] = "FT"
  PROVE  /\ Locking' /\ Plans' /\ Jobs' /\ NoCashOutOfALostLeg' /\ truth' \in Facts
         /\ \A r \in Rows : lock'[r] = IF r \in R THEN s ELSE lock[r]
         /\ \A r \in R : lock[r] \in {s, Nobody}
         /\ \A v \in Settlers : v # s => \A r \in Rows : (lock'[r] = v <=> lock[r] = v) /\ (lock[r] = v => r \notin R)
         /\ \A t \in Tickets : Placed(t)' <=> Placed(t)
<1> Locking /\ Plans /\ Jobs /\ NoCashOutOfALostLeg /\ truth' \in Facts
  BY DEF Inv
<1>1. /\ \A r \in Rows : lock'[r] = IF r \in R THEN s ELSE lock[r]
      /\ \A r \in R : lock[r] \in {s, Nobody}
      /\ \A r \in Rows : \A w : w # s /\ w # Nobody => (lock'[r] = w <=> lock[r] = w)
      /\ lock' \in [Rows -> Tickets \union Settlers \union {Nobody}]
  BY Actors DEF Take, Free, Locking
<1>2. \A v \in Settlers : v # s => \A r \in Rows : (lock'[r] = v <=> lock[r] = v) /\ (lock[r] = v => r \notin R)
  BY <1>1, Actors
<1>3. Locking'
  <2>1. \A r \in Rows : (lock[r] \in Tickets \union {Nobody})' => (now[r] = db[r])'
    BY <1>1, Actors DEF Locking
  <2>2. \A t, u \in Tickets : lock'[TicketRow(t)] = u => t = u /\ plan'[t] # "none"
    BY <1>1, RowsApart, Actors DEF Locking
  <2>3. \A t \in Slips : \A p \in LegsOf[t] : lock'[LegRow(t, p)] \notin Tickets
    BY <1>1, RowsApart, Actors DEF Locking
  <2>4. \A v \in Settlers : job'[v] = Idle => \A r \in Rows : lock'[r] # v
    BY <1>2 DEF Locking
  <2>5. plan' \in [Tickets -> {"none", "PART", "CASHED_OUT", "REJECTED"} \union Live]
    BY DEF Locking
  <2> QED  BY <1>1, <2>1, <2>2, <2>3, <2>4, <2>5 DEF Locking, Live
<1>4. Plans'
  BY <1>1, RowsApart, Actors DEF Plans, T
<1>5. Jobs'
  <2>1. ASSUME NEW v \in Settlers, v # s, job'[v] # Idle PROVE Working(v, job[v])'
    BY <1>2, <2>1, RowsApart, JobGoesOn DEF Jobs, Placed, Ended
  <2>2. \A e \in Events : lock'[EventRow(e)] \in Settlers => now'[EventRow(e)] = "FT"
    BY <1>1, RowsApart DEF Jobs
  <2> QED  BY <2>1, <2>2 DEF Jobs
<1>6. NoCashOutOfALostLeg' /\ \A t \in Tickets : Placed(t)' <=> Placed(t)
  BY DEF NoCashOutOfALostLeg, Placed
<1> QED  BY <1>1, <1>2, <1>3, <1>4, <1>5, <1>6

\* Rows of matches and of market outcomes: neither tickets nor legs change.
LEMMA OtherRowsKeepInv ==
  ASSUME Inv, NEW s \in Settlers, NEW R \in SUBSET Rows, \A r \in R : Free(s, r), Take(s, R),
         DOMAIN now' = Rows, \A r \in Rows : r \notin R => now'[r] = now[r],
         UNCHANGED <<db, plan, truth>>,
         DOMAIN job' = Settlers, \A v \in Settlers : v # s => job'[v] = job[v],
         job'[s] # Idle, Working(s, job[s])',
         \A e \in Events : EventRow(e) \in R => now'[EventRow(e)] = "FT",
         \A t \in Tickets : TicketRow(t) \notin R,
         \A t \in Slips : \A p \in LegsOf[t] : LegRow(t, p) \notin R,
         job[s] # Idle => job'[s].event = job[s].event /\ job'[s].touched = job[s].touched
  PROVE  Inv'
<1> Locking /\ GoodTickets /\ Decided /\ (Orderly => Waiting)
  BY DEF Inv
<1>1. /\ Locking' /\ Plans' /\ Jobs' /\ NoCashOutOfALostLeg' /\ truth' \in Facts
      /\ \A r \in Rows : lock'[r] = IF r \in R THEN s ELSE lock[r]
      /\ \A t \in Tickets : Placed(t)' <=> Placed(t)
  BY WriteKeeps
<1>2. /\ \A t \in Tickets : lock'[TicketRow(t)] = lock[TicketRow(t)] /\ now'[TicketRow(t)] = now[TicketRow(t)]
      /\ \A t \in Slips : \A p \in LegsOf[t] :
           lock'[LegRow(t, p)] = lock[LegRow(t, p)] /\ now'[LegRow(t, p)] = now[LegRow(t, p)]
  BY <1>1, RowsApart
<1>3. GoodTickets'
  BY <1>2 DEF GoodTickets
<1>4. \A v \in Settlers : job[v] # Idle => job'[v].event = job[v].event /\ job'[v].touched = job[v].touched
  OBVIOUS
<1>5. Decided'
  BY <1>1, <1>2, <1>4, Actors DEF Decided, Ended
<1>6. Orderly => Waiting'
  <2> SUFFICES ASSUME Orderly PROVE Waiting'
    OBVIOUS
  <2> Waiting
    OBVIOUS
  <2>1. \A t \in Slips : \A v \in Settlers : lock[TicketRow(t)] = v => job[v] # Idle
    BY RowsApart, Actors DEF Locking
  <2> QED  BY <1>2, <1>4, <2>1, Actors DEF Waiting, T, LegSeen, View
<1> QED  BY <1>1, <1>3, <1>5, <1>6 DEF Inv

\* Full time is saved with the match's row locked.
LEMMA FullTimeKeepsInv ==
  ASSUME Inv, NEW s \in Settlers, NEW e \in Events, FullTime(s, e)  PROVE Inv'
<1> Jobs /\ Locking /\ truth \in Facts
  BY DEF Inv
<1> DEFINE R == {EventRow(e)}
<1>1. job[s] = Idle /\ UNCHANGED <<db, plan, truth>>
  BY DEF FullTime
<1>2. PICK j : Fresh(e, j) /\ job' = [job EXCEPT ![s] = j]
  <2>1. PICK published \in BOOLEAN :
          Start(s, Job(e, [p \in PicksOf(e) |-> IF p \in Main \/ published THEN truth[p] ELSE "unknown"],
                       Main \intersect PicksOf(e), TRUE))
    BY DEF FullTime
  <2> DEFINE says == [p \in PicksOf(e) |-> IF p \in Main \/ published THEN truth[p] ELSE "unknown"]
  <2>2. says \in [PicksOf(e) -> Results \union {"unknown"}]
    BY SaysAreResults DEF Results
  <2>3. job' = [job EXCEPT ![s] = Job(e, says, Main \intersect PicksOf(e), TRUE)]
    BY <2>1 DEF Start
  <2> HIDE DEF says
  <2> QED  BY <2>2, <2>3, SaysAreResults, NewJob
<1>3. job'[s] = j /\ DOMAIN job' = Settlers /\ \A v \in Settlers : v # s => job'[v] = job[v]
  BY <1>2 DEF Jobs
<1>4. /\ R \in SUBSET Rows /\ (\A r \in R : Free(s, r)) /\ Take(s, R)
      /\ DOMAIN now' = Rows /\ now'[EventRow(e)] = "FT" /\ \A r \in Rows : r \notin R => now'[r] = now[r]
  BY RowsApart DEF FullTime, Write, Locking
<1>5. lock'[EventRow(e)] = s
  BY <1>4 DEF Take
<1>6. Working(s, job[s])'
  BY <1>2, <1>3, <1>5 DEF Fresh, Working, JobRecord, PicksOf
<1>7. j # Idle
  BY <1>2 DEF Fresh
<1>8. /\ \A t \in Tickets : TicketRow(t) \notin R
      /\ \A t \in Slips : \A p \in LegsOf[t] : LegRow(t, p) \notin R
      /\ \A d \in Events : EventRow(d) \in R => now'[EventRow(d)] = "FT"
  BY <1>4, RowsApart
<1> HIDE DEF R
<1> QED  BY <1>1, <1>3, <1>4, <1>6, <1>7, <1>8, OtherRowsKeepInv

\* A settlement at work has a job on a match.
LEMMA AtWork ==
  ASSUME Inv, NEW s \in Settlers, job[s].stage \in {"unit", "bets", "legs"}
  PROVE  /\ job[s] # Idle /\ Working(s, job[s]) /\ job[s] \in JobRecord /\ DOMAIN job = Settlers
<1>1. job[s] # Idle
  BY DEF Idle
<1> QED  BY <1>1 DEF Inv, Jobs, Working

\* What the settlement writes of market outcomes is theirs only.
LEMMA ListBetsKeepsInv ==
  ASSUME Inv, NEW s \in Settlers, ListBets(s)  PROVE Inv'
<1> DEFINE j == job[s]
           changed == {p \in j.unit \ Main : View(s, PickRow(p)) # j.says[p]}
           R == {PickRow(p) : p \in changed}
           k == [j EXCEPT !.stage = "bets", !.todo = OpenBets(s, j.unit)]
<1>1. j # Idle /\ Working(s, j) /\ j \in JobRecord /\ DOMAIN job = Settlers
  BY AtWork DEF ListBets
<1>2. /\ \A p \in changed : Free(s, PickRow(p))
      /\ now' = [r \in Rows |-> IF \E p \in changed : r = PickRow(p) THEN j.says[r[2]] ELSE now[r]]
      /\ Take(s, R) /\ job' = [job EXCEPT ![s] = k] /\ UNCHANGED <<db, plan, truth>>
  BY DEF ListBets, Start
<1>3. changed \subseteq Markets
  BY <1>1 DEF Markets, JobRecord
<1> HIDE DEF changed
<1>4. /\ R \in SUBSET Rows /\ \A r \in R : Free(s, r)
      /\ \A t \in Tickets : TicketRow(t) \notin R
      /\ \A t \in Slips : \A p \in LegsOf[t] : LegRow(t, p) \notin R
      /\ \A e \in Events : EventRow(e) \notin R
  <2>1. R \in SUBSET Rows
    BY <1>3, RowsApart
  <2>2. \A r \in R : Free(s, r)
    BY <1>2
  <2>3. \A r \in R : \E p : r = PickRow(p)
    OBVIOUS
  <2> HIDE DEF R
  <2> QED  BY <2>1, <2>2, <2>3, RowsApart
<1>5. DOMAIN now' = Rows /\ \A r \in Rows : r \notin R => now'[r] = now[r]
  BY <1>2
<1>6. /\ k \in JobRecord /\ k.event = j.event /\ k.touched = j.touched /\ k.unit = j.unit /\ k.left = j.left
      /\ k.says = j.says /\ k.stage = "bets" /\ k.todo \subseteq Bets
  BY <1>1, Actors DEF JobRecord, OpenBets
<1>7. job'[s] = k /\ DOMAIN job' = Settlers /\ \A v \in Settlers : v # s => job'[v] = job[v]
  BY <1>1, <1>2
<1>8. lock'[EventRow(j.event)] = lock[EventRow(j.event)] /\ j.event \in Events
  BY <1>1, <1>2, <1>4, RowsApart DEF Take, JobRecord
<1> HIDE DEF R, k
<1>9. Working(s, job[s])'
  BY <1>1, <1>2, <1>6, <1>7, <1>8 DEF Working, Placed, JobRecord, PicksOf, Ended
<1>10. k # Idle
  BY <1>6 DEF Idle
<1> QED  BY <1>1, <1>2, <1>4, <1>5, <1>6, <1>7, <1>9, <1>10, OtherRowsKeepInv

\* The legs that are listed are of placed multiples and on the unit.
LEMMA ListLegsKeepsInv ==
  ASSUME Inv, NEW s \in Settlers, ListLegs(s)  PROVE Inv'
<1> DEFINE j == job[s]
           k == [j EXCEPT !.stage = "legs", !.todo = PendingLegs(s, j.unit)]
<1> GoodTickets
  BY DEF Inv
<1>1. j # Idle /\ Working(s, j) /\ j \in JobRecord /\ DOMAIN job = Settlers
  BY AtWork DEF ListLegs
<1>2. job' = [job EXCEPT ![s] = k] /\ UNCHANGED <<db, now, lock, plan, truth>>
  BY DEF ListLegs, Start
<1>3. PendingLegs(s, j.unit) \subseteq Tickets \X Picks
  BY Actors DEF PendingLegs
<1>4. \A t \in Slips : \A p \in LegsOf[t] : <<t, p>> \in PendingLegs(s, j.unit) => Placed(t) /\ p \in j.unit
  <2>1. ASSUME NEW t \in Slips, NEW p \in LegsOf[t], <<t, p>> \in PendingLegs(s, j.unit)
        PROVE  StatusSeen(s, t) # "none" /\ p \in j.unit
    BY <2>1 DEF PendingLegs
  <2>2. \A t \in Slips : StatusSeen(s, t) # "none" => Placed(t)
    BY Actors DEF StatusSeen, View, Placed, GoodTickets, Rewrites
  <2> QED  BY <2>1, <2>2
<1>5. /\ k \in JobRecord /\ k.event = j.event /\ k.touched = j.touched /\ k.unit = j.unit /\ k.left = j.left
      /\ k.says = j.says /\ k.stage = "legs" /\ k.todo = PendingLegs(s, j.unit)
  BY <1>1, <1>3 DEF JobRecord
<1>6. job'[s] = k /\ DOMAIN job' = Settlers /\ \A v \in Settlers : v # s => job'[v] = job[v]
  BY <1>1, <1>2
<1> HIDE DEF k
<1>7. Working(s, job[s])'
  BY <1>1, <1>2, <1>4, <1>5, <1>6 DEF Working, Placed, JobRecord, PicksOf, Ended
<1>8. k # Idle
  BY <1>5 DEF Idle
<1> QED  BY <1>1, <1>2, <1>5, <1>6, <1>7, <1>8, MindKeepsInv

\* From the 1X2 to the match's markets, one after the other.
LEMMA NextUnitKeepsInv ==
  ASSUME Inv, NEW s \in Settlers, NextUnit(s)  PROVE Inv'
<1> DEFINE j == job[s]
<1>1. j # Idle /\ Working(s, j) /\ j \in JobRecord /\ DOMAIN job = Settlers
  BY AtWork DEF NextUnit, UnitDone
<1>2. Undecided(s, j) \subseteq PicksOf(j.event)
  BY <1>1 DEF Undecided, MarketsOf, Working
<1>3. PICK p \in Undecided(s, j) :
        job' = [job EXCEPT ![s] = [j EXCEPT !.stage = "unit", !.unit = {p}, !.markets = FALSE,
                                            !.left = Undecided(s, j) \ {p}]]
  BY DEF NextUnit, Start
<1> DEFINE k == [j EXCEPT !.stage = "unit", !.unit = {p}, !.markets = FALSE, !.left = Undecided(s, j) \ {p}]
<1>4. UNCHANGED <<db, now, lock, plan, truth>>
  BY DEF NextUnit
<1>5. /\ k \in JobRecord /\ k.event = j.event /\ k.touched = j.touched /\ k.says = j.says
      /\ k.unit \union k.left \subseteq PicksOf(k.event) /\ k.stage = "unit"
  <2>1. {p} \subseteq PicksOf(j.event) /\ Undecided(s, j) \ {p} \subseteq PicksOf(j.event)
    BY <1>2
  <2>2. {p} \in SUBSET Picks /\ Undecided(s, j) \ {p} \in SUBSET Picks
    BY <2>1 DEF PicksOf
  <2>3. k \in JobRecord
    BY <1>1, <2>2 DEF JobRecord
  <2>4. /\ k.event = j.event /\ k.touched = j.touched /\ k.says = j.says /\ k.stage = "unit"
        /\ k.unit = {p} /\ k.left = Undecided(s, j) \ {p}
    BY <1>1 DEF JobRecord
  <2> QED  BY <2>1, <2>3, <2>4
<1>6. job'[s] = k /\ DOMAIN job' = Settlers /\ \A v \in Settlers : v # s => job'[v] = job[v]
  BY <1>1, <1>3
<1> HIDE DEF k
<1>7. Working(s, job[s])'
  BY <1>1, <1>4, <1>5, <1>6 DEF Working, Placed, JobRecord, PicksOf, Ended
<1>8. k # Idle
  BY <1>5 DEF Idle
<1> QED  BY <1>1, <1>4, <1>5, <1>6, <1>7, <1>8, MindKeepsInv

\* The row of a ticket, rewritten by the settlement that holds it.
LEMMA TicketWritten ==
  ASSUME Inv, NEW s \in Settlers, NEW t \in Tickets, NEW result, NEW results,
         LET seen == View(s, TicketRow(t)) IN
           now'[TicketRow(t)] = BetAfter(seen, result) \/ now'[TicketRow(t)] = SlipAfter(seen, results),
         \A u \in Tickets : u # t => now'[TicketRow(u)] = now[TicketRow(u)], UNCHANGED db
  PROVE  GoodTickets'
<1> DEFINE seen == View(s, TicketRow(t))
<1>1. GoodRow(seen) /\ Rewrites(db[TicketRow(t)], seen) /\ GoodRow(db[TicketRow(t)])
  BY DEF Inv, GoodTickets, View, Rewrites
<1>2. GoodRow(now'[TicketRow(t)]) /\ Rewrites(seen, now'[TicketRow(t)])
  BY <1>1, RowsStayGood
<1>3. Rewrites(db[TicketRow(t)], now'[TicketRow(t)])
  BY <1>1, <1>2 DEF Rewrites
<1> QED  BY <1>1, <1>2, <1>3 DEF Inv, GoodTickets

\* settle_bet writes the row of a single bet.
LEMMA SettleBetKeepsInv ==
  ASSUME Inv, NEW s \in Settlers, NEW t \in Tickets, SettleBet(s, t)  PROVE Inv'
<1> Locking /\ Decided /\ (Orderly => Waiting)
  BY DEF Inv
<1> DEFINE j == job[s]
           R == {TicketRow(t)}
           k == [j EXCEPT !.todo = @ \ {t}]
<1>1. j # Idle /\ Working(s, j) /\ j \in JobRecord /\ DOMAIN job = Settlers
  BY AtWork DEF SettleBet
<1>2. t \in Bets /\ UNCHANGED <<db, plan, truth>> /\ job' = [job EXCEPT ![s] = k]
  BY <1>1 DEF SettleBet, Working
<1>3. PICK p \in LegsOf[t] : Write(s, TicketRow(t), BetAfter(View(s, TicketRow(t)), j.says[p]))
  BY DEF SettleBet
<1>4. /\ R \in SUBSET Rows /\ (\A r \in R : Free(s, r)) /\ Take(s, R) /\ DOMAIN now' = Rows
      /\ now'[TicketRow(t)] = BetAfter(View(s, TicketRow(t)), j.says[p])
      /\ \A r \in Rows : r \notin R => now'[r] = now[r]
  BY <1>3, RowsApart DEF SettleBet, Write, Locking
<1>5. /\ k \in JobRecord /\ k.event = j.event /\ k.touched = j.touched /\ k.unit = j.unit /\ k.left = j.left
      /\ k.says = j.says /\ k.stage = "bets" /\ k.todo \subseteq Bets
  BY <1>1 DEF JobRecord, SettleBet, Working
<1>6. job'[s] = k /\ DOMAIN job' = Settlers /\ \A v \in Settlers : v # s => job'[v] = job[v]
  BY <1>1, <1>2
<1>7. /\ \A e \in Events : EventRow(e) \notin R
      /\ \A u \in Slips : TicketRow(u) \notin R /\ \A q \in LegsOf[u] : LegRow(u, q) \notin R
      /\ \A u \in Tickets : u # t => now'[TicketRow(u)] = now[TicketRow(u)]
  BY <1>2, <1>4, RowsApart, Actors
<1> HIDE DEF k, R
<1>8. lock'[EventRow(j.event)] = lock[EventRow(j.event)] /\ j.event \in Events
  BY <1>1, <1>4, <1>7, RowsApart DEF Take, JobRecord
<1>9. Working(s, job[s])'
  BY <1>1, <1>2, <1>5, <1>6, <1>8 DEF Working, Placed, JobRecord, PicksOf, Ended
<1>10. k # Idle
  BY <1>5 DEF Idle
<1>11. /\ Locking' /\ Plans' /\ Jobs' /\ NoCashOutOfALostLeg' /\ truth' \in Facts
       /\ \A r \in Rows : lock'[r] = IF r \in R THEN s ELSE lock[r]
       /\ \A u \in Tickets : Placed(u)' <=> Placed(u)
  BY <1>2, <1>4, <1>6, <1>7, <1>9, <1>10, WriteKeeps
<1>12. GoodTickets'
  BY <1>2, <1>4, <1>7, TicketWritten
<1>13. \A u \in Slips :
         /\ lock'[TicketRow(u)] = lock[TicketRow(u)] /\ now'[TicketRow(u)] = now[TicketRow(u)]
         /\ \A q \in LegsOf[u] : lock'[LegRow(u, q)] = lock[LegRow(u, q)] /\ now'[LegRow(u, q)] = now[LegRow(u, q)]
  BY <1>4, <1>7, <1>11, RowsApart, Actors
<1>14. \A v \in Settlers : job[v] # Idle => job'[v].event = job[v].event /\ job'[v].touched = job[v].touched /\ job'[v] # Idle
  BY <1>5, <1>6, <1>10
<1>15. Decided'
  BY <1>2, <1>11, <1>13, <1>14, Actors DEF Decided, Ended
<1>16. Orderly => Waiting'
  <2> SUFFICES ASSUME Orderly PROVE Waiting'
    OBVIOUS
  <2> Waiting
    OBVIOUS
  <2>1. \A u \in Slips : \A v \in Settlers : lock[TicketRow(u)] = v => job[v] # Idle
    BY RowsApart, Actors DEF Locking
  <2> QED  BY <1>2, <1>13, <1>14, <2>1, Actors DEF Waiting, T, LegSeen, View
<1> QED  BY <1>11, <1>12, <1>15, <1>16 DEF Inv

\* leg.save: whoever saves a leg has yet to look at its multiple.
LEMMA SaveLegKeepsInv ==
  ASSUME Inv, NEW s \in Settlers, NEW t \in Slips, NEW p \in LegsOf[t], SaveLeg(s, <<t, p>>)  PROVE Inv'
<1> Locking /\ GoodTickets /\ Decided /\ (Orderly => Waiting)
  BY DEF Inv
<1> DEFINE j == job[s]
           R == {LegRow(t, p)}
           k == [j EXCEPT !.todo = @ \ {<<t, p>>}, !.touched = @ \union {t}]
<1>1. j # Idle /\ Working(s, j) /\ j \in JobRecord /\ DOMAIN job = Settlers
  BY AtWork DEF SaveLeg
<1>2. /\ j.stage = "legs" /\ <<t, p>> \in j.todo /\ UNCHANGED <<db, plan, truth>>
      /\ job' = [job EXCEPT ![s] = k]
  BY <1>1 DEF SaveLeg
<1>3. Placed(t) /\ p \in j.unit /\ EventOf[p] = j.event
  BY <1>1, <1>2 DEF Working, PicksOf
<1>4. /\ R \in SUBSET Rows /\ (\A r \in R : Free(s, r)) /\ Take(s, R) /\ DOMAIN now' = Rows
      /\ \A r \in Rows : r \notin R => now'[r] = now[r]
  BY RowsApart DEF SaveLeg, Write, Locking
<1>5. /\ k \in JobRecord /\ k.event = j.event /\ k.touched = j.touched \union {t} /\ k.unit = j.unit
      /\ k.left = j.left /\ k.says = j.says /\ k.stage = "legs" /\ k.todo \subseteq j.todo
  BY <1>1, <1>2, Actors DEF JobRecord
<1>6. job'[s] = k /\ DOMAIN job' = Settlers /\ \A v \in Settlers : v # s => job'[v] = job[v]
  BY <1>1, <1>2
<1>7. /\ \A e \in Events : EventRow(e) \notin R
      /\ \A u \in Tickets : TicketRow(u) \notin R
      /\ \A u \in Slips : \A q \in LegsOf[u] : LegRow(u, q) \in R => u = t /\ q = p
      /\ LegRow(t, p) \in R
  BY RowsApart
<1> HIDE DEF k, R
<1>8. lock'[EventRow(j.event)] = lock[EventRow(j.event)] /\ j.event \in Events
  BY <1>1, <1>4, <1>7, RowsApart DEF Take, JobRecord
<1>9. Working(s, job[s])'
  BY <1>1, <1>2, <1>3, <1>5, <1>6, <1>8 DEF Working, Placed, JobRecord, PicksOf, Ended
<1>10. k # Idle
  BY <1>5 DEF Idle
<1>11. /\ Locking' /\ Plans' /\ Jobs' /\ NoCashOutOfALostLeg' /\ truth' \in Facts
       /\ \A r \in Rows : lock'[r] = IF r \in R THEN s ELSE lock[r]
       /\ \A r \in R : lock[r] \in {s, Nobody}
       /\ \A v \in Settlers : v # s => \A r \in Rows : (lock'[r] = v <=> lock[r] = v) /\ (lock[r] = v => r \notin R)
       /\ \A u \in Tickets : Placed(u)' <=> Placed(u)
  BY <1>2, <1>4, <1>6, <1>7, <1>9, <1>10, WriteKeeps
<1>12. \A u \in Tickets : lock'[TicketRow(u)] = lock[TicketRow(u)] /\ now'[TicketRow(u)] = now[TicketRow(u)]
  BY <1>4, <1>7, <1>11, RowsApart
<1>13. GoodTickets'
  BY <1>2, <1>12 DEF GoodTickets
<1>14. Decided'
  <2>1. \A u \in Slips : \A q \in LegsOf[u] :
          db'[LegRow(u, q)] # "pending" => Placed(u)' /\ Ended(EventOf[q])'
    BY <1>2, <1>11, Actors DEF Decided, Ended
  <2>2. ASSUME NEW u \in Slips, NEW q \in LegsOf[u], NEW v \in Settlers, lock'[LegRow(u, q)] = v
        PROVE  /\ job'[v] # Idle /\ Placed(u)' /\ EventOf[q] = job'[v].event
               /\ u \in job'[v].touched \/ lock'[TicketRow(u)] = v
    <3>1. CASE u = t /\ q = p
      BY <1>3, <1>5, <1>6, <1>7, <1>10, <1>11, <2>2, <3>1, RowsApart, Actors
    <3>2. CASE ~(u = t /\ q = p)
      <4>1. lock[LegRow(u, q)] = v
        BY <1>7, <1>11, <2>2, <3>2, RowsApart
      <4> QED  BY <1>5, <1>6, <1>10, <1>11, <1>12, <4>1, Actors DEF Decided
    <3> QED  BY <3>1, <3>2
  <2> QED  BY <2>1, <2>2 DEF Decided, Over, Ended
<1>15. Orderly => Waiting'
  <2> SUFFICES ASSUME Orderly PROVE Waiting'
    OBVIOUS
  <2> Waiting
    OBVIOUS
  <2>1. ASSUME NEW u \in Slips, NEW v \in Settlers, lock'[TicketRow(u)] = v, u \notin job'[v].touched,
               now'[TicketRow(u)].status = "OPEN"
        PROVE  \E q \in LegsOf[u] : LegSeen(v, u, q)' = "pending"
    <3>1. lock[TicketRow(u)] = v /\ now[TicketRow(u)].status = "OPEN" /\ u \notin job[v].touched /\ (v = s => u # t)
      BY <1>5, <1>6, <1>12, <2>1, Actors
    <3>2. PICK q \in LegsOf[u] : LegSeen(v, u, q) = "pending"
      BY <3>1 DEF Waiting
    <3>3. LegSeen(v, u, q)' = LegSeen(v, u, q)
      <4>1. CASE v = s
        BY <1>2, <1>4, <1>7, <1>11, <3>1, <4>1, RowsApart DEF LegSeen, View
      <4>2. CASE v # s
        BY <1>2, <1>4, <1>11, <4>2, RowsApart DEF LegSeen, View
      <4> QED  BY <4>1, <4>2
    <3> QED  BY <3>2, <3>3
  <2> QED  BY <1>2, <2>1 DEF Waiting, T
<1> QED  BY <1>11, <1>13, <1>14, <1>15 DEF Inv

\* A multiple that is still open after _settle_slip_if_ready has a leg to wait for.
LEMMA OpenMeansPending ==
  ASSUME NEW row, NEW results, GoodRow(row), SlipAfter(row, results).status = "OPEN"
  PROVE  "pending" \in results
BY DEF SlipAfter

\* _settle_slip_if_ready: the multiple's row is locked before its legs are looked at.
LEMMA SettleSlipKeepsInv ==
  ASSUME Inv, NEW s \in Settlers, NEW t \in Tickets, SettleSlip(s, t)  PROVE Inv'
<1> Locking /\ Decided /\ (Orderly => Waiting) /\ GoodTickets
  BY DEF Inv
<1> DEFINE j == job[s]
           R == {TicketRow(t)}
           k == [j EXCEPT !.touched = @ \ {t}]
           results == {LegSeen(s, t, p) : p \in LegsOf[t]}
<1>1. j # Idle /\ Working(s, j) /\ j \in JobRecord /\ DOMAIN job = Settlers
  BY AtWork DEF SettleSlip
<1>2. /\ t \in Slips /\ UNCHANGED <<db, plan, truth>> /\ job' = [job EXCEPT ![s] = k]
      /\ j.stage = "legs" /\ j.todo = {}
  BY <1>1 DEF SettleSlip, Working
<1>3. Write(s, TicketRow(t), SlipAfter(View(s, TicketRow(t)), results))
  BY DEF SettleSlip
<1>4. /\ R \in SUBSET Rows /\ (\A r \in R : Free(s, r)) /\ Take(s, R) /\ DOMAIN now' = Rows
      /\ now'[TicketRow(t)] = SlipAfter(View(s, TicketRow(t)), results)
      /\ \A r \in Rows : r \notin R => now'[r] = now[r]
  BY <1>3, RowsApart DEF SettleSlip, Write, Locking
<1>5. /\ k \in JobRecord /\ k.event = j.event /\ k.touched = j.touched \ {t} /\ k.unit = j.unit /\ k.left = j.left
      /\ k.says = j.says /\ k.stage = "legs" /\ k.todo = {}
  BY <1>1, <1>2 DEF JobRecord
<1>6. job'[s] = k /\ DOMAIN job' = Settlers /\ \A v \in Settlers : v # s => job'[v] = job[v]
  BY <1>1, <1>2
<1>7. /\ \A e \in Events : EventRow(e) \notin R
      /\ \A u \in Tickets : u # t => TicketRow(u) \notin R
      /\ \A u \in Slips : \A q \in LegsOf[u] : LegRow(u, q) \notin R
      /\ \A u \in Tickets : u # t => now'[TicketRow(u)] = now[TicketRow(u)]
      /\ TicketRow(t) \in R
  BY <1>2, <1>4, RowsApart, Actors
<1> HIDE DEF k, R
<1>8. lock'[EventRow(j.event)] = lock[EventRow(j.event)] /\ j.event \in Events
  BY <1>1, <1>4, <1>7, RowsApart DEF Take, JobRecord
<1>9. Working(s, job[s])'
  BY <1>1, <1>2, <1>5, <1>6, <1>8 DEF Working, Placed, JobRecord, PicksOf, Ended
<1>10. k # Idle
  BY <1>5 DEF Idle
<1>11. /\ Locking' /\ Plans' /\ Jobs' /\ NoCashOutOfALostLeg' /\ truth' \in Facts
       /\ \A r \in Rows : lock'[r] = IF r \in R THEN s ELSE lock[r]
       /\ \A r \in R : lock[r] \in {s, Nobody}
       /\ \A u \in Tickets : Placed(u)' <=> Placed(u)
  BY <1>2, <1>4, <1>6, <1>7, <1>9, <1>10, WriteKeeps
<1>12. GoodTickets'
  BY <1>2, <1>4, <1>7, TicketWritten
<1>13. /\ \A u \in Slips : \A q \in LegsOf[u] :
            lock'[LegRow(u, q)] = lock[LegRow(u, q)] /\ now'[LegRow(u, q)] = now[LegRow(u, q)]
       /\ \A u \in Tickets : u # t => lock'[TicketRow(u)] = lock[TicketRow(u)]
       /\ lock'[TicketRow(t)] = s
  BY <1>4, <1>7, <1>11, RowsApart, Actors
<1>14. \A v \in Settlers : \A u \in Slips : \A q \in LegsOf[u] : LegSeen(v, u, q)' = LegSeen(v, u, q)
  BY <1>2, <1>13 DEF LegSeen, View
<1>15. Decided'
  <2>1. \A u \in Slips : \A q \in LegsOf[u] :
          db'[LegRow(u, q)] # "pending" => Placed(u)' /\ Ended(EventOf[q])'
    BY <1>2, <1>11, Actors DEF Decided, Ended
  <2>2. ASSUME NEW u \in Slips, NEW q \in LegsOf[u], NEW v \in Settlers, lock'[LegRow(u, q)] = v
        PROVE  /\ job'[v] # Idle /\ Placed(u)' /\ EventOf[q] = job'[v].event
               /\ u \in job'[v].touched \/ lock'[TicketRow(u)] = v
    <3>1. /\ job[v] # Idle /\ Placed(u) /\ EventOf[q] = job[v].event
          /\ u \in job[v].touched \/ lock[TicketRow(u)] = v
      BY <1>13, <2>2 DEF Decided
    <3>2. CASE v = s
      BY <1>5, <1>6, <1>10, <1>11, <1>13, <3>1, <3>2, Actors
    <3>3. CASE v # s
      BY <1>6, <1>7, <1>11, <1>13, <3>1, <3>3, RowsApart, Actors
    <3> QED  BY <3>2, <3>3
  <2> QED  BY <2>1, <2>2 DEF Decided, Over, Ended
<1>16. Orderly => Waiting'
  <2> SUFFICES ASSUME Orderly PROVE Waiting'
    OBVIOUS
  <2> Waiting
    OBVIOUS
  <2>1. ASSUME NEW u \in Slips, NEW v \in Settlers, lock'[TicketRow(u)] = v, u \notin job'[v].touched,
               now'[TicketRow(u)].status = "OPEN"
        PROVE  \E q \in LegsOf[u] : LegSeen(v, u, q)' = "pending"
    <3>1. CASE u = t
      <4>1. GoodRow(View(s, TicketRow(t)))
        BY DEF GoodTickets, View
      <4>2. "pending" \in results
        BY <1>4, <2>1, <3>1, <4>1, OpenMeansPending
      <4>3. v = s
        BY <1>13, <2>1, <3>1
      <4> QED  BY <1>14, <3>1, <4>2, <4>3
    <3>2. CASE u # t
      <4>1. lock[TicketRow(u)] = v /\ now[TicketRow(u)].status = "OPEN" /\ u \notin job[v].touched
        BY <1>5, <1>6, <1>7, <1>13, <2>1, <3>2, Actors
      <4> QED  BY <1>14, <4>1 DEF Waiting
    <3> QED  BY <3>1, <3>2
  <2> QED  BY <1>2, <2>1 DEF Waiting, T
<1> QED  BY <1>11, <1>12, <1>15, <1>16 DEF Inv

\* The settlement commits: it holds the row of every multiple whose legs it has made.
LEMMA CommitKeepsInv ==
  ASSUME Inv, NEW s \in Settlers, Commit(s)  PROVE Inv'
<1> Locking /\ Plans /\ GoodTickets /\ Jobs /\ Decided /\ (Orderly => Waiting) /\ NoCashOutOfALostLeg /\ truth' \in Facts
  BY DEF Inv, Commit
<1>1. job[s] # Idle /\ Working(s, job[s]) /\ job[s] \in JobRecord /\ DOMAIN job = Settlers /\ job[s].touched = {}
  BY AtWork DEF Commit, UnitDone
<1>2. /\ plan' = plan /\ now' = now /\ DOMAIN db' = Rows /\ DOMAIN now' = Rows
      /\ \A r \in Rows : db'[r] = IF lock[r] = s THEN now[r] ELSE db[r]
      /\ \A r \in Rows : lock'[r] = IF lock[r] = s THEN Nobody ELSE lock[r]
      /\ lock' \in [Rows -> Tickets \union Settlers \union {Nobody}]
  BY Actors DEF Commit, Publish, Drop, Locking
<1>3. job'[s] = Idle /\ DOMAIN job' = Settlers /\ \A v \in Settlers : v # s => job'[v] = job[v]
  BY <1>1 DEF Commit, Start
<1>4. \A v \in Settlers : v # s => \A r \in Rows : lock'[r] = v <=> lock[r] = v
  BY <1>2, Actors
<1>5. \A t \in Tickets : Placed(t) => Placed(t)'
  BY <1>2, RowsApart DEF Placed, GoodTickets, Rewrites
<1>6. \A e \in Events : Ended(e) \/ lock[EventRow(e)] = s => Ended(e)'
  BY <1>2, RowsApart DEF Jobs, Over, Ended
<1>7. \A t \in Slips : \A p \in LegsOf[t] : lock[LegRow(t, p)] = s => lock[TicketRow(t)] = s
  BY <1>1 DEF Decided
<1>8. Locking'
  <2>1. \A r \in Rows : (lock[r] \in Tickets \union {Nobody})' => (now[r] = db[r])'
    BY <1>2, Actors DEF Locking
  <2>2. \A t, u \in Tickets : lock'[TicketRow(t)] = u => t = u /\ plan'[t] # "none"
    BY <1>2, RowsApart, Actors DEF Locking
  <2>3. \A t \in Slips : \A p \in LegsOf[t] : lock'[LegRow(t, p)] \notin Tickets
    BY <1>2, RowsApart, Actors DEF Locking
  <2>4. \A v \in Settlers : job'[v] = Idle => \A r \in Rows : lock'[r] # v
    BY <1>2, <1>3, <1>4, Actors DEF Locking
  <2>5. plan' \in [Tickets -> {"none", "PART", "CASHED_OUT", "REJECTED"} \union Live]
    BY <1>2 DEF Locking
  <2> QED  BY <1>2, <2>1, <2>2, <2>3, <2>4, <2>5 DEF Locking, Live
<1>9. Plans'
  BY <1>2, RowsApart, Actors DEF Plans, T
<1>10. GoodTickets'
  BY <1>2, RowsApart DEF GoodTickets, Rewrites
<1>11. Jobs'
  <2>1. ASSUME NEW v \in Settlers, job'[v] # Idle PROVE Working(v, job[v])'
    BY <1>3, <1>4, <1>5, <1>6, <1>2, <2>1, RowsApart, Actors, JobGoesOn DEF Jobs
  <2>2. \A e \in Events : lock'[EventRow(e)] \in Settlers => now'[EventRow(e)] = "FT"
    BY <1>2, RowsApart, Actors DEF Jobs
  <2> QED  BY <1>3, <2>1, <2>2 DEF Jobs
<1>12. Decided'
  <2>1. ASSUME NEW t \in Slips, NEW p \in LegsOf[t], db'[LegRow(t, p)] # "pending"
        PROVE  Placed(t)' /\ Ended(EventOf[p])'
    <3>0. EventOf[p] \in Events
      BY Actors
    <3>1. CASE lock[LegRow(t, p)] = s
      <4>1. Placed(t) /\ EventOf[p] = job[s].event
        BY <3>1 DEF Decided
      <4>2. Ended(EventOf[p]) \/ lock[EventRow(EventOf[p])] = s
        BY <1>1, <4>1 DEF Working
      <4> QED  BY <1>5, <1>6, <3>0, <4>1, <4>2, Actors
    <3>2. CASE lock[LegRow(t, p)] # s
      BY <1>2, <1>5, <1>6, <2>1, <3>0, <3>2, RowsApart, Actors DEF Decided
    <3> QED  BY <3>1, <3>2
  <2>2. ASSUME NEW t \in Slips, NEW p \in LegsOf[t], NEW v \in Settlers, lock'[LegRow(t, p)] = v
        PROVE  /\ job'[v] # Idle /\ Placed(t)' /\ EventOf[p] = job'[v].event
               /\ t \in job'[v].touched \/ lock'[TicketRow(t)] = v
    BY <1>2, <1>3, <1>4, <1>5, <2>2, RowsApart, Actors DEF Decided
  <2> QED  BY <2>1, <2>2 DEF Decided, Over, Ended
<1>13. Orderly => Waiting'
  <2> SUFFICES ASSUME Orderly PROVE Waiting'
    OBVIOUS
  <2> Waiting
    OBVIOUS
  <2>1. ASSUME NEW t \in Slips, T(t)' = "OPEN"  PROVE \E p \in LegsOf[t] : db'[LegRow(t, p)] = "pending"
    <3>1. CASE lock[TicketRow(t)] = s
      <4>1. now[TicketRow(t)].status = "OPEN"
        BY <1>2, <2>1, <3>1, RowsApart, Actors DEF T
      <4>2. PICK p \in LegsOf[t] : LegSeen(s, t, p) = "pending"
        BY <1>1, <3>1, <4>1 DEF Waiting
      <4> QED  BY <1>2, <4>2, RowsApart DEF LegSeen, View
    <3>2. CASE lock[TicketRow(t)] # s
      <4>1. T(t) = "OPEN"
        BY <1>2, <2>1, <3>2, RowsApart, Actors DEF T
      <4> QED  BY <1>2, <1>7, <3>2, <4>1, RowsApart DEF Waiting
    <3> QED  BY <3>1, <3>2
  <2>2. ASSUME NEW t \in Slips, NEW v \in Settlers, lock'[TicketRow(t)] = v, t \notin job'[v].touched,
               now'[TicketRow(t)].status = "OPEN"
        PROVE  \E p \in LegsOf[t] : LegSeen(v, t, p)' = "pending"
    <3>1. v # s /\ lock[TicketRow(t)] = v
      BY <1>2, <2>2, RowsApart, Actors
    <3>2. PICK p \in LegsOf[t] : LegSeen(v, t, p) = "pending"
      BY <1>2, <1>3, <2>2, <3>1 DEF Waiting
    <3>3. lock[LegRow(t, p)] # s
      BY <1>7, <3>1
    <3> QED  BY <1>2, <3>1, <3>2, <3>3, RowsApart DEF LegSeen, View
  <2>3. ASSUME NEW t \in Slips, plan'[t] = "OPEN", NEW p \in LegsOf[t]  PROVE db'[LegRow(t, p)] = "pending"
    <3>1. lock[TicketRow(t)] # s
      BY <1>2, <2>3, Actors DEF Plans
    <3> QED  BY <1>2, <1>7, <2>3, <3>1, RowsApart DEF Waiting
  <2> QED  BY <2>1, <2>2, <2>3 DEF Waiting
<1>14. NoCashOutOfALostLeg'
  <2>1. ASSUME NEW t \in Slips, plan'[t] \in {"PART", "CASHED_OUT"}, NEW p \in LegsOf[t]
        PROVE  db'[LegRow(t, p)] # "lost"
    <3>1. lock[TicketRow(t)] # s
      BY <1>2, <2>1, Actors DEF Plans
    <3> QED  BY <1>2, <1>7, <2>1, <3>1, RowsApart DEF NoCashOutOfALostLeg
  <2> QED  BY <2>1 DEF NoCashOutOfALostLeg
<1> QED  BY <1>8, <1>9, <1>10, <1>11, <1>12, <1>13, <1>14 DEF Inv

\* A transaction that dies leaves no trace, whoever runs it.
LEMMA CrashKeepsInv ==
  ASSUME Inv, NEW w \in Tickets \union Settlers, Crash(w)  PROVE Inv'
<1> Locking /\ Plans /\ GoodTickets /\ Jobs /\ Decided /\ (Orderly => Waiting) /\ NoCashOutOfALostLeg /\ truth' \in Facts
  BY DEF Inv, Crash
<1>1. /\ db' = db /\ DOMAIN db' = Rows /\ DOMAIN now' = Rows
      /\ \A r \in Rows : now'[r] = IF lock[r] = w THEN db[r] ELSE now[r]
      /\ \A r \in Rows : lock'[r] = IF lock[r] = w THEN Nobody ELSE lock[r]
      /\ lock' \in [Rows -> Tickets \union Settlers \union {Nobody}]
  BY Actors DEF Crash, Rollback, Drop, Locking
<1>2. \/ w \in Settlers /\ job' = [job EXCEPT ![w] = Idle] /\ plan' = plan
      \/ w \in Tickets /\ plan' = [plan EXCEPT ![w] = "none"] /\ job' = job
  BY DEF Crash, Start
<1>3. /\ DOMAIN job' = Settlers /\ \A v \in Settlers : v # w => job'[v] = job[v]
      /\ w \in Settlers => job'[w] = Idle
  BY <1>2, Actors DEF Jobs
<1>4. /\ \A t \in Tickets : t # w => plan'[t] = plan[t]
      /\ w \in Tickets => plan'[w] = "none"
      /\ plan' \in [Tickets -> {"none", "PART", "CASHED_OUT", "REJECTED"} \union Live]
  BY <1>2, Actors DEF Locking
<1>5. \A v : v # w /\ v # Nobody => \A r \in Rows : lock'[r] = v <=> lock[r] = v
  BY <1>1
<1>6. \A r \in Rows : lock'[r] # w
  BY <1>1, Actors
<1>7. Locking'
  <2>1. \A r \in Rows : (lock[r] \in Tickets \union {Nobody})' => (now[r] = db[r])'
    BY <1>1, Actors DEF Locking
  <2>2. \A t, u \in Tickets : lock'[TicketRow(t)] = u => t = u /\ plan'[t] # "none"
    <3> SUFFICES ASSUME NEW t \in Tickets, NEW u \in Tickets, lock'[TicketRow(t)] = u
                 PROVE  t = u /\ plan'[t] # "none"
      OBVIOUS
    <3>1. u # w /\ u # Nobody
      BY <1>6, RowsApart, Actors
    <3>2. lock[TicketRow(t)] = u
      BY <1>5, <3>1, RowsApart
    <3> QED  BY <1>4, <3>1, <3>2 DEF Locking
  <2>3. \A t \in Slips : \A p \in LegsOf[t] : lock'[LegRow(t, p)] \notin Tickets
    BY <1>1, RowsApart, Actors DEF Locking
  <2>4. \A v \in Settlers : job'[v] = Idle => \A r \in Rows : lock'[r] # v
    BY <1>3, <1>5, <1>6, Actors DEF Locking
  <2> QED  BY <1>1, <1>4, <2>1, <2>2, <2>3, <2>4 DEF Locking, Live
<1>8. Plans'
  <2>1. ASSUME NEW t \in Tickets, plan'[t] # "none"  PROVE t # w /\ lock'[TicketRow(t)] = t /\ plan'[t] = plan[t]
    <3>1. t # w /\ plan'[t] = plan[t]
      BY <1>4, <2>1
    <3>2. lock[TicketRow(t)] = t
      BY <2>1, <3>1 DEF Plans
    <3>3. t # Nobody /\ TicketRow(t) \in Rows
      BY RowsApart, Actors
    <3> QED  BY <1>5, <3>1, <3>2, <3>3
  <2> QED  BY <1>1, <2>1 DEF Plans, T
<1>9. GoodTickets'
  BY <1>1, RowsApart DEF GoodTickets, Rewrites
<1>10. Jobs'
  <2>1. ASSUME NEW v \in Settlers, job'[v] # Idle PROVE Working(v, job[v])'
    <3>1. v # w /\ job'[v] = job[v]
      BY <1>3, <2>1
    <3>2. \A e \in Events : lock[EventRow(e)] = v => lock'[EventRow(e)] = v
      BY <1>5, <3>1, RowsApart, Actors
    <3> QED  BY <1>1, <2>1, <3>1, <3>2, JobGoesOn DEF Jobs, Placed, Ended
  <2>2. \A e \in Events : lock'[EventRow(e)] \in Settlers => now'[EventRow(e)] = "FT"
    BY <1>1, RowsApart, Actors DEF Jobs
  <2> QED  BY <1>3, <2>1, <2>2 DEF Jobs
<1>11. Decided'
  <2>1. \A t \in Slips : \A p \in LegsOf[t] :
          db'[LegRow(t, p)] # "pending" => Placed(t)' /\ Ended(EventOf[p])'
    BY <1>1 DEF Decided, Placed, Ended
  <2>2. ASSUME NEW t \in Slips, NEW p \in LegsOf[t], NEW v \in Settlers, lock'[LegRow(t, p)] = v
        PROVE  /\ job'[v] # Idle /\ Placed(t)' /\ EventOf[p] = job'[v].event
               /\ t \in job'[v].touched \/ lock'[TicketRow(t)] = v
    <3>1. v # w /\ job'[v] = job[v] /\ lock[LegRow(t, p)] = v
      BY <1>3, <1>5, <1>6, <2>2, RowsApart, Actors
    <3>2. lock[TicketRow(t)] = v => lock'[TicketRow(t)] = v
      BY <1>5, <3>1, RowsApart, Actors
    <3> QED  BY <1>1, <3>1, <3>2 DEF Decided, Placed
  <2> QED  BY <2>1, <2>2 DEF Decided, Over, Ended
<1>12. Orderly => Waiting'
  <2> SUFFICES ASSUME Orderly PROVE Waiting'
    OBVIOUS
  <2> Waiting
    OBVIOUS
  <2>1. \A t \in Slips : T(t)' = "OPEN" => \E p \in LegsOf[t] : db'[LegRow(t, p)] = "pending"
    BY <1>1 DEF Waiting, T
  <2>2. ASSUME NEW t \in Slips, NEW v \in Settlers, lock'[TicketRow(t)] = v, t \notin job'[v].touched,
               now'[TicketRow(t)].status = "OPEN"
        PROVE  \E p \in LegsOf[t] : LegSeen(v, t, p)' = "pending"
    <3>1. v # w /\ job'[v] = job[v] /\ lock[TicketRow(t)] = v
      BY <1>3, <1>5, <1>6, <2>2, RowsApart, Actors
    <3>2. now'[TicketRow(t)] = now[TicketRow(t)]
      BY <1>1, <3>1, RowsApart, Actors
    <3>3. PICK p \in LegsOf[t] : LegSeen(v, t, p) = "pending"
      BY <2>2, <3>1, <3>2 DEF Waiting
    <3> QED  BY <1>1, <3>1, <3>3, RowsApart, Actors DEF LegSeen, View
  <2>3. \A t \in Slips : plan'[t] = "OPEN" => \A p \in LegsOf[t] : db'[LegRow(t, p)] = "pending"
    BY <1>1, <1>4, Actors DEF Waiting
  <2> QED  BY <2>1, <2>2, <2>3 DEF Waiting
<1>13. NoCashOutOfALostLeg'
  BY <1>1, <1>4, Actors DEF NoCashOutOfALostLeg
<1> QED  BY <1>7, <1>8, <1>9, <1>10, <1>11, <1>12, <1>13 DEF Inv

-----------------------------------------------------------------------------
(* The theorems.                                                           *)

\* A step of the system is one of these.
LEMMA StepsMay ==
  ASSUME Next
  PROVE  \/ \E t \in Tickets : Place(t) \/ Confirm(t) \/ CashOut(t) \/ Finish(t)
         \/ \E e \in Events : KickOff(e) \/ GoSilent(e)
         \/ \E s \in Settlers, e \in Events : FullTime(s, e) \/ AutoResolve(s, e) \/ VoidMatch(s, e) \/ ByHand(s, e)
         \/ \E s \in Settlers : ListBets(s) \/ ListLegs(s) \/ NextUnit(s) \/ Commit(s)
         \/ \E s \in Settlers, t \in Tickets : SettleBet(s, t) \/ SettleSlip(s, t)
         \/ \E s \in Settlers : \E t \in Slips : \E p \in LegsOf[t] : SaveLeg(s, <<t, p>>)
         \/ \E w \in Tickets \union Settlers : Crash(w)
<1>1. CASE \E t \in Tickets : OnTicket(t)
  BY <1>1 DEF OnTicket
<1>2. CASE \E s \in Settlers : Settle(s)
  BY <1>2 DEF Settle, Work
<1>3. CASE \E e \in Events : KickOff(e) \/ GoSilent(e)
  BY <1>3
<1>4. CASE \E w \in Mortal : Crash(w)
  BY <1>4, TicketsAssumption DEF Settlers
<1> QED  BY <1>1, <1>2, <1>3, <1>4 DEF Next

\* Nothing is placed, decided or held at first.
LEMMA InitInv == Init => Inv
<1> SUFFICES ASSUME Init PROVE Inv
  OBVIOUS
<1>1. /\ \A t \in Tickets : db[TicketRow(t)] = [status |-> "none", entries |-> {}] /\ now = db
      /\ DOMAIN db = Rows
  <2>1. \A t \in Tickets : TicketRow(t) \in TicketRows /\ TicketRow(t) \notin EventRows
    BY RowsApart DEF TicketRows, EventRows
  <2> QED  BY <2>1, RowsApart DEF Init
<1>2. \A t \in Slips : \A p \in LegsOf[t] : db[LegRow(t, p)] = "pending"
  <2>1. \A t \in Slips : \A p \in LegsOf[t] : LegRow(t, p) \notin TicketRows /\ LegRow(t, p) \notin EventRows
    BY RowsApart DEF TicketRows, EventRows
  <2> QED  BY <2>1, RowsApart DEF Init
<1>3. /\ \A r \in Rows : lock[r] = Nobody
      /\ \A s \in Settlers : job[s] = Idle
      /\ \A t \in Tickets : plan[t] = "none"
      /\ truth \in Facts /\ DOMAIN job = Settlers
  BY DEF Init
<1>4. Locking
  BY <1>1, <1>3, RowsApart, Actors DEF Init, Locking
<1>5. Plans /\ Jobs /\ NoCashOutOfALostLeg
  BY <1>3, RowsApart, Actors DEF Plans, Jobs, NoCashOutOfALostLeg
<1>6. GoodTickets
  BY <1>1 DEF GoodTickets, GoodRow, Rewrites, TicketRecord, Returns
<1>7. Decided /\ (Orderly => Waiting)
  <2>1. \A t \in Tickets : T(t) = "none" /\ lock[TicketRow(t)] \notin Settlers
    BY <1>1, <1>3, RowsApart, Actors DEF T
  <2> QED  BY <1>2, <1>3, <2>1, RowsApart, Actors DEF Decided, Waiting
<1> QED  BY <1>3, <1>4, <1>5, <1>6, <1>7 DEF Inv

\* The rows, the locks and the plans stay as the invariant says, whatever step is taken.
THEOREM Invariance == Spec => []Inv
<1>1. Inv /\ [Next]_vars => Inv'
  <2> SUFFICES ASSUME Inv, [Next]_vars PROVE Inv'
    OBVIOUS
  <2>1. CASE Next
    BY <2>1, StepsMay, PlaceKeepsInv, ConfirmKeepsInv, CashOutKeepsInv, FinishKeepsInv, FeedKeepsInv,
       FullTimeKeepsInv, BeginKeepsInv, ListBetsKeepsInv, ListLegsKeepsInv, NextUnitKeepsInv, CommitKeepsInv,
       SettleBetKeepsInv, SettleSlipKeepsInv, SaveLegKeepsInv, CrashKeepsInv
  <2>2. CASE UNCHANGED vars
    BY <2>2 DEF vars, Inv, Locking, Plans, T, GoodTickets, Jobs, Working, Placed, Decided, Waiting, LegSeen, View,
       NoCashOutOfALostLeg, JobRecord, PicksOf, Ended
  <2> QED  BY <2>1, <2>2
<1> QED  BY InitInv, <1>1, PTL DEF Spec

\* Money goes back for a ticket at most once, and as its status says: no interleaving of
\* settle_bet, _settle_slip_if_ready, _reject_accepting, cash_out and their crashes pays a
\* ticket twice.
THEOREM MoneyGoesBackOnce == Spec => []ReturnedOnce
<1>1. Inv => ReturnedOnce
  BY DEF Inv, GoodTickets, GoodRow, ReturnedOnce, Row
<1> QED  BY <1>1, Invariance, PTL

\* Two settlements that each decide a leg of a multiple do not leave it to each other: an
\* open multiple always has an undecided leg, settlements running or not, if no operator
\* settles one of its legs before its match is over.
THEOREM NothingIsLeftBehind == ASSUME Orderly PROVE Spec => []NothingLeftBehind
<1>1. Inv => NothingLeftBehind
  BY Orderly DEF Inv, Waiting, T, NothingLeftBehind, Row
<1> QED  BY <1>1, Invariance, PTL

\* cash_out never pays for a multiple with a leg that a settlement has made lost since the
\* offer was computed.
THEOREM LostLegsAreNotCashedOut == Spec => []NoCashOutOfALostLeg
<1>1. Inv => NoCashOutOfALostLeg
  BY DEF Inv
<1> QED  BY <1>1, Invariance, PTL

\* What is settled, rejected or cashed out stays: a transaction on a ticket only starts from
\* a live one, and settle_bet and _settle_slip_if_ready look at the status again.
THEOREM SettledStaysSettled == Spec => SettledIsFinal
<1>1. ASSUME Inv, [Next]_vars, NEW t \in Tickets, Row(t).status \in Settled  PROVE Row(t)' = Row(t)
  <2> Locking /\ Plans /\ GoodTickets
    BY <1>1 DEF Inv
  <2>1. CASE \E u \in Tickets : Finish(u)
    <3>1. PICK u \in Tickets : Finish(u)
      BY <2>1
    <3>2. u # t
      BY <1>1, <3>1, MadeIsGood DEF Finish, T, Row
    <3>3. lock[TicketRow(t)] # u /\ TicketRow(t) \in Rows
      BY <3>2, RowsApart DEF Locking
    <3> QED  BY <3>1, <3>3 DEF Finish, Publish, Row
  <2>2. CASE \E e \in Events : KickOff(e) \/ GoSilent(e)
    BY <2>2, RowsApart DEF KickOff, GoSilent, Row, Locking
  <2>3. CASE \E s \in Settlers : Commit(s)
    <3>1. db'[TicketRow(t)] \in {db[TicketRow(t)], now[TicketRow(t)]}
      BY <2>3, RowsApart DEF Commit, Publish
    <3>2. now[TicketRow(t)] = db[TicketRow(t)]
      BY <1>1 DEF GoodTickets, Rewrites, Row
    <3> QED  BY <3>1, <3>2 DEF Row
  <2>4. CASE UNCHANGED db
    BY <2>4 DEF Row
  <2>5. CASE UNCHANGED vars
    BY <2>4, <2>5 DEF vars
  <2>6. CASE Next
    <3>1. \/ \E u \in Tickets : Finish(u)
          \/ \E e \in Events : KickOff(e) \/ GoSilent(e)
          \/ \E s \in Settlers : Commit(s)
          \/ UNCHANGED db
      BY <2>6, StepsMay DEF Place, Confirm, CashOut, FullTime, AutoResolve, VoidMatch, ByHand, ListBets, ListLegs,
         NextUnit, SettleBet, SettleSlip, SaveLeg, Crash, Rollback
    <3> QED  BY <2>1, <2>2, <2>3, <2>4, <3>1
  <2> QED  BY <1>1, <2>5, <2>6
<1>2. Inv /\ [Next]_vars => [\A t \in Tickets : Row(t).status \in Settled => Row(t)' = Row(t)]_vars
  BY <1>1
<1> QED  BY <1>2, Invariance, PTL DEF Spec, SettledIsFinal

-----------------------------------------------------------------------------
(* A multiple is as its legs say, when the feed does not report a match    *)
(* after all that was given up and voided: all settlements that decide a   *)
(* leg then decide the same.                                               *)

\* Matches whose settlements need not agree.
Unruly == Late \union Hasty

Agrees(s) ==
  LET j == job[s]
  IN  /\ \A p \in PicksOf(j.event) : j.says[p] \in {"unknown", Says(View(s, EventRow(j.event)), p)}
      /\ \A p \in j.unit \union j.left : j.says[p] # "unknown"

Agreed ==
  /\ \A e \in Events \ Unruly : lock[EventRow(e)] \in Settlers => db[EventRow(e)] # "silent"
  /\ \A s \in Settlers : job[s] # Idle /\ job[s].event \notin Unruly => Agrees(s)
  /\ \A t \in Slips : \A p \in LegsOf[t] :
       /\ db[LegRow(t, p)] # "pending" => db[LegRow(t, p)] = Says(db[EventRow(EventOf[p])], p)
       /\ \A s \in Settlers : lock[LegRow(t, p)] = s =>
            now[LegRow(t, p)] = Says(View(s, EventRow(EventOf[p])), p)

\* What a multiple's status says of its legs, committed and as the settlement sees them
\* that holds it.
Follows(status, results) ==
  /\ status = "WON" => results \intersect {"pending", "lost"} = {}
  /\ status = "LOST" => "lost" \in results /\ "pending" \notin results

Followed ==
  \A t \in Slips :
    /\ Follows(T(t), {db[LegRow(t, p)] : p \in LegsOf[t]})
    /\ \A s \in Settlers : lock[TicketRow(t)] = s =>
         Follows(now[TicketRow(t)].status, {LegSeen(s, t, p) : p \in LegsOf[t]})

OnTime == \A t \in Slips : \A p \in LegsOf[t] : EventOf[p] \notin Unruly

\* A step that leaves the legs alone, and the matches that are over.
LEMMA LegsAside ==
  ASSUME Inv, Agreed, Followed, OnTime, truth' = truth,
         \A t \in Slips : \A p \in LegsOf[t] :
           /\ db'[LegRow(t, p)] = db[LegRow(t, p)] /\ now'[LegRow(t, p)] = now[LegRow(t, p)]
           /\ \A s \in Settlers : lock'[LegRow(t, p)] = s <=> lock[LegRow(t, p)] = s,
         \A t \in Slips :
           /\ T(t)' = T(t) \/ T(t)' \notin {"WON", "LOST"}
           /\ \A s \in Settlers : lock'[TicketRow(t)] = s <=> lock[TicketRow(t)] = s
           /\ lock[TicketRow(t)] \in Settlers => now'[TicketRow(t)] = now[TicketRow(t)],
         \A e \in Events :
           /\ db[EventRow(e)] \in Over => db'[EventRow(e)] = db[EventRow(e)]
           /\ e \notin Unruly /\ lock'[EventRow(e)] \in Settlers => db'[EventRow(e)] # "silent"
           /\ \A s \in Settlers : job[s] # Idle => (lock'[EventRow(e)] = s <=> lock[EventRow(e)] = s)
           /\ \A s \in Settlers : job[s] # Idle /\ lock[EventRow(e)] = s => now'[EventRow(e)] = now[EventRow(e)],
         \A s \in Settlers : job'[s] = job[s] \/ (job'[s].event \notin Unruly => Agrees(s)')
  PROVE  Agreed' /\ Followed'
<1> Jobs /\ Decided /\ Locking
  BY DEF Inv
<1>1. \A s \in Settlers : \A e \in Events \ Unruly : job[s] # Idle /\ e = job[s].event =>
        View(s, EventRow(e))' = View(s, EventRow(e))
  <2> SUFFICES ASSUME NEW s \in Settlers, NEW e \in Events \ Unruly, job[s] # Idle, e = job[s].event
               PROVE  View(s, EventRow(e))' = View(s, EventRow(e))
    OBVIOUS
  <2>1. db[EventRow(e)] \in Over \/ lock[EventRow(e)] = s
    BY DEF Jobs, Working, Ended, Unruly
  <2> QED  BY <2>1 DEF View
<1>2. ASSUME NEW s \in Settlers, job'[s] # Idle, job'[s].event \notin Unruly  PROVE Agrees(s)'
  <2>1. CASE job'[s] = job[s]
    <3>1. job[s].event \in Events
      BY <1>2, <2>1 DEF Jobs, Working, JobRecord
    <3>2. Agrees(s)
      BY <1>2, <2>1 DEF Agreed
    <3>3. View(s, EventRow(job[s].event))' = View(s, EventRow(job[s].event))
      BY <1>1, <1>2, <2>1, <3>1
    <3> QED  BY <2>1, <3>2, <3>3 DEF Agrees, Says, PicksOf
  <2> QED  BY <1>2, <2>1
<1>3. ASSUME NEW t \in Slips, NEW p \in LegsOf[t], db'[LegRow(t, p)] # "pending"
      PROVE  db'[LegRow(t, p)] = Says(db[EventRow(EventOf[p])], p)'
  <2>1. db[EventRow(EventOf[p])] \in Over /\ EventOf[p] \in Events
    BY <1>3, Actors DEF Decided, Ended, Unruly, OnTime
  <2> QED  BY <1>3, <2>1 DEF Agreed, Says
<1>4. ASSUME NEW t \in Slips, NEW p \in LegsOf[t], NEW s \in Settlers, lock'[LegRow(t, p)] = s
      PROVE  now'[LegRow(t, p)] = Says(View(s, EventRow(EventOf[p])), p)'
  <2>1. lock[LegRow(t, p)] = s /\ job[s] # Idle /\ EventOf[p] = job[s].event /\ EventOf[p] \in Events \ Unruly
    BY <1>4, Actors DEF Decided, OnTime
  <2>2. View(s, EventRow(EventOf[p]))' = View(s, EventRow(EventOf[p]))
    BY <1>1, <2>1
  <2> QED  BY <2>1, <2>2 DEF Agreed, Says
<1>5. \A e \in Events \ Unruly : lock'[EventRow(e)] \in Settlers => db'[EventRow(e)] # "silent"
  OBVIOUS
<1>6. Agreed'
  BY <1>2, <1>3, <1>4, <1>5 DEF Agreed
<1>7. \A s \in Settlers : \A t \in Slips : \A p \in LegsOf[t] : LegSeen(s, t, p)' = LegSeen(s, t, p)
  BY DEF LegSeen, View
<1>8. ASSUME NEW t \in Slips  PROVE Follows(T(t), {db[LegRow(t, p)] : p \in LegsOf[t]})'
  <2>1. {db[LegRow(t, p)] : p \in LegsOf[t]}' = {db[LegRow(t, p)] : p \in LegsOf[t]}
    OBVIOUS
  <2> QED  BY <2>1 DEF Followed, Follows
<1>9. ASSUME NEW t \in Slips, NEW s \in Settlers, lock'[TicketRow(t)] = s
      PROVE  Follows(now[TicketRow(t)].status, {LegSeen(s, t, p) : p \in LegsOf[t]})'
  <2>1. {LegSeen(s, t, p) : p \in LegsOf[t]}' = {LegSeen(s, t, p) : p \in LegsOf[t]}
    BY <1>7
  <2>2. lock[TicketRow(t)] = s /\ now'[TicketRow(t)] = now[TicketRow(t)]
    BY <1>9
  <2>3. Follows(now[TicketRow(t)].status, {LegSeen(s, t, p) : p \in LegsOf[t]})
    BY <2>2 DEF Followed
  <2> QED  BY <2>1, <2>2, <2>3 DEF Follows
<1>10. Followed'
  BY <1>8, <1>9 DEF Followed
<1> QED  BY <1>6, <1>10

\* Transactions on tickets and the feed leave settlements' rows alone.
LEMMA TicketStepsAgree ==
  ASSUME Inv, Agreed, Followed, OnTime,
         NEW t \in Tickets, Place(t) \/ Confirm(t) \/ CashOut(t) \/ Finish(t)
  PROVE  Agreed' /\ Followed'
<1> Locking /\ Plans /\ GoodTickets
  BY DEF Inv
<1>1. truth' = truth /\ job' = job
  BY DEF Place, Confirm, CashOut, Finish
<1>2. \A s \in Settlers : \A r \in Rows : lock'[r] = s <=> lock[r] = s
  <2>1. CASE Place(t)
    BY <2>1, Actors DEF Place, Take, Free, Locking
  <2>2. CASE Confirm(t) \/ CashOut(t)
    BY <2>2, Actors DEF Confirm, CashOut, Take, Free, Locking
  <2>3. CASE Finish(t)
    BY <2>3, Actors DEF Finish, Publish, Drop, Locking
  <2> QED  BY <2>1, <2>2, <2>3
<1>3. /\ \A r \in Rows : r # TicketRow(t) => db'[r] = db[r] /\ now'[r] = now[r]
      /\ T(t)' = T(t) \/ T(t)' \notin {"WON", "LOST"}
      /\ lock[TicketRow(t)] \in Settlers => now'[TicketRow(t)] = now[TicketRow(t)]
  <2>1. CASE Place(t) \/ Confirm(t) \/ CashOut(t)
    BY <2>1 DEF Place, Confirm, CashOut, T
  <2>2. CASE Finish(t)
    <3>1. lock[TicketRow(t)] = t /\ plan[t] # "none"
      BY <2>2 DEF Finish, Plans
    <3>2. /\ \A r \in Rows : r # TicketRow(t) => db'[r] = db[r] /\ now'[r] = now[r]
          /\ db'[TicketRow(t)] = Made(t)
      BY <2>2, <3>1, RowsApart DEF Finish, Publish, Locking
    <3>3. T(t)' = T(t) \/ T(t)' \notin {"WON", "LOST"}
      BY <3>1, <3>2, MadeIsGood DEF T, Plans, Live
    <3> QED  BY <3>1, <3>2, <3>3, Actors
  <2> QED  BY <2>1, <2>2
<1>4. \A u \in Slips :
        /\ T(u)' = T(u) \/ T(u)' \notin {"WON", "LOST"}
        /\ lock[TicketRow(u)] \in Settlers => now'[TicketRow(u)] = now[TicketRow(u)]
  BY <1>3, RowsApart, Actors DEF T
<1>5. /\ \A u \in Slips : \A p \in LegsOf[u] : db'[LegRow(u, p)] = db[LegRow(u, p)] /\ now'[LegRow(u, p)] = now[LegRow(u, p)]
      /\ \A e \in Events : db'[EventRow(e)] = db[EventRow(e)] /\ now'[EventRow(e)] = now[EventRow(e)]
  BY <1>3, RowsApart
<1>6. \A e \in Events : e \notin Unruly /\ lock'[EventRow(e)] \in Settlers => db'[EventRow(e)] # "silent"
  BY <1>2, <1>5, RowsApart DEF Agreed
<1> QED  BY <1>1, <1>2, <1>4, <1>5, <1>6, RowsApart, Actors, LegsAside

\* The feed does not move a match that is over.
LEMMA FeedAgrees ==
  ASSUME Inv, Agreed, Followed, OnTime, NEW e \in Events, KickOff(e) \/ GoSilent(e)
  PROVE  Agreed' /\ Followed'
<1> Locking
  BY DEF Inv
<1>1. /\ truth' = truth /\ job' = job /\ lock' = lock
      /\ lock[EventRow(e)] = Nobody /\ db[EventRow(e)] \in {"prematch", "live"}
      /\ \A r \in Rows : r # EventRow(e) => db'[r] = db[r] /\ now'[r] = now[r]
  BY RowsApart DEF KickOff, GoSilent, Locking
<1>2. /\ \A t \in Slips : \A p \in LegsOf[t] : db'[LegRow(t, p)] = db[LegRow(t, p)] /\ now'[LegRow(t, p)] = now[LegRow(t, p)]
      /\ \A t \in Slips : T(t)' = T(t) /\ now'[TicketRow(t)] = now[TicketRow(t)]
      /\ \A d \in Events : d # e => db'[EventRow(d)] = db[EventRow(d)] /\ now'[EventRow(d)] = now[EventRow(d)]
  BY <1>1, RowsApart, Actors DEF T
<1>3. \A d \in Events : d \notin Unruly /\ lock'[EventRow(d)] \in Settlers => db'[EventRow(d)] # "silent"
  BY <1>1, <1>2, Actors DEF Agreed
<1>4. \A d \in Events : /\ db[EventRow(d)] \in Over => db'[EventRow(d)] = db[EventRow(d)]
                        /\ lock[EventRow(d)] \in Settlers => now'[EventRow(d)] = now[EventRow(d)]
  BY <1>1, <1>2, Actors DEF Over, Ended
<1> QED  BY <1>1, <1>2, <1>3, <1>4, LegsAside

\* A settlement begins with what its match, as it sees it, says of the picks.
LEMMA BeginAgrees ==
  ASSUME Inv, Agreed, Followed, OnTime, NEW s \in Settlers, NEW e \in Events,
         FullTime(s, e) \/ AutoResolve(s, e) \/ VoidMatch(s, e) \/ ByHand(s, e)
  PROVE  Agreed' /\ Followed'
<1> Locking /\ Jobs /\ truth \in Facts
  BY DEF Inv
<1>1. truth' = truth /\ db' = db /\ job[s] = Idle
  BY DEF FullTime, AutoResolve, VoidMatch, ByHand
<1>2. /\ \A r \in Rows : r # EventRow(e) => lock'[r] = lock[r] /\ now'[r] = now[r]
      /\ \A v \in Settlers : v # s => (lock'[EventRow(e)] = v <=> lock[EventRow(e)] = v)
                                      /\ (lock[EventRow(e)] = v => now'[EventRow(e)] = now[EventRow(e)])
  <2>1. CASE FullTime(s, e)
    BY <2>1, RowsApart, Actors DEF FullTime, Write, Take, Free, Locking
  <2>2. CASE AutoResolve(s, e) \/ VoidMatch(s, e) \/ ByHand(s, e)
    BY <2>2 DEF AutoResolve, VoidMatch, ByHand
  <2> QED  BY <2>1, <2>2
<1>3. \A d \in Events : d \notin Unruly /\ lock'[EventRow(d)] \in Settlers => db'[EventRow(d)] # "silent"
  <2>1. CASE FullTime(s, e)
    <3>1. e \notin Unruly => db[EventRow(e)] # "silent"
      BY <2>1 DEF FullTime, Unruly
    <3> QED  BY <1>1, <1>2, <3>1, RowsApart DEF Agreed
  <2>2. CASE AutoResolve(s, e) \/ VoidMatch(s, e) \/ ByHand(s, e)
    BY <2>2 DEF AutoResolve, VoidMatch, ByHand, Agreed
  <2> QED  BY <2>1, <2>2
<1>4. (job'[s].event \notin Unruly => Agrees(s)') /\ \A v \in Settlers : v # s => job'[v] = job[v]
  <2> DEFINE old == db[EventRow(e)]
  <2>0. lock[EventRow(e)] # s
    BY <1>1, RowsApart DEF Locking
  <2>1. PICK says, unit, markets :
          /\ job' = [job EXCEPT ![s] = Job(e, says, unit, markets)]
          /\ unit \subseteq PicksOf(e)
          /\ e \notin Unruly => \A p \in PicksOf(e) : says[p] \in {"unknown", Says(View(s, EventRow(e))', p)}
          /\ \A p \in unit : says[p] # "unknown"
    <3>1. CASE FullTime(s, e)
      <4>1. View(s, EventRow(e))' = "FT"
        BY <3>1, RowsApart DEF FullTime, Write, Take, View, Locking
      <4>2. PICK published \in BOOLEAN :
              Start(s, Job(e, [p \in PicksOf(e) |-> IF p \in Main \/ published THEN truth[p] ELSE "unknown"],
                           Main \intersect PicksOf(e), TRUE))
        BY <3>1 DEF FullTime
      <4> DEFINE says == [p \in PicksOf(e) |-> IF p \in Main \/ published THEN truth[p] ELSE "unknown"]
      <4>3. \A p \in PicksOf(e) : says[p] \in {"unknown", Says("FT", p)}
        BY DEF Says
      <4>4. \A p \in Main \intersect PicksOf(e) : says[p] # "unknown"
        BY TicketsAssumption
      <4>5. job' = [job EXCEPT ![s] = Job(e, says, Main \intersect PicksOf(e), TRUE)]
        BY <4>2 DEF Start
      <4> HIDE DEF says
      <4> QED  BY <4>1, <4>3, <4>4, <4>5
    <3>2. CASE AutoResolve(s, e)
      <4>1. View(s, EventRow(e))' = "FT"
        BY <2>0, <3>2 DEF AutoResolve, View
      <4> DEFINE says == [p \in PicksOf(e) |-> IF truth[p] = "unknown" THEN "void" ELSE truth[p]]
      <4>2. \A p \in PicksOf(e) : says[p] = Says("FT", p) /\ says[p] # "unknown"
        BY DEF Says
      <4>3. job' = [job EXCEPT ![s] = Job(e, says, Main \intersect PicksOf(e), TRUE)]
        BY <3>2 DEF AutoResolve, Start
      <4> HIDE DEF says
      <4> QED  BY <4>1, <4>2, <4>3
    <3>3. CASE VoidMatch(s, e)
      <4>1. View(s, EventRow(e))' = "silent"
        BY <2>0, <3>3 DEF VoidMatch, View
      <4> DEFINE says == [p \in PicksOf(e) |-> "void"]
      <4>2. \A p \in PicksOf(e) : says[p] = Says("silent", p) /\ says[p] # "unknown"
        BY DEF Says
      <4>3. job' = [job EXCEPT ![s] = Job(e, says, Main \intersect PicksOf(e), TRUE)]
        BY <3>3 DEF VoidMatch, Start
      <4> HIDE DEF says
      <4> QED  BY <4>1, <4>2, <4>3
    <3>4. CASE ByHand(s, e)
      <4>1. View(s, EventRow(e))' = old
        BY <2>0, <3>4 DEF ByHand, View
      <4>2. PICK unit \in {Main \intersect PicksOf(e)} \union {{p} : p \in MarketsOf(e)} :
              \E winners \in SUBSET unit, void \in BOOLEAN :
                /\ e \notin Hasty => \A p \in Ruled(e, unit, void) : Verdict(e, unit, winners, void)[p] = Says(old, p)
                /\ job' = [job EXCEPT ![s] = Job(e, Verdict(e, unit, winners, void), unit, Ruled(e, unit, void) # unit)]
        BY <3>4, ZenonT(60) DEF ByHand, Start
      <4>3. PICK winners \in SUBSET unit, void \in BOOLEAN :
              /\ e \notin Hasty => \A p \in Ruled(e, unit, void) : Verdict(e, unit, winners, void)[p] = Says(old, p)
              /\ job' = [job EXCEPT ![s] = Job(e, Verdict(e, unit, winners, void), unit, Ruled(e, unit, void) # unit)]
        BY <4>2
      <4> DEFINE says == Verdict(e, unit, winners, void)
      <4>4. unit \subseteq PicksOf(e) /\ unit \subseteq Ruled(e, unit, void)
        BY DEF MarketsOf, Ruled
      <4>5. /\ \A p \in PicksOf(e) : says[p] = "unknown" \/ p \in Ruled(e, unit, void)
            /\ \A p \in PicksOf(e) : p \in Ruled(e, unit, void) => says[p] # "unknown"
        BY DEF Verdict
      <4>6. e \notin Unruly => \A p \in PicksOf(e) : says[p] \in {"unknown", Says(old, p)}
        BY <4>3, <4>5 DEF Unruly
      <4>7. \A p \in unit : says[p] # "unknown"
        BY <4>4, <4>5
      <4>8. job' = [job EXCEPT ![s] = Job(e, says, unit, Ruled(e, unit, void) # unit)]
        BY <4>3
      <4> HIDE DEF says
      <4> QED  BY <4>1, <4>4, <4>6, <4>7, <4>8
    <3> QED  BY <3>1, <3>2, <3>3, <3>4
  <2>2. /\ job'[s] = Job(e, says, unit, markets)
        /\ \A v \in Settlers : v # s => job'[v] = job[v]
    BY <2>1 DEF Jobs
  <2>3. job'[s].event = e /\ job'[s].says = says /\ job'[s].unit = unit /\ job'[s].left = {}
    BY <2>2 DEF Job
  <2> QED  BY <1>1, <2>1, <2>2, <2>3 DEF Agrees, Says, PicksOf
<1>5. /\ \A t \in Slips : \A p \in LegsOf[t] :
           /\ lock'[LegRow(t, p)] = lock[LegRow(t, p)] /\ now'[LegRow(t, p)] = now[LegRow(t, p)]
      /\ \A t \in Slips : lock'[TicketRow(t)] = lock[TicketRow(t)] /\ now'[TicketRow(t)] = now[TicketRow(t)] /\ T(t)' = T(t)
      /\ \A d \in Events : d # e => lock'[EventRow(d)] = lock[EventRow(d)] /\ now'[EventRow(d)] = now[EventRow(d)]
  BY <1>1, <1>2, RowsApart, Actors DEF T
<1>6. \A d \in Events : \A v \in Settlers : job[v] # Idle =>
        /\ lock'[EventRow(d)] = v <=> lock[EventRow(d)] = v
        /\ lock[EventRow(d)] = v => now'[EventRow(d)] = now[EventRow(d)]
  BY <1>1, <1>2, <1>5
<1> QED  BY <1>1, <1>3, <1>4, <1>5, <1>6, LegsAside

\* A settlement that goes on with the match it is at.
LEMMA GoingOnAgrees ==
  ASSUME Inv, Agreed, Followed, OnTime, NEW s \in Settlers, job[s] # Idle, UNCHANGED <<db, truth>>,
         \A v \in Settlers : v # s => job'[v] = job[v],
         job'[s].event = job[s].event, job'[s].says = job[s].says,
         \A p \in job'[s].unit \union job'[s].left : p \in job[s].unit \union job[s].left \/ job[s].says[p] # "unknown",
         \A t \in Slips : \A p \in LegsOf[t] :
           lock'[LegRow(t, p)] = lock[LegRow(t, p)] /\ now'[LegRow(t, p)] = now[LegRow(t, p)],
         \A t \in Slips : lock'[TicketRow(t)] = lock[TicketRow(t)] /\ now'[TicketRow(t)] = now[TicketRow(t)],
         \A e \in Events : lock'[EventRow(e)] = lock[EventRow(e)] /\ now'[EventRow(e)] = now[EventRow(e)]
  PROVE  Agreed' /\ Followed'
<1>1. job[s].event \in Events
  BY DEF Inv, Jobs, Working, JobRecord
<1>2. \A e \in Events : View(s, EventRow(e))' = View(s, EventRow(e))
  BY DEF View
<1>3. job'[s].event \notin Unruly => Agrees(s)'
  <2> SUFFICES ASSUME job'[s].event \notin Unruly  PROVE Agrees(s)'
    OBVIOUS
  <2>1. Agrees(s)
    BY DEF Agreed
  <2>2. View(s, EventRow(job[s].event))' = View(s, EventRow(job[s].event))
    BY <1>1, <1>2
  <2> QED  BY <2>1, <2>2 DEF Agrees, Says, PicksOf
<1>4. \A e \in Events : e \notin Unruly /\ lock'[EventRow(e)] \in Settlers => db'[EventRow(e)] # "silent"
  BY DEF Agreed
<1>5. \A t \in Slips : T(t)' = T(t)
  BY DEF T
<1> QED  BY <1>3, <1>4, <1>5, LegsAside

\* Market outcomes, single bets and the lists leave legs, multiples and matches alone.
LEMMA UnitStepsAgree ==
  ASSUME Inv, Agreed, Followed, OnTime, NEW s \in Settlers,
         ListBets(s) \/ ListLegs(s) \/ NextUnit(s) \/ \E t \in Tickets : SettleBet(s, t)
  PROVE  Agreed' /\ Followed'
<1> Locking
  BY DEF Inv
<1> DEFINE j == job[s]
<1>1. j # Idle /\ Working(s, j) /\ j \in JobRecord /\ DOMAIN job = Settlers
  BY AtWork DEF ListBets, ListLegs, NextUnit, UnitDone, SettleBet
<1>2. CASE ListBets(s)
  <2> DEFINE changed == {p \in j.unit \ Main : View(s, PickRow(p)) # j.says[p]}
             k == [j EXCEPT !.stage = "bets", !.todo = OpenBets(s, j.unit)]
  <2>1. /\ now' = [r \in Rows |-> IF \E p \in changed : r = PickRow(p) THEN j.says[r[2]] ELSE now[r]]
        /\ Take(s, {PickRow(p) : p \in changed}) /\ job' = [job EXCEPT ![s] = k] /\ UNCHANGED <<db, truth>>
    BY <1>2 DEF ListBets, Start
  <2>2. k.event = j.event /\ k.says = j.says /\ k.unit = j.unit /\ k.left = j.left
    BY <1>1 DEF JobRecord
  <2>3. job'[s] = k /\ \A v \in Settlers : v # s => job'[v] = job[v]
    BY <1>1, <2>1
  <2> HIDE DEF changed, k
  <2>4. \A r \in Rows : (\A p : r # PickRow(p)) => lock'[r] = lock[r] /\ now'[r] = now[r]
    BY <2>1 DEF Take
  <2>5. /\ \A t \in Slips : \A p \in LegsOf[t] :
             lock'[LegRow(t, p)] = lock[LegRow(t, p)] /\ now'[LegRow(t, p)] = now[LegRow(t, p)]
        /\ \A t \in Slips : lock'[TicketRow(t)] = lock[TicketRow(t)] /\ now'[TicketRow(t)] = now[TicketRow(t)]
        /\ \A e \in Events : lock'[EventRow(e)] = lock[EventRow(e)] /\ now'[EventRow(e)] = now[EventRow(e)]
    BY <2>4, RowsApart, Actors
  <2> QED  BY <1>1, <2>1, <2>2, <2>3, <2>5, GoingOnAgrees
<1>3. CASE ListLegs(s)
  <2> DEFINE k == [j EXCEPT !.stage = "legs", !.todo = PendingLegs(s, j.unit)]
  <2>1. job' = [job EXCEPT ![s] = k] /\ UNCHANGED <<db, now, lock, truth>>
    BY <1>3 DEF ListLegs, Start
  <2>2. k.event = j.event /\ k.says = j.says /\ k.unit = j.unit /\ k.left = j.left
    BY <1>1 DEF JobRecord
  <2>3. job'[s] = k /\ \A v \in Settlers : v # s => job'[v] = job[v]
    BY <1>1, <2>1
  <2> HIDE DEF k
  <2> QED  BY <1>1, <2>1, <2>2, <2>3, GoingOnAgrees
<1>4. CASE NextUnit(s)
  <2>1. PICK p \in Undecided(s, j) :
          job' = [job EXCEPT ![s] = [j EXCEPT !.stage = "unit", !.unit = {p}, !.markets = FALSE,
                                              !.left = Undecided(s, j) \ {p}]]
    BY <1>4 DEF NextUnit, Start
  <2> DEFINE k == [j EXCEPT !.stage = "unit", !.unit = {p}, !.markets = FALSE, !.left = Undecided(s, j) \ {p}]
  <2>2. k.event = j.event /\ k.says = j.says /\ k.unit \union k.left = Undecided(s, j)
    BY <1>1 DEF JobRecord
  <2>3. job'[s] = k /\ \A v \in Settlers : v # s => job'[v] = job[v]
    BY <1>1, <2>1
  <2>4. \A q \in Undecided(s, j) : q \in j.left \/ j.says[q] # "unknown"
    BY DEF Undecided
  <2>5. UNCHANGED <<db, now, lock, truth>>
    BY <1>4 DEF NextUnit
  <2> HIDE DEF k
  <2> QED  BY <1>1, <2>2, <2>3, <2>4, <2>5, GoingOnAgrees
<1>5. CASE \E t \in Tickets : SettleBet(s, t)
  <2>1. PICK t \in Tickets : SettleBet(s, t)
    BY <1>5
  <2> DEFINE k == [j EXCEPT !.todo = @ \ {t}]
  <2>2. t \in Bets /\ UNCHANGED <<db, truth>> /\ job' = [job EXCEPT ![s] = k]
    BY <1>1, <2>1 DEF SettleBet, Working
  <2>3. k.event = j.event /\ k.says = j.says /\ k.unit = j.unit /\ k.left = j.left
    BY <1>1 DEF JobRecord
  <2>4. job'[s] = k /\ \A v \in Settlers : v # s => job'[v] = job[v]
    BY <1>1, <2>2
  <2>5. \A r \in Rows : r # TicketRow(t) => lock'[r] = lock[r] /\ now'[r] = now[r]
    BY <2>1 DEF SettleBet, Write, Take
  <2>6. /\ \A u \in Slips : \A p \in LegsOf[u] :
             lock'[LegRow(u, p)] = lock[LegRow(u, p)] /\ now'[LegRow(u, p)] = now[LegRow(u, p)]
        /\ \A u \in Slips : lock'[TicketRow(u)] = lock[TicketRow(u)] /\ now'[TicketRow(u)] = now[TicketRow(u)]
        /\ \A e \in Events : lock'[EventRow(e)] = lock[EventRow(e)] /\ now'[EventRow(e)] = now[EventRow(e)]
    BY <2>2, <2>5, RowsApart, Actors
  <2> HIDE DEF k
  <2> QED  BY <1>1, <2>2, <2>3, <2>4, <2>6, GoingOnAgrees
<1> QED  BY <1>2, <1>3, <1>4, <1>5

\* A settlement that finds a leg decided would decide it the same.
LEMMA Repeats ==
  ASSUME Inv, Agreed, OnTime, NEW s \in Settlers, NEW t \in Slips, NEW p \in LegsOf[t],
         job[s] # Idle, EventOf[p] = job[s].event, LegSeen(s, t, p) # "pending"
  PROVE  LegSeen(s, t, p) = Says(View(s, EventRow(EventOf[p])), p)
<1> DEFINE e == EventOf[p]
<1>1. e \in Events /\ e \notin Unruly
  BY Actors DEF OnTime
<1>2. CASE lock[LegRow(t, p)] = s
  BY <1>2 DEF Agreed, LegSeen, View
<1>3. CASE lock[LegRow(t, p)] # s
  <2>1. db[LegRow(t, p)] # "pending" /\ LegSeen(s, t, p) = db[LegRow(t, p)]
    BY <1>3 DEF LegSeen, View
  <2>2. db[EventRow(e)] \in Over /\ db[LegRow(t, p)] = Says(db[EventRow(e)], p)
    BY <1>1, <2>1 DEF Inv, Decided, Agreed, Ended, Unruly
  <2>3. lock[EventRow(e)] = s => now[EventRow(e)] = "FT" /\ db[EventRow(e)] = "FT"
    BY <1>1, <2>2 DEF Inv, Jobs, Agreed, Over, Ended
  <2> QED  BY <2>1, <2>2, <2>3 DEF View
<1> QED  BY <1>2, <1>3

\* A leg is saved as its match says; saved again, it stays what it was.
LEMMA SaveLegAgrees ==
  ASSUME Inv, Agreed, Followed, OnTime, NEW s \in Settlers, NEW t \in Slips, NEW p \in LegsOf[t],
         SaveLeg(s, <<t, p>>)
  PROVE  Agreed' /\ Followed'
<1> Locking /\ Decided
  BY DEF Inv
<1> DEFINE j == job[s]
           k == [j EXCEPT !.todo = @ \ {<<t, p>>}, !.touched = @ \union {t}]
<1>1. j # Idle /\ Working(s, j) /\ j \in JobRecord /\ DOMAIN job = Settlers
  BY AtWork DEF SaveLeg
<1>2. /\ j.stage = "legs" /\ <<t, p>> \in j.todo /\ UNCHANGED <<db, truth>>
      /\ job' = [job EXCEPT ![s] = k] /\ Free(s, LegRow(t, p)) /\ Write(s, LegRow(t, p), j.says[p])
  BY <1>1 DEF SaveLeg
<1>3. p \in j.unit /\ EventOf[p] = j.event /\ p \in PicksOf(j.event) /\ j.event \in Events
  BY <1>1, <1>2 DEF Working, PicksOf, JobRecord
<1>4. k.event = j.event /\ k.says = j.says /\ k.unit = j.unit /\ k.left = j.left
  BY <1>1 DEF JobRecord
<1>5. job'[s] = k /\ \A v \in Settlers : v # s => job'[v] = job[v]
  BY <1>1, <1>2
<1> HIDE DEF k
<1>6. /\ lock'[LegRow(t, p)] = s /\ now'[LegRow(t, p)] = j.says[p]
      /\ \A r \in Rows : r # LegRow(t, p) => lock'[r] = lock[r] /\ now'[r] = now[r]
      /\ lock[LegRow(t, p)] \in {s, Nobody}
  BY <1>2, RowsApart DEF Write, Take, Free, Locking
<1>7. /\ \A u \in Slips : lock'[TicketRow(u)] = lock[TicketRow(u)] /\ now'[TicketRow(u)] = now[TicketRow(u)]
      /\ \A e \in Events : lock'[EventRow(e)] = lock[EventRow(e)] /\ now'[EventRow(e)] = now[EventRow(e)]
      /\ \A u \in Slips : \A q \in LegsOf[u] : ~(u = t /\ q = p) =>
           lock'[LegRow(u, q)] = lock[LegRow(u, q)] /\ now'[LegRow(u, q)] = now[LegRow(u, q)]
  BY <1>6, RowsApart, Actors
<1>8. \A v \in Settlers : \A e \in Events : View(v, EventRow(e))' = View(v, EventRow(e))
  BY <1>2, <1>7 DEF View
<1>9. j.says[p] = Says(View(s, EventRow(EventOf[p])), p)
  <2>1. Agrees(s)
    BY <1>1, <1>3 DEF Agreed, OnTime
  <2> QED  BY <1>3, <2>1 DEF Agrees
<1>10. Agreed'
  <2>1. \A e \in Events \ Unruly : lock'[EventRow(e)] \in Settlers => db'[EventRow(e)] # "silent"
    BY <1>2, <1>7 DEF Agreed
  <2>2. ASSUME NEW v \in Settlers, job'[v] # Idle, job'[v].event \notin Unruly  PROVE Agrees(v)'
    <3>1. /\ job'[v].event = job[v].event /\ job'[v].says = job[v].says
          /\ job'[v].unit = job[v].unit /\ job'[v].left = job[v].left /\ job[v] # Idle
      BY <1>1, <1>4, <1>5, <2>2
    <3>2. Agrees(v) /\ job[v].event \in Events
      BY <2>2, <3>1 DEF Agreed, Inv, Jobs, Working, JobRecord
    <3>3. View(v, EventRow(job[v].event))' = View(v, EventRow(job[v].event))
      BY <1>8, <3>1, <3>2
    <3> QED  BY <1>2, <3>1, <3>2, <3>3 DEF Agrees, Says, PicksOf
  <2>3. \A u \in Slips : \A q \in LegsOf[u] :
          db'[LegRow(u, q)] # "pending" => db'[LegRow(u, q)] = Says(db[EventRow(EventOf[q])], q)'
    BY <1>2 DEF Agreed, Says
  <2>4. ASSUME NEW u \in Slips, NEW q \in LegsOf[u], NEW v \in Settlers, lock'[LegRow(u, q)] = v
        PROVE  now'[LegRow(u, q)] = Says(View(v, EventRow(EventOf[q])), q)'
    <3>1. View(v, EventRow(EventOf[q]))' = View(v, EventRow(EventOf[q]))
      BY <1>8, Actors
    <3>2. now'[LegRow(u, q)] = Says(View(v, EventRow(EventOf[q])), q)
      <4>1. CASE u = t /\ q = p
        BY <1>6, <1>9, <2>4, <4>1
      <4>2. CASE ~(u = t /\ q = p)
        BY <1>7, <2>4, <4>2 DEF Agreed
      <4> QED  BY <4>1, <4>2
    <3> QED  BY <1>2, <3>1, <3>2 DEF Says
  <2> QED  BY <2>1, <2>2, <2>3, <2>4 DEF Agreed
<1>11. Followed'
  <2>1. ASSUME NEW u \in Slips  PROVE Follows(T(u), {db[LegRow(u, q)] : q \in LegsOf[u]})'
    BY <1>2 DEF Followed, Follows, T
  <2>2. ASSUME NEW u \in Slips, NEW v \in Settlers, lock'[TicketRow(u)] = v
        PROVE  Follows(now[TicketRow(u)].status, {LegSeen(v, u, q) : q \in LegsOf[u]})'
    <3> DEFINE seen == {LegSeen(v, u, q) : q \in LegsOf[u]}
    <3>1. Follows(now[TicketRow(u)].status, seen) /\ now'[TicketRow(u)] = now[TicketRow(u)]
      BY <1>7, <2>2 DEF Followed
    <3>2. ASSUME "pending" \notin seen, NEW q \in LegsOf[u]  PROVE LegSeen(v, u, q)' = LegSeen(v, u, q)
      <4>1. CASE v = s /\ u = t /\ q = p
        <5>1. LegSeen(s, t, p) = j.says[p]
          BY <1>1, <1>3, <1>9, <3>2, <4>1, Repeats
        <5> QED  BY <1>6, <4>1, <5>1 DEF LegSeen, View
      <4>2. CASE v # s /\ u = t /\ q = p
        BY <1>2, <1>6, <4>2, Actors DEF LegSeen, View
      <4>3. CASE ~(u = t /\ q = p)
        BY <1>2, <1>7, <4>3 DEF LegSeen, View
      <4> QED  BY <4>1, <4>2, <4>3
    <3>3. "pending" \notin seen => seen' = seen
      BY <3>2
    <3> HIDE DEF seen
    <3> QED  BY <3>1, <3>3 DEF Follows, seen
  <2> QED  BY <2>1, <2>2 DEF Followed
<1> QED  BY <1>10, <1>11

\* A multiple is settled as its legs are seen with its row held.
LEMMA SettleSlipAgrees ==
  ASSUME Inv, Agreed, Followed, OnTime, NEW s \in Settlers, NEW t \in Tickets, SettleSlip(s, t)
  PROVE  Agreed' /\ Followed'
<1> Locking /\ Decided /\ GoodTickets
  BY DEF Inv
<1> DEFINE j == job[s]
           k == [j EXCEPT !.touched = @ \ {t}]
           results == {LegSeen(s, t, p) : p \in LegsOf[t]}
           row == View(s, TicketRow(t))
<1>1. j # Idle /\ Working(s, j) /\ j \in JobRecord /\ DOMAIN job = Settlers
  BY AtWork DEF SettleSlip
<1>2. /\ t \in Slips /\ UNCHANGED <<db, truth>> /\ job' = [job EXCEPT ![s] = k]
      /\ Free(s, TicketRow(t)) /\ Write(s, TicketRow(t), SlipAfter(row, results))
  BY <1>1 DEF SettleSlip, Working
<1>3. k.event = j.event /\ k.says = j.says /\ k.unit = j.unit /\ k.left = j.left /\ j.event \in Events
  BY <1>1 DEF JobRecord
<1>4. job'[s] = k /\ \A v \in Settlers : v # s => job'[v] = job[v]
  BY <1>1, <1>2
<1> HIDE DEF k
<1>5. /\ lock'[TicketRow(t)] = s /\ now'[TicketRow(t)] = SlipAfter(row, results)
      /\ \A r \in Rows : r # TicketRow(t) => lock'[r] = lock[r] /\ now'[r] = now[r]
  BY <1>2, RowsApart DEF Write, Take, Locking
<1>6. /\ \A u \in Slips : u # t => lock'[TicketRow(u)] = lock[TicketRow(u)] /\ now'[TicketRow(u)] = now[TicketRow(u)]
      /\ \A e \in Events : lock'[EventRow(e)] = lock[EventRow(e)] /\ now'[EventRow(e)] = now[EventRow(e)]
      /\ \A u \in Slips : \A p \in LegsOf[u] :
           lock'[LegRow(u, p)] = lock[LegRow(u, p)] /\ now'[LegRow(u, p)] = now[LegRow(u, p)]
  BY <1>5, RowsApart, Actors
<1>7. \A v \in Settlers : \A e \in Events : View(v, EventRow(e))' = View(v, EventRow(e))
  BY <1>2, <1>6 DEF View
<1>8. \A v \in Settlers : \A u \in Slips : \A p \in LegsOf[u] : LegSeen(v, u, p)' = LegSeen(v, u, p)
  BY <1>2, <1>6 DEF LegSeen, View
<1>9. Agreed'
  <2>1. \A e \in Events \ Unruly : lock'[EventRow(e)] \in Settlers => db'[EventRow(e)] # "silent"
    BY <1>2, <1>6 DEF Agreed
  <2>2. ASSUME NEW v \in Settlers, job'[v] # Idle, job'[v].event \notin Unruly  PROVE Agrees(v)'
    <3>1. /\ job'[v].event = job[v].event /\ job'[v].says = job[v].says
          /\ job'[v].unit = job[v].unit /\ job'[v].left = job[v].left /\ job[v] # Idle
      BY <1>1, <1>3, <1>4, <2>2
    <3>2. Agrees(v) /\ job[v].event \in Events
      BY <2>2, <3>1 DEF Agreed, Inv, Jobs, Working, JobRecord
    <3>3. View(v, EventRow(job[v].event))' = View(v, EventRow(job[v].event))
      BY <1>7, <3>1, <3>2
    <3> QED  BY <1>2, <3>1, <3>2, <3>3 DEF Agrees, Says, PicksOf
  <2>3. \A u \in Slips : \A p \in LegsOf[u] :
          db'[LegRow(u, p)] # "pending" => db'[LegRow(u, p)] = Says(db[EventRow(EventOf[p])], p)'
    BY <1>2 DEF Agreed, Says
  <2>4. ASSUME NEW u \in Slips, NEW p \in LegsOf[u], NEW v \in Settlers, lock'[LegRow(u, p)] = v
        PROVE  now'[LegRow(u, p)] = Says(View(v, EventRow(EventOf[p])), p)'
    <3>1. View(v, EventRow(EventOf[p]))' = View(v, EventRow(EventOf[p]))
      BY <1>7, Actors
    <3> QED  BY <1>2, <1>6, <2>4, <3>1 DEF Agreed, Says
  <2> QED  BY <2>1, <2>2, <2>3, <2>4 DEF Agreed
<1>10. Follows(row.status, results)
  <2>1. CASE lock[TicketRow(t)] = s
    BY <1>2, <2>1 DEF Followed, View
  <2>2. CASE lock[TicketRow(t)] # s
    <3>1. row.status = T(t)
      BY <2>2 DEF View, T
    <3> DEFINE kept == {db[LegRow(t, p)] : p \in LegsOf[t]}
    <3>2. Follows(row.status, kept)
      BY <1>2, <3>1 DEF Followed
    <3>3. ASSUME "pending" \notin kept, NEW p \in LegsOf[t]  PROVE LegSeen(s, t, p) = db[LegRow(t, p)]
      <4>1. CASE lock[LegRow(t, p)] = s
        <5>1. EventOf[p] = job[s].event /\ EventOf[p] \in Events /\ EventOf[p] \notin Unruly
          BY <1>2, <4>1, Actors DEF Decided, OnTime
        <5>2. db[EventRow(EventOf[p])] \in Over /\ db[LegRow(t, p)] = Says(db[EventRow(EventOf[p])], p)
          BY <1>2, <3>3, <5>1 DEF Decided, Agreed, Ended, Unruly
        <5>3. now[LegRow(t, p)] = Says(View(s, EventRow(EventOf[p])), p)
          BY <1>2, <4>1 DEF Agreed
        <5>4. lock[EventRow(EventOf[p])] = s => now[EventRow(EventOf[p])] = "FT" /\ db[EventRow(EventOf[p])] = "FT"
          BY <5>1, <5>2 DEF Inv, Jobs, Agreed, Over, Ended
        <5> QED  BY <4>1, <5>2, <5>3, <5>4 DEF LegSeen, View
      <4>2. CASE lock[LegRow(t, p)] # s
        BY <4>2 DEF LegSeen, View
      <4> QED  BY <4>1, <4>2
    <3>4. "pending" \notin kept => results = kept
      BY <3>3
    <3> HIDE DEF kept, results, row
    <3> QED  BY <3>2, <3>4 DEF Follows
  <2> QED  BY <2>1, <2>2
<1>11. Follows(SlipAfter(row, results).status, results)
  <2> HIDE DEF row, results
  <2> QED  BY <1>10 DEF Follows, SlipAfter
<1>12. Followed'
  <2>1. ASSUME NEW u \in Slips  PROVE Follows(T(u), {db[LegRow(u, p)] : p \in LegsOf[u]})'
    BY <1>2 DEF Followed, Follows, T
  <2>2. ASSUME NEW u \in Slips, NEW v \in Settlers, lock'[TicketRow(u)] = v
        PROVE  Follows(now[TicketRow(u)].status, {LegSeen(v, u, p) : p \in LegsOf[u]})'
    <3>1. {LegSeen(v, u, p) : p \in LegsOf[u]}' = {LegSeen(v, u, p) : p \in LegsOf[u]}
      BY <1>8
    <3>2. CASE u = t
      <4>1. v = s
        BY <1>5, <2>2, <3>2
      <4> QED  BY <1>5, <1>11, <3>1, <3>2, <4>1 DEF Follows
    <3>3. CASE u # t
      <4>1. Follows(now[TicketRow(u)].status, {LegSeen(v, u, p) : p \in LegsOf[u]})
        BY <1>6, <2>2, <3>3 DEF Followed
      <4> QED  BY <1>6, <3>1, <3>3, <4>1 DEF Follows
    <3> QED  BY <3>2, <3>3
  <2> QED  BY <2>1, <2>2 DEF Followed
<1> QED  BY <1>9, <1>12

\* What the settlement saw of the legs and the match is what it commits.
LEMMA CommitAgrees ==
  ASSUME Inv, Agreed, Followed, OnTime, NEW s \in Settlers, Commit(s)
  PROVE  Agreed' /\ Followed'
<1> Locking /\ Decided /\ Jobs
  BY DEF Inv
<1>1. job[s] # Idle /\ job[s].touched = {} /\ DOMAIN job = Settlers
  BY AtWork DEF Commit, UnitDone
<1>2. /\ truth' = truth /\ now' = now
      /\ \A r \in Rows : db'[r] = IF lock[r] = s THEN now[r] ELSE db[r]
      /\ \A r \in Rows : lock'[r] = IF lock[r] = s THEN Nobody ELSE lock[r]
  BY DEF Commit, Publish, Drop
<1>3. job'[s] = Idle /\ \A v \in Settlers : v # s => job'[v] = job[v]
  BY <1>1 DEF Commit, Start
<1>4. \A v \in Settlers : \A r \in Rows : lock'[r] = v <=> v # s /\ lock[r] = v
  BY <1>2, Actors
<1>5. \A t \in Slips : \A p \in LegsOf[t] : lock[LegRow(t, p)] = s => lock[TicketRow(t)] = s
  BY <1>1 DEF Decided
<1>6. \A e \in Events \ Unruly : db[EventRow(e)] \in Over => db'[EventRow(e)] = db[EventRow(e)]
  BY <1>2, RowsApart DEF Jobs, Agreed, Over, Ended
<1>7. \A v \in Settlers : \A e \in Events \ Unruly : v # s /\ job[v] # Idle /\ e = job[v].event =>
        View(v, EventRow(e))' = View(v, EventRow(e))
  <2> SUFFICES ASSUME NEW v \in Settlers, NEW e \in Events \ Unruly, v # s, job[v] # Idle, e = job[v].event
               PROVE  View(v, EventRow(e))' = View(v, EventRow(e))
    OBVIOUS
  <2>1. db[EventRow(e)] \in Over \/ lock[EventRow(e)] = v
    BY DEF Jobs, Working, Ended, Unruly
  <2> QED  BY <1>2, <1>4, <1>6, <2>1, RowsApart DEF View
<1>8. Agreed'
  <2>1. \A e \in Events \ Unruly : lock'[EventRow(e)] \in Settlers => db'[EventRow(e)] # "silent"
    BY <1>2, <1>4, RowsApart DEF Agreed
  <2>2. ASSUME NEW v \in Settlers, job'[v] # Idle, job'[v].event \notin Unruly  PROVE Agrees(v)'
    <3>1. v # s /\ job'[v] = job[v] /\ job[v] # Idle
      BY <1>3, <2>2
    <3>2. Agrees(v) /\ job[v].event \in Events
      BY <2>2, <3>1 DEF Agreed, Jobs, Working, JobRecord
    <3>3. View(v, EventRow(job[v].event))' = View(v, EventRow(job[v].event))
      BY <1>7, <2>2, <3>1, <3>2
    <3> QED  BY <1>2, <3>1, <3>2, <3>3 DEF Agrees, Says, PicksOf
  <2>3. ASSUME NEW t \in Slips, NEW p \in LegsOf[t], db'[LegRow(t, p)] # "pending"
        PROVE  db'[LegRow(t, p)] = Says(db[EventRow(EventOf[p])], p)'
    <3> DEFINE e == EventOf[p]
    <3>1. e \in Events \ Unruly
      BY Actors DEF OnTime
    <3>2. CASE lock[LegRow(t, p)] = s
      <4>1. db'[LegRow(t, p)] = Says(View(s, EventRow(e)), p)
        BY <1>2, <3>2, RowsApart DEF Agreed
      <4>2. db'[EventRow(e)] = View(s, EventRow(e))
        BY <1>2, <3>1, RowsApart DEF View
      <4> QED  BY <1>2, <4>1, <4>2 DEF Says
    <3>3. CASE lock[LegRow(t, p)] # s
      <4>1. db'[LegRow(t, p)] = db[LegRow(t, p)]
        BY <1>2, <3>3, RowsApart
      <4>2. db[EventRow(e)] \in Over /\ db[LegRow(t, p)] = Says(db[EventRow(e)], p)
        BY <2>3, <3>1, <4>1 DEF Decided, Agreed, Ended, Unruly
      <4> QED  BY <1>2, <1>6, <3>1, <4>1, <4>2 DEF Says
    <3> QED  BY <3>2, <3>3
  <2>4. ASSUME NEW t \in Slips, NEW p \in LegsOf[t], NEW v \in Settlers, lock'[LegRow(t, p)] = v
        PROVE  now'[LegRow(t, p)] = Says(View(v, EventRow(EventOf[p])), p)'
    <3>1. v # s /\ lock[LegRow(t, p)] = v
      BY <1>4, <2>4, RowsApart
    <3>2. View(v, EventRow(EventOf[p]))' = View(v, EventRow(EventOf[p]))
      BY <1>7, <3>1, Actors DEF Decided, OnTime
    <3> QED  BY <1>2, <3>1, <3>2 DEF Agreed, Says
  <2> QED  BY <2>1, <2>2, <2>3, <2>4 DEF Agreed
<1>9. Followed'
  <2>1. ASSUME NEW t \in Slips  PROVE Follows(T(t), {db[LegRow(t, p)] : p \in LegsOf[t]})'
    <3>1. CASE lock[TicketRow(t)] = s
      <4>1. T(t)' = now[TicketRow(t)].status
        BY <1>2, <3>1, RowsApart, Actors DEF T
      <4>2. {db[LegRow(t, p)] : p \in LegsOf[t]}' = {LegSeen(s, t, p) : p \in LegsOf[t]}
        BY <1>2, RowsApart DEF LegSeen, View
      <4> QED  BY <3>1, <4>1, <4>2 DEF Followed, Follows
    <3>2. CASE lock[TicketRow(t)] # s
      <4>1. T(t)' = T(t)
        BY <1>2, <3>2, RowsApart, Actors DEF T
      <4>2. {db[LegRow(t, p)] : p \in LegsOf[t]}' = {db[LegRow(t, p)] : p \in LegsOf[t]}
        BY <1>2, <1>5, <3>2, RowsApart
      <4> QED  BY <4>1, <4>2 DEF Followed, Follows
    <3> QED  BY <3>1, <3>2
  <2>2. ASSUME NEW t \in Slips, NEW v \in Settlers, lock'[TicketRow(t)] = v
        PROVE  Follows(now[TicketRow(t)].status, {LegSeen(v, t, p) : p \in LegsOf[t]})'
    <3>1. v # s /\ lock[TicketRow(t)] = v
      BY <1>4, <2>2, RowsApart, Actors
    <3>2. \A p \in LegsOf[t] : LegSeen(v, t, p)' = LegSeen(v, t, p)
      BY <1>2, <1>4, <1>5, <3>1, RowsApart DEF LegSeen, View
    <3>3. {LegSeen(v, t, p) : p \in LegsOf[t]}' = {LegSeen(v, t, p) : p \in LegsOf[t]}
      BY <3>2
    <3>4. Follows(now[TicketRow(t)].status, {LegSeen(v, t, p) : p \in LegsOf[t]})
      BY <3>1 DEF Followed
    <3> QED  BY <1>2, <3>3, <3>4 DEF Follows
  <2> QED  BY <2>1, <2>2 DEF Followed
<1> QED  BY <1>8, <1>9

\* A transaction that dies takes its results with it.
LEMMA CrashAgrees ==
  ASSUME Inv, Agreed, Followed, OnTime, NEW w \in Tickets \union Settlers, Crash(w)
  PROVE  Agreed' /\ Followed'
<1> Locking /\ Decided /\ Jobs
  BY DEF Inv
<1>1. /\ truth' = truth /\ db' = db
      /\ \A r \in Rows : now'[r] = IF lock[r] = w THEN db[r] ELSE now[r]
      /\ \A r \in Rows : lock'[r] = IF lock[r] = w THEN Nobody ELSE lock[r]
  BY DEF Crash, Rollback, Drop
<1>2. \A v \in Settlers : (v # w => job'[v] = job[v]) /\ (v = w => job'[v] = Idle)
  BY Actors DEF Crash, Start, Jobs
<1>3. \A v \in Settlers : \A r \in Rows : lock'[r] = v <=> v # w /\ lock[r] = v
  BY <1>1, Actors
<1>4. \A v \in Settlers : \A r \in Rows : v # w => View(v, r)' = View(v, r)
  BY <1>1, <1>3 DEF View
<1>5. Agreed'
  <2>1. \A e \in Events \ Unruly : lock'[EventRow(e)] \in Settlers => db'[EventRow(e)] # "silent"
    BY <1>1, <1>3, RowsApart DEF Agreed
  <2>2. ASSUME NEW v \in Settlers, job'[v] # Idle, job'[v].event \notin Unruly  PROVE Agrees(v)'
    <3>1. v # w /\ job'[v] = job[v] /\ job[v] # Idle
      BY <1>2, <2>2
    <3>2. Agrees(v) /\ job[v].event \in Events
      BY <2>2, <3>1 DEF Agreed, Jobs, Working, JobRecord
    <3>3. View(v, EventRow(job[v].event))' = View(v, EventRow(job[v].event))
      BY <1>4, <3>1, <3>2, RowsApart
    <3> QED  BY <1>1, <3>1, <3>2, <3>3 DEF Agrees, Says, PicksOf
  <2>3. \A t \in Slips : \A p \in LegsOf[t] :
          db'[LegRow(t, p)] # "pending" => db'[LegRow(t, p)] = Says(db[EventRow(EventOf[p])], p)'
    BY <1>1 DEF Agreed, Says
  <2>4. ASSUME NEW t \in Slips, NEW p \in LegsOf[t], NEW v \in Settlers, lock'[LegRow(t, p)] = v
        PROVE  now'[LegRow(t, p)] = Says(View(v, EventRow(EventOf[p])), p)'
    <3>1. v # w /\ lock[LegRow(t, p)] = v /\ now'[LegRow(t, p)] = now[LegRow(t, p)]
      BY <1>1, <1>3, <2>4, RowsApart
    <3>2. View(v, EventRow(EventOf[p]))' = View(v, EventRow(EventOf[p]))
      BY <1>4, <3>1, RowsApart, Actors
    <3> QED  BY <1>1, <3>1, <3>2 DEF Agreed, Says
  <2> QED  BY <2>1, <2>2, <2>3, <2>4 DEF Agreed
<1>6. Followed'
  <2>1. ASSUME NEW t \in Slips  PROVE Follows(T(t), {db[LegRow(t, p)] : p \in LegsOf[t]})'
    BY <1>1 DEF Followed, Follows, T
  <2>2. ASSUME NEW t \in Slips, NEW v \in Settlers, lock'[TicketRow(t)] = v
        PROVE  Follows(now[TicketRow(t)].status, {LegSeen(v, t, p) : p \in LegsOf[t]})'
    <3>1. v # w /\ lock[TicketRow(t)] = v /\ now'[TicketRow(t)] = now[TicketRow(t)]
      BY <1>1, <1>3, <2>2, RowsApart, Actors
    <3>2. {LegSeen(v, t, p) : p \in LegsOf[t]}' = {LegSeen(v, t, p) : p \in LegsOf[t]}
      BY <1>4, <3>1, RowsApart DEF LegSeen
    <3>3. Follows(now[TicketRow(t)].status, {LegSeen(v, t, p) : p \in LegsOf[t]})
      BY <3>1 DEF Followed
    <3> QED  BY <3>1, <3>2, <3>3 DEF Follows
  <2> QED  BY <2>1, <2>2 DEF Followed
<1> QED  BY <1>5, <1>6

\* Settled by settle_event, by its market, by the backstop or by hand, before or after a
\* crash: a multiple is won only with no leg lost or undecided, and lost only with a lost
\* one, if none of its legs is on a match that may be voided and reported later, or that
\* an operator may settle before its end or against the facts.
THEOREM SlipsFollowTheirLegs == ASSUME OnTime PROVE Spec => []SlipFollowsLegs
<1>1. Init => Agreed /\ Followed
  <2> SUFFICES ASSUME Init PROVE Agreed /\ Followed
    OBVIOUS
  <2>1. Inv
    BY InitInv
  <2>2. /\ \A r \in Rows : lock[r] \notin Settlers
        /\ \A s \in Settlers : job[s] = Idle
    BY Actors DEF Init
  <2>3. \A t \in Tickets : T(t) = "none"
    <3>1. \A t \in Tickets : TicketRow(t) \in TicketRows /\ TicketRow(t) \notin EventRows
      BY RowsApart DEF TicketRows, EventRows
    <3> QED  BY <3>1, RowsApart DEF Init, T
  <2>4. \A t \in Slips : \A p \in LegsOf[t] : db[LegRow(t, p)] = "pending"
    BY <2>1, <2>3, Actors DEF Inv, Decided, Placed, T
  <2>5. Agreed
    BY <2>2, <2>4, RowsApart, Actors DEF Agreed
  <2>6. Followed
    BY <2>2, <2>3, RowsApart, Actors DEF Followed, Follows
  <2> QED  BY <2>5, <2>6
<1>2. Inv /\ Agreed /\ Followed /\ [Next]_vars => Agreed' /\ Followed'
  <2> SUFFICES ASSUME Inv, Agreed, Followed, [Next]_vars PROVE Agreed' /\ Followed'
    OBVIOUS
  <2>1. CASE Next
    BY <2>1, OnTime, StepsMay, TicketStepsAgree, FeedAgrees, BeginAgrees, UnitStepsAgree, CommitAgrees,
       SettleSlipAgrees, SaveLegAgrees, CrashAgrees
  <2>2. CASE UNCHANGED vars
    BY <2>2 DEF vars, Agreed, Agrees, Says, View, Followed, Follows, LegSeen, T, PicksOf
  <2> QED  BY <2>1, <2>2
<1>3. Followed => SlipFollowsLegs
  BY DEF Followed, Follows, T, SlipFollowsLegs, Row
<1> QED  BY <1>1, <1>2, <1>3, Invariance, PTL DEF Spec

=============================================================================
