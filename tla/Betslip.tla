------------------------------ MODULE Betslip -------------------------------
(***************************************************************************)
(* apps/web: the bet slip of one tab (lib/betslip-context.tsx), with the   *)
(* panel that shows it, booking codes, and the polling of in-play bets.    *)
(*                                                                         *)
(* The tab is single-threaded, but everything it asks for answers later:   *)
(* price reads, which overlap; the POST of a bet; booking codes; and the   *)
(* polls of a bet in play.  Meanwhile the player goes on, prices move, and *)
(* the session is refreshed, ended, or replaced by another tab.  What is   *)
(* captured when a request is made is in the request's record.             *)
(*                                                                         *)
(* Left out: stakes and payouts, the wallets' balances, ticket limits      *)
(* other than the number of selections, wording.                           *)
(***************************************************************************)
EXTENDS Naturals, FiniteSets, Functions

CONSTANTS
  Picks,           \* the prices that can be tapped
  Market, Event,   \* the market and the match of each pick
  Checked,         \* picks whose price the server compares with the slip's
  Prices,
  Booked,          \* the picks behind the booking code there is
  Users,
  Nobody, Nothing, \* no player; no request, answer or code
  MaxSelections,   \* limits.maxSelections
  MaxMoves, MaxActs, MaxReads   \* bounds: changes of offers, acts of the player,
                                \* overlapping reads

NoPrice == 0

ASSUME BetslipAssumption ==
  /\ IsFiniteSet(Picks)
  /\ Market \in [Picks -> Range(Market)] /\ Event \in [Picks -> Range(Event)]
  /\ \A p, q \in Picks : Market[p] = Market[q] => Event[p] = Event[q]
  /\ Checked \subseteq Picks /\ Booked \subseteq Picks
  /\ Nobody \notin Users
  /\ Prices \subseteq Nat \ {NoPrice} /\ Prices # {}
  /\ MaxSelections \in Nat \ {0}

VARIABLES
  offer,     \* external: the server's price of each pick, and whether it can be backed
  user,      \* useAuth: the player signed in
  legs,      \* the slip: pick -> leg; localStorage holds the same.  A leg's "agreed"
             \* is history: the price the player last tapped or accepted
  reads,     \* answers to price reads under way, as the server gave them
  order,     \* the bet being placed (busy), with what place() captured
  backed,    \* history: picks on the slip that were placed since they were put there
  watches,   \* whose in-play bets are being polled
  load,      \* the answer to a booking code under way
  share,     \* ShareSlip: the booking under way, and the code shown
  moves, acts  \* bounds: how often an offer has changed, what the player has done

vars == <<offer, user, legs, reads, order, backed, watches, load, share, moves, acts>>

SlipPicks == DOMAIN legs

Leg == [odds : Prices, from : Prices \cup {NoPrice}, suspended : BOOLEAN, agreed : Prices]
Fresh(price) == [odds |-> price, from |-> NoPrice, suspended |-> FALSE, agreed |-> price]

Offers == {o \in [price : Prices \cup {NoPrice}, open : BOOLEAN] : o.open => o.price # NoPrice}
NoShare == [booking |-> Nothing, code |-> Nothing]

\* What a POST is answered: "error" is a refusal, or an error of the network
\* before or after the server has dealt with it.
Replies == [is : {"waiting", "placed", "accepting", "error"}]
             \cup [is : {"changed"}, pick : Picks, price : Prices]
Waiting == [is |-> "waiting"]

Init ==
  /\ offer = [p \in Picks |-> [price |-> CHOOSE price \in Prices : TRUE, open |-> TRUE]]
  /\ user \in Users \cup {Nobody}
  /\ legs = <<>>
  /\ reads = {}
  /\ order = Nothing
  /\ backed = {}
  /\ watches = {}
  /\ load = Nothing
  /\ share = NoShare
  /\ moves = 0 /\ acts = 0

-----------------------------------------------------------------------------
\* The slip becomes ls.  A read asks for the picks there were (legSignature),
\* so its answer is dropped once they are others; ShareSlip is on screen only
\* while there are legs, and what it knows goes with it.
SlipBecomes(ls) ==
  /\ legs' = ls
  /\ reads' = IF DOMAIN ls = SlipPicks THEN reads ELSE {}
  /\ share' = IF DOMAIN ls = {} THEN NoShare ELSE share

\* The player does something.
Act == acts < MaxActs /\ acts' = acts + 1

\* External: a price moves, a market is suspended or opened.
Move(p, o) ==
  /\ moves < MaxMoves /\ o \in Offers /\ o # offer[p]
  /\ offer' = [offer EXCEPT ![p] = o]
  /\ moves' = moves + 1
  /\ UNCHANGED <<user, legs, reads, order, backed, watches, load, share, acts>>

SameMarket(p, q) == Market[p] = Market[q]

\* The slip with p on it: another price in the same market swaps it.
Toggled(p, shown) ==
  [q \in {r \in SlipPicks : ~ SameMarket(r, p)} \cup {p} |->
     IF q = p THEN Fresh(shown) ELSE legs[q]]

\* A price is tapped on the page, which may show one that has moved since:
\* toggleLeg takes the pick off the slip or puts it on.
Tap(p, shown) ==
  /\ Act
  /\ \/ /\ p \in SlipPicks
        /\ SlipBecomes(Restrict(legs, SlipPicks \ {p}))
     \/ /\ p \notin SlipPicks
        /\ Cardinality(DOMAIN Toggled(p, shown)) <= MaxSelections
        /\ SlipBecomes(Toggled(p, shown))
  /\ backed' = backed \cap DOMAIN legs'
  /\ UNCHANGED <<offer, user, order, watches, load, moves>>

Clear ==
  /\ Act
  /\ legs # <<>>
  /\ SlipBecomes(<<>>)
  /\ backed' = {}
  /\ UNCHANGED <<offer, user, order, watches, load, moves>>

-----------------------------------------------------------------------------
\* The price the player has seen and, unless it is flagged, agreed to.
Seen(l) == IF l.from # NoPrice THEN l.from ELSE l.odds

\* Faulty variant: a suspended pick is left as it is.
RepricedUnlessSuspended(l, o) ==
  IF o.price = NoPrice \/ l.suspended THEN [l EXCEPT !.suspended = TRUE]
  ELSE [l EXCEPT !.odds = o.price, !.suspended = ~ o.open,
                 !.from = IF o.price = Seen(l) THEN NoPrice ELSE Seen(l)]

\* A read's answer applied to a leg.
Repriced(l, o) ==
  IF o.price = NoPrice THEN [l EXCEPT !.suspended = TRUE]
  ELSE [l EXCEPT !.odds = o.price, !.suspended = ~ o.open,
                 !.from = IF o.price = Seen(l) THEN NoPrice ELSE Seen(l)]

\* refresh, every 5 seconds and on a frame of the board: the server answers
\* with what it has now, and the answer arrives some time later.
Read ==
  /\ legs # <<>> /\ Cardinality(reads) < MaxReads
  /\ reads' = reads \cup {Restrict(offer, SlipPicks)}
  /\ UNCHANGED <<offer, user, legs, order, backed, watches, load, share, moves, acts>>

ReadArrives(r) ==
  /\ r \in reads
  /\ legs' = [p \in SlipPicks |-> Repriced(legs[p], r[p])]
  /\ reads' = reads \ {r}
  /\ UNCHANGED <<offer, user, order, backed, watches, load, share, moves, acts>>

-----------------------------------------------------------------------------
HasPriceChanges == \E p \in SlipPicks : legs[p].from # NoPrice
HasSuspended == \E p \in SlipPicks : legs[p].suspended

\* SlipBody: what it lets the player press.  One button places the bet, accepts
\* changed prices, or is disabled; a visitor has a link to log in instead.
Controls ==
  IF legs = <<>> THEN {"load"}
  ELSE {"clear", "remove", "share"} \cup
       (CASE user = Nobody -> {"login"}
          [] user # Nobody /\ HasSuspended -> {}
          [] user # Nobody /\ ~ HasSuspended /\ HasPriceChanges -> {"accept"}
          [] OTHER -> IF order = Nothing THEN {"place"} ELSE {})

\* acceptPriceChanges
AcceptChanges ==
  /\ Act
  /\ "accept" \in Controls
  /\ legs' = [p \in SlipPicks |-> [legs[p] EXCEPT !.from = NoPrice, !.agreed = legs[p].odds]]
  /\ UNCHANGED <<offer, user, reads, order, backed, watches, load, share, moves>>

-----------------------------------------------------------------------------
\* The picks a ticket can combine: one per match, and not too many.
IsMultiple(ps) ==
  /\ \A p, q \in ps : p # q => Event[p] # Event[q]
  /\ Cardinality(ps) <= MaxSelections

\* place(): a multiple is one POST; singles are one for each leg with a stake.
Place(multiple, parts) ==
  /\ Act
  /\ "place" \in Controls
  /\ IF multiple THEN parts = {SlipPicks} /\ IsMultiple(SlipPicks)
                 ELSE parts # {} /\ parts \subseteq {{p} : p \in SlipPicks}
  /\ order' = [by |-> user, late |-> FALSE, multiple |-> multiple, odds |-> [p \in UNION parts |-> legs[p].odds],
               reply |-> [part \in parts |-> Waiting]]
  /\ UNCHANGED <<offer, user, legs, reads, backed, watches, load, share, moves>>

Unanswered == {part \in DOMAIN order.reply : order.reply[part] = Waiting}

\* External: what the server may make of a ticket with these picks at the
\* odds it was sent with.  The price of some picks is not compared.
Verdicts(part) ==
  [is : {"error"}]
    \cup [is : IF \A p \in part : /\ offer[p].open
                                  /\ p \in Checked => offer[p].price = order.odds[p]
               THEN {"placed", "accepting"} ELSE {}]
    \cup {[is |-> "changed", pick |-> p, price |-> offer[p].price] :
            p \in {q \in part \cap Checked : offer[q].open /\ offer[q].price # order.odds[q]}}

\* authedPost: the POST with a token that has not run out.
Serve(part, reply) ==
  /\ order # Nothing /\ part \in Unanswered /\ ~ order.late
  /\ reply \in Verdicts(part)
  /\ order' = [order EXCEPT !.reply[part] = reply]
  /\ UNCHANGED <<offer, user, legs, reads, backed, watches, load, share, moves, acts>>

\* authedPost: the POST is answered 401, the session in storage (whoever's it
\* is) is refreshed and the POST repeated; without one the answer is an error.
\* The effect that owns the polls' AbortController depends on the access
\* token: with a new one the polls there are stop.
Reauthorize ==
  /\ order # Nothing /\ Unanswered # {} /\ order.late
  /\ \/ /\ user # Nobody
        /\ order' = [order EXCEPT !.late = FALSE]
        /\ watches' = {}
     \/ /\ order' = [order EXCEPT !.reply =
             [part \in DOMAIN @ |-> IF part \in Unanswered THEN [is |-> "error"] ELSE @[part]]]
        /\ UNCHANGED watches
  /\ UNCHANGED <<offer, user, legs, reads, backed, load, share, moves, acts>>

\* Faulty variant: the new price counts as agreed to.
MovedUnflagged(l, price) == [l EXCEPT !.odds = price]

\* applyPriceChange: a leg the server named, at the price it named.
Moved(l, price) ==
  [l EXCEPT !.odds = price, !.from = IF price = Seen(l) THEN NoPrice ELSE Seen(l)]

Accepted == {part \in DOMAIN order.reply : order.reply[part].is \in {"placed", "accepting"}}

\* The slip with the legs moved that the server named.
LegsMoved ==
  [p \in SlipPicks |->
     LET named == {r \in Range(order.reply) : r.is = "changed" /\ r.pick = p}
     IN  IF named = {} THEN legs[p] ELSE Moved(legs[p], (CHOOSE r \in named : TRUE).price)]

\* Faulty variant: placed singles stay until all of them are placed.
LegsIfAllPlaced ==
  IF Accepted = DOMAIN order.reply
  THEN IF order.multiple THEN <<>> ELSE Restrict(LegsMoved, SlipPicks \ UNION Accepted)
  ELSE LegsMoved

\* A placed multiple empties the slip; of singles those leave that were placed.
LegsAfter ==
  IF order.multiple /\ Accepted # {} THEN <<>>
  ELSE Restrict(LegsMoved, SlipPicks \ UNION Accepted)

\* place() goes on once every POST has been answered.  Bets accepted for a
\* check in play are polled, with the token place() began with.
Placed ==
  /\ order # Nothing /\ Unanswered = {}
  /\ SlipBecomes(LegsAfter)
  /\ backed' = (backed \cup UNION Accepted) \cap DOMAIN legs'
  /\ watches' = watches \cup (IF \E part \in Accepted : order.reply[part].is = "accepting"
                              THEN {order.by} ELSE {})
  /\ order' = Nothing
  /\ UNCHANGED <<offer, user, load, moves, acts>>

\* awaitAcceptance: every bet is resolved, or 22 polls were not enough (none
\* is when the token has run out); the result is shown.
Report(w) ==
  /\ w \in watches
  /\ watches' = watches \ {w}
  /\ UNCHANGED <<offer, user, legs, reads, order, backed, load, share, moves, acts>>

-----------------------------------------------------------------------------
\* auth-context.tsx: the timer refreshes the session, here or in another tab.
RefreshToken ==
  /\ user # Nobody
  /\ watches' = {}
  /\ UNCHANGED <<offer, user, legs, reads, order, backed, load, share, moves, acts>>

\* The player signs in here or in another tab, or signs out here.
SessionOf(u) ==
  /\ Act
  /\ u # user
  /\ user' = u
  /\ watches' = {}
  /\ UNCHANGED <<offer, legs, reads, order, backed, load, share, moves>>

\* The access token of the bet being placed runs out.
RunOut ==
  /\ order # Nothing /\ Unanswered # {} /\ ~ order.late
  /\ order' = [order EXCEPT !.late = TRUE]
  /\ UNCHANGED <<offer, user, legs, reads, backed, watches, load, share, moves, acts>>

\* The page is loaded again: only what is in storage is left.
Reload ==
  /\ Act
  /\ reads' = {} /\ order' = Nothing /\ watches' = {}
  /\ load' = Nothing /\ share' = NoShare
  /\ UNCHANGED <<offer, user, legs, backed, moves>>

\* loadBooking, from the form or a shared link: the answer has the picks that can be backed at their prices.
LoadCode ==
  /\ Act
  /\ load = Nothing
  /\ load' = Restrict(offer, {p \in Booked : offer[p].open})
  /\ UNCHANGED <<offer, user, legs, reads, order, backed, watches, share, moves>>

\* loadCode: they replace the slip; a code that failed or has none changes nothing.
CodeArrives ==
  /\ load # Nothing
  /\ IF load = <<>>
     THEN UNCHANGED <<legs, reads, backed, share>>
     ELSE /\ SlipBecomes([p \in DOMAIN load |-> Fresh(load[p].price)])
          /\ backed' = {}
  /\ load' = Nothing
  /\ UNCHANGED <<offer, user, order, watches, moves, acts>>

\* ShareSlip: the slip is booked, and what it was booked for remembered.
Book ==
  /\ Act
  /\ "share" \in Controls /\ share.booking = Nothing
  /\ share' = [share EXCEPT !.booking = SlipPicks]
  /\ UNCHANGED <<offer, user, legs, reads, order, backed, watches, load, moves>>

\* Faulty variant: the code is taken to be for what is on the slip by now.
BookedForNow == [booking |-> Nothing, code |-> [of |-> share.booking, bookedFor |-> SlipPicks]]

BookedFor == [booking |-> Nothing, code |-> [of |-> share.booking, bookedFor |-> share.booking]]

BookAnswered ==
  /\ share.booking # Nothing
  /\ share' \in {BookedFor, [share EXCEPT !.booking = Nothing]}
  /\ UNCHANGED <<offer, user, legs, reads, order, backed, watches, load, moves, acts>>

\* The code on screen: changing the slip retires it.
CodeShown == share.code # Nothing /\ share.code.bookedFor = SlipPicks

Next ==
  \/ \E p \in Picks : (\E o \in Offers : Move(p, o)) \/ (\E shown \in Prices : Tap(p, shown))
  \/ Clear \/ Read \/ (\E r \in reads : ReadArrives(r)) \/ AcceptChanges
  \/ \E multiple \in BOOLEAN, parts \in SUBSET SUBSET SlipPicks : Place(multiple, parts)
  \/ order # Nothing /\ \E part \in Unanswered : \E reply \in Verdicts(part) : Serve(part, reply)
  \/ Reauthorize \/ Placed \/ (\E w \in watches : Report(w))
  \/ RefreshToken \/ RunOut \/ (\E u \in Users \cup {Nobody} : SessionOf(u))
  \/ Reload \/ LoadCode \/ CodeArrives \/ Book \/ BookAnswered

Spec == Init /\ [][Next]_vars

\* Reads are made again and again, and answered.
FairSpec ==
  /\ Spec
  /\ WF_vars(Read)
  /\ WF_vars(\E r \in reads : ReadArrives(r))

-----------------------------------------------------------------------------
TypeOK ==
  /\ offer \in [Picks -> Offers]
  /\ user \in Users \cup {Nobody}
  /\ SlipPicks \subseteq Picks /\ legs \in [SlipPicks -> Leg]
  /\ \A r \in reads : r \in [SlipPicks -> Offers]
  /\ order # Nothing =>
       /\ order.reply \in [DOMAIN order.reply -> Replies]
       /\ order.odds \in [UNION DOMAIN order.reply -> Prices]
  /\ backed \subseteq SlipPicks
  /\ watches \subseteq Users
  /\ load # Nothing => load \in [DOMAIN load -> Offers]
  /\ DOMAIN share = {"booking", "code"}
  /\ moves \in 0 .. MaxMoves /\ acts \in 0 .. MaxActs

\* What is sent is at the prices the player last tapped or accepted: no read,
\* and no answer to an earlier bet, slips another price in.
SentAsAgreed ==
  [][order' # Nothing /\ order = Nothing =>
       \A p \in DOMAIN order'.odds : order'.odds[p] = legs[p].agreed]_vars

\* A pick the player was told is placed is not sent again unless it is picked
\* again, whatever became of the other singles sent with it.
PlacedOnce ==
  [][order' # Nothing /\ order = Nothing => backed \cap DOMAIN order'.odds = {}]_vars

\* The code on screen is one for the picks on screen, also when the slip was
\* changed while it was being booked.
CodeIsForTheSlip == CodeShown => share.code.of = SlipPicks

\* The slip shows what the server offers once nothing moves any more (the bounds
\* see to it), although answers arrive in any order.
InAccord ==
  \A p \in SlipPicks : IF offer[p].price = NoPrice THEN legs[p].suspended
                       ELSE legs[p].odds = offer[p].price /\ legs[p].suspended = ~ offer[p].open
SlipCatchesUp == <>[]InAccord

\* "In-play acceptance polling belongs to the session that placed the bet: stop
\* it on logout/account switch or unmount" (betslip-context.tsx:181): until
\* then it goes on to the bet's outcome.  Not kept: every refresh of the token stops it.
PollsLastTheSession ==
  [][\A w \in watches : \/ w \in watches' \/ Report(w) \/ Reload
                        \/ user' # user]_vars
=============================================================================
