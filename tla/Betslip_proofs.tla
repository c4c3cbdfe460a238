--------------------------- MODULE Betslip_proofs ---------------------------
(***************************************************************************)
(* That the bet slip sends what the player agreed to, and once, and shows  *)
(* codes for what is on it: for any picks, markets, prices and bounds.     *)
(* Whatever arrives in whatever order, a leg remembers the price that the  *)
(* player last saw unflagged.                                              *)
(***************************************************************************)
EXTENDS Betslip, TLAPS

-----------------------------------------------------------------------------
(* The inductive invariant.                                                *)

Answers == UNION {[parts -> Replies] : parts \in SUBSET SUBSET Picks}
Orders == [by : Users \cup {Nobody}, late : BOOLEAN, multiple : BOOLEAN,
           odds : UNION {[ps -> Prices] : ps \in SUBSET Picks}, reply : Answers]
Shares == [booking : (SUBSET Picks) \cup {Nothing},
           code : [of : SUBSET Picks, bookedFor : SUBSET Picks] \cup {Nothing}]

\* The price that is shown without a flag, or was before the flagged change, is the one
\* the player tapped or accepted.
GoodLegs(ls) ==
  /\ DOMAIN ls \subseteq Picks /\ ls \in [DOMAIN ls -> Leg]
  /\ \A p \in DOMAIN ls : Seen(ls[p]) = ls[p].agreed

Typed ==
  /\ offer \in [Picks -> Offers] /\ user \in Users \cup {Nobody}
  /\ \A r \in reads : r \in [SlipPicks -> Offers]
  /\ order = Nothing \/ order \in Orders
  /\ load # Nothing => \A p \in DOMAIN load : p \in Picks /\ load[p].price \in Prices
  /\ share \in Shares

CodeIsAsBooked == share.code # Nothing => share.code.of = share.code.bookedFor

Inv == Typed /\ GoodLegs(legs) /\ backed = {} /\ CodeIsAsBooked

-----------------------------------------------------------------------------
(* Prices and legs.                                                        *)

\* Prices and picks as the offer, the booked code and the checked answer give them.
LEMMA PriceType ==
  /\ NoPrice \notin Prices /\ Checked \subseteq Picks /\ Booked \subseteq Picks
  /\ \A o \in Offers : /\ o.price \in Prices \cup {NoPrice}
                       /\ o.open \in BOOLEAN
                       /\ o.open => o.price \in Prices
  BY BetslipAssumption DEF Offers

\* A leg that is added agrees with the price it was added at.
LEMMA FreshLeg ==
  ASSUME NEW price \in Prices
  PROVE  Fresh(price) \in Leg /\ Seen(Fresh(price)) = Fresh(price).agreed
  BY DEF Fresh, Leg, Seen

(* A read's answer, and a price that the server names, are flagged until   *)
(* the player accepts them or they go back to what was agreed.             *)
LEMMA RepricedLeg ==
  ASSUME NEW l \in Leg, Seen(l) = l.agreed, NEW o \in Offers
  PROVE  Repriced(l, o) \in Leg /\ Seen(Repriced(l, o)) = Repriced(l, o).agreed
<1>1. l.agreed \in Prices /\ NoPrice \notin Prices
  BY PriceType DEF Leg
<1>2. CASE o.price = NoPrice
  BY <1>2 DEF Repriced, Leg, Seen
<1>3. CASE o.price # NoPrice
  <2>1. o.price \in Prices /\ o.open \in BOOLEAN
    BY <1>3, PriceType
  <2>2. Repriced(l, o) = [l EXCEPT !.odds = o.price, !.suspended = ~ o.open,
                            !.from = IF o.price = l.agreed THEN NoPrice ELSE l.agreed]
    BY <1>3 DEF Repriced
  <2> QED
    BY <1>1, <2>1, <2>2 DEF Leg, Seen
<1> QED
  BY <1>2, <1>3

\* A leg whose price the server moves in its answer is still seen as it was agreed.
LEMMA MovedLeg ==
  ASSUME NEW l \in Leg, Seen(l) = l.agreed, NEW price \in Prices
  PROVE  Moved(l, price) \in Leg /\ Seen(Moved(l, price)) = Moved(l, price).agreed
<1>1. l.agreed \in Prices /\ NoPrice \notin Prices
  BY PriceType DEF Leg
<1>2. Moved(l, price) = [l EXCEPT !.odds = price, !.from = IF price = l.agreed THEN NoPrice ELSE l.agreed]
  BY DEF Moved
<1> QED
  BY <1>1, <1>2 DEF Leg, Seen

\* The empty slip has nothing to disagree about.
LEMMA EmptySlip == GoodLegs(<<>>) /\ DOMAIN <<>> = {}
<1>1. DOMAIN <<>> = {}
  OBVIOUS
<1> QED
  BY <1>1 DEF GoodLegs

(* Legs that are taken off leave the others as they were.                  *)
LEMMA RestrictedSlip ==
  ASSUME NEW ls, GoodLegs(ls), NEW ps \in SUBSET DOMAIN ls
  PROVE  GoodLegs(Restrict(ls, ps)) /\ DOMAIN Restrict(ls, ps) = ps
  BY DEF GoodLegs, Restrict

-----------------------------------------------------------------------------
(* Answers to the POSTs of a bet.                                          *)

\* The server answers each part of an order with one of its replies.
LEMMA AnswerType ==
  ASSUME NEW answer \in Answers
  PROVE  /\ DOMAIN answer \subseteq SUBSET Picks
         /\ \A part \in DOMAIN answer : answer[part] \in Replies
  BY DEF Answers

\* Replies to the parts of an order are an answer.
LEMMA AnswerIsType ==
  ASSUME NEW parts \in SUBSET SUBSET Picks, NEW answer \in [parts -> Replies]
  PROVE  answer \in Answers
  BY DEF Answers

(* What the server names is a pick at a price it can be backed at.         *)
LEMMA VerdictType ==
  ASSUME Typed, NEW part \in SUBSET Picks, NEW reply \in Verdicts(part)
  PROVE  reply \in Replies
<1>1. CASE reply \in [is : {"error"}] \cup [is : {"placed", "accepting"}]
  BY <1>1 DEF Replies
<1>2. ASSUME NEW p \in part \cap Checked, offer[p].open, reply = [is |-> "changed", pick |-> p, price |-> offer[p].price]
      PROVE  reply \in Replies
  <2>1. p \in Picks /\ offer[p].price \in Prices
    BY <1>2, PriceType DEF Typed
  <2> QED
    BY <1>2, <2>1 DEF Replies
<1> QED
  BY <1>1, <1>2 DEF Verdicts

\* A refusal for a changed price names the price.
LEMMA ChangedType ==
  ASSUME NEW reply \in Replies, reply.is = "changed"
  PROVE  reply.price \in Prices
  BY DEF Replies

(* The slip after a bet: no leg that was placed is left on it.             *)
LEMMA SlipAfter ==
  ASSUME Typed, GoodLegs(legs), order # Nothing
  PROVE  GoodLegs(LegsAfter) /\ (UNION Accepted) \cap DOMAIN LegsAfter = {}
<1>1. order.reply \in Answers
  BY DEF Typed, Orders
<1>2. ASSUME NEW p \in SlipPicks
      PROVE  LegsMoved[p] \in Leg /\ Seen(LegsMoved[p]) = LegsMoved[p].agreed
  <2> DEFINE named == {r \in Range(order.reply) : r.is = "changed" /\ r.pick = p}
  <2>1. LegsMoved[p] = IF named = {} THEN legs[p] ELSE Moved(legs[p], (CHOOSE r \in named : TRUE).price)
    BY <1>2 DEF LegsMoved
  <2>2. legs[p] \in Leg /\ Seen(legs[p]) = legs[p].agreed
    BY DEF GoodLegs, SlipPicks
  <2>3. ASSUME named # {}
        PROVE  (CHOOSE r \in named : TRUE).price \in Prices
    <3>1. PICK r \in named : r = CHOOSE q \in named : TRUE
      BY <2>3
    <3>2. r \in Replies /\ r.is = "changed"
      BY <1>1, <3>1, AnswerType DEF Range
    <3> QED
      BY <3>1, <3>2, ChangedType
  <2> HIDE DEF named
  <2> QED
    BY <2>1, <2>2, <2>3, MovedLeg
<1>3. DOMAIN LegsMoved = SlipPicks /\ LegsMoved = [p \in SlipPicks |-> LegsMoved[p]]
  BY DEF LegsMoved
<1>4. GoodLegs(LegsMoved)
  <2>1. SlipPicks \subseteq Picks
    BY DEF GoodLegs, SlipPicks
  <2> QED
    BY <1>2, <1>3, <2>1 DEF GoodLegs
<1>5. CASE order.multiple /\ Accepted # {}
  BY <1>5, EmptySlip DEF LegsAfter
<1>6. CASE ~ (order.multiple /\ Accepted # {})
  <2>1. LegsAfter = Restrict(LegsMoved, SlipPicks \ UNION Accepted)
    BY <1>6 DEF LegsAfter
  <2>2. SlipPicks \ UNION Accepted \in SUBSET DOMAIN LegsMoved
    BY <1>3
  <2> QED
    BY <1>4, <2>1, <2>2, RestrictedSlip
<1> QED
  BY <1>5, <1>6

-----------------------------------------------------------------------------
(* The steps that change the slip.                                         *)

\* No step leaves a leg on the slip without a price that was agreed to.
LEMMA SlipStep ==
  ASSUME Inv, [Next]_vars
  PROVE  GoodLegs(legs)' /\ backed' = {}
<1>0. GoodLegs(legs) /\ backed = {} /\ Typed
  BY DEF Inv
<1>1. ASSUME NEW p \in Picks, NEW shown \in Prices, Tap(p, shown)
      PROVE  GoodLegs(legs)' /\ backed' = {}
  <2>1. CASE legs' = Restrict(legs, SlipPicks \ {p})
    <3>1. GoodLegs(legs')
      BY <1>0, <2>1, RestrictedSlip DEF SlipPicks
    <3> QED
      BY <1>0, <1>1, <3>1 DEF Tap, GoodLegs
  <2>2. CASE legs' = Toggled(p, shown)
    <3> DEFINE ps == {r \in SlipPicks : ~ SameMarket(r, p)} \cup {p}
    <3>1. ps \subseteq Picks
      BY <1>0 DEF GoodLegs, SlipPicks
    <3>2. Toggled(p, shown) = [q \in ps |-> IF q = p THEN Fresh(shown) ELSE legs[q]]
      BY DEF Toggled
    <3>3. \A q \in ps : q # p => legs[q] \in Leg /\ Seen(legs[q]) = legs[q].agreed
      BY <1>0 DEF GoodLegs, SlipPicks
    <3> HIDE DEF ps
    <3>4. GoodLegs(Toggled(p, shown))
      BY <3>1, <3>2, <3>3, FreshLeg DEF GoodLegs
    <3> QED
      BY <1>0, <1>1, <2>2, <3>4 DEF Tap, GoodLegs
  <2> QED
    BY <1>1, <2>1, <2>2 DEF Tap, SlipBecomes
<1>2. CASE Clear
  <2>1. legs' = <<>> /\ backed' = {}
    BY <1>2 DEF Clear, SlipBecomes
  <2> QED
    BY <2>1, EmptySlip DEF GoodLegs
<1>3. ASSUME NEW r \in reads, ReadArrives(r)
      PROVE  GoodLegs(legs)' /\ backed' = {}
  <2>1. legs' = [p \in SlipPicks |-> Repriced(legs[p], r[p])] /\ backed' = {}
    BY <1>0, <1>3 DEF ReadArrives
  <2>2. \A p \in SlipPicks : legs[p] \in Leg /\ Seen(legs[p]) = legs[p].agreed /\ r[p] \in Offers
    BY <1>0, <1>3 DEF GoodLegs, SlipPicks, Typed
  <2>3. SlipPicks \subseteq Picks
    BY <1>0 DEF GoodLegs, SlipPicks
  <2> QED
    BY <2>1, <2>2, <2>3, RepricedLeg DEF GoodLegs
<1>4. CASE AcceptChanges
  <2>1. legs' = [p \in SlipPicks |-> [legs[p] EXCEPT !.from = NoPrice, !.agreed = legs[p].odds]] /\ backed' = {}
    BY <1>0, <1>4 DEF AcceptChanges
  <2>2. \A p \in SlipPicks : legs[p] \in Leg
    BY <1>0 DEF GoodLegs, SlipPicks
  <2>3. ASSUME NEW p \in SlipPicks
        PROVE  legs'[p] \in Leg /\ Seen(legs'[p]) = legs'[p].agreed
    <3>1. legs'[p] = [legs[p] EXCEPT !.from = NoPrice, !.agreed = legs[p].odds]
      BY <2>1
    <3> QED
      BY <2>2, <3>1 DEF Leg, Seen
  <2>4. SlipPicks \subseteq Picks
    BY <1>0 DEF GoodLegs, SlipPicks
  <2> QED
    BY <2>1, <2>3, <2>4 DEF GoodLegs
<1>5. CASE Placed
  <2>1. legs' = LegsAfter /\ order # Nothing /\ backed' = (UNION Accepted) \cap DOMAIN legs'
    BY <1>0, <1>5 DEF Placed, SlipBecomes
  <2>2. GoodLegs(legs') /\ backed' = {}
    BY <1>0, <2>1, SlipAfter
  <2> QED
    BY <2>2 DEF GoodLegs
<1>6. CASE CodeArrives
  <2>1. CASE UNCHANGED <<legs, backed>>
    BY <1>0, <2>1 DEF GoodLegs
  <2>2. CASE legs' = [p \in DOMAIN load |-> Fresh(load[p].price)] /\ backed' = {}
    <3>1. \A p \in DOMAIN load : p \in Picks /\ load[p].price \in Prices
      BY <1>0, <1>6 DEF CodeArrives, Typed
    <3> QED
      BY <2>2, <3>1, FreshLeg DEF GoodLegs
  <2> QED
    BY <1>6, <2>1, <2>2 DEF CodeArrives, SlipBecomes
<1>7. ASSUME UNCHANGED <<legs, backed>>
      PROVE  GoodLegs(legs)' /\ backed' = {}
  BY <1>0, <1>7 DEF GoodLegs
<1>8. ASSUME \/ Read \/ Reauthorize \/ RefreshToken \/ RunOut \/ Reload \/ LoadCode \/ Book \/ BookAnswered
             \/ \E p \in Picks, o \in Offers : Move(p, o)
             \/ \E multiple \in BOOLEAN, parts \in SUBSET SUBSET SlipPicks : Place(multiple, parts)
             \/ \E part \in Unanswered : \E reply \in Verdicts(part) : Serve(part, reply)
             \/ \E w \in watches : Report(w)
             \/ \E u \in Users \cup {Nobody} : SessionOf(u)
             \/ UNCHANGED vars
      PROVE  UNCHANGED <<legs, backed>>
  BY <1>8 DEF Read, Reauthorize, RefreshToken, RunOut, Reload, LoadCode, Book, BookAnswered, Move, Place, Serve,
              Report, SessionOf, vars
<1> QED
  BY <1>1, <1>2, <1>3, <1>4, <1>5, <1>6, <1>7, <1>8 DEF Next

-----------------------------------------------------------------------------
(* The other parts of the state keep their types.                          *)

\* The feed and the sign-in only move within what they may be.
LEMMA OfferStep ==
  ASSUME Typed, [Next]_vars
  PROVE  offer' \in [Picks -> Offers] /\ user' \in Users \cup {Nobody}
<1>1. offer \in [Picks -> Offers] /\ user \in Users \cup {Nobody}
  BY DEF Typed
<1>2. ASSUME NEW p \in Picks, NEW o \in Offers, Move(p, o)
      PROVE  offer' \in [Picks -> Offers] /\ user' = user
  BY <1>1, <1>2 DEF Move
<1>3. ASSUME NEW u \in Users \cup {Nobody}, SessionOf(u)
      PROVE  offer' = offer /\ user' = u
  BY <1>3 DEF SessionOf
<1>4. ASSUME \/ Clear \/ Read \/ AcceptChanges \/ Reauthorize \/ Placed \/ RefreshToken \/ RunOut
             \/ Reload \/ LoadCode \/ CodeArrives \/ Book \/ BookAnswered
             \/ \E p \in Picks, shown \in Prices : Tap(p, shown)
             \/ \E r \in reads : ReadArrives(r)
             \/ \E multiple \in BOOLEAN, parts \in SUBSET SUBSET SlipPicks : Place(multiple, parts)
             \/ \E part \in Unanswered : \E reply \in Verdicts(part) : Serve(part, reply)
             \/ \E w \in watches : Report(w)
             \/ UNCHANGED vars
      PROVE  UNCHANGED <<offer, user>>
  BY <1>4 DEF Clear, Read, AcceptChanges, Reauthorize, Placed, RefreshToken, RunOut, Reload, LoadCode, CodeArrives,
              Book, BookAnswered, Tap, ReadArrives, Place, Serve, Report, vars
<1> QED
  BY <1>1, <1>2, <1>3, <1>4 DEF Next

(* An answer to a read that is used is one for the picks that are on the   *)
(* slip by then.                                                           *)
LEMMA ReadsStep ==
  ASSUME Typed, GoodLegs(legs), [Next]_vars
  PROVE  \A r \in reads' : r \in [SlipPicks' -> Offers]
<1>0. /\ offer \in [Picks -> Offers] /\ SlipPicks \subseteq Picks
      /\ \A r \in reads : r \in [SlipPicks -> Offers]
  BY DEF Typed, GoodLegs, SlipPicks
<1>1. ASSUME NEW ls, SlipBecomes(ls)
      PROVE  \A r \in reads' : r \in [SlipPicks' -> Offers]
  BY <1>0, <1>1 DEF SlipBecomes, SlipPicks
<1>2. ASSUME reads' \subseteq reads, SlipPicks' = SlipPicks
      PROVE  \A r \in reads' : r \in [SlipPicks' -> Offers]
  BY <1>0, <1>2
<1>3. ASSUME (\E p \in Picks, shown \in Prices : Tap(p, shown)) \/ Clear \/ Placed
      PROVE  \A r \in reads' : r \in [SlipPicks' -> Offers]
  BY <1>1, <1>3 DEF Tap, Clear, Placed
<1>4. CASE CodeArrives
  <2>1. CASE SlipBecomes([p \in DOMAIN load |-> Fresh(load[p].price)])
    BY <1>1, <2>1
  <2>2. CASE UNCHANGED <<legs, reads>>
    BY <1>2, <2>2 DEF SlipPicks
  <2> QED
    BY <1>4, <2>1, <2>2 DEF CodeArrives
<1>5. CASE Read
  <2>1. reads' = reads \cup {Restrict(offer, SlipPicks)} /\ SlipPicks' = SlipPicks
    BY <1>5 DEF Read, SlipPicks
  <2>2. Restrict(offer, SlipPicks) \in [SlipPicks -> Offers]
    BY <1>0 DEF Restrict
  <2> QED
    BY <1>0, <2>1, <2>2
<1>6. ASSUME (\E r \in reads : ReadArrives(r)) \/ AcceptChanges
      PROVE  reads' \subseteq reads /\ SlipPicks' = SlipPicks
  BY <1>6 DEF ReadArrives, AcceptChanges, SlipPicks
<1>7. ASSUME \/ Reauthorize \/ RefreshToken \/ RunOut \/ Reload \/ LoadCode \/ Book \/ BookAnswered
             \/ \E p \in Picks, o \in Offers : Move(p, o)
             \/ \E multiple \in BOOLEAN, parts \in SUBSET SUBSET SlipPicks : Place(multiple, parts)
             \/ \E part \in Unanswered : \E reply \in Verdicts(part) : Serve(part, reply)
             \/ \E w \in watches : Report(w)
             \/ \E u \in Users \cup {Nobody} : SessionOf(u)
             \/ UNCHANGED vars
      PROVE  reads' \subseteq reads /\ legs' = legs
  BY <1>7 DEF Reauthorize, RefreshToken, RunOut, Reload, LoadCode, Book, BookAnswered, Move, Place, Serve, Report,
              SessionOf, vars
<1>8. legs' = legs => SlipPicks' = SlipPicks
  BY DEF SlipPicks
<1> QED
  BY <1>2, <1>3, <1>4, <1>5, <1>6, <1>7, <1>8 DEF Next

\* An order that is out keeps its form through every step of the poll.
LEMMA OrderStep ==
  ASSUME Typed, GoodLegs(legs), [Next]_vars
  PROVE  order' = Nothing \/ order' \in Orders
<1>0. order = Nothing \/ order \in Orders
  BY DEF Typed
<1>1. ASSUME NEW multiple \in BOOLEAN, NEW parts \in SUBSET SUBSET SlipPicks, Place(multiple, parts)
      PROVE  order' \in Orders
  <2>1. order' = [by |-> user, late |-> FALSE, multiple |-> multiple, odds |-> [p \in UNION parts |-> legs[p].odds],
                  reply |-> [part \in parts |-> Waiting]]
    BY <1>1 DEF Place
  <2>2. SlipPicks \subseteq Picks /\ \A p \in SlipPicks : legs[p].odds \in Prices
    BY DEF GoodLegs, SlipPicks, Leg
  <2>3. parts \in SUBSET SUBSET Picks /\ UNION parts \subseteq Picks /\ UNION parts \subseteq SlipPicks
    BY <2>2
  <2>4. [p \in UNION parts |-> legs[p].odds] \in [UNION parts -> Prices]
    BY <2>2, <2>3
  <2>5. [part \in parts |-> Waiting] \in [parts -> Replies]
    BY DEF Waiting, Replies
  <2>6. [part \in parts |-> Waiting] \in Answers
    BY <2>3, <2>5, AnswerIsType
  <2>7. user \in Users \cup {Nobody}
    BY DEF Typed
  <2> QED
    BY <2>1, <2>3, <2>4, <2>6, <2>7 DEF Orders
<1>2. ASSUME order \in Orders, NEW part \in DOMAIN order.reply, NEW reply \in Verdicts(part), Serve(part, reply)
      PROVE  order' \in Orders
  <2>1. order.reply \in Answers
    BY <1>2 DEF Orders
  <2>2. part \in SUBSET Picks
    BY <1>2, <2>1, AnswerType
  <2>3. reply \in Replies
    BY <2>2, VerdictType
  <2>4. [order.reply EXCEPT ![part] = reply] \in Answers
    <3>1. PICK parts \in SUBSET SUBSET Picks : order.reply \in [parts -> Replies]
      BY <2>1 DEF Answers
    <3>2. [order.reply EXCEPT ![part] = reply] \in [parts -> Replies]
      BY <2>3, <3>1
    <3> QED
      BY <3>1, <3>2, AnswerIsType
  <2>5. order' = [order EXCEPT !.reply = [order.reply EXCEPT ![part] = reply]]
    BY <1>2 DEF Serve
  <2> QED
    BY <1>2, <2>4, <2>5 DEF Orders
<1>3. ASSUME order \in Orders, Reauthorize
      PROVE  order' \in Orders
  <2>1. CASE order' = [order EXCEPT !.late = FALSE]
    BY <1>3, <2>1 DEF Orders
  <2>2. CASE order' = [order EXCEPT !.reply = [part \in DOMAIN order.reply |->
                         IF part \in Unanswered THEN [is |-> "error"] ELSE order.reply[part]]]
    <3>1. order.reply \in Answers
      BY <1>3 DEF Orders
    <3>2. [part \in DOMAIN order.reply |-> IF part \in Unanswered THEN [is |-> "error"] ELSE order.reply[part]]
            \in [DOMAIN order.reply -> Replies]
      BY <3>1, AnswerType DEF Replies
    <3>3. [part \in DOMAIN order.reply |-> IF part \in Unanswered THEN [is |-> "error"] ELSE order.reply[part]] \in Answers
      BY <3>1, <3>2, AnswerType, AnswerIsType
    <3> QED
      BY <1>3, <2>2, <3>3 DEF Orders
  <2> QED
    BY <1>3, <2>1, <2>2 DEF Reauthorize
<1>4. ASSUME order \in Orders, RunOut
      PROVE  order' \in Orders
  BY <1>4 DEF RunOut, Orders
<1>5. ASSUME Placed \/ Reload
      PROVE  order' = Nothing
  BY <1>5 DEF Placed, Reload
<1>6. ASSUME \/ Clear \/ Read \/ AcceptChanges \/ RefreshToken \/ LoadCode \/ CodeArrives \/ Book \/ BookAnswered
             \/ \E p \in Picks, o \in Offers : Move(p, o)
             \/ \E p \in Picks, shown \in Prices : Tap(p, shown)
             \/ \E r \in reads : ReadArrives(r)
             \/ \E w \in watches : Report(w)
             \/ \E u \in Users \cup {Nobody} : SessionOf(u)
             \/ UNCHANGED vars
      PROVE  order' = order
  BY <1>6 DEF Clear, Read, AcceptChanges, RefreshToken, LoadCode, CodeArrives, Book, BookAnswered, Move, Tap,
              ReadArrives, Report, SessionOf, vars
<1>7. Reauthorize \/ RunOut \/ (\E part \in Unanswered : \E reply \in Verdicts(part) : Serve(part, reply))
        => order # Nothing
  BY DEF Reauthorize, RunOut, Serve
<1>8. \A part \in Unanswered : part \in DOMAIN order.reply
  BY DEF Unanswered
<1> QED
  BY <1>0, <1>1, <1>2, <1>3, <1>4, <1>5, <1>6, <1>7, <1>8 DEF Next

(* What a booking code loads can be backed.                                *)
LEMMA LoadStep ==
  ASSUME Typed, [Next]_vars
  PROVE  load' # Nothing => \A p \in DOMAIN load' : p \in Picks /\ load'[p].price \in Prices
<1>0. load # Nothing => \A p \in DOMAIN load : p \in Picks /\ load[p].price \in Prices
  BY DEF Typed
<1>1. CASE LoadCode
  <2>1. load' = Restrict(offer, {p \in Booked : offer[p].open})
    BY <1>1 DEF LoadCode
  <2>2. \A p \in Booked : p \in Picks /\ (offer[p].open => offer[p].price \in Prices)
    BY PriceType DEF Typed
  <2> QED
    BY <2>1, <2>2 DEF Restrict
<1>2. ASSUME CodeArrives \/ Reload
      PROVE  load' = Nothing
  BY <1>2 DEF CodeArrives, Reload
<1>3. ASSUME \/ Clear \/ Read \/ AcceptChanges \/ Reauthorize \/ Placed \/ RefreshToken \/ RunOut \/ Book \/ BookAnswered
             \/ \E p \in Picks, o \in Offers : Move(p, o)
             \/ \E p \in Picks, shown \in Prices : Tap(p, shown)
             \/ \E r \in reads : ReadArrives(r)
             \/ \E multiple \in BOOLEAN, parts \in SUBSET SUBSET SlipPicks : Place(multiple, parts)
             \/ \E part \in Unanswered : \E reply \in Verdicts(part) : Serve(part, reply)
             \/ \E w \in watches : Report(w)
             \/ \E u \in Users \cup {Nobody} : SessionOf(u)
             \/ UNCHANGED vars
      PROVE  load' = load
  BY <1>3 DEF Clear, Read, AcceptChanges, Reauthorize, Placed, RefreshToken, RunOut, Book, BookAnswered, Move, Tap,
              ReadArrives, Place, Serve, Report, SessionOf, vars
<1> QED
  BY <1>0, <1>1, <1>2, <1>3 DEF Next

(* A code is kept with the picks that it was booked for.                   *)
LEMMA ShareStep ==
  ASSUME Typed, GoodLegs(legs), CodeIsAsBooked, [Next]_vars
  PROVE  share' \in Shares /\ CodeIsAsBooked'
<1>0. share \in Shares /\ SlipPicks \subseteq Picks
  BY DEF Typed, GoodLegs, SlipPicks
<1>1. ASSUME share' = NoShare
      PROVE  share' \in Shares /\ CodeIsAsBooked'
  BY <1>1 DEF NoShare, Shares, CodeIsAsBooked
<1>2. ASSUME share' = share
      PROVE  share' \in Shares /\ CodeIsAsBooked'
  BY <1>0, <1>2 DEF CodeIsAsBooked
<1>3. ASSUME NEW ls, SlipBecomes(ls)
      PROVE  share' = NoShare \/ share' = share
  BY <1>3 DEF SlipBecomes
<1>4. CASE Book
  <2>1. share' = [share EXCEPT !.booking = SlipPicks]
    BY <1>4 DEF Book
  <2> QED
    BY <1>0, <2>1 DEF Shares, CodeIsAsBooked
<1>5. CASE BookAnswered
  <2>1. share.booking # Nothing /\ share.booking \in SUBSET Picks
    BY <1>0, <1>5 DEF BookAnswered, Shares
  <2>2. CASE share' = BookedFor
    BY <2>1, <2>2 DEF BookedFor, Shares, CodeIsAsBooked
  <2>3. CASE share' = [share EXCEPT !.booking = Nothing]
    BY <1>0, <2>3 DEF Shares, CodeIsAsBooked
  <2> QED
    BY <1>5, <2>2, <2>3 DEF BookAnswered
<1>6. ASSUME Clear \/ Placed \/ CodeArrives \/ Reload \/ \E p \in Picks, shown \in Prices : Tap(p, shown)
      PROVE  share' = NoShare \/ share' = share
  BY <1>3, <1>6 DEF Clear, Placed, CodeArrives, Reload, Tap
<1>7. ASSUME \/ Read \/ AcceptChanges \/ Reauthorize \/ RefreshToken \/ RunOut \/ LoadCode
             \/ \E p \in Picks, o \in Offers : Move(p, o)
             \/ \E r \in reads : ReadArrives(r)
             \/ \E multiple \in BOOLEAN, parts \in SUBSET SUBSET SlipPicks : Place(multiple, parts)
             \/ \E part \in Unanswered : \E reply \in Verdicts(part) : Serve(part, reply)
             \/ \E w \in watches : Report(w)
             \/ \E u \in Users \cup {Nobody} : SessionOf(u)
             \/ UNCHANGED vars
      PROVE  share' = share
  BY <1>7 DEF Read, AcceptChanges, Reauthorize, RefreshToken, RunOut, LoadCode, Move, ReadArrives, Place, Serve,
              Report, SessionOf, vars
<1> QED
  BY <1>1, <1>2, <1>4, <1>5, <1>6, <1>7 DEF Next

-----------------------------------------------------------------------------
(* The invariant: every leg remembers what the player agreed to, nothing   *)
(* that was placed stays on the slip, and a code is kept with the picks it *)
(* was booked for.                                                         *)
THEOREM Invariance == Spec => []Inv
<1>1. Init => Inv
  <2> SUFFICES ASSUME Init
               PROVE  Inv
    OBVIOUS
  <2>1. [price |-> CHOOSE price \in Prices : TRUE, open |-> TRUE] \in Offers
    BY PriceType, BetslipAssumption DEF Offers
  <2>2. offer \in [Picks -> Offers]
    BY <2>1 DEF Init
  <2>3. share \in Shares /\ CodeIsAsBooked
    BY DEF Init, NoShare, Shares, CodeIsAsBooked
  <2>4. GoodLegs(legs)
    BY EmptySlip DEF Init
  <2> QED
    BY <2>2, <2>3, <2>4 DEF Inv, Typed, Init
<1>2. Inv /\ [Next]_vars => Inv'
  <2> SUFFICES ASSUME Inv, [Next]_vars
               PROVE  Inv'
    OBVIOUS
  <2>1. Typed /\ GoodLegs(legs) /\ CodeIsAsBooked
    BY DEF Inv
  <2>2. Typed'
    BY <2>1, OfferStep, ReadsStep, OrderStep, LoadStep, ShareStep DEF Typed
  <2> QED
    BY <2>1, <2>2, SlipStep, ShareStep DEF Inv
<1> QED
  BY <1>1, <1>2, PTL DEF Spec

(* A bet is made only by place(), from the slip as it is.                  *)
LEMMA OnlyPlaceSends ==
  ASSUME [Next]_vars, order = Nothing, order' # Nothing
  PROVE  \E multiple \in BOOLEAN, parts \in SUBSET SUBSET SlipPicks : Place(multiple, parts)
<1>1. ASSUME \/ Clear \/ Read \/ AcceptChanges \/ RefreshToken \/ LoadCode \/ CodeArrives \/ Book \/ BookAnswered \/ Reload
             \/ \E p \in Picks, o \in Offers : Move(p, o)
             \/ \E p \in Picks, shown \in Prices : Tap(p, shown)
             \/ \E r \in reads : ReadArrives(r)
             \/ \E w \in watches : Report(w)
             \/ \E u \in Users \cup {Nobody} : SessionOf(u)
             \/ UNCHANGED vars
      PROVE  order' = order \/ order' = Nothing
  BY <1>1 DEF Clear, Read, AcceptChanges, RefreshToken, LoadCode, CodeArrives, Book, BookAnswered, Reload, Move, Tap,
              ReadArrives, Report, SessionOf, vars
<1>2. ~ (Reauthorize \/ RunOut \/ Placed \/ \E part \in Unanswered : \E reply \in Verdicts(part) : Serve(part, reply))
  BY DEF Reauthorize, RunOut, Placed, Serve
<1> QED
  BY <1>1, <1>2 DEF Next

(* What is sent is at the prices the player last tapped or accepted: no    *)
(* read, and no answer to an earlier bet, slips another price in (place,   *)
(* applyPriceChange, refresh).                                             *)
THEOREM AgreedPricesAreSent == Spec => SentAsAgreed
<1>1. ASSUME Inv, [Next]_vars, order' # Nothing, order = Nothing
      PROVE  \A p \in DOMAIN order'.odds : order'.odds[p] = legs[p].agreed
  <2>1. PICK multiple \in BOOLEAN, parts \in SUBSET SUBSET SlipPicks : Place(multiple, parts)
    BY <1>1, OnlyPlaceSends
  <2>2. order'.odds = [p \in UNION parts |-> legs[p].odds]
    BY <2>1 DEF Place
  <2>3. ~ HasPriceChanges
    BY <2>1 DEF Place, Controls
  <2>4. \A p \in SlipPicks : legs[p].odds = legs[p].agreed
    BY <1>1, <2>3 DEF Inv, GoodLegs, SlipPicks, Seen, HasPriceChanges
  <2> QED
    BY <2>2, <2>4
<1> QED
  BY <1>1, Invariance, PTL DEF Spec, SentAsAgreed

(* A pick the player was told is placed is not sent again unless it is     *)
(* picked again, whatever became of the other singles sent with it (place).*)
THEOREM NothingIsSentTwice == Spec => PlacedOnce
<1>1. ASSUME Inv, [Next]_vars
      PROVE  order' # Nothing /\ order = Nothing => backed \cap DOMAIN order'.odds = {}
  BY <1>1 DEF Inv
<1> QED
  BY <1>1, Invariance, PTL DEF Spec, PlacedOnce

(* The code on screen is one for the picks on screen, also when the slip   *)
(* was changed while it was being booked (ShareSlip).                      *)
THEOREM CodesFitTheSlip == Spec => []CodeIsForTheSlip
<1>1. Inv => CodeIsForTheSlip
  BY DEF Inv, CodeIsAsBooked, CodeIsForTheSlip, CodeShown
<1> QED
  BY <1>1, Invariance, PTL

=============================================================================
