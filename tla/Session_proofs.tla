--------------------------- MODULE Session_proofs ---------------------------
(***************************************************************************)
(* That the session is kept, for any number of tabs: nobody is signed out, *)
(* or told that the session is over, because several tabs meet an expired  *)
(* token together.  The argument: as long as nobody has logged out and no  *)
(* new pair was lost, the pair in storage is good for a swap, or a tab is  *)
(* about to store the one it was swapped for, and that tab is waited for.  *)
(***************************************************************************)
EXTENDS Session, TLAPS

-----------------------------------------------------------------------------
(* The inductive invariant.                                                *)

UnderWay(t) == flight[t] # Nothing
Rotated(t) == UnderWay(t) /\ flight[t].is = "rotated"

Types ==
  /\ issued \in Nat /\ store \in 0 .. issued /\ live \subseteq 1 .. issued
  /\ excused \in BOOLEAN
  /\ access \in [Tabs -> 0 .. issued] /\ heard \in [Tabs -> Seq(0 .. issued)]
  /\ leaving \in [Tabs -> SUBSET (1 .. issued)]
  /\ flight \in [Tabs -> Refreshes \cup {Nothing}]
  /\ \A t \in Tabs : UnderWay(t) => flight[t].old \in 1 .. issued /\ flight[t].new \in 0 .. issued

\* A pair that was swapped for is known to nobody but the tab that is to store it, and
\* what was refused is not good any more.
Swaps ==
  /\ \A t \in Tabs : Rotated(t) =>
       /\ flight[t].new # None /\ flight[t].new # store
       /\ \A u \in Tabs : UnderWay(u) => flight[u].old # flight[t].new
       /\ \A u \in Tabs \ {t} : Rotated(u) => flight[u].new # flight[t].new
  /\ \A t \in Tabs : UnderWay(t) /\ flight[t].is = "rejected" => flight[t].old \notin live

\* What there is to go on with.
Alive ==
  /\ store = None \/ store \in live \/ \E u \in Tabs : Rotated(u) /\ flight[u].old = store
  /\ \A t \in Tabs : Rotated(t) => flight[t].new \in live
  /\ store = None => \A t \in Tabs : access[t] = None /\ heard[t] = <<>> /\ ~ UnderWay(t)
  /\ \A t \in Tabs : leaving[t] = {}

Inv == Types /\ Swaps /\ (excused \/ Alive) /\ SessionIsKept

-----------------------------------------------------------------------------
(* Types.                                                                  *)

(* What was issued stays issued when one more pair is.                     *)
LEMMA OneMore ==
  ASSUME Types, issued' = issued + 1
  PROVE  /\ issued' \in Nat /\ store \in 0 .. issued' /\ live \subseteq 1 .. issued' /\ issued' \in 1 .. issued'
         /\ access \in [Tabs -> 0 .. issued'] /\ heard \in [Tabs -> Seq(0 .. issued')]
         /\ leaving \in [Tabs -> SUBSET (1 .. issued')]
         /\ \A t \in Tabs : UnderWay(t) => flight[t].old \in 1 .. issued' /\ flight[t].new \in 0 .. issued'
<1>1. issued \in Nat /\ 0 .. issued \subseteq 0 .. issued' /\ 1 .. issued \subseteq 1 .. issued'
  BY DEF Types
<1>2. heard \in [Tabs -> Seq(0 .. issued')]
  <2>1. Seq(0 .. issued) \subseteq Seq(0 .. issued')
    BY <1>1
  <2> QED
    BY <2>1 DEF Types
<1> QED
  BY <1>1, <1>2 DEF Types

(* A tab's flight is a refresh, or none; a new one starts from a pair.     *)
LEMMA FlightTypes ==
  ASSUME Types
  PROVE  /\ \A t \in Tabs : UnderWay(t) => flight[t] \in Refreshes
         /\ \A p \in Nat, who \in SUBSET Waiters : Refreshing(p, who) \in Refreshes /\ Refreshing(p, who) # Nothing
         /\ \A f \in Refreshes : f # Nothing
  BY SessionAssumption DEF Types, UnderWay, Refreshing, Refreshes, None

(* A tab that asks for a refresh joins the one there is, or starts one.    *)
LEMMA AsksFor ==
  ASSUME Types, NEW t \in Tabs, NEW who \in Waiters, RefreshSession(t, who), Joins(t) \/ store # None
  PROVE  /\ flight' \in [Tabs -> Refreshes \cup {Nothing}]
         /\ \A u \in Tabs \ {t} : flight'[u] = flight[u]
         /\ flight'[t] # Nothing
         /\ flight'[t].new = IF UnderWay(t) THEN flight[t].new ELSE None
         /\ flight'[t].old = IF UnderWay(t) THEN flight[t].old ELSE store
         /\ flight'[t].is = IF UnderWay(t) THEN flight[t].is ELSE "sent"
<1>1. CASE UnderWay(t)
  <2>1. flight' = [flight EXCEPT ![t] = [flight[t] EXCEPT !.who = flight[t].who \cup {who}]]
    BY <1>1 DEF RefreshSession, Joins, UnderWay
  <2>2. flight[t] \in Refreshes
    BY <1>1, FlightTypes
  <2>3. [flight[t] EXCEPT !.who = flight[t].who \cup {who}] \in Refreshes
    BY <2>2 DEF Refreshes
  <2>4. flight'[t] = [flight[t] EXCEPT !.who = flight[t].who \cup {who}]
    BY <2>1 DEF Types
  <2> QED
    BY <1>1, <2>1, <2>2, <2>3, <2>4, FlightTypes DEF Types, Refreshes
<1>2. CASE ~ UnderWay(t)
  <2>1. flight' = [flight EXCEPT ![t] = Refreshing(store, {who})]
    BY <1>2 DEF RefreshSession, Joins, UnderWay
  <2>2. Refreshing(store, {who}) \in Refreshes /\ Refreshing(store, {who}) # Nothing
    BY FlightTypes DEF Types
  <2>3. flight'[t] = Refreshing(store, {who})
    BY <2>1 DEF Types
  <2> QED
    BY <1>2, <2>1, <2>2, <2>3 DEF Types, Refreshing
<1> QED
  BY <1>1, <1>2

(* The three ways the server deals with a refresh.                         *)
LEMMA Rotations ==
  ASSUME Types, NEW t \in Tabs, Rotate(t)
  PROVE  /\ UnderWay(t) /\ flight[t].is = "sent"
         /\ flight' \in [Tabs -> Refreshes \cup {Nothing}] /\ flight'[t] # Nothing
         /\ \A u \in Tabs \ {t} : flight'[u] = flight[u]
         /\ flight'[t].old = flight[t].old
         /\ \/ /\ issued' = issued + 1 /\ flight'[t].is = "rotated" /\ flight'[t].new = issued'
               /\ flight[t].old \in live /\ live' = (live \ {flight[t].old}) \cup {issued'}
            \/ /\ flight'[t].new = flight[t].new /\ UNCHANGED <<issued, live>>
               /\ \/ flight'[t].is = "rejected" /\ flight[t].old \notin live
                  \/ flight'[t].is = "failed"
<1>1. UnderWay(t) /\ flight[t].is = "sent" /\ flight[t] \in Refreshes
  BY FlightTypes DEF Rotate, UnderWay
<1>2. CASE /\ flight[t].old \in live
           /\ issued' = issued + 1
           /\ live' = (live \ {flight[t].old}) \cup {issued'}
           /\ flight' = [flight EXCEPT ![t].is = "rotated", ![t].new = issued']
  <2>1. flight'[t] = [flight[t] EXCEPT !.is = "rotated", !.new = issued']
    BY <1>2 DEF Types
  <2>2. flight'[t] \in Refreshes
    BY <1>1, <1>2, <2>1 DEF Refreshes, Types
  <2>3. flight'[t].old = flight[t].old /\ flight'[t].is = "rotated" /\ flight'[t].new = issued'
    BY <1>1, <2>1 DEF Refreshes
  <2>4. \A u \in Tabs \ {t} : flight'[u] = flight[u]
    BY <1>2 DEF Types
  <2>5. flight' \in [Tabs -> Refreshes \cup {Nothing}]
    BY <1>2, <2>2, <2>4 DEF Types
  <2> QED
    BY <1>1, <1>2, <2>2, <2>3, <2>4, <2>5, FlightTypes
<1>3. ASSUME NEW is \in {"rejected", "failed"}, Answered(t, is), UNCHANGED server,
             is = "rejected" => flight[t].old \notin live
      PROVE  /\ flight' \in [Tabs -> Refreshes \cup {Nothing}] /\ flight'[t] # Nothing
             /\ \A u \in Tabs \ {t} : flight'[u] = flight[u]
             /\ flight'[t].old = flight[t].old /\ flight'[t].new = flight[t].new /\ flight'[t].is = is
             /\ UNCHANGED <<issued, live>>
  <2>1. flight'[t] = [flight[t] EXCEPT !.is = is]
    BY <1>3 DEF Types, Answered
  <2>2. flight'[t] \in Refreshes
    BY <1>1, <1>3, <2>1 DEF Refreshes
  <2> QED
    BY <1>1, <1>3, <2>1, <2>2, FlightTypes DEF Refreshes, Types, Answered, server
<1> QED
  BY <1>1, <1>2, <1>3 DEF Rotate

(* A refresh that fails is otherwise as it was.                            *)
LEMMA Failures ==
  ASSUME Types, NEW t \in Tabs, Fail(t)
  PROVE  /\ UnderWay(t)
         /\ flight' \in [Tabs -> Refreshes \cup {Nothing}] /\ flight'[t] # Nothing
         /\ \A u \in Tabs \ {t} : flight'[u] = flight[u]
         /\ flight'[t].old = flight[t].old /\ flight'[t].new = flight[t].new /\ flight'[t].is = "failed"
<1>1. UnderWay(t) /\ flight[t] \in Refreshes /\ Answered(t, "failed")
  BY FlightTypes DEF Fail, UnderWay
<1>2. flight'[t] = [flight[t] EXCEPT !.is = "failed"]
  BY <1>1 DEF Types, Answered
<1>3. flight'[t] \in Refreshes
  BY <1>1, <1>2 DEF Refreshes
<1> QED
  BY <1>1, <1>2, <1>3, FlightTypes DEF Refreshes, Types, Answered

(* A tab that signs out forgets the pair in storage when the server has    *)
(* been told, and at once only what it had itself.                         *)
LEMMA SignsOut ==
  ASSUME Types, NEW t \in Tabs, SignOut(t)
  PROVE  store' = store /\ access' \in [Tabs -> 0 .. issued] /\ leaving' \in [Tabs -> SUBSET (1 .. issued)]
<1>1. None \in 0 .. issued /\ (store # None => store \in 1 .. issued)
  BY DEF Types, None
<1>2. CASE store = None
  <2>1. access' = [access EXCEPT ![t] = None] /\ UNCHANGED <<store, leaving>>
    BY <1>2 DEF SignOut, Hold
  <2> QED
    BY <1>1, <2>1 DEF Types
<1>3. CASE store # None
  <2>1. leaving' = [leaving EXCEPT ![t] = @ \cup {store}] /\ UNCHANGED <<store, access>>
    BY <1>3 DEF SignOut
  <2>2. leaving[t] \cup {store} \in SUBSET (1 .. issued)
    BY <1>1, <1>3 DEF Types
  <2> QED
    BY <2>1, <2>2 DEF Types
<1> QED
  BY <1>2, <1>3

\* Giving up keeps the pair that is stored, or forgets it.
LEMMA GivesUp ==
  ASSUME Types, NEW t \in Tabs, NEW who, NEW over \in BOOLEAN, NEW old \in 0 .. issued, GiveUp(t, who, over, old)
  PROVE  /\ store' \in {store, None}
         /\ access' \in [Tabs -> 0 .. issued] /\ leaving' \in [Tabs -> SUBSET (1 .. issued)]
         /\ ~ over => UNCHANGED <<store, leaving>> /\ \A u \in Tabs : access'[u] = access[u] \/ access'[u] = old
<1>1. None \in 0 .. issued /\ access[t] \in 0 .. issued
  BY DEF Types, None
<1>2. CASE over /\ "mount" \in who
  BY <1>1, <1>2 DEF GiveUp, Hold, Types
<1>3. CASE over /\ "mount" \notin who /\ "read" \in who
  BY <1>3, SignsOut DEF GiveUp
<1>4. CASE ~ over /\ "mount" \in who
  BY <1>4 DEF GiveUp, Hold, Types
<1>5. CASE "mount" \notin who /\ ~ (over /\ "read" \in who)
  BY <1>5 DEF GiveUp, Types
<1> QED
  BY <1>2, <1>3, <1>4, <1>5

(* What a tab adopts or stores was issued; the other tabs are told.        *)
LEMMA Stores ==
  ASSUME Types, NEW t \in Tabs, NEW n \in Nat, NEW p \in 0 .. n, Store(t, p),
         access \in [Tabs -> 0 .. n], heard \in [Tabs -> Seq(0 .. n)]
  PROVE  store' = p /\ access' \in [Tabs -> 0 .. n] /\ heard' \in [Tabs -> Seq(0 .. n)]
<1>1. \A u \in Tabs : heard[u] \in Seq(0 .. n) /\ Append(heard[u], p) \in Seq(0 .. n)
  OBVIOUS
<1> QED
  BY <1>1 DEF Store, Hold, Tell

\* What a queue that is not empty is made of.
LEMMA HeadAndTail ==
  ASSUME NEW S, NEW q \in Seq(S), q # <<>>
  PROVE  Head(q) \in S /\ Tail(q) \in Seq(S)
  OBVIOUS

\* Every step of the tabs, the storage and the server keeps the types.
LEMMA TypesStep ==
  ASSUME Types, [Next]_vars
  PROVE  Types'
<1>0. issued \in Nat /\ store \in 0 .. issued /\ None \in 0 .. issued /\ (store # None => store \in 1 .. issued)
  BY DEF Types, None
<1> DEFINE Flights ==
      /\ flight' \in [Tabs -> Refreshes \cup {Nothing}]
      /\ \A t \in Tabs : flight'[t] # Nothing => flight'[t].old \in 1 .. issued' /\ flight'[t].new \in 0 .. issued'
<1>1. ASSUME UNCHANGED <<flight, issued>>
      PROVE  Flights
  BY <1>1 DEF Types, UnderWay
<1>2. ASSUME NEW t \in Tabs, flight' = [flight EXCEPT ![t] = Nothing], UNCHANGED issued
      PROVE  Flights
  BY <1>2 DEF Types, UnderWay
<1>3. ASSUME NEW t \in Tabs, Hear(t)
      PROVE  Types'
  <2>1. heard[t] \in Seq(0 .. issued) /\ heard[t] # <<>>
    BY <1>3 DEF Hear, Types
  <2>2. Head(heard[t]) \in 0 .. issued /\ Tail(heard[t]) \in Seq(0 .. issued)
    BY <2>1, HeadAndTail
  <2>3. access' \in [Tabs -> 0 .. issued] /\ heard' \in [Tabs -> Seq(0 .. issued)]
    BY <1>3, <2>2 DEF Hear, Hold, Types
  <2> QED
    BY <1>1, <1>3, <2>3 DEF Hear, Types, server, history, UnderWay
<1>4. ASSUME NEW t \in Tabs, Login(t)
      PROVE  Types'
  <2>1. issued' = issued + 1 /\ Store(t, issued') /\ live' = live \cup {issued'}
        /\ UNCHANGED <<flight, leaving, excused>>
    BY <1>4 DEF Login, history
  <2>2. store' = issued' /\ access' \in [Tabs -> 0 .. issued'] /\ heard' \in [Tabs -> Seq(0 .. issued')]
    <3>1. /\ issued' \in Nat /\ issued' \in 0 .. issued'
          /\ access \in [Tabs -> 0 .. issued'] /\ heard \in [Tabs -> Seq(0 .. issued')]
      BY <1>0, <2>1, OneMore
    <3> QED
      BY <2>1, <3>1, Stores
  <2>3. /\ issued' \in Nat /\ store' \in 0 .. issued' /\ live' \subseteq 1 .. issued'
        /\ leaving' \in [Tabs -> SUBSET (1 .. issued')]
    BY <2>1, <2>2, OneMore
  <2>4. \A u \in Tabs : UnderWay(u) => flight[u].old \in 1 .. issued' /\ flight[u].new \in 0 .. issued'
    BY <2>1, OneMore
  <2>5. Flights
    BY <2>1, <2>4 DEF Types, UnderWay
  <2> QED
    BY <2>1, <2>2, <2>3, <2>5 DEF Types, UnderWay
<1>5. ASSUME NEW t \in Tabs, Logout(t)
      PROVE  Types'
  <2>1. SignOut(t) /\ excused' = TRUE /\ UNCHANGED <<issued, live, flight, heard>>
    BY <1>5 DEF Logout, server
  <2> QED
    BY <1>1, <2>1, SignsOut DEF Types, UnderWay
<1>6. ASSUME NEW t \in Tabs, NEW p \in leaving[t], LogoutEnds(t, p)
      PROVE  Types'
  <2>1. /\ leaving' = [leaving EXCEPT ![t] = @ \ {p}] /\ live' \subseteq live /\ store' = None
        /\ access' = [access EXCEPT ![t] = None] /\ UNCHANGED <<issued, flight, heard, excused>>
    BY <1>6 DEF LogoutEnds, Hold, history
  <2> QED
    BY <1>0, <1>1, <2>1 DEF Types, UnderWay
<1>7. ASSUME NEW t \in Tabs, Mount(t)
      PROVE  Types'
  <2> DEFINE asItIs == store = None \/ (app = "console" /\ ~ RanOut(store))
  <2>1. /\ heard' = [heard EXCEPT ![t] = <<>>] /\ leaving' = [leaving EXCEPT ![t] = {}] /\ live' \subseteq live
        /\ excused' \in BOOLEAN /\ UNCHANGED <<store, issued>>
        /\ access' = [access EXCEPT ![t] = IF asItIs THEN store ELSE None]
        /\ flight' = [flight EXCEPT ![t] = IF asItIs THEN Nothing ELSE Refreshing(store, {"mount"})]
    BY <1>7 DEF Mount, Hold, Types
  <2>2. access' \in [Tabs -> 0 .. issued]
    BY <1>0, <2>1 DEF Types
  <2>3. heard' \in [Tabs -> Seq(0 .. issued)] /\ leaving' \in [Tabs -> SUBSET (1 .. issued)]
    BY <2>1 DEF Types
  <2>4. Flights
    <3>1. CASE asItIs
      BY <1>2, <2>1, <3>1
    <3>2. CASE ~ asItIs
      <4>1. flight' = [flight EXCEPT ![t] = Refreshing(store, {"mount"})]
        BY <2>1, <3>2
      <4>2. {"mount"} \in SUBSET Waiters
        BY DEF Waiters
      <4>3. Refreshing(store, {"mount"}) \in Refreshes
        BY <1>0, <4>2, FlightTypes
      <4>4. Refreshing(store, {"mount"}).old \in 1 .. issued /\ Refreshing(store, {"mount"}).new \in 0 .. issued
        BY <1>0, <3>2 DEF Refreshing
      <4> QED
        BY <2>1, <4>1, <4>3, <4>4 DEF Types, UnderWay
    <3> QED
      BY <3>1, <3>2
  <2> QED
    BY <2>1, <2>2, <2>3, <2>4 DEF Types, UnderWay
<1>8. ASSUME NEW t \in Tabs, NEW who \in Waiters, RefreshSession(t, who), Joins(t) \/ store # None, UNCHANGED issued
      PROVE  Flights
  <2>1. /\ flight' \in [Tabs -> Refreshes \cup {Nothing}]
        /\ \A u \in Tabs \ {t} : flight'[u] = flight[u]
        /\ flight'[t].new = IF UnderWay(t) THEN flight[t].new ELSE None
        /\ flight'[t].old = IF UnderWay(t) THEN flight[t].old ELSE store
    BY <1>8, AsksFor
  <2>2. UnderWay(t) \/ store # None
    BY <1>8 DEF Joins, UnderWay
  <2>3. flight'[t].old \in 1 .. issued' /\ flight'[t].new \in 0 .. issued'
    BY <1>0, <1>8, <2>1, <2>2 DEF Types
  <2> QED
    BY <1>8, <2>1, <2>3 DEF Types, UnderWay
<1>9. ASSUME NEW t \in Tabs, Timer(t)
      PROVE  Types'
  <2>1. /\ RefreshSession(t, "other")
        /\ Joins(t) \/ store # None
        /\ UNCHANGED <<store, issued, live, access, leaving, heard, excused>>
    BY <1>9 DEF Timer, server, tabs, history
  <2>2. Flights
    <3>1. "other" \in Waiters /\ UNCHANGED issued
      BY <2>1 DEF Waiters
    <3> HIDE DEF Flights
    <3> QED
      BY <1>8, <2>1, <3>1
  <2> QED
    BY <2>1, <2>2 DEF Types, UnderWay
<1>10. ASSUME NEW t \in Tabs, Refused(t)
       PROVE  Types'
  <2>0. UNCHANGED <<issued, live, heard, excused>>
    BY <1>10 DEF Refused, server
  <2>1. CASE NoOneThere(t) /\ UNCHANGED flight
    BY <1>1, <2>0, <2>1, SignsOut DEF Types, UnderWay, NoOneThere
  <2>2. CASE store # None /\ RefreshSession(t, "read") /\ UNCHANGED <<store, access, leaving>>
    <3>1. Flights
      BY <1>8, <2>0, <2>2 DEF Waiters
    <3> QED
      BY <2>0, <2>2, <3>1 DEF Types, UnderWay
  <2> QED
    BY <1>10, <2>1, <2>2 DEF Refused
<1>11. ASSUME NEW t \in Tabs, Rotate(t)
       PROVE  Types'
  <2>1. UNCHANGED <<store, access, leaving, heard, excused>>
    BY <1>11 DEF Rotate, tabs, history
  <2>2. /\ UnderWay(t)
        /\ flight' \in [Tabs -> Refreshes \cup {Nothing}]
        /\ \A u \in Tabs \ {t} : flight'[u] = flight[u]
        /\ flight'[t].old = flight[t].old
        /\ \/ /\ issued' = issued + 1 /\ flight'[t].new = issued'
              /\ live' = (live \ {flight[t].old}) \cup {issued'}
           \/ /\ flight'[t].new = flight[t].new /\ UNCHANGED <<issued, live>>
    BY <1>11, Rotations
  <2>3. CASE UNCHANGED <<issued, live>> /\ flight'[t].new = flight[t].new
    BY <2>1, <2>2, <2>3 DEF Types, UnderWay
  <2>4. CASE /\ issued' = issued + 1 /\ flight'[t].new = issued'
             /\ live' = (live \ {flight[t].old}) \cup {issued'}
    <3>1. Flights
      <4>1. issued' \in 0 .. issued' /\ flight[t].old \in 1 .. issued'
        BY <2>2, <2>4, OneMore
      <4>2. \A u \in Tabs \ {t} : flight'[u] # Nothing => flight'[u].old \in 1 .. issued' /\ flight'[u].new \in 0 .. issued'
        BY <2>2, <2>4, OneMore DEF UnderWay
      <4> QED
        BY <2>2, <2>4, <4>1, <4>2
    <3> QED
      BY <2>1, <2>2, <2>4, <3>1, OneMore DEF Types, UnderWay
  <2> QED
    BY <2>2, <2>3, <2>4
<1>12. ASSUME NEW t \in Tabs, Fail(t)
       PROVE  Types'
  <2>1. UNCHANGED <<store, issued, live, access, leaving, heard>> /\ excused' \in BOOLEAN
    BY <1>12 DEF Fail, server, tabs, Types
  <2>2. Flights
    BY <1>12, <2>1, Failures DEF Types, UnderWay
  <2> QED
    BY <2>1, <2>2 DEF Types, UnderWay
<1>13. ASSUME NEW t \in Tabs, Take(t)
       PROVE  Types'
  <2>1. Store(t, flight[t].new) /\ UNCHANGED <<issued, live, leaving, excused>>
        /\ flight' = [flight EXCEPT ![t] = Nothing] /\ UnderWay(t)
    BY <1>13 DEF Take, Land, server, history, UnderWay
  <2>2. flight[t].new \in 0 .. issued
    BY <2>1 DEF Types
  <2>3. /\ store' = flight[t].new /\ access' \in [Tabs -> 0 .. issued] /\ heard' \in [Tabs -> Seq(0 .. issued)]
    BY <1>0, <2>1, <2>2, Stores DEF Types
  <2> QED
    BY <1>2, <2>1, <2>2, <2>3 DEF Types, UnderWay
<1>14. ASSUME NEW t \in Tabs, Check(t)
       PROVE  Types'
  <2>1. /\ UNCHANGED <<store, issued, live, leaving, heard, excused>>
        /\ flight' = [flight EXCEPT ![t] = Nothing]
        /\ OthersPair(t) # None
        /\ access' = [access EXCEPT ![t] = OthersPair(t)] \/ access' = access
    BY <1>14 DEF Check, Hold, Land, server, history
  <2>2. OthersPair(t) = store
    BY <2>1 DEF OthersPair
  <2>3. access' \in [Tabs -> 0 .. issued]
    BY <1>0, <2>1, <2>2 DEF Types
  <2> QED
    BY <1>2, <2>1, <2>3 DEF Types, UnderWay
<1>15. ASSUME NEW t \in Tabs, Throw(t)
       PROVE  Types'
  <2>1. /\ GiveUp(t, flight[t].who, flight[t].is = "rejected", flight[t].old)
        /\ flight' = [flight EXCEPT ![t] = Nothing] /\ UNCHANGED <<issued, live, heard, excused>> /\ UnderWay(t)
    BY <1>15 DEF Throw, Land, server, Failed, UnderWay
  <2>2. flight[t].old \in 0 .. issued /\ (flight[t].is = "rejected") \in BOOLEAN
    BY <2>1 DEF Types
  <2>3. store' \in {store, None} /\ access' \in [Tabs -> 0 .. issued] /\ leaving' \in [Tabs -> SUBSET (1 .. issued)]
    BY <2>1, <2>2, GivesUp
  <2> QED
    BY <1>0, <1>2, <2>1, <2>3 DEF Types, UnderWay
<1>16. ASSUME RunsOut \/ (\E p \in Pairs : Ages(p)) \/ UNCHANGED vars
       PROVE  Types'
  <2>1. UNCHANGED <<store, issued, access, flight, leaving, heard>> /\ live' \subseteq live /\ excused' \in BOOLEAN
    BY <1>16 DEF RunsOut, Ages, tabs, history, vars, Types
  <2> QED
    BY <1>1, <2>1 DEF Types, UnderWay
<1> QED
  BY <1>3, <1>4, <1>5, <1>6, <1>7, <1>9, <1>10, <1>11, <1>12, <1>13, <1>14, <1>15, <1>16 DEF Next, LogoutEndsSome

-----------------------------------------------------------------------------
(* What a step makes of a tab's refresh, and of the pair in storage.       *)

Keeps(u) ==
  /\ UnderWay(u) /\ flight'[u].old = flight[u].old /\ flight'[u].new = flight[u].new
  /\ \/ flight'[u].is \in {flight[u].is, "failed"}
     \/ flight'[u].is = "rejected" /\ flight[u].old \notin live
Starts(u) == flight'[u].is = "sent" /\ flight'[u].old = store
Swapped(u) ==
  /\ UnderWay(u) /\ flight'[u].old = flight[u].old
  /\ flight'[u].is = "rotated" /\ flight'[u].new = issued + 1

FlightsMay == \A u \in Tabs : ~ UnderWay(u)' \/ Keeps(u) \/ Starts(u)

StepMay ==
  /\ live' \subseteq live \cup {issued + 1}
  /\ \/ FlightsMay /\ store' \in {store, None, issued + 1}
     \/ \E t \in Tabs :
          /\ Swapped(t) /\ store' = store
          /\ \A u \in Tabs \ {t} : flight'[u] = flight[u]
     \/ \E t \in Tabs :
          /\ Rotated(t) /\ ~ UnderWay(t)' /\ store' = flight[t].new
          /\ \A u \in Tabs \ {t} : flight'[u] = flight[u]

\* What any step may do to the refresh a tab has under way.
LEMMA StepsMay ==
  ASSUME Types, [Next]_vars
  PROVE  StepMay
<1>1. ASSUME NEW u \in Tabs, flight'[u] = flight[u]
      PROVE  ~ UnderWay(u)' \/ Keeps(u) \/ Starts(u)
  BY <1>1 DEF UnderWay, Keeps
<1>2. ASSUME UNCHANGED flight
      PROVE  FlightsMay
  BY <1>1, <1>2 DEF FlightsMay
<1>3. ASSUME NEW t \in Tabs, flight' = [flight EXCEPT ![t] = Nothing]
      PROVE  FlightsMay /\ ~ UnderWay(t)' /\ \A u \in Tabs \ {t} : flight'[u] = flight[u]
  <2>1. ~ UnderWay(t)' /\ \A u \in Tabs \ {t} : flight'[u] = flight[u]
    BY <1>3 DEF Types, UnderWay
  <2> QED
    BY <1>1, <2>1 DEF FlightsMay
<1>4. ASSUME NEW t \in Tabs, NEW who \in Waiters, RefreshSession(t, who), Joins(t) \/ store # None
      PROVE  FlightsMay
  <2>1. Keeps(t) \/ Starts(t)
    BY <1>4, AsksFor DEF Keeps, Starts
  <2>2. \A u \in Tabs \ {t} : flight'[u] = flight[u]
    BY <1>4, AsksFor
  <2> QED
    BY <1>1, <2>1, <2>2 DEF FlightsMay
<1>5. ASSUME NEW t \in Tabs, Mount(t)
      PROVE  StepMay
  <2> DEFINE asItIs == store = None \/ (app = "console" /\ ~ RanOut(store))
  <2>1. /\ live' \subseteq live /\ store' = store
        /\ flight' = [flight EXCEPT ![t] = IF asItIs THEN Nothing ELSE Refreshing(store, {"mount"})]
    BY <1>5 DEF Mount
  <2>2. ~ UnderWay(t)' \/ Starts(t)
    BY <2>1 DEF Types, UnderWay, Starts, Refreshing
  <2>3. \A u \in Tabs \ {t} : flight'[u] = flight[u]
    BY <2>1 DEF Types
  <2>4. FlightsMay
    BY <1>1, <2>2, <2>3 DEF FlightsMay
  <2> QED
    BY <2>1, <2>4 DEF StepMay
<1>6. ASSUME NEW t \in Tabs, Timer(t) \/ Refused(t)
      PROVE  StepMay
  <2>1. "other" \in Waiters /\ "read" \in Waiters
    BY DEF Waiters
  <2>2. FlightsMay
    BY <1>2, <1>4, <1>6, <2>1 DEF Timer, Refused
  <2>3. live' = live /\ store' = store
    BY <1>6, SignsOut DEF Timer, Refused, NoOneThere, server
  <2> QED
    BY <2>2, <2>3 DEF StepMay
<1>7. ASSUME NEW t \in Tabs, Rotate(t)
      PROVE  StepMay
  <2>1. store' = store /\ \A u \in Tabs \ {t} : flight'[u] = flight[u]
    BY <1>7, Rotations DEF Rotate
  <2>2. CASE /\ issued' = issued + 1 /\ flight'[t].is = "rotated" /\ flight'[t].new = issued'
             /\ live' = (live \ {flight[t].old}) \cup {issued'}
    <3>1. Swapped(t)
      BY <1>7, <2>2, Rotations DEF Swapped
    <3> QED
      BY <2>1, <2>2, <3>1 DEF StepMay
  <2>3. CASE /\ flight'[t].new = flight[t].new /\ UNCHANGED <<issued, live>>
             /\ \/ flight'[t].is = "rejected" /\ flight[t].old \notin live
                \/ flight'[t].is = "failed"
    <3>1. Keeps(t)
      BY <1>7, <2>3, Rotations DEF Keeps
    <3>2. FlightsMay
      BY <1>1, <2>1, <3>1 DEF FlightsMay
    <3> QED
      BY <2>1, <2>3, <3>2 DEF StepMay
  <2> QED
    BY <1>7, <2>2, <2>3, Rotations
<1>8. ASSUME NEW t \in Tabs, Fail(t)
      PROVE  StepMay
  <2>1. Keeps(t) /\ \A u \in Tabs \ {t} : flight'[u] = flight[u]
    BY <1>8, Failures DEF Keeps
  <2>2. FlightsMay
    BY <1>1, <2>1 DEF FlightsMay
  <2>3. live' = live /\ store' = store
    BY <1>8 DEF Fail, server
  <2> QED
    BY <2>2, <2>3 DEF StepMay
<1>9. ASSUME NEW t \in Tabs, Take(t)
      PROVE  StepMay
  <2>1. Rotated(t) /\ store' = flight[t].new /\ live' = live /\ flight' = [flight EXCEPT ![t] = Nothing]
    BY <1>9 DEF Take, Store, Land, Rotated, UnderWay, server
  <2> QED
    BY <1>3, <2>1 DEF StepMay
<1>10. ASSUME NEW t \in Tabs, Check(t) \/ Throw(t)
       PROVE  StepMay
  <2>1. flight' = [flight EXCEPT ![t] = Nothing] /\ live' = live
    BY <1>10 DEF Check, Throw, Land, server
  <2>2. store' \in {store, None}
    <3>1. CASE Check(t)
      BY <3>1 DEF Check
    <3>2. CASE Throw(t)
      <4>1. UnderWay(t) /\ GiveUp(t, flight[t].who, flight[t].is = "rejected", flight[t].old)
        BY <3>2 DEF Throw, Failed, UnderWay
      <4>2. flight[t].old \in 0 .. issued /\ (flight[t].is = "rejected") \in BOOLEAN
        BY <4>1 DEF Types
      <4> QED
        BY <4>1, <4>2, GivesUp
    <3> QED
      BY <1>10, <3>1, <3>2
  <2> QED
    BY <1>3, <2>1, <2>2 DEF StepMay
<1>11. ASSUME NEW t \in Tabs, Hear(t) \/ Login(t) \/ Logout(t) \/ LogoutEndsSome(t)
       PROVE  StepMay
  <2>1. UNCHANGED flight
    BY <1>11 DEF Hear, Login, Logout, LogoutEndsSome, LogoutEnds
  <2>2. store' \in {store, None, issued + 1}
    BY <1>11, SignsOut DEF Hear, Login, Store, Logout, LogoutEndsSome, LogoutEnds
  <2>3. live' \subseteq live \cup {issued + 1}
    BY <1>11 DEF Hear, Login, Logout, LogoutEndsSome, LogoutEnds, server
  <2> QED
    BY <1>2, <2>1, <2>2, <2>3 DEF StepMay
<1>12. ASSUME RunsOut \/ (\E p \in Pairs : Ages(p)) \/ UNCHANGED vars
       PROVE  StepMay
  <2>1. UNCHANGED <<store, flight>> /\ live' \subseteq live
    BY <1>12 DEF RunsOut, Ages, tabs, vars
  <2> QED
    BY <1>2, <2>1 DEF StepMay
<1> QED
  BY <1>5, <1>6, <1>7, <1>8, <1>9, <1>10, <1>11, <1>12 DEF Next

(* New pairs have new numbers, so that they stay apart from all others.    *)
LEMMA SwapsStep ==
  ASSUME Types, Swaps, [Next]_vars
  PROVE  Swaps'
<1>0. StepMay /\ issued \in Nat /\ store \in 0 .. issued
  BY StepsMay DEF Types
<1>1. \A t \in Tabs : UnderWay(t) => flight[t].old \in 1 .. issued /\ flight[t].new \in 0 .. issued
  BY DEF Types
<1>2. ASSUME NEW t \in Tabs, UnderWay(t)', flight'[t].is = "rejected"
      PROVE  flight'[t].old \notin live'
  <2>1. UnderWay(t) /\ flight'[t].old = flight[t].old /\ flight[t].old \notin live
    BY <1>0, <1>2 DEF StepMay, FlightsMay, Keeps, Starts, Swapped, Swaps, UnderWay
  <2> QED
    BY <1>0, <1>1, <2>1 DEF StepMay
<1>3. ASSUME FlightsMay, store' \in {store, None, issued + 1}, NEW t \in Tabs, Rotated(t)'
      PROVE  /\ flight'[t].new # None /\ flight'[t].new # store'
             /\ \A u \in Tabs : UnderWay(u)' => flight'[u].old # flight'[t].new
             /\ \A u \in Tabs \ {t} : Rotated(u)' => flight'[u].new # flight'[t].new
  <2>1. \A u \in Tabs : Rotated(u)' => Rotated(u) /\ flight'[u].new = flight[u].new
    BY <1>3 DEF FlightsMay, Keeps, Starts, Rotated
  <2>2. \A u \in Tabs : UnderWay(u)' => flight'[u].old = store \/ (UnderWay(u) /\ flight'[u].old = flight[u].old)
    BY <1>3 DEF FlightsMay, Keeps, Starts
  <2>3. flight'[t].new # None /\ flight'[t].new # store'
    BY <1>0, <1>1, <1>3, <2>1 DEF Swaps, Rotated
  <2> QED
    BY <1>3, <2>1, <2>2, <2>3 DEF Swaps
<1>4. ASSUME NEW s \in Tabs, Swapped(s), store' = store, \A u \in Tabs \ {s} : flight'[u] = flight[u],
             NEW t \in Tabs, Rotated(t)'
      PROVE  /\ flight'[t].new # None /\ flight'[t].new # store'
             /\ \A u \in Tabs : UnderWay(u)' => flight'[u].old # flight'[t].new
             /\ \A u \in Tabs \ {t} : Rotated(u)' => flight'[u].new # flight'[t].new
  <2>1. \A u \in Tabs : UnderWay(u)' => UnderWay(u) /\ flight'[u].old = flight[u].old
    BY <1>4 DEF Swapped, UnderWay
  <2>2. \A u \in Tabs \ {s} : Rotated(u)' => Rotated(u) /\ flight'[u].new = flight[u].new
    BY <1>4 DEF Rotated, UnderWay
  <2>3. \A u \in Tabs : UnderWay(u)' => flight'[u].old \in 1 .. issued
    BY <1>1, <2>1
  <2>4. \A u \in Tabs \ {s} : Rotated(u)' => flight'[u].new \in 0 .. issued
    BY <1>1, <2>2 DEF Rotated
  <2>5. flight'[s].new = issued + 1
    BY <1>4 DEF Swapped
  <2>6. CASE t = s
    BY <1>0, <1>4, <2>3, <2>4, <2>5, <2>6 DEF None
  <2>7. CASE t # s
    <3>1. Rotated(t) /\ flight'[t].new = flight[t].new /\ flight'[t].new \in 0 .. issued
      BY <1>4, <2>2, <2>4, <2>7
    <3>2. \A u \in Tabs \ {t} : Rotated(u)' => flight'[u].new # flight'[t].new
      BY <1>0, <2>2, <2>5, <3>1 DEF Swaps
    <3> QED
      BY <1>4, <2>1, <3>1, <3>2 DEF Swaps
  <2> QED
    BY <2>6, <2>7
<1>5. ASSUME NEW s \in Tabs, Rotated(s), ~ UnderWay(s)', store' = flight[s].new,
             \A u \in Tabs \ {s} : flight'[u] = flight[u],
             NEW t \in Tabs, Rotated(t)'
      PROVE  /\ flight'[t].new # None /\ flight'[t].new # store'
             /\ \A u \in Tabs : UnderWay(u)' => flight'[u].old # flight'[t].new
             /\ \A u \in Tabs \ {t} : Rotated(u)' => flight'[u].new # flight'[t].new
  <2>1. \A u \in Tabs : UnderWay(u)' => u # s /\ UnderWay(u) /\ flight'[u] = flight[u]
    BY <1>5 DEF UnderWay
  <2>2. \A u \in Tabs : Rotated(u)' => u # s /\ Rotated(u) /\ flight'[u] = flight[u]
    BY <2>1 DEF Rotated
  <2> QED
    BY <1>5, <2>1, <2>2 DEF Swaps
<1>6. ASSUME NEW t \in Tabs, Rotated(t)'
      PROVE  /\ flight'[t].new # None /\ flight'[t].new # store'
             /\ \A u \in Tabs : UnderWay(u)' => flight'[u].old # flight'[t].new
             /\ \A u \in Tabs \ {t} : Rotated(u)' => flight'[u].new # flight'[t].new
  BY <1>0, <1>3, <1>4, <1>5, <1>6 DEF StepMay
<1> QED
  BY <1>2, <1>6 DEF Swaps

-----------------------------------------------------------------------------
(* The session is kept.                                                    *)

(* A tab that waits long enough does not conclude that the session is over *)
(* while there is something to go on with: the pair that it was refused    *)
(* with was swapped, and the tab that stores the new one is waited for.    *)
LEMMA NotOver ==
  ASSUME Types, Swaps, Alive, NEW t \in Tabs, Throw(t)
  PROVE  UnderWay(t) /\ store # None /\ flight[t].is = "failed"
<1>1. UnderWay(t) /\ flight[t].is \in {"rejected", "failed"} /\ OthersPair(t) = None
  BY DEF Throw, Failed, UnderWay
<1>2. store # None
  BY <1>1 DEF Alive
<1>3. store = flight[t].old
  BY <1>1, <1>2 DEF OthersPair
<1>4. ASSUME flight[t].is = "rejected"
      PROVE  FALSE
  <2>1. store \notin live
    BY <1>1, <1>3, <1>4 DEF Swaps
  <2>2. PICK u \in Tabs : Rotated(u) /\ flight[u].old = store
    BY <1>2, <2>1 DEF Alive
  <2>3. u # t
    BY <1>4, <2>2 DEF Rotated
  <2>4. \A v \in Tabs \ {t} : ~ (flight[v] # Nothing /\ flight[v].is = "rotated")
    BY DEF Throw, WaitsAreLongEnough
  <2> QED
    BY <2>2, <2>3, <2>4 DEF Rotated, UnderWay
<1> QED
  BY <1>1, <1>2, <1>4

\* No step ends a session that nothing has ended.
LEMMA KeptStep ==
  ASSUME Types, Swaps, excused \/ Alive, SessionIsKept, [Next]_vars
  PROVE  SessionIsKept'
<1> USE DEF SessionIsKept
<1>1. ASSUME NEW t \in Tabs, Refused(t)
      PROVE  ~ ended'
  <2>1. CASE store # None
    BY <1>1, <2>1 DEF Refused
  <2>2. CASE store = None
    <3>1. excused
      BY <1>1, <2>2 DEF Refused, Alive
    <3> QED
      BY <1>1, <3>1 DEF Refused, Ends
  <2> QED
    BY <2>1, <2>2
<1>2. ASSUME NEW t \in Tabs, Throw(t)
      PROVE  ~ ended'
  <2>1. Ends(flight[t].is = "rejected" /\ flight[t].who # {"other"})
    BY <1>2 DEF Throw, GiveUp
  <2>2. excused \/ flight[t].is # "rejected"
    BY <1>2, NotOver
  <2> QED
    BY <2>1, <2>2 DEF Ends
<1>3. ASSUME NEW t \in Tabs,
             \/ Mount(t) \/ Login(t) \/ Logout(t) \/ LogoutEndsSome(t) \/ Hear(t) \/ Timer(t)
             \/ Rotate(t) \/ Fail(t) \/ Take(t) \/ Check(t)
      PROVE  UNCHANGED ended
  BY <1>3 DEF Mount, Login, Logout, LogoutEndsSome, LogoutEnds, Hear, Timer, Rotate, Fail, Take, Check, history
<1>4. ASSUME RunsOut \/ (\E p \in Pairs : Ages(p)) \/ UNCHANGED vars
      PROVE  UNCHANGED ended
  BY <1>4 DEF RunsOut, Ages, history, vars
<1> QED
  BY <1>1, <1>2, <1>3, <1>4 DEF Next

(* What a step excuses stays excused; any other leaves something to go on  *)
(* with.                                                                   *)
LEMMA AliveStep ==
  ASSUME Types, Swaps, Alive, ~ excused, ~ excused', [Next]_vars
  PROVE  Alive'
<1>0. \A t \in Tabs : leaving[t] = {}
  BY DEF Alive
<1>1. ASSUME store' = store, store # None, live' = live, leaving' = leaving,
             \A u \in Tabs : Rotated(u)' => Rotated(u) /\ flight'[u].new = flight[u].new,
             \A u \in Tabs : Rotated(u) => Rotated(u)' /\ flight'[u].old = flight[u].old
      PROVE  Alive'
  BY <1>1 DEF Alive
<1>2. ASSUME NEW t \in Tabs, ~ Rotated(t), ~ Rotated(t)', \A u \in Tabs \ {t} : flight'[u] = flight[u]
      PROVE  /\ \A u \in Tabs : Rotated(u)' => Rotated(u) /\ flight'[u].new = flight[u].new
             /\ \A u \in Tabs : Rotated(u) => Rotated(u)' /\ flight'[u].old = flight[u].old
  BY <1>2 DEF Rotated, UnderWay
<1>3. ASSUME NEW t \in Tabs, flight' = [flight EXCEPT ![t] = Nothing]
      PROVE  ~ Rotated(t)' /\ \A u \in Tabs \ {t} : flight'[u] = flight[u]
  BY <1>3 DEF Types, Rotated, UnderWay
<1>4. ASSUME NEW t \in Tabs, Hear(t)
      PROVE  Alive'
  <2>1. store # None
    BY <1>4 DEF Hear, Alive
  <2>2. UNCHANGED <<store, live, flight, leaving>>
    BY <1>4 DEF Hear, server
  <2> QED
    BY <1>1, <2>1, <2>2 DEF Rotated, UnderWay
<1>5. ASSUME NEW t \in Tabs, Login(t)
      PROVE  Alive'
  <2>1. store' = issued + 1 /\ live' = live \cup {issued + 1} /\ UNCHANGED <<flight, leaving>>
    BY <1>5 DEF Login, Store
  <2>2. store' # None
    BY <2>1 DEF Types, None
  <2> QED
    BY <2>1, <2>2 DEF Alive, Rotated, UnderWay
<1>6. ASSUME NEW t \in Tabs, Logout(t) \/ LogoutEndsSome(t)
      PROVE  FALSE
  BY <1>0, <1>6 DEF Logout, LogoutEndsSome
<1>7. ASSUME NEW t \in Tabs, Mount(t)
      PROVE  Alive'
  <2> DEFINE asItIs == store = None \/ (app = "console" /\ ~ RanOut(store))
             dropped == IF flight[t] # Nothing /\ flight[t].is \in {"sent", "rotated"} THEN {flight[t].old} ELSE {}
  <2>1. /\ heard' = [heard EXCEPT ![t] = <<>>] /\ leaving' = [leaving EXCEPT ![t] = {}]
        /\ live' \in {live, live \ (leaving[t] \cup dropped)} /\ store' = store
        /\ access' = [access EXCEPT ![t] = IF asItIs THEN store ELSE None]
        /\ flight' = [flight EXCEPT ![t] = IF asItIs THEN Nothing ELSE Refreshing(store, {"mount"})]
    BY <1>7 DEF Mount, Hold
  <2>2. dropped = {}
    BY <1>7 DEF Mount
  <2>3. live' = live /\ leaving' = leaving
    BY <1>0, <2>1, <2>2 DEF Types
  <2>4. ~ Rotated(t)
    BY <2>2 DEF Rotated, UnderWay
  <2>5. ~ Rotated(t)' /\ \A u \in Tabs \ {t} : flight'[u] = flight[u]
    <3>1. \A u \in Tabs \ {t} : flight'[u] = flight[u]
      BY <2>1 DEF Types
    <3>2. CASE asItIs
      BY <1>3, <2>1, <3>1, <3>2
    <3>3. CASE ~ asItIs
      <4>1. flight'[t].is = "sent"
        BY <2>1, <3>3 DEF Types, Refreshing
      <4> QED
        BY <3>1, <4>1 DEF Rotated
    <3> QED
      BY <3>2, <3>3
  <2>6. CASE store # None
    BY <1>1, <1>2, <2>1, <2>3, <2>4, <2>5, <2>6
  <2>7. CASE store = None
    <3>1. \A u \in Tabs : ~ UnderWay(u) /\ access[u] = None /\ heard[u] = <<>>
      BY <2>7 DEF Alive
    <3>2. flight' = [flight EXCEPT ![t] = Nothing] /\ access' = [access EXCEPT ![t] = None]
      BY <2>1, <2>7
    <3>3. \A u \in Tabs : ~ UnderWay(u)' /\ access'[u] = None /\ heard'[u] = <<>>
      BY <2>1, <3>1, <3>2 DEF Types, UnderWay
    <3>4. \A u \in Tabs : ~ Rotated(u)'
      BY <3>3 DEF Rotated
    <3> QED
      BY <1>0, <2>1, <2>3, <2>7, <3>3, <3>4 DEF Alive
  <2> QED
    BY <2>6, <2>7
<1>8. ASSUME NEW t \in Tabs, Timer(t) \/ Refused(t)
      PROVE  Alive'
  <2>1. store # None
    BY <1>8 DEF Timer, Refused, Alive
  <2>2. /\ UNCHANGED <<store, live, leaving>>
        /\ RefreshSession(t, "other") \/ RefreshSession(t, "read")
    BY <1>8, <2>1 DEF Timer, Refused, server
  <2>3. "other" \in Waiters /\ "read" \in Waiters
    BY DEF Waiters
  <2>4. /\ \A u \in Tabs \ {t} : flight'[u] = flight[u]
        /\ flight'[t] # Nothing
        /\ flight'[t].new = IF UnderWay(t) THEN flight[t].new ELSE None
        /\ flight'[t].old = IF UnderWay(t) THEN flight[t].old ELSE store
        /\ flight'[t].is = IF UnderWay(t) THEN flight[t].is ELSE "sent"
    BY <2>1, <2>2, <2>3, AsksFor
  <2>5. \A u \in Tabs : Rotated(u)' => Rotated(u) /\ flight'[u].new = flight[u].new
    BY <2>4 DEF Rotated, UnderWay
  <2>6. \A u \in Tabs : Rotated(u) => Rotated(u)' /\ flight'[u].old = flight[u].old
    BY <2>4 DEF Rotated, UnderWay
  <2> QED
    BY <1>1, <2>1, <2>2, <2>5, <2>6
<1>9. ASSUME NEW t \in Tabs, Rotate(t)
      PROVE  Alive'
  <2>0. UNCHANGED <<store, leaving>> /\ UnderWay(t) /\ flight[t].is = "sent" /\ flight'[t] # Nothing
        /\ flight'[t].old = flight[t].old /\ \A u \in Tabs \ {t} : flight'[u] = flight[u]
    BY <1>9, Rotations DEF Rotate
  <2>1. store # None
    BY <2>0 DEF Alive
  <2>2. ~ Rotated(t)
    BY <2>0 DEF Rotated
  <2>3. CASE /\ issued' = issued + 1 /\ flight'[t].is = "rotated" /\ flight'[t].new = issued'
             /\ live' = (live \ {flight[t].old}) \cup {issued'}
    <3>1. Rotated(t)' /\ flight'[t].new \in live'
      BY <2>0, <2>3 DEF Rotated, UnderWay
    <3>2. ASSUME NEW u \in Tabs \ {t}, Rotated(u)'
          PROVE  flight'[u].new \in live'
      <4>1. Rotated(u) /\ flight'[u].new = flight[u].new
        BY <2>0, <3>2 DEF Rotated, UnderWay
      <4>2. flight[u].new \in live /\ flight[u].new # flight[t].old
        BY <2>0, <4>1 DEF Alive, Swaps
      <4> QED
        BY <2>3, <4>1, <4>2
    <3>3. store' \in live' \/ \E u \in Tabs : Rotated(u)' /\ flight'[u].old = store'
      <4>1. CASE store = flight[t].old
        BY <2>0, <3>1, <4>1
      <4>2. CASE store # flight[t].old /\ store \in live
        BY <2>0, <2>3, <4>2
      <4>3. ASSUME NEW u \in Tabs, Rotated(u), flight[u].old = store
            PROVE  Rotated(u)' /\ flight'[u].old = store'
        BY <2>0, <2>2, <4>3 DEF Rotated, UnderWay
      <4> QED
        BY <2>1, <4>1, <4>2, <4>3 DEF Alive
    <3>4. \A u \in Tabs : Rotated(u)' => flight'[u].new \in live'
      BY <3>1, <3>2
    <3> QED
      BY <1>0, <2>0, <2>1, <3>3, <3>4 DEF Alive
  <2>4. CASE UNCHANGED <<issued, live>> /\ flight'[t].is \in {"rejected", "failed"}
    <3>1. ~ Rotated(t)'
      BY <2>4 DEF Rotated
    <3> QED
      BY <1>1, <1>2, <2>0, <2>1, <2>2, <2>4, <3>1
  <2> QED
    BY <1>9, <2>3, <2>4, Rotations
<1>10. ASSUME NEW t \in Tabs, Fail(t)
       PROVE  Alive'
  <2>1. UNCHANGED <<store, live, leaving>> /\ flight[t].is # "rotated"
    BY <1>10 DEF Fail, server
  <2>2. UnderWay(t) /\ flight'[t].is = "failed" /\ \A u \in Tabs \ {t} : flight'[u] = flight[u]
    BY <1>10, Failures
  <2>3. store # None /\ ~ Rotated(t) /\ ~ Rotated(t)'
    BY <2>1, <2>2 DEF Alive, Rotated
  <2> QED
    BY <1>1, <1>2, <2>1, <2>2, <2>3
<1>11. ASSUME NEW t \in Tabs, Take(t)
       PROVE  Alive'
  <2>1. /\ Rotated(t) /\ store' = flight[t].new /\ UNCHANGED <<live, leaving>>
        /\ flight' = [flight EXCEPT ![t] = Nothing]
    BY <1>11 DEF Take, Store, Land, Rotated, UnderWay, server
  <2>2. store' \in live' /\ store' # None
    BY <2>1 DEF Alive, Swaps
  <2>3. \A u \in Tabs : Rotated(u)' => Rotated(u) /\ flight'[u] = flight[u]
    BY <1>3, <2>1 DEF Rotated, UnderWay
  <2> QED
    BY <2>1, <2>2, <2>3 DEF Alive
<1>12. ASSUME NEW t \in Tabs, Check(t)
       PROVE  Alive'
  <2>1. /\ UnderWay(t) /\ ~ Rotated(t) /\ UNCHANGED <<store, live, leaving>>
        /\ flight' = [flight EXCEPT ![t] = Nothing]
    BY <1>12 DEF Check, Failed, Land, Rotated, UnderWay, server
  <2>2. store # None
    BY <2>1 DEF Alive
  <2> QED
    BY <1>1, <1>2, <1>3, <2>1, <2>2
<1>13. ASSUME NEW t \in Tabs, Throw(t)
       PROVE  Alive'
  <2>1. UnderWay(t) /\ store # None /\ flight[t].is = "failed"
    BY <1>13, NotOver
  <2>2. /\ GiveUp(t, flight[t].who, flight[t].is = "rejected", flight[t].old)
        /\ flight' = [flight EXCEPT ![t] = Nothing] /\ live' = live
    BY <1>13 DEF Throw, Land, server
  <2>3. UNCHANGED <<store, leaving>>
    BY <2>1, <2>2 DEF GiveUp
  <2>4. ~ Rotated(t)
    BY <2>1 DEF Rotated
  <2> QED
    BY <1>1, <1>2, <1>3, <2>1, <2>2, <2>3, <2>4
<1>14. ASSUME RunsOut \/ UNCHANGED vars
       PROVE  Alive'
  <2>1. UNCHANGED <<store, live, access, heard, flight, leaving>>
    BY <1>14 DEF RunsOut, tabs, vars
  <2> QED
    BY <2>1 DEF Alive, Rotated, UnderWay
<1>15. ASSUME NEW p \in Pairs, Ages(p)
       PROVE  FALSE
  BY <1>15 DEF Ages
<1> QED
  BY <1>4, <1>5, <1>6, <1>7, <1>8, <1>9, <1>10, <1>11, <1>12, <1>13, <1>14, <1>15 DEF Next

\* What excused the end of a session is not forgotten.
LEMMA ExcusedStays ==
  ASSUME Types, [Next]_vars, excused
  PROVE  excused'
<1>1. ASSUME NEW t \in Tabs,
             \/ Mount(t) \/ Login(t) \/ Logout(t) \/ LogoutEndsSome(t) \/ Hear(t) \/ Timer(t) \/ Refused(t)
             \/ Rotate(t) \/ Fail(t) \/ Take(t) \/ Check(t) \/ Throw(t)
      PROVE  excused'
  BY <1>1 DEF Mount, Login, Logout, LogoutEndsSome, LogoutEnds, Hear, Timer, Refused, Rotate, Fail, Take, Check,
              Throw, history
<1>2. ASSUME RunsOut \/ (\E p \in Pairs : Ages(p)) \/ UNCHANGED vars
      PROVE  excused'
  BY <1>2 DEF RunsOut, Ages, history, vars
<1> QED
  BY <1>1, <1>2 DEF Next

(* The invariant: pairs have numbers of their own, and unless somebody has *)
(* logged out, a new pair was lost or the refresh token aged, there is     *)
(* something for every tab to go on with.                                  *)
THEOREM Invariance == Spec => []Inv
<1>1. Init => Inv
  <2> SUFFICES ASSUME Init
               PROVE  Inv
    OBVIOUS
  <2>1. /\ issued \in Nat /\ store \in 0 .. issued /\ live = {store} \ {None} /\ excused = FALSE /\ ended = FALSE
        /\ store = None \/ store = 1
        /\ issued = store
    BY DEF Init, None
  <2>2. \A t \in Tabs : ~ UnderWay(t) /\ access[t] = store /\ heard[t] = <<>> /\ leaving[t] = {}
    BY DEF Init, UnderWay
  <2>3. access \in [Tabs -> 0 .. issued] /\ leaving \in [Tabs -> SUBSET (1 .. issued)]
    BY <2>1 DEF Init
  <2>4. heard \in [Tabs -> Seq(0 .. issued)] /\ flight \in [Tabs -> Refreshes \cup {Nothing}]
    BY DEF Init
  <2>5. Types
    <3>1. live \subseteq 1 .. issued
      <4>1. CASE store = 0
        BY <2>1, <4>1 DEF None
      <4>2. CASE store = 1
        BY <2>1, <4>2 DEF None
      <4> QED
        BY <2>1, <4>1, <4>2 DEF None
    <3> QED
      BY <2>1, <2>2, <2>3, <2>4, <3>1 DEF Types
  <2>6. Swaps /\ Alive
    <3>1. \A t \in Tabs : ~ Rotated(t)
      BY <2>2 DEF Rotated
    <3>2. store = None \/ store \in live
      BY <2>1
    <3> QED
      BY <2>2, <3>1, <3>2 DEF Swaps, Alive
  <2> QED
    BY <2>1, <2>5, <2>6 DEF Inv, SessionIsKept
<1>2. Inv /\ [Next]_vars => Inv'
  <2> SUFFICES ASSUME Inv, [Next]_vars
               PROVE  Inv'
    OBVIOUS
  <2>1. Types' /\ Swaps' /\ SessionIsKept'
    BY TypesStep, SwapsStep, KeptStep DEF Inv
  <2>2. excused' \/ Alive'
    BY AliveStep, ExcusedStays DEF Inv
  <2> QED
    BY <2>1, <2>2 DEF Inv
<1> QED
  BY <1>1, <1>2, PTL DEF Spec

(* Nobody is signed out, or told that the session is over, because several *)
(* requests or several tabs met an expired token together, or because of   *)
(* an outage (refreshSession): for any number of tabs, pairs and failures. *)
THEOREM TheSessionIsKept == Spec => []SessionIsKept
<1>1. Inv => SessionIsKept
  BY DEF Inv
<1> QED
  BY <1>1, Invariance, PTL

=============================================================================
