------------------------------ MODULE Session -------------------------------
(***************************************************************************)
(* Who is signed in: lib/auth.ts and lib/auth-context.tsx of the site and  *)
(* of the console, in several tabs of one browser.                         *)
(*                                                                         *)
(* The tabs share a pair of tokens in localStorage.  The access token runs *)
(* out after minutes; the refresh token is swapped for a new pair once,    *)
(* and refused ever after.  A tab has one refresh under way at a time, for *)
(* all that wait for it; when it fails the tab looks whether another one   *)
(* has stored a new pair meanwhile.                                        *)
(*                                                                         *)
(* A pair is known by its number.  Left out: whose it is (one player signs *)
(* in), the staff's landing page /impersonate, registration.               *)
(***************************************************************************)
EXTENDS Naturals, Sequences, FiniteSets

CONSTANTS
  Tabs,
  Readers,    \* the tabs that stay on a page which reads its data again on a timer
  Nothing,
  MaxPairs,   \* bound: pairs issued; after them the server answers with its rate limit
  MaxEvents   \* bound: reloads, logouts, failures and answers lost, taken together

\* Who waits for a refresh: the page load, a read of data, or the timer and the posts,
\* which leave things as they are when it fails.
Waiters == {"mount", "read", "other"}

\* A refresh: the pair it gives up, how far it has come, the new pair, and who waits for it.
Refreshes == [old : Nat, is : {"sent", "rotated", "rejected", "failed"}, new : Nat, who : SUBSET Waiters]

ASSUME SessionAssumption ==
  /\ Readers \subseteq Tabs
  /\ MaxPairs \in Nat /\ MaxEvents \in Nat
  /\ Nothing \notin Refreshes

None == 0     \* no pair
Pairs == 1 .. MaxPairs

VARIABLES
  app,        \* "site" or "console": they differ in how a page load restores the session
  store,      \* localStorage, of all tabs
  issued,     \* external: pairs the server has issued
  live,       \* external: pairs whose refresh token is good for a swap
  stale,      \* external: access tokens run out in the order they were issued; up to this one
  access,     \* accessToken
  loading,    \* isLoading
  flight,     \* inflight: the refresh under way, and who waits for it
  leaving,    \* the logouts under way: the pairs they revoke
  heard,      \* storage events on their way to the tab
  excused,    \* history: somebody logged out, a new pair was lost on its way, the refresh
              \* token aged
  ended,      \* history: before any of that a tab concluded that the session is over
  events      \* bound

vars == <<app, store, issued, live, stale, access, loading, flight, leaving, heard, excused,
          ended, events>>
server == <<issued, live, stale>>
tabs == <<access, loading>>
history == <<excused, ended>>

\* Every tab is signed in, or none is.
Init ==
  /\ app \in {"site", "console"}
  /\ store \in {None, 1}
  /\ issued = store
  /\ live = {store} \ {None}
  /\ stale \in 0 .. issued
  /\ access = [t \in Tabs |-> store]
  /\ loading = [t \in Tabs |-> FALSE]
  /\ flight = [t \in Tabs |-> Nothing]
  /\ leaving = [t \in Tabs |-> {}]
  /\ heard = [t \in Tabs |-> <<>>]
  /\ excused = FALSE /\ ended = FALSE
  /\ events = 0

RanOut(p) == p <= stale
Ends(cause) == ended' = (ended \/ (cause /\ ~ excused))

Happens == events < MaxEvents /\ events' = events + 1

-----------------------------------------------------------------------------
\* What a tab holds.

Hold(t, p) == access' = [access EXCEPT ![t] = p]

\* localStorage.setItem tells the other tabs.
Tell(t, p) == [u \in Tabs |-> IF u = t THEN heard[u] ELSE Append(heard[u], p)]

\* storeTokens; this tab hears of it at once.
Store(t, p) ==
  /\ store' = p
  /\ heard' = Tell(t, p)
  /\ Hold(t, p)

\* A storage event: adopt, whatever the tab has or the storage says by now.  That
\* tokens were removed is not adopted.
Hear(t) ==
  /\ heard[t] # <<>>
  /\ heard' = [heard EXCEPT ![t] = Tail(@)]
  /\ Hold(t, Head(heard[t]))
  /\ UNCHANGED <<app, store, server, loading, flight, leaving, history, events>>

Login(t) ==
  /\ access[t] = None /\ ~ loading[t] /\ issued < MaxPairs
  /\ issued' = issued + 1
  /\ live' = live \cup {issued'}
  /\ Store(t, issued')
  /\ Happens
  /\ UNCHANGED <<app, stale, loading, flight, leaving, history>>

-----------------------------------------------------------------------------
\* logout: the server is told, and then the tokens stored by then are cleared.

SignOut(t) ==
  IF store = None THEN Hold(t, None) /\ UNCHANGED <<store, leaving>>
  ELSE leaving' = [leaving EXCEPT ![t] = @ \cup {store}] /\ UNCHANGED <<store, access>>

Logout(t) ==
  /\ access[t] # None
  /\ SignOut(t)
  /\ excused' = TRUE
  /\ Happens
  /\ UNCHANGED <<app, server, loading, flight, heard, ended>>

\* The server revokes the refresh token, or is not reached.
LogoutEnds(t, p) ==
  /\ p \in leaving[t]
  /\ leaving' = [leaving EXCEPT ![t] = @ \ {p}]
  /\ live' \in {live, live \ {p}}
  /\ store' = None
  /\ Hold(t, None)
  /\ UNCHANGED <<app, issued, stale, loading, flight, heard, history, events>>

-----------------------------------------------------------------------------
\* refreshSession.

\* One refresh per tab at a time.
Joins(t) == flight[t] # Nothing

\* What the callers do when there is no new pair: the first page load forgets the
\* session if it is over, and otherwise goes on with what was stored; a read logs out if
\* it is over.
GiveUp(t, who, over, old) ==
  /\ loading' = [loading EXCEPT ![t] = @ /\ "mount" \notin who]
  /\ Ends(over /\ who # {"other"})
  /\ IF over /\ "mount" \in who
     THEN store' = None /\ UNCHANGED leaving /\ Hold(t, IF "read" \in who THEN None ELSE access[t])
     ELSE IF over /\ "read" \in who THEN SignOut(t)
     ELSE IF "mount" \in who THEN Hold(t, old) /\ UNCHANGED <<store, leaving>>
     ELSE UNCHANGED <<store, leaving, access>>

Refreshing(p, who) == [old |-> p, is |-> "sent", new |-> None, who |-> who]

RefreshSession(t, who) ==
  flight' = [flight EXCEPT ![t] = IF Joins(t) THEN [flight[t] EXCEPT !.who = @ \cup {who}]
                                  ELSE Refreshing(store, {who})]

\* A page is loaded: what the tab had is gone, its requests too, whatever the server
\* makes of them.  The console goes on with an access token that has not run out.
Mount(t) ==
  LET dropped == IF flight[t] # Nothing /\ flight[t].is \in {"sent", "rotated"} THEN {flight[t].old} ELSE {}
      asItIs == store = None \/ (app = "console" /\ ~ RanOut(store))
  IN
  /\ Happens
  /\ heard' = [heard EXCEPT ![t] = <<>>]
  /\ leaving' = [leaving EXCEPT ![t] = {}]
  /\ live' \in {live, live \ (leaving[t] \cup dropped)}
  /\ excused' = (excused \/ dropped # {})
  /\ Hold(t, IF asItIs THEN store ELSE None)
  /\ loading' = [loading EXCEPT ![t] = ~ asItIs]
  /\ flight' = [flight EXCEPT ![t] = IF asItIs THEN Nothing ELSE Refreshing(store, {"mount"})]
  /\ UNCHANGED <<app, store, issued, stale, ended>>

\* The timer, a minute before the token runs out; or a post that is refused (authedPost).
\* With nothing stored it comes to nothing.
Timer(t) ==
  /\ access[t] # None
  /\ Joins(t) \/ store # None
  /\ RefreshSession(t, "other")
  /\ UNCHANGED <<app, store, server, tabs, leaving, heard, history, events>>

\* Faulty variant: a read that is refused when nothing is stored leaves it at that.
NoOneThereNever(t) == UNCHANGED <<store, leaving, access>>

\* A read is refused and there is nothing to refresh with.
NoOneThere(t) == SignOut(t)

\* useApi: a read was refused, its token having run out.
Refused(t) ==
  /\ access[t] # None /\ RanOut(access[t])
  /\ \/ /\ store = None
        /\ NoOneThere(t)
        /\ Ends(TRUE)
        /\ UNCHANGED flight
     \/ /\ store # None
        /\ RefreshSession(t, "read")
        /\ UNCHANGED <<store, access, leaving, ended>>
  /\ UNCHANGED <<app, server, loading, heard, excused, events>>

-----------------------------------------------------------------------------
\* The server's answer to a refresh, and what becomes of it.

Answered(t, is) == flight' = [flight EXCEPT ![t].is = is]

Rotate(t) ==
  /\ flight[t] # Nothing /\ flight[t].is = "sent"
  /\ \/ /\ flight[t].old \in live /\ issued < MaxPairs
        /\ issued' = issued + 1
        /\ live' = (live \ {flight[t].old}) \cup {issued'}
        /\ flight' = [flight EXCEPT ![t].is = "rotated", ![t].new = issued']
        /\ UNCHANGED stale
     \/ /\ flight[t].old \notin live
        /\ Answered(t, "rejected")
        /\ UNCHANGED server
     \/ /\ flight[t].old \in live /\ issued = MaxPairs
        /\ Answered(t, "failed")
        /\ UNCHANGED server
  /\ UNCHANGED <<app, store, tabs, leaving, heard, history, events>>

\* The rate limit, an outage, the network; the new pair may be lost with it.
Fail(t) ==
  /\ flight[t] # Nothing /\ flight[t].is \in {"sent", "rotated"}
  /\ Answered(t, "failed")
  /\ excused' = (excused \/ flight[t].is = "rotated")
  /\ Happens
  /\ UNCHANGED <<app, store, server, tabs, leaving, heard, ended>>

\* Faulty variant: the promise is kept when it is settled.
LandNever(t) == UNCHANGED flight

\* The promise is settled, and forgotten.
Land(t) == flight' = [flight EXCEPT ![t] = Nothing]

\* The new pair is stored, and everybody who waited goes on with it.
Take(t) ==
  /\ flight[t] # Nothing /\ flight[t].is = "rotated"
  /\ Store(t, flight[t].new)
  /\ loading' = [loading EXCEPT ![t] = @ /\ "mount" \notin flight[t].who]
  /\ Land(t)
  /\ UNCHANGED <<app, server, leaving, history, events>>

\* Faulty variant: what other tabs have stored is not looked at.
OthersPairNever(t) == None

\* Another tab rotated the token first: its pair.
OthersPair(t) == IF store # flight[t].old THEN store ELSE None

Failed(t) == flight[t] # Nothing /\ flight[t].is \in {"rejected", "failed"}

\* No new pair: the tab looks for another one's, at once, after 400 and after 1200 ms.
Check(t) ==
  /\ Failed(t) /\ OthersPair(t) # None
  /\ IF "mount" \in flight[t].who THEN Hold(t, OthersPair(t)) ELSE UNCHANGED access
  /\ loading' = [loading EXCEPT ![t] = @ /\ "mount" \notin flight[t].who]
  /\ Land(t)
  /\ UNCHANGED <<app, store, server, leaving, heard, history, events>>

\* The answers of other tabs come within the 1.6 seconds that this one waits.
WaitsAreLongEnough(t) ==
  {u \in Tabs \ {t} : flight[u] # Nothing /\ flight[u].is = "rotated"} = {}

\* There was none.
Throw(t) ==
  /\ Failed(t) /\ OthersPair(t) = None /\ WaitsAreLongEnough(t)
  /\ GiveUp(t, flight[t].who, flight[t].is = "rejected", flight[t].old)
  /\ Land(t)
  /\ UNCHANGED <<app, server, heard, excused, events>>

RunsOut ==
  /\ stale < issued
  /\ stale' = stale + 1
  /\ UNCHANGED <<app, store, issued, live, tabs, flight, leaving, heard, history, events>>

\* A refresh token is good for a week.
Ages(p) ==
  /\ p \in live
  /\ live' = live \ {p}
  /\ excused' = TRUE
  /\ Happens
  /\ UNCHANGED <<app, store, issued, stale, tabs, flight, leaving, heard, ended>>

-----------------------------------------------------------------------------
LogoutEndsSome(t) == \E p \in leaving[t] : LogoutEnds(t, p)

Next ==
  \/ \E t \in Tabs :
       \/ Mount(t) \/ Login(t) \/ Logout(t) \/ LogoutEndsSome(t)
       \/ Hear(t) \/ Timer(t) \/ Refused(t)
       \/ Rotate(t) \/ Fail(t) \/ Take(t) \/ Check(t) \/ Throw(t)
  \/ RunsOut \/ \E p \in Pairs : Ages(p)

Spec == Init /\ [][Next]_vars

\* The server and the browser get on with what they have, tokens run out, and a page
\* with a timer goes on reading.  No other page has to read again, and Timer, which asks
\* for a new pair, makes nothing of a refusal.
FairSpec ==
  /\ Spec
  /\ \A t \in Tabs :
       /\ WF_vars(LogoutEndsSome(t)) /\ WF_vars(Hear(t))
       /\ WF_vars(Rotate(t)) /\ WF_vars(Take(t))
       /\ WF_vars(Check(t)) /\ WF_vars(Throw(t))
  /\ \A t \in Readers : WF_vars(Refused(t))
  /\ WF_vars(RunsOut)

-----------------------------------------------------------------------------
\* Tokens are pairs that were issued, and a refresh under way has its callers.
TypeOK ==
  /\ store \in 0 .. issued /\ live \subseteq 1 .. issued /\ stale \in 0 .. issued
  /\ \A t \in Tabs :
       /\ access[t] \in 0 .. issued
       /\ leaving[t] \subseteq 1 .. issued
       /\ flight[t] # Nothing =>
            flight[t] \in Refreshes /\ flight[t].old \in 1 .. issued /\ flight[t].who # {}
       /\ loading[t] => flight[t] # Nothing /\ "mount" \in flight[t].who

\* Nobody is signed out, or told that the session is over, because several requests or
\* several tabs came upon an expired token together, or because of an outage: it takes a
\* logout, or a new pair that was lost on its way (refreshSession).
SessionIsKept == ~ ended

\* Nothing waits forever for a refresh: not the page that loads, not a request.
RefreshSettles == \A t \in Tabs : flight[t] # Nothing ~> flight[t] = Nothing

\* A logout reaches the other tabs, which do not listen for it, once their token has run
\* out and the timer of their page reads its data again; unless tokens are stored again.
LogoutReachesReaders ==
  store = None ~> store # None \/ \A t \in Readers : access[t] = None

\* Not so of every tab: on a page without a timer it goes on as signed in, until it reads.
LogoutReachesAll == store = None ~> store # None \/ \A t \in Tabs : access[t] = None
=============================================================================
