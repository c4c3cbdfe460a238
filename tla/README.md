# Slyk Casino: models, checks and proofs

This directory holds TLA+ models of the back end in `src/backend` (Django, Celery, Postgres) and of
the two web apps in `src/apps` (the players' site and the operators' console, React), the TLC
configurations that check them on small instances, and proofs checked by TLAPS.  Of the back end,
what is modelled is where money is decided on: the wallet ledger and its repair, withdrawals and the
fraud engine, gateway deposits, sportsbook tickets, the Bonus wallet, and the Jet crash game.  Of
the web apps it is what a page does with answers that come late, twice, in another order or not at
all: the bet slip, the deposit dialog, the pages with their forms and controls, and the session that
tabs share.

## 1. The system

Web requests, Celery workers (`acks_late`, `CELERY_TASK_TIME_LIMIT = 300`), the Celery beat, one
`run_jet` process and operators' requests all run against one Postgres database at its default
isolation, READ COMMITTED, without `ATOMIC_REQUESTS`.  What protects data is `transaction.atomic`,
`select_for_update` row locks, UNIQUE and CHECK constraints, and idempotency keys.  Everything that
is hard here comes from that: reads made before a lock is taken, transactions that see each other
half, retries, processes that die, and repairs that run beside the work they repair.

| component (`src/backend/apps/...`) | state | operations | talks to | what makes it correct |
|---|---|---|---|---|
| wallet ledger: `wallet/services.py` | ledger entries (append only, unique key), wallet rows with cached balances of three buckets | `post_entry`, `debit`, `credit`, `pay_out` | called by everything that moves money | balances are ledger sums; each key posted once; no bucket overdrawn; operations are indivisible |
| reconciliation: `wallet/recovery.py` | none of its own | pass over all wallets every 5 min | overwrites wallet rows | drift heals |
| withdrawals: `wallet/withdrawals.py` | requests, their hold | request, cancel, mark paid, reject | ledger, fraud engine | one decision per request, with exactly its entries; held requests are not paid |
| fraud engine: `risk/services.py` | profile, case | detectors, decide, restrictions | holds withdrawals, refuses bonuses, suspends | a freeze reaches every pending request |
| gateway deposits: `wallet/payments.py`, `paynow.py` | payment transactions | start, callback, poll, sweep | Paynow (external), ledger | credited once, only if collected; every transaction ends |
| sportsbook tickets: `sportsbook/services.py`, `cashout.py` | bets, slips with legs, markets, matches | place, confirm in play, cash out, settle (feed, backstop, operator, void) | ledger, feed, Bonus wallet | settled once, as the results say, and eventually |
| settlement rules: `sportsbook/settlement.py` | none (pure) | score to result | used by tickets | each kind of market read right |
| live guard, feed: `live_guard.py`, `market_feed.py`, `clients.py` | prices, suspension of events | goal, clock, burst | tickets | no bet on what is known |
| Jet: `jet/services.py`, `engine.py`, `run_jet.py` | rounds, bets, free bets | runner loop, place, cancel, cash out, recover | ledger | no bet paid past the crash, twice, or left riding |
| casino: `casino/` | game and crash rounds | start, settle, cash out, repair | ledger, provider | one debit and one credit per round |
| Bonus wallet: `wallet/bonus.py` | rollover count | ticket rule, count, conversion | tickets, ledger | conversion only after the wins it takes |
| promotions: `promotions/` | claims, wagering, codes, tournaments | claim, deposit bonus, wagering, repair | ledger, risk | one bonus per claim |
| affiliates: `affiliates/` | referrals, commissions, payouts | commission runs, payout, repair | ledger, tickets | a balance is paid out once |
| accounts: `accounts/` | players, limits, KYC | sign-up, exclusion, deletion | all | exclusion is respected |
| notifications, live chat, branding, realtime gateway (Erlang), deployment | display | | | no decisions about money |

The web apps run in browsers.  A tab is single-threaded, but everything it asks for is answered
later, and meanwhile the user goes on, timers fire, others change what is shown, another tab of the
browser writes to the same localStorage, and the access token is replaced (which starts every
effect that depends on it again).

| component (`src/apps/...`) | state | operations | talks to | what makes it correct |
|---|---|---|---|---|
| bet slip: `web/src/lib/betslip-context.tsx` and its panel | picks with prices, the bet being placed, polls of in-play bets, codes | tap, read prices, accept changes, place a multiple or singles, book and load codes | tickets, booking codes | nothing is staked at a price the player has not agreed to, or twice; the slip catches up with the server |
| deposit dialog: `web/src/components/deposit-modal.tsx`, return page | its step, the request, the deposit it polls | open, close, confirm, poll, give up, claim a bonus | gateway deposits | the player is told what is so, and is told |
| pages of console and site: `*/src/app`, `*/src/components`, `use-api.ts` | data read, forms, flags | read, filter, poll, open, type, click | the API, other operators | nothing done twice, no control stuck, nothing typed lost, the page ends up showing the server (the code does not keep all of that; see section 3) |
| session: `*/src/lib/auth.ts`, `auth-context.tsx` | a pair of tokens, shared by tabs | load, login, logout, refresh | accounts | several tabs do not end each other's session; a logout reaches the others |
| live board, Jet and casino clients, UI kit | a picture of the server | | | display |

`PROJECT.json` lists them all with what is modelled of each, and under `hazards` what in this code
a test hardly reaches, with the line it bites at and the properties aimed at it.

## 2. The modules

    LedgerBook ── Accounts            Risk ── Withdrawals ── MCWithdrawals
        └─ Wallet ── MCWallet         Payments ─┬─ MCPayments
             │                                  └─ Checkout ── MCCheckout
             └─ WalletRecovery ── MCWalletRecovery
                                      Tickets ── MCTickets
    Betslip ── MCBetslip              Bonus ── MCBonus
    Session ── MCSession              Jet ── MCJet

                                      Controls ─┬─ Page ── MCPages
                                                ├─ ConsolePages ─┘
                                                └─ SitePages ────┘

Theorems and their proofs are in modules of their own, each of which extends the component it is
about: **Wallet_proofs** (Wallet and WalletRecovery), **Checkout_proofs** (Payments and Checkout),
**Winnings_proofs** (Withdrawals and Bonus), **Tickets_proofs**, **Jet_proofs**, **Betslip_proofs**,
**Page_proofs**, **Session_proofs**.

**LedgerBook** is the ledger as data: entries, the columns of a wallet row, the sum of a ledger per
player and column, and what `debit`, `credit` and `pay_out` post.  **Accounts** is what the wallet
promises its callers: operations that take one indivisible step, add exactly the entries whose keys
are new and never leave a bucket negative.

**Wallet** is `post_entry` as it runs.  A worker's `step` is its place in the function: look the key
up, lock the row (`select_for_update`), look the key up again and check the funds, insert and save,
go on to the transaction's next entry, commit.  `draft` and `rows` are what its open transaction has
written and nobody else sees; `holder` is the row lock.  Crashes and Postgres's deadlock detection
roll back.  A retry is the same operation again, so keys collide as they do in the code.

**WalletRecovery** extends it by the reconciliation pass: the rows as its query returned them, the
sum of one wallet recomputed later, and the save under the row's lock later still.

**Risk** is a player's risk state and what a finding, a decision and staff make of it;
**Withdrawals** composes it with the requests.  Ledger operations are atomic in it (they are
Accounts', which Wallet is proved to implement).  A decision (`cancel`, `mark_paid`, `reject`) holds
the request's row lock throughout, so it is one step.  Asking is three: limits and funds are read
(`Ask`), the review flag is read (`Review`), the hold is debited and the detectors run (`Submit`).

**Payments** is a gateway deposit between `start_deposit`, whose two saves are not locked, the
reports of Paynow (a set: late, twice, in any order or never), and the sweep.  Paynow and the
customer are the external action `Charge`.

**Checkout** composes it with the dialog in which a player deposits.  Every action of Payments is an
action of Checkout, but for `Create`, which is now what a request of the dialog (`HandleConfirm`)
does when it reaches the server (`Receive`); a poll of the dialog (`Tick`) is one more way for a
report to arrive.  `Watch` is React's effect: it starts polling again, or stops, whenever the step,
the deposit or the token changes, and an answer to what was asked before is dropped.  What is not
dropped goes on after the dialog is closed (`Close`, `Escape`): the request, and `FinishDeposit`.

**Tickets** models rows: `db` is what is committed, `now` what the lock holder has written, `lock`
who that is.  Placing, in-play acceptance and cash-out have a step that reads and locks (what they
decide is in `plan`) and one that commits.  A settlement is a `job` that goes through the 1X2 of a
match and then its markets, and through lists of bets, legs and slips, which it reads without locks
and then locks one by one: `ListBets`, `SettleBet`, `ListLegs`, `SaveLeg`, `SettleSlip`, `NextUnit`,
`Commit`.  Four things start one: full time from the feed or the operator, the backstop, the voiding
of a match that will not finish, and the operator settling a unit by hand (`ByHand`).  For the last
the code takes any result at any time; so does the model at the matches of `Hasty`, while at others
the operator waits for full time and names what happened.  Amounts, prices and bonuses are left out: a ticket's ledger entries are the set of their kinds.

**Bonus** is one player's Bonus wallet under bonus tickets and new bonuses, with rows as in Tickets:
the wallet, the rollover count and the tickets.  `Check` reads the balance that the ticket has to
stake and `Stake` debits it under the lock; a rejection in play holds the ticket and then waits for
the wallet; a new bonus holds the wallet and then waits for the count; a settlement goes through
its tickets, locking ticket, wallet (`Pay`) and count (`Count`, which also converts) as it comes to
them, and commits at its end.  `MayGoOn` is what a transaction's next step waits for, and the guard
of that step.  `log` records what was committed, in that order.

**Jet** is the round's life by the one runner (`runner` is where it is in its loop), with player
requests that read the clock first and then wait for locks.  A bet goes to the latest round that
takes bets (`TakesBets`), also when a recovery has failed and the runner has opened another.  The multiplier is a clock that counts
from 1; a request carries the time it was made at, however late it is served.

**Betslip** is the slip of one tab.  A request's record holds what its closure captured.  `Read` and
`ReadArrives` are price reads, which overlap; `Place` captures the prices and the session; `Accepted`,
`LegsMoved` and `Placed` are the answers to it; `Report` ends the polling of an in-play bet; `share`
and `load` are booking codes.  `offer` is the server's.

**Page** is one page of either app in one tab: `data`, `reads` and `query` are `useApi`, `drafts` the
forms, `busy` the flags that disable buttons, `calls` the acts under way.  Which page it is is a
record: **ConsolePages** and **SitePages** describe the 87 pages and panels of the two apps in the
vocabulary of **Controls**: with which statuses of a row a control is offered, which flag it sets and
on which ways out its handler lifts it again (`lifts`), what it sends, and what is done with an
answer or an error (`reads`, `closes`, `adopts`, ...); when a form is filled in anew, and when the
page's timer runs (`polls`: never, always, or while something shown is still `running`).  The server
is `Serve`, other people are `Elsewhere`.  The match page is described twice, with the sections that
share its league, and with the controls above them; the operators' tickets with their timer off and
on.

**Session** is who is signed in, in several tabs: `store` is localStorage, `flight` the refresh a tab
has under way and who waits for it, `heard` the storage events on their way.  The server swaps a
refresh token once.  A refresh that failed looks for another tab's pair (`Check`) before it throws
(`Throw`).  The console differs from the site in what a page load does (`Mount`).  `Readers` are the
tabs that stay on a page with a timer.

Definitions whose comment begins with "Faulty" are deliberate bugs.  No specification uses them.
They are the mutants in `PROJECT.json`: put in place of the definition that follows them, each makes
TLC report the property it is listed with.

## 3. What TLC checks

Runs expected to pass:

| run | instance | properties | what it shows |
|---|---|---|---|
| `wallet` | 2 workers, 2 players, 6 operations | CachedIsLedgerSum, NeverOverdrawn, ImplementsAccounts, EveryTransactionEnds | stakes that the money cannot both pay for, one client key used on two wallets, two settlers paying two tickets in opposite order, all with crashes: balances stay ledger sums and operations indivisible |
| `recovery_heals` | 2 players, 2 workers with fewer operations | RowsMissOneStretch, QuietWalletsHeal | a wallet row that a pass saved from old sums misses one unbroken stretch of the ledger, however many passes and transactions interleave, and a later pass restores it once transactions stop |
| `withdrawals` | 1 player, 2 requests and one from before holds | LedgerMatchesStatus, WalletAddsUp, OnlyADismissalReleases, FreezeReachesPending | every order of asking, findings, freezing and deciding leaves each request with the entries of its status, and the wallet with what that leaves |
| `payments` | a dialog and 2 deposits, of which Paynow always answers polls for one | CreditIsBacked, PaidMatchesCredit, ToldAsItIs, EveryDepositEnds, PollingFindsPayments, WaitingEnds | one credit per collected payment under lost, repeated and contradicting reports; what the dialog says of a deposit is so, however it was closed and opened meanwhile |
| `tickets` | 2 matches, a single on a market outcome, a double on that and a 1X2; one worker, one operator, one crash | ReturnedOnce, SlipFollowsLegs, NothingLeftBehind, NoCashOutOfALostLeg, EveryTicketSettles | concurrent settlements of a double's two legs, cash-out and acceptance do not settle twice or leave a ticket behind |
| `bonus` | 2 bonuses, 3 tickets of which at least 2 win, 2 settlements, one crash | RolloverFollowsResults, MoneyAddsUp, NoStandstill | the count and the conversions follow the committed results; what was credited and won is in the wallet, staked, converted or forfeited; credits, rejections and settlements that take wallet, count and tickets in different orders do not block each other for good |
| `jet` | 2 rounds, 3 bets of which 2 with the same free bet, one runner failure | EntriesMatchStatus, PaidWithinTheFlight, ReachedTargetsArePaid, NobodyRidesACrashedRound, EveryRoundEnds | late requests against take-off, auto cash-out, crash and recovery |
| `betslip` | 3 picks in 2 markets, one not compared by the server, one player | CodeIsForTheSlip, SentAsAgreed, PlacedOnce, SlipCatchesUp | overlapping price reads, bets answered late or never, codes and new tokens do not stake what was not agreed to |
| `pages` | every page of both apps, each by itself | OncePerDraft, ButtonsComeBack, ShowsTheServer | under reads that overtake each other, answers that are lost, and others who change the same rows, nothing is done twice, buttons come back (but on five pages), and a page ends up showing the server while its timer runs, or if its answers came in order |
| `session` | 2 tabs of one browser, of the site or of the console, one of them on a page with a timer | SessionIsKept, RefreshSettles, LogoutReachesReaders | refreshes of several tabs at once, outages and reloads end no session, a logout reaches the tab that goes on reading |

Where a property is proved (section 4) and a run shows more than it, the run does not check it
again: the type invariants, EachKeyOnce (`ImplementsAccounts` would not hold without it), DecidedOnce,
FinalIsFinal, SettledIsFinal and FreeBetUsedOnce.

Two runs are expected to find a violation; each is a disagreement between the code and what it says
of itself, told in full under `findings`:

| run | property | what happens |
|---|---|---|
| `recovery_race` | NeverOverdrawn | the pass saves a sum taken before a stake committed; the stake's money is in the cached balance again and can be staked twice |
| `lost_deposit` | ReportedPaidIsCredited | a final FAILED or CANCELLED keeps a later paid report from being credited |

### Disagreements without a run of their own

Each of these can be seen by adding the property to the module's configuration.

- **The daily cap** (`DailyCapKept`, MCWithdrawals).  Two requests at once each see a total without
  the other (`withdrawals.py:150`); `models/withdrawal.py:10` calls it a cap.
- **A freeze and a request being made** (`FrozenMeansHeld`, MCWithdrawals).  The freeze holds the
  pending requests it sees (`risk/services.py:133`); one that is being made is not among them and
  does not look again (`withdrawals.py:141`, `175`).
- **A late acceptance** (`EveryTicketSettles` without its exception `AcceptedTooLate`, MCTickets).  An
  in-play ticket becomes OPEN after its market was settled; nothing automatic looks at it again
  (`sportsbook/services.py:751`).
- **"No money was taken"** (`NoMoneyWasTaken`, MCCheckout).  The dialog says so of every FAILED
  deposit (`deposit-modal.tsx:184`); one whose amount did not match was paid.
- **Polls of an in-play bet** (`PollsLastTheSession`, MCBetslip).  The comment at
  `betslip-context.tsx:181` says they last as long as the session; the effect below it depends on
  the access token and stops them at every refresh of it.
- **The whole-wallet rule.**  `wallet/bonus.py` says that a bonus ticket "stakes the whole Bonus
  wallet (100% of it)" and counts "full-stake bonus tickets", but `check_ticket` reads the balance
  before the debit locks it (`bonus.py:36`).  In Bonus a ticket is checked, a second bonus (or another
  ticket's payout) commits, and the ticket then stakes a part of the wallet; it counts like any other.
- **Buttons that stay disabled** (`FlagsAreLifted`, MCPages).  On five pages a handler awaits a `fetch`
  that nothing catches, and lifts its flag after it: deposit limits (`account/settings/page.tsx:92`),
  banners (`banners/page.tsx:123`), promotions (`promotions/page.tsx:92`), name and colours of the
  brand (`branding/page.tsx:240`, `371`).  When the request throws, the button is disabled until the
  page is loaded again.  `ButtonsComeBack` is what is left: no other page does that.
- **Typing that is lost** (`TypingSurvives`, MCPages).  "keeps its own draft" says
  `matches/[id]/page.tsx:37` of a section; the league, chosen and not yet saved, is overwritten when
  another section is saved (line 72).  The panel of live protection refills its form from a read
  every 15 seconds (`live-guard.tsx:23-24`).  Twelve more pages refill a form from any read or any
  answer: gateways, cash-out, betting rules, withdrawal limits, risk, programme and crash game
  settings, chat and rain, the announcement, name and colours of the brand, deposit limits.
- **An answer that was overtaken** (`ShowsTheLatest`, MCPages).  `useApi` does not look which read an
  answer belongs to (`use-api.ts:56` of the console, `68` of the site).  On a page without a timer the
  rows of an earlier query, or of an earlier time, stay.
- **A logout and an idle tab** (`LogoutReachesAll`, MCSession).  A tab does not hear that tokens were
  removed (`auth-context.tsx:92`), and the timer that asks for a new token makes nothing of the
  refusal (`104`).  On a page that reads nothing on a timer it goes on as signed in until it reads.
- **An operator's result** (`Hasty`, MCTickets).  `settle_event` and `settle_market_manually` take any
  result whenever they are called (`sportsbook/services.py:906`).  With `Hasty = {a}`, the match of the
  1X2, `SlipFollowsLegs` is violated: legs are listed without a lock and saved whatever they have
  become, so a slip is paid on a leg that another result then overwrites.  With `Hasty = {b}`, the
  match of the market outcome, it holds, as the market's row lock is held from the listing to the
  commit.  ReturnedOnce, NothingLeftBehind and NoCashOutOfALostLeg hold with either.
  EveryTicketSettles holds with either for the single and with `{a}` for the double; with `{b}` it
  does not, because an operator who contradicts the market's result over and over keeps a worker
  waiting for its row, whose queue the model leaves out.
- **Waiting for another tab** (`SessionIsKept` without `WaitsAreLongEnough`, MCSession).  A tab waits
  1.6 seconds for the pair another tab is fetching; if that takes longer, it ends the session.

Others were met while reading and have no formula.  Documents and agents have no status guard on the
server, so a decision made from an old list overturns a newer one.  "Load more" appends rows of an
earlier query to the list of a later one.  A multiple that is placed empties the slip, with the
picks tapped meanwhile.  A deposit's idempotency key is not looked at for gateway payments, so a
retry after a lost answer sends a second prompt.  A dialog that is closed while its request is out
forgets the amount and whether a bonus was wanted, and then shows and claims with the defaults.

### Bounds

Two workers are enough for every race of the wallet between two transactions, and for circles of
two waits; the operations were chosen so that keys, rows and funds all collide.  The drift of
`recovery_race` needs one worker.  Withdrawals use one player, because requests of different players
share nothing, and amounts of 1 and 2 with a fee of 50%, where rounding to even shows
(`FeeFor(1) = 0`, `FeeFor(2) = 1`) and a wallet of 3 cannot pay all.  `SwingBound` limits how far
bets move that wallet.  Two deposits are what
a dialog needs to confuse one with another; the fairness of Paynow's answers differs between them,
and so does what may become of the charge (`MayEnd`).  A dialog has one POST out at a time (a third
deposit would be needed for more), and one new access token (`MaxTokens`).  Tickets need two matches for a double, and one settlement from each of two sides; the
combinations in `MCFacts` have a double that wins, and one that loses with a market the facts do not
decide.  `MaxCrashes` is 1 where crashes matter.  `Late = {}` says that a match which
is voided does not get a result afterwards; with `Late = {a}` TLC finds `SlipFollowsLegs` violated
(a leg listed as undecided by one settlement is saved after another has won the slip with it).
`Hasty = {}` says that the operator names what happened, after it has; what becomes of the properties
otherwise is told above.  In `tickets` both picks of the double
are traded in play, and only transactions of the beat crash (`Mortal`): a crash of a request or of
the operator rolls back what nobody has seen.  Jet has crash
points 1 and 2, targets 2 (reached by some flights) and 3 (by none), a stake limit of one, and a
clock that stops one tick after the crash.  In `bonus` tickets,
bonuses and settlements are each interchangeable (`SYMMETRY`; no liveness is checked there); a win
doubles the stake, so that the limit of 3 is met by two whole-wallet wins and not by smaller ones.
`MaxFaults = 1` allows an exception or restart anywhere
but no failing recovery; with 2, `OneRoundAtATime` is violated, because `run_jet.py` logs a failed
recovery and opens the next round.

In `betslip` two picks of one market and one of another are enough to swap, to combine and to be
refused as too many (`MaxSelections = 2`); a price moves once, the player acts four times, and two
reads overlap.  In `pages` two rows are enough to confuse one with another, and two reads to overtake
each other; three clicks, changes of others and failures together are enough for two people's acts
on one row, an act that is repeated after its answer was lost, and a read between them.  Two tabs
and two pairs of tokens make each tab's refresh fail because of the other's; after that the server's
rate limit answers.

`CHECK_DEADLOCK FALSE` is used where the instance may come to its end (all bets settled, all
deposits final, no events left for a page, a slip or a tab); the wallet, its recovery, the
withdrawals and the Bonus wallet (whose `Done` is its end) are checked for deadlock.

### Fairness

Weak fairness for a transaction that has begun: a process goes on or dies, and if it dies Postgres
rolls back.  Strong fairness for taking a row lock, which Postgres grants in the order of asking, so
that a waiter is not overtaken for ever.  Weak fairness for what the beat runs (`settings.py`,
`CELERY_BEAT_SCHEDULE`): the reconciliation pass, the payments sweep, the acceptance sweep; strong
fairness for the settlement backstop, which waits for a free worker.  The jet runner is a loop that
its supervisor restarts.  Nothing says that a player, an operator, Paynow, the odds feed or a
customer ever does anything.

In the browser: weak fairness for what is under way (an answer arrives or fails, a promise is
settled, a storage event is delivered, a timer fires).  Nothing but a timer makes a page read again:
in Page `Poll` is enabled only where and while the page's timer runs, and in Session only `Readers`
go on reading.  Most timers pause while the tab is hidden, so what is said of them is said of a tab
that is looked at again and again.  Strong fairness for the deposit dialog's giving up, which the clock
decides however often polls are repeated before.  Nobody has to click.

## 4. What is proved

The theorems below hold for every value of the constants that satisfies the components' named
assumptions (`OpsAssumption`, `PaymentsAssumption`, and so on; TLC evaluates each on
the instance it checks).  They say the same as the runs of section 3 wherever a run checks the
property, without the bounds: any number of players, requests, deposits, tickets, rounds, picks,
tabs, calls and crashes.

| component | theorem | what it states |
|---|---|---|
| Wallet | `TypeCorrect`, `CachedBalancesAgree`, `KeysPostedOnce`, `FundsSuffice` | `Spec => []` TypeOK, CachedIsLedgerSum, EachKeyOnce, NeverOverdrawn |
| | `WalletImplementsAccounts` | `Spec => A!Spec`: the lock protocol of post_entry implements the indivisible operations of Accounts |
| WalletRecovery | `RecoveryTypeCorrect`, `OneStretchMissing`, `KeysPostedOnceBesideThePass` | `RecoverySpec => []` both type invariants, RowsMissOneStretch, EachKeyOnce |
| | `OnlyTheRepairParts` | `RecoverySpec =>` a wallet row that agrees with the ledger stops doing so only in the pass's `Repair` of that wallet |
| Payments | `CreditsAreBacked`, `PaidAndCreditedAgree` | `Spec => []` CreditIsBacked, PaidMatchesCredit |
| | `FinalStaysFinal` | `Spec => FinalIsFinal` |
| Checkout | `CheckoutImplementsPayments` | `CheckoutSpec => Spec` of Payments |
| | `PlayersAreToldAsItIs` | `CheckoutSpec => []ToldAsItIs` |
| Withdrawals | `LedgerFollowsStatus` | `Spec => []LedgerMatchesStatus` |
| | `DecisionsAreFinal`, `OnlyDismissalReleases`, `FreezeHoldsPending` | `Spec =>` DecidedOnce, OnlyADismissalReleases, FreezeReachesPending |
| | `NoMoneyMadeOrLost`, `RequestsNeverOverdraw` | `Spec => []` WalletAddsUp, FundsNeverNegative |
| Bonus | `CountFollowsResults`, `NoBonusMoneyLost`, `NobodyStandsStill` | `BonusSpec => []` RolloverFollowsResults, MoneyAddsUp, NoStandstill |
| Tickets | `MoneyGoesBackOnce`, `LostLegsAreNotCashedOut` | `Spec => []` ReturnedOnce, NoCashOutOfALostLeg |
| | `NothingIsLeftBehind` | `Spec => []NothingLeftBehind`, if no multiple is on a match of `Hasty` |
| | `SettledStaysSettled` | `Spec => SettledIsFinal` |
| | `SlipsFollowTheirLegs` | `Spec => []SlipFollowsLegs`, if no multiple is on a match of `Late` or `Hasty` |
| Jet | `NothingIsPaidTwice`, `PaymentsFitTheFlight`, `ReachedTargetsWin`, `CrashedRoundsAreSettled`, `FreeBetIsUsedOnce` | `Spec => []` EntriesMatchStatus, PaidWithinTheFlight, ReachedTargetsArePaid, NobodyRidesACrashedRound, FreeBetUsedOnce |
| | `SettlementIsFinal` | `Spec => SettledIsFinal` |
| Betslip | `AgreedPricesAreSent`, `NothingIsSentTwice`, `CodesFitTheSlip` | `Spec =>` SentAsAgreed, PlacedOnce, []CodeIsForTheSlip |
| Page | `FlagsComeDown` | `Spec => []FlagsAreLifted` for a page with `HandlersLift` |
| | `EachDraftOnce` | `Spec => []OncePerDraft`, for pages with `FormsAreGuarded` |
| Session | `TheSessionIsKept` | `Spec => []SessionIsKept` |

Each rests on an inductive invariant, which a theorem of its own states: `Invariance` of the module,
`RecoveryInvariance` for WalletRecovery, `DepositInvariance` and `CheckoutInvariance` for Payments and
Checkout, `FundsInvariance` for the money of Withdrawals, `BonusInvariance` and `MoneyInvariance` for
Bonus.  What it is, and why the property alone would not do:

### Wallet

An operation is a non-empty sequence of entries with different keys (`OpsAssumption`).  The cached
balances agree with the ledger only because a transaction adds to both what it has worked out from a
row nobody else can change.  Besides `TypeOK` and the three properties, `Inv` has
- `RowsFollowDraft`: a row a transaction holds is, as it sees it, the committed row plus what its
  draft adds; on a row it does not hold its draft adds nothing;
- `DraftsAreNew`: drafted entries are entries of the operation already dealt with, and no key of
  theirs is committed or in another draft (this is where the second lookup under the lock and the
  UNIQUE constraint come in);
- `DealtWith`: each entry of the operation up to where it is has been committed by somebody or is in
  the draft, which makes a commit all or nothing;
- `Secured`: from the check to the insert the worker holds the row, so that what was affordable
  still is;
- `DraftNeverOverdrawn`: committing a draft overdraws no bucket at any of its entries.

`Inv` comes in two parts: `Protocol` is what the workers keep whatever the wallet rows hold, and
`Funds` what they keep as long as nobody else writes those rows.  That split is what lets the
reconciliation pass be put beside them.

`Commit` is where the sums are put together, with `RunningConcat` (the totals of a concatenation).
For the refinement, `Commit` is the only step that changes the ledger: the draft then lists, each
once, exactly those of the operation's entries whose keys were not posted, which is
`Accounts!Execute`; every other step stutters.  A ledger's totals are a recursive function.  Facts
about it for every ledger are proved with the least-element principle (`NatLeast`, from the
well-foundedness of `<`): assume a set of prefixes for which the fact fails, take the least, and
contradict it with the one before.

### Reconciliation

The pass breaks `Funds`: it saves sums that may be out of date, which is the finding of
`recovery_race`.  `Protocol` it leaves alone, as it changes no key, draft or lock of a worker, so no
key is posted twice even against a row that is wrong.  What can be said of the rows is that each
misses one unbroken stretch of the ledger (`RowsMissOneStretch`), and that is inductive with the fact
that the sums a pass holds were once the ledger's (`SumsWereRight`).  A worker's step moves a row
and the ledger's totals alike (`WorkMovesRowsWithLedger`), whatever the row was, so the stretch stays.
A repair replaces whatever was missing by what was posted since its sums were taken, so stretches
never add up.  `OnlyTheRepairParts` follows: nothing but a repair parts a row from the ledger.

### Payments and Checkout

`AskedBeforeTold` ties what Paynow has said to how far `start_deposit` has come: it says nothing of
a deposit it was not asked to charge, what a poll would be told is among the reports, and only a
deposit it was asked about has a poll URL.  With it, a credit that is not backed would have to come
from a report that was never made.  That the dialog implements Payments is a step-by-step argument
with one premise of its own, `DialogInv`: what is polled is a deposit whose answer has arrived, so
that a poll is `Payments!Arrive`; what was heard, is to be claimed, or has been said of a deposit
is the case and stays so.  The theorems about deposits then hold under the dialog, too, through the
refinement.  What may become of a charge (`MayEnd`) and whose polls are answered are arbitrary.

### Withdrawals

A request's row determines its entries, which is inductive with the types of the rows (`RequestRowsOK`)
and of the risk state.  The work is in the ledger: what is posted has a
key made of the request and the kind of entry, so posting for one request leaves those of all others
alone (`PostAdds`).  Amounts, the fee and the daily cap are arbitrary, and so is how far bets move
the wallet.  `DecidedOnce`, `OnlyADismissalReleases` and `FreezeReachesPending` are action
properties; two lemmas say what a step may do to a request's status and hold (`StatusSteps`,
`HoldSteps`), and the theorems follow from them.

`WalletAddsUp` is a sum over a player's requests, and needs that sums over finite sets can be taken
apart.  The library's fold is a recursive function on subsets; its laws are proved by assuming sets
for which one fails and contradicting a smallest (`SumFacts`, `SumChange`, `SumCombines`).  Then a
request's share of the wallet depends on its own row (`ShareIs`), a step changes one row and
posts what changes its share (`PostMoves`, `FundsSteps`), and every other share stays.  The fee
appears nowhere in the sum, which is the point: however it is rounded, it comes out of the amount.

### Bonus wallet

Credits, rejections and settlements see each other half, so `BonusInv` says of each transaction what
it holds (`Holding`) and, for a settlement, that where it is and what it has done fit the locks it has
(`Underway`).  `CountFollows` and `WinningsWithin` then speak of two states: the committed rows follow
the committed results, and the rows as the settlement that holds the count sees them follow those
results and its own.  That another transaction commits in between is harmless, because only the
holder of the count appends results that change it, and only the holder of wallet and count touches
Winnings.  A new bonus sets the count to 0 in its commit, which waits until nobody holds the count.

`MoneyInv` says the same of money: for each transaction, the rows as it sees them add up but for what
it has written into a ticket and not yet into the wallet (`Owes`: between `LockTicket` and `Pay`, and
while a rejection waits for the wallet).  `Placement` is what makes a stake and a return single: a
ticket has no stake before it is placed, nothing back before it is settled, and what is to be paid
is what the row that the settlement holds says.  When a transaction publishes its rows, those that
another has seen and written still add up, because the two have no row in common and sums combine
row by row (`SeenStillAddsUp`).

`NobodyStandsStill`: a transaction that cannot go on waits for a row that somebody holds, and whoever
holds a row is under way.  If none can go on, then in the set of those under way each waits for
another; a smallest subset with that property is a circle (`SomeWaitInACircle`), which Postgres
breaks.  It shows that nobody waits for something that is not there, not that every wait is short.

### Tickets

A settlement that has made a leg's result holds the leg until it commits, and has looked at the
ticket, or has yet to; in the second case it cannot commit before it has the ticket's lock
(`Decided`).  So between a look at a ticket's legs and the end of the transaction that holds the
ticket, nobody commits a leg of it, although legs are read without locks.  That is what `Waiting`
needs (an open multiple, an acceptance that is to open one, and a settlement that left one open have
a leg to wait for), and `NoCashOutOfALostLeg`.  The rest of `Inv` says who may hold what (`Locking`),
what a transaction on a ticket has decided fits what the ticket is (`Plans`), that a row's money is
as its status says and settled rows are not written over (`GoodTickets`), and that a settlement works
on a match that is over (`Jobs`).

An operator who settles before a match is over lets a ticket be placed on it, or accepted, after its
leg's settlement went by.  So `Waiting`, and with it `NothingIsLeftBehind`, has the premise `Orderly`:
no multiple on a match of `Hasty`.  The other theorems hold whatever an operator does.

`SlipsFollowTheirLegs` adds `Agreed`, that all settlements make the same of a pick, and `Followed`,
that a slip follows its legs as committed and as its settlement sees them.  Its premise `OnTime`
(no multiple on a match that is voided and then gets a result after all, or that an operator settles
as they please) cannot be dropped: without it TLC finds the property violated (section 3).

### Jet

`BetsMay` says that five things can happen to a bet in a step: nothing, being placed on a round that
takes bets, being cashed out at a multiplier no later than its target and the crash, being lost with
a target beyond the crash, being refunded.  `PaidWithinTheFlight` and `ReachedTargetsArePaid` follow
from it with the clock's type and that a cash-out is asked at a multiplier that was shown (`Asked`).
For `NobodyRidesACrashedRound` the two ways to close a round, the
crash and a recovery, are shown to leave none of its bets active, and a bet gets onto a round only
while the round takes bets (`OnOpenedRounds`).  `FreeBetIsSomewhere` makes the free bet's use inductive: it is
used exactly if one bet, and only one, that was not refunded has it.

### Betslip

`GoodLegs`: the price a leg shows unflagged, or showed before the change that is flagged, is the one
the player tapped or accepted.  Price reads that arrive late flag a change and keep the old price
beside it, and that is why what `Place` captures is what was agreed to.  With it `backed` stays
empty and a code stays the one of the picks it was booked for.

### Page

Under a flag that guards a form there is one call at a time (`OneOut`), and what was done but not
yet answered still has its call out (`DoneOnce`); so the form is still disabled when the server has
done what it asks, and is closed when it hears so.  Neither is an invariant of every page one could
write: `FormsAreGuarded` says what a page's controls have to be like, and TLC evaluates it for the 87
pages and panels there are (`ASSUME FormsAreGuarded` in MCPages).  Likewise `FlagsComeDown` asks that
each handler of the page lifts its flag on every way out (`HandlersLift`).  What it adds is that
nothing else is needed: handlers that share a flag, set it while another's call is out, and are
answered in any order or not at all do not leave it set (`Inv`: on such a page a flag that is set
has a call out under it).  Whether the handlers of the 87 do that is what `ButtonsComeBack` checks.

### Session

As long as nobody has logged out and no answer with a new pair was lost (`excused`), the pair in
storage is good for a swap, or a tab is about to store the one it was swapped for and is waited for
(`Alive`).  `Swaps` says that such a pair is known to no other tab, so that nobody swaps it before
it is stored.  The number of tabs is arbitrary.

### Assumptions

Those that are not obvious from the code's types: a flight has a multiplier, `MaxMultiplier` at
least 1 (Jet); a market's offers have prices (`Prices # {}`, Betslip); a page has rows, and its
controls refer to forms it has (Page); a market belongs to one match (Betslip), and a
multiple takes one selection per match (Tickets; the server refuses others); `Nothing`, `Nobody` and the like
are none of the things they are distinguished from; tickets, bonuses, settlements and the two rows
of the Bonus wallet are told apart (Bonus).  There are finitely many requests (Withdrawals), tickets,
bonuses and settlements (Bonus), as a sum over them has to be one; how many is arbitrary.

### What stays with TLC

All liveness (`EveryTransactionEnds`, `QuietWalletsHeal`, `EveryDepositEnds`, `PollingFindsPayments`,
`WaitingEnds`, `EveryTicketSettles`, `EveryRoundEnds`, `SlipCatchesUp`, `ShowsTheServer`,
`RefreshSettles`, `LogoutReachesReaders`): it is not within TLAPS's reach.  So does that the composition
of Withdrawals with the ledger is the one Wallet is proved to implement: Withdrawals takes its
ledger operations to be indivisible, as Accounts has them.  Every safety invariant and every action
property that a passing run checks is proved, some under the premises named above: `NeverOverdrawn`
for Wallet without the pass (beside it, it is false), `ButtonsComeBack` as `FlagsComeDown`, for pages
whose handlers do their part.

## 5. What is left out

In the wallet: what a new stake, bonus or deposit sets off in promotions, affiliates and risk, and
`erase_player_data`.  In withdrawals: KYC, turnover, payout methods, several days.  In the fraud
engine: the detectors' arithmetic.  In deposits: the test processor, which credits at once.  In
tickets: prices and amounts, anonymous bets, limits, deletion of old matches.  In the Bonus wallet:
the odds and number of selections, the bonus that a winning multiple from another wallet earns
within its settlement, and rules changed while tickets run.  In Jet: amounts, pausing, chat, rain
and bots.  In the bet slip: stakes and payouts, the choice of wallet.  In the deposit dialog:
amounts, methods, promo codes, signing out, and that the page header has a second one.  In pages:
what rows contain besides a status, rights, wording, and further pages of lists.  In the session:
whose it is, staff who sign in as a player, registration.

Not modelled are the components marked so in `PROJECT.json`: on the site the live board and the
clients of Jet and the casino, whose truth is the server's; on the server casino rounds,
promotions, affiliates, settlement rules, the live guard, accounts, and what only displays.

## 6. Plan

In this order:

1. *done* — LedgerBook, Accounts, Wallet, their proofs; WalletRecovery; Risk and Withdrawals;
   Payments; Tickets; Jet; Bonus.
2. *done* — the web apps: Betslip; Controls, Page and the pages; Session; Checkout on top of
   Payments.
3. *done* — proofs of the safety properties of Payments and Checkout, Withdrawals, Tickets, Jet,
   Betslip, Page and Session, that Checkout implements Payments, what of the wallet holds beside the
   reconciliation pass, and that the money of Withdrawals and Bonus adds up.
4. Affiliate payouts (balance read as four sums; requests, operator decisions and the repair of
   wallet payouts), and the credit of losing tickets by overlapping runs.
5. Casino rounds with their repair and the crash page, which forgets its round after a cash-out that
   failed; promotion claims with theirs, on top of Accounts.
6. Settlement rules as operators, checked against a reference over small scores; the live guard's
   clocks and suspensions, composed with Tickets' acceptance.
