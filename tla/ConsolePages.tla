---------------------------- MODULE ConsolePages ----------------------------
(***************************************************************************)
(* The pages of the operator console (src/apps/admin), in the words of     *)
(* Controls.tla.  A definition is a page, or a part of one.                *)
(***************************************************************************)
EXTENDS Controls

-----------------------------------------------------------------------------
\* Money going out.

\* Three steps of one drawer lead to "paid".
PayWithdrawal ==
  [Submit("mark-paid", {"requested"}, "paid", "acting", "busy") EXCEPT !.failed = {"reads"}]

\* The same drawer, and the same `acting' state, rejects.
RejectWithdrawal ==
  [Submit("reject", {"requested", "held"}, "rejected", "acting", "busy") EXCEPT !.failed = {"reads"}]

WithdrawalsPage ==
  [Polled EXCEPT !.start = {"requested"}, !.modal = TRUE, !.forms = "acting" :> "opened",
     !.ops = {PayWithdrawal, RejectWithdrawal},
     !.elsewhere = {<<"requested", "held">>, <<"held", "requested">>,
                    <<"requested", "cancelled">>, <<"requested", "paid">>}]

\* Affiliates' payouts: nothing has to be typed to mark one sent.
MarkPayoutSent ==
  [Submit("mark-paid", {"requested"}, "paid", "acting", "busy")
     EXCEPT !.needs = FALSE, !.failed = {"reads"}]

RejectPayout == [MarkPayoutSent EXCEPT !.name = "reject", !.to = "rejected", !.needs = TRUE]

PayoutsTab ==
  [Listing EXCEPT !.start = {"requested"}, !.modal = TRUE, !.forms = "acting" :> "opened",
     !.ops = {MarkPayoutSent, RejectPayout}, !.elsewhere = {<<"requested", "paid">>}]

\* A deposit that is given back by hand is recorded once per confirmation.
DepositRefund ==
  Settings("form" :> "blank",
           {[Submit("refund", {"set"}, Same, "form", "busy") EXCEPT !.counts = TRUE]})

-----------------------------------------------------------------------------
\* Payment methods.

SaveMethod ==
  {Submit("add", {Gone}, "listed", "method", "busy"),
   Submit("edit", {"listed"}, Same, "method", "busy")}

PatchMethod == Switch("patch", {"listed"})

\* Renumbers the whole list as it is shown; what fails is not told.
MoveMethod == Switch("move", {"listed"})

RemoveMethod == Act("remove", {"listed"}, Gone)

PaymentMethodsPage ==
  [Table({Gone, "listed"}, SaveMethod \cup {PatchMethod, MoveMethod, RemoveMethod},
         {<<"listed", "listed">>, <<"listed", Gone>>})
     EXCEPT !.modal = TRUE, !.forms = "method" :> "opened"]

\* The gateway: filled in from every answer; testing it changes nothing.
GatewayPanel ==
  Settings("form" :> "read",
           {Shared(Save, "save"), Shared(Probe("test", {"set"}, "test"), "test")})

-----------------------------------------------------------------------------
\* Matches.

\* Creating one leads to its page.
NewMatchDrawer ==
  [Submit("create", {Gone}, "open", "new", "busy") EXCEPT !.ok = {"closes", "leaves"}]

\* A dry run is shown first; the job runs by and by, so the list is read again later.
ClearOldMatches ==
  [Submit("clear", {"finished"}, Gone, "clear", "clearing") EXCEPT !.ok = {"closes", "later"}]

PatchMatch == Switch("patch", {"open"})

MatchesPage ==
  [Listing EXCEPT !.start = {Gone, "open", "finished"}, !.modal = TRUE,
     !.ops = {NewMatchDrawer, ClearOldMatches, PatchMatch},
     !.forms = "new" :> "opened" @@ "clear" :> "opened",
     !.elsewhere = {<<"open", "finished">>, <<"open", "open">>}]

\* A section of the match page keeps its own draft and saves its own fields; the
\* answer is the whole match, and takes the place of the data.
Section(name, form) ==
  [Submit(name, {"open", "held"}, Same, form, name) EXCEPT !.ok = {"adopts", "refills"}]

\* The league is saved with the details, and is chosen anew with every section's answer.
ChooseLeague == Section("details", "league")
DetailsSection == {Section("details", "details"), ChooseLeague}
PricesSection == {Section("prices", "prices")}
LiveSection == {Section("live", "live")}

\* What the feed says of the match is shown, and belongs to the live section.
CheckResult ==
  [Submit("result", {"open", "held"}, Same, "live", "checking") EXCEPT !.needs = FALSE, !.ok = {"adopts"}]

DeleteMatch == [Try("delete", {"open", "held"}, Gone, "deleting") EXCEPT !.ok = {"leaves"}]

\* In-play betting is stopped for a reason, and opened again; either takes the reason
\* away.  The server stops it again if it was stopped, and opens it only if it was.
LiveControl ==
  {[op EXCEPT !.ok = {"closes", "adopts", "reads"}] :
     op \in {[Submit("hold", {"open"}, "held", "reason", "control") EXCEPT !.takes = {"open", "held"}],
             [Submit("release", {"held"}, "open", "reason", "control") EXCEPT !.needs = FALSE]}}

\* The sections and the league share the match: the answer to one of them takes the
\* place of all.
MatchPage ==
  [Table({"open"}, DetailsSection \cup PricesSection \cup LiveSection \cup {CheckResult}, {<<"open", "open">>})
     EXCEPT !.rows = {"details", "prices", "live"}, !.about = "details",
            !.forms = [f \in {"details", "prices", "live"} |-> "changed"] @@ "league" :> "read"]

\* The controls above the sections share it too, here with the section they are about.
MatchControls ==
  [Table({"open"}, LiveSection \cup LiveControl \cup {CheckResult, DeleteMatch},
         {<<"open", "open">>, <<"open", "held">>})
     EXCEPT !.rows = {"live", "reason"}, !.about = "reason",
            !.forms = "live" :> "changed" @@ "reason" :> "blank"]

\* Settling pays out, from a score or market by market.
SettleScore ==
  [Flagged(Act("score", {"open", "settled"}, "settled"), "busy") EXCEPT !.form = "score", !.needs = TRUE]
SettleMarket ==
  [Flagged(Act("market", {"open"}, "settled"), "busy") EXCEPT !.takes = {"open", "settled"}]

SettlePanel ==
  [Table({"open"}, {SettleScore, SettleMarket}, {<<"open", "settled">>}) EXCEPT !.forms = "score" :> "blank"]

\* Clearing leagues out of the way of players; a league's place is saved on leaving
\* the field.
SaveLeague ==
  {Submit("add", {Gone}, "on", "league", "busy"), Submit("edit", {"on"}, Same, "league", "busy")}

PatchLeague == Switch("patch", {"on"})

\* One request for all that are ticked; the ticks are cleared with another filter.
BulkLeagues == [Switch("bulk", {"on"}) EXCEPT !.form = "ticked", !.needs = TRUE,
                                                !.ok = {"closes", "reads"}, !.failed = {"closes", "reads"}]

RemoveLeague == Act("remove", {"on"}, Gone)

LeaguesPage ==
  [Table({Gone, "on"}, SaveLeague \cup {PatchLeague, BulkLeagues, RemoveLeague}, {<<"on", Gone>>})
     EXCEPT !.filters = TRUE, !.forms = "league" :> "opened" @@ "ticked" :> "blank"]

\* The odds feed's credentials: a draft appears once something is changed.
SaveFeed == Submit("save", {"set"}, Same, "draft", "saving")
TestFeed == Probe("test", {"set"}, "testing")

\* A job of the feed is started now; what it did is seen a few seconds later.
RunJob == [Flagged(Switch("run", {"set"}), "row") EXCEPT !.ok = {"later"}, !.failed = {"later"}]

FeedPage == Settings("draft" :> "opened", {SaveFeed, TestFeed, RunJob})

\* Settings of in-play betting: filled in anew from every answer, and a timer asks
\* for one every 15 seconds.
UnlockAll == [Try("unlock", {"set"}, Same, "busy") EXCEPT !.failed = {"reads"}]

LiveGuardPanel ==
  [Settings("form" :> "read", {UnlockAll, [Save EXCEPT !.needs = FALSE, !.failed = {"reads"}]})
     EXCEPT !.polls = "always"]

\* Cash-out settings, and with the same shape those of the affiliate programme.
CashoutSettingsPanel == Settings("form" :> "read", {Save})
ProgrammeSettings == Settings("form" :> "read", {Save})

\* Two panels that share a hook: betting rules and withdrawal limits.
UseSettings == [Save EXCEPT !.needs = FALSE]
BettingRulesPanel == Settings("form" :> "read", {UseSettings})
WithdrawalLimitsPanel == Settings("form" :> "read", {UseSettings})

\* Bets without a match are settled by hand.
SettleBet ==
  {[Try("settle", {"open"}, "settled", "row") EXCEPT !.failed = {"reads"}]}

BettingFeedsPage ==
  [Table({"open"}, SettleBet, {<<"open", "settled">>}) EXCEPT !.rows = Two]

-----------------------------------------------------------------------------
\* Players.

SuspendPlayer == [Submit("suspend", {"active"}, "suspended", "suspend", "busy") EXCEPT !.needs = FALSE]
UnsuspendPlayer == Try("unsuspend", {"suspended"}, "active", "busy")

\* Money is put on or taken off by hand: one request, one entry of the ledger.
AdjustBalance ==
  [Submit("adjust", {"active", "suspended"}, Same, "adjust", "busy") EXCEPT !.counts = TRUE]

PlayerDetailPage ==
  [Table({"active"}, {SuspendPlayer, UnsuspendPlayer, AdjustBalance}, {<<"active", "suspended">>})
     EXCEPT !.forms = "suspend" :> "opened" @@ "adjust" :> "blank"]

\* A freeze or a bonus block is switched for a player.
PlayerRisk == Table({"on"}, {Switch("toggle", {"on"})}, {<<"on", "on">>})

\* A player is deleted by typing the name; the check is asked for again on refusal.
DeletePlayer ==
  [Table({"empty", "has money"},
         {[Submit("delete", {"empty"}, Gone, "typed", "busy")
             EXCEPT !.ok = {"leaves"}, !.failed = {"reads"}]},
         {<<"empty", "has money">>})
     EXCEPT !.forms = "typed" :> "opened", !.modal = TRUE]

\* Seeing the site as a player does changes nothing here.
ImpersonateButton ==
  [Table({"there"}, {[Submit("start", {"there"}, Same, "reason", "busy")
                        EXCEPT !.takes = {}, !.ok = {"closes"}]}, {})
     EXCEPT !.forms = "reason" :> "opened", !.modal = TRUE]

\* Identity documents.  The server decides again whatever was decided before.
Decided == {"pending", "verified", "rejected"}

ApproveKYC == [Try("approve", {"pending"}, "verified", "row") EXCEPT !.takes = Decided]
RejectKYC == [Submit("reject", {"pending"}, "rejected", "reason", "row") EXCEPT !.takes = Decided]

KYCReviewPage ==
  [Table({"pending"}, {ApproveKYC, RejectKYC}, {<<"pending", "verified">>})
     EXCEPT !.rows = Two, !.forms = "reason" :> "opened"]

\* Cases of the fraud engine are closed with a note, which stays.
DecideCase ==
  {[Submit(name, {"open"}, name, "note", "busy") EXCEPT !.ok = {"reads"}, !.failed = {"reads"}]
     : name \in {"confirmed", "dismissed"}}

RiskCasePage ==
  [Table({"open"}, DecideCase, {<<"open", "dismissed">>, <<"open", "open">>}) EXCEPT !.forms = "note" :> "blank"]

RiskPage == [Listing EXCEPT !.elsewhere = {<<Gone, "there">>, <<"there", Gone>>}]
RiskSettingsPanel == Settings("form" :> "read", {UseSettings})

\* One conversation of the support inbox: what is sent is sent once.
ThreadPane ==
  [Settings("reply" :> "blank",
            {[Submit("send", {"set"}, Same, "reply", "busy") EXCEPT !.counts = TRUE]})
     EXCEPT !.polls = "always"]

SupportInboxPage == Polled

-----------------------------------------------------------------------------
\* The crash game.  All its forms are filled in from every answer; one flag tells
\* which of them is being saved.
SaveLimits == [Shared(Save, "save") EXCEPT !.form = "limits"]
SaveRain == [Shared(Save, "save") EXCEPT !.name = "rain form", !.form = "rain", !.needs = FALSE]
SaveBots == [Shared(Save, "bots") EXCEPT !.name = "bots", !.form = "bots"]
ToggleGame == Shared(Try("toggle", {"set"}, Same, "toggle"), "toggle")
ToggleBots == Shared(Try("bots on or off", {"set"}, Same, "bots"), "bots")

\* Rain now, hiding a message, muting a player: after a confirmation, no flag.
PostNow == Switch("now", {"set"})

CrashGamePage ==
  Settings([f \in {"limits", "bots"} |-> "read"],
           {SaveLimits, SaveBots, ToggleGame, ToggleBots, PostNow})

\* The round in the air and the takings.
CrashGameStats == [Polled EXCEPT !.filters = FALSE]

ChatAndRain == Settings("rain" :> "read", {SaveRain, PostNow})

-----------------------------------------------------------------------------
\* What players are offered.

\* A form for a new banner or an old one, in the page itself.
SaveBanner ==
  {Submit("create", {Gone}, "on", "form", "saving"),
   [Raw(Submit("edit", {"on"}, Same, "form", "saving")) EXCEPT !.needs = FALSE]}

\* What comes of these is not looked at; the list is read again.
ToggleBanner == Raw(Switch("toggle", {"on"}))
DeleteBanner == Raw(Act("delete", {"on"}, Gone))

BannersPage ==
  [Table({Gone, "on"}, SaveBanner \cup {ToggleBanner, DeleteBanner}, {<<"on", "on">>, <<"on", Gone>>})
     EXCEPT !.forms = "form" :> "opened"]

AnnouncementEditor ==
  Settings("form" :> "read", {[UseSettings EXCEPT !.failed = {"reads"}]})

SavePromotion ==
  {Submit("create", {Gone}, "on", "form", "saving"),
   [Raw(Submit("edit", {"on"}, Same, "form", "saving")) EXCEPT !.needs = FALSE]}
TogglePromotion == Raw(Switch("toggle", {"on"}))
DeletePromotion == Raw(Act("delete", {"on"}, Gone))

PromotionsPage ==
  [Table({Gone, "on"}, SavePromotion \cup {TogglePromotion, DeletePromotion},
         {<<"on", "on">>, <<"on", Gone>>})
     EXCEPT !.forms = "form" :> "opened"]

SaveTier == {Submit("add", {Gone}, "on", "form", "busy"), Submit("edit", {"on"}, Same, "form", "busy")}

DepositBonuses ==
  [Table({Gone, "on"}, SaveTier \cup {Switch("toggle", {"on"}), Act("remove", {"on"}, Gone)}, {<<"on", Gone>>})
     EXCEPT !.forms = "form" :> "opened", !.modal = TRUE]

SavePromoCode == {Submit("add", {Gone}, "on", "editing", "busy"), Submit("edit", {"on"}, Same, "editing", "busy")}

PromoCodesPage ==
  [Table({Gone, "on"}, SavePromoCode \cup {Switch("toggle", {"on"})}, {<<"on", "on">>})
     EXCEPT !.forms = "editing" :> "opened", !.modal = TRUE]

\* The brand's name and pictures, and the colours of its two themes: a raw fetch.
SaveIdentity == Raw(UseSettings)
SaveTheme == Raw(UseSettings)
IdentitySection == Settings("form" :> "read", {SaveIdentity})
BrandingPage == Settings("form" :> "read", {SaveTheme})

-----------------------------------------------------------------------------
\* Affiliates.

\* The terms of the affiliate whose row is open.
TermsEditor == [Submit("terms", {"pending", "active"}, Same, "terms", "busy") EXCEPT !.needs = FALSE]

\* The server sets whatever status it is told.
SetStatus(name, on, to) == [Act(name, on, to) EXCEPT !.takes = {"pending", "active", "suspended", "rejected"}]

AffiliatesTab ==
  [Listing EXCEPT !.start = {"pending", "active"}, !.forms = "terms" :> "opened",
     !.ops = {TermsEditor, SetStatus("approve", {"pending"}, "active"),
              SetStatus("reject", {"pending"}, "rejected"),
              SetStatus("suspend", {"active"}, "suspended"),
              SetStatus("activate", {"suspended", "rejected"}, "active")},
     !.elsewhere = {<<"pending", "rejected">>, <<"active", "suspended">>}]

\* A commission is approved or rejected once; the button stays when it is approved.
ReviewCommission ==
  {[Shared(Act("approve", {"pending", "approved"}, "approved"), "row") EXCEPT !.takes = {"pending"}],
   Shared(Act("reject", {"pending"}, "rejected"), "row")}
RunCommissions == Shared(Act("run", {Gone}, "pending"), "run")

CommissionsTab ==
  [Listing EXCEPT !.start = {Gone, "pending"}, !.ops = ReviewCommission \cup {RunCommissions},
     !.elsewhere = {<<"pending", "approved">>}]

AffiliateAnalyticsPanel == Polled

-----------------------------------------------------------------------------
\* Pages that only show.

\* The tickets are read again on a timer once that is switched on.
TicketsPage == Listing
LiveTickets == Polled
\* Further pages of the list are dropped when the first is read again.
TicketList == Listing
TicketDrawer == Listing
PlayerActivity == Listing
AuditLogPage == Listing
TransactionsPage == Listing
UsersPage == Listing
AnalyticsPage == Polled
DashboardPage == [Polled EXCEPT !.filters = FALSE]
ProfitPanel == Listing
LeaguePicker == Listing
NavLinks == [Listing EXCEPT !.filters = FALSE]

\* Signing in leads elsewhere.
LoginPage ==
  Settings("form" :> "blank", {[Submit("login", {"set"}, Same, "form", "submitting") EXCEPT !.takes = {"set"}, !.ok = {"leaves"}]})
=============================================================================
