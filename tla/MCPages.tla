------------------------------ MODULE MCPages -------------------------------
(***************************************************************************)
(* All pages of the console and of the site, each by itself: Init chooses  *)
(* one.  Pages that come to the same description are checked once.         *)
(***************************************************************************)
EXTENDS Page

Console == INSTANCE ConsolePages
Site == INSTANCE SitePages

Money ==
  {Console!WithdrawalsPage, Console!PayoutsTab, Console!DepositRefund,
   Console!PaymentMethodsPage, Console!GatewayPanel, Console!ProfitPanel,
   Console!TransactionsPage}

Sportsbook ==
  {Console!MatchesPage, Console!MatchPage, Console!MatchControls,
   Console!SettlePanel, Console!LeaguesPage, Console!FeedPage, Console!LiveGuardPanel,
   Console!CashoutSettingsPanel, Console!BettingRulesPanel, Console!WithdrawalLimitsPanel,
   Console!BettingFeedsPage, Console!TicketsPage, Console!LiveTickets, Console!TicketList, Console!TicketDrawer,
   Console!LeaguePicker}

Players ==
  {Console!PlayerDetailPage, Console!PlayerRisk, Console!DeletePlayer,
   Console!ImpersonateButton, Console!KYCReviewPage, Console!RiskCasePage, Console!RiskPage,
   Console!RiskSettingsPanel, Console!ThreadPane, Console!SupportInboxPage,
   Console!PlayerActivity, Console!UsersPage, Console!AuditLogPage}

Offers ==
  {Console!CrashGamePage, Console!CrashGameStats, Console!ChatAndRain, Console!BannersPage,
   Console!AnnouncementEditor, Console!PromotionsPage, Console!DepositBonuses,
   Console!PromoCodesPage, Console!IdentitySection, Console!BrandingPage,
   Console!AffiliatesTab, Console!CommissionsTab, Console!ProgrammeSettings,
   Console!AffiliateAnalyticsPanel, Console!AnalyticsPage, Console!DashboardPage,
   Console!NavLinks, Console!LoginPage}

PlayersSite ==
  {Site!ProfilePage, Site!CasinoHistoryPage, Site!MyBetsPage, Site!AgentTicketsPage,
   Site!TicketView, Site!NotificationsPage, Site!LimitSection, Site!ExclusionSection,
   Site!PrivacySection, Site!VerificationPage, Site!WithdrawPanel, Site!WalletPage,
   Site!SiteHeader, Site!CashoutPanel, Site!MyBets, Site!Apply, Site!PayoutDialog,
   Site!Dashboard, Site!PeriodReport, Site!PromotionsPage, Site!DepositBonuses,
   Site!TournamentsPage, Site!CasinoLobby, Site!GamePage, Site!WinnersTicker,
   Site!AnnouncementBar, Site!GlobalSearch, Site!SupportChatPage, Site!RegisterPage,
   Site!LoginForm, Site!ResetPasswordForm, Site!VerifyEmailContent, Site!ForgotPasswordPage}

MCPages == Money \cup Sportsbook \cup Players \cup Offers \cup PlayersSite

\* The pages with a handler that does not lift its flag where fetch throws.
Forgetful ==
  {Site!LimitSection, Console!BannersPage, Console!PromotionsPage, Console!IdentitySection,
   Console!BrandingPage}

\* On the other pages no control stays disabled once nothing is under way: their handlers
\* (try and finally, or a helper that turns every failure into an answer) lift their
\* flag on every way out.  TLC finds FlagsAreLifted violated on the five above.
ButtonsComeBack == page \notin Forgetful => FlagsAreLifted

\* What the proof of OncePerDraft asks of pages holds of these.
ASSUME FormsAreGuarded
=============================================================================
