---------------------------- MODULE MCBackOffice ----------------------------
(* The back office on small instances.  The modules about tables that the   *)
(* requests, scripts and connections of the API change, and about the pages *)
(* that are filled from them, share no state, so a behaviour is a behaviour *)
(* of one of them: Init picks the part.  The state space is the sum of      *)
(* theirs.  The variables s1, s2, ... stand for those of the part picked.   *)
EXTENDS TLC

CONSTANTS
  Companies, Requests,
  Notes, MaxAsks, MaxBreaks,                  \* NotificationBell
  Blocks, Kanban, MaxEdits, MaxSaves, MaxVisits, \* PageEditor
  PageIds, Top,                               \* ProjectPages
  UserLinks, Works, Conns,                    \* AccountLinks
  Procs, Admins, Files, MaxRuns,              \* Installer
  Users, Emails,                              \* Team
  Clients, Vats, NoVat, Bad, Imports, MaxRows, \* ClientBook
  Kinds, Sessions, Seeds,                     \* FirstUse
  Calls, MaxList,                             \* Campaigns
  None,
  Panel, Cards, MaxTypes, FieldSaves,         \* RecordFields
  Viewers, Records, Columns, Extra, First, FollowRaces, \* RecordBoard
  Screens, Overridable, Values, LinkSaves,    \* ClientLinks
  FileIds, StepIds, PluginIds, Workbooks, Configs, MaxBlocks, MaxActs, \* MiniProgram
  Initials, MaxNumber, MaxDocs, MaxMoves,     \* CmrDesk
  Texts, Widgets, MaxTyped, MaxChanges,       \* TextCanvas
  Codes, EU, Named, Home, Outside, Greece, EL, \* SmartVat
  Names, Headers, MaxSteps, BuilderActs,      \* Pipeline
  Tabs, Apps, People, Guest,                  \* AuthSession
  Views, Table, Board, ViewTypes, Toolbar, Settings, ViewEdits, \* ViewConfig
  MaxProfileEdits, MaxGets, MaxPuts,          \* ProfilePage
  RuleIds, Members, Accounts, Projects, Strangers, MaxWrites \* KpiRules

VARIABLES
  part,   \* which module's behaviour this is
  s1, s2, s3, s4, s5, s6, s7, s8, s9, s10, s11, s12, s13, s14, s15, s16

vars == <<part, s1, s2, s3, s4, s5, s6, s7, s8, s9, s10, s11, s12, s13, s14, s15, s16>>

Bell == INSTANCE NotificationBell WITH
  row <- s1, emitting <- s2, wire <- s3, breaks <- s4, list <- s5, count <- s6, listing <- s7, counting <- s8,
  asks <- s9, marked <- s10, markedAll <- s11, slipped <- s12, twice <- s13, skewed <- s14
Editor == INSTANCE PageEditor WITH
  Board <- Kanban, careful <- s1, stored <- s2, last <- s3, cached <- s4, visits <- s5, open <- s6,
  config <- s7, dirty <- s8, armed <- s9, saves <- s10, issued <- s11, gate <- s12, typed <- s13, behind <- s14,
  parting <- s15, meddled <- s16
Pp == INSTANCE ProjectPages WITH
  Ids <- PageIds, page <- s1, used <- s2, req <- s3, crossed <- s4, cut <- s5, given <- s6
Al == INSTANCE AccountLinks WITH
  Links <- UserLinks, idle <- s1, tx <- s2, pending <- s3, done <- s4, req <- s5, answered <- s6, crossed <- s7
In == INSTANCE Installer WITH
  Emails <- Admins, base <- s1, ext <- s2, applied <- s3, admins <- s4, env <- s5, proc <- s6, runs <- s7,
  forced <- s8, torn <- s9, crossed <- s10
Te == INSTANCE Team WITH
  companies <- s1, users <- s2, token <- s3, assigned <- s4, req <- s5, stale <- s6
Cb == INSTANCE ClientBook WITH
  vat <- s1, imp <- s2, crossed <- s3, typed <- s4, edited <- s5
Fu == INSTANCE FirstUse WITH
  kind <- s1, count <- s2, own <- s3, ask <- s4, crossed <- s5
Ca == INSTANCE Campaigns WITH
  call <- s1, row <- s2, mails <- s3, blind <- s4
Property == INSTANCE RecordFields WITH
  MaxSaves <- FieldSaves, stored <- s1, cached <- s2, field <- s3, editing <- s4, saves <- s5, issued <- s6,
  typed <- s7, swallowed <- s8, trampled <- s9, failed <- s10
Kan == INSTANCE RecordBoard WITH
  Cards <- Records, Users <- Viewers, schema <- s1, card <- s2, view <- s3, hidden <- s4, call <- s5,
  raced <- s6
Overrides == INSTANCE ClientLinks WITH
  Fields <- Overridable, MaxSaves <- LinkSaves, link <- s1, shown <- s2, sent <- s3, saves <- s4, wanted <- s5,
  outdated <- s6, reattached <- s7
Mini == INSTANCE MiniProgram WITH
  Files <- Workbooks, NoneYet <- None, program <- s1, used <- s2, source <- s3, cfg <- s4, inputs <- s5,
  outputs <- s6, sig <- s7, token <- s8, runs <- s9, reading <- s10, acts <- s11, forgotten <- s12,
  pressed <- s13
Desk == INSTANCE CmrDesk WITH
  Nobody <- None, staff <- s1, current <- s2, start <- s3, history <- s4, batch <- s5, ready <- s6, ops <- s7,
  generating <- s8, pdf <- s9, kept <- s10, loaded <- s11, dirty <- s12, docs <- s13, moves <- s14,
  excused <- s15
Canvas == INSTANCE TextCanvas WITH
  Nothing <- None, shown <- s1, queued <- s2, dom <- s3, focus <- s4, armed <- s5, onPage <- s6, menu <- s7,
  query <- s8, items <- s9, seq <- s10, fetches <- s11, changes <- s12, typed <- s13, cut <- s14
Vat == INSTANCE SmartVat WITH
  supplier <- s1, client <- s2, vatId <- s3, result <- s4
Pipe == INSTANCE Pipeline WITH
  NoColumn <- None, NoFile <- None, MaxActs <- BuilderActs, keys <- s1, steps <- s2, headers <- s3,
  loaded <- s4, fileName <- s5, parsing <- s6, uploads <- s7, acts <- s8, overtaken <- s9
Session == INSTANCE AuthSession WITH
  app <- s1, cookie <- s2, mirror <- s3, shown <- s4, check <- s5, entering <- s6, bare <- s7, socket <- s8,
  hears <- s9, outlived <- s10, behind <- s11, over <- s12, revived <- s13
Vc == INSTANCE ViewConfig WITH
  Types <- ViewTypes, MaxEdits <- ViewEdits, type <- s1, row <- s2, page <- s3, cache <- s4, local <- s5,
  call <- s6, edits <- s7, list <- s8, creating <- s9, overlap <- s10, astray <- s11, blind <- s12
Profile == INSTANCE ProfilePage WITH
  kind <- s1, row <- s2, session <- s3, check <- s4, tab <- s5, form <- s6, loads <- s7, saves <- s8,
  saving <- s9, edits <- s10, typed <- s11, known <- s12, settled <- s13, crossed <- s14, unseen <- s15,
  lost <- s16
Kpi == INSTANCE KpiRules WITH
  rules <- s1, gone <- s2, assigned <- s3, req <- s4, writes <- s5, run <- s6, results <- s7, changed <- s8

\* A module that has fewer variables leaves the last ones alone.
Blank16 == s16 = 0
Blank15 == s15 = 0 /\ Blank16
Blank14 == s14 = 0 /\ Blank15
Blank13 == s13 = 0 /\ Blank14
Blank12 == s12 = 0 /\ Blank13
Blank11 == s11 = 0 /\ Blank12
Blank10 == s10 = 0 /\ Blank11
Blank9 == s9 = 0 /\ Blank10
Blank8 == s8 = 0 /\ Blank9
Blank7 == s7 = 0 /\ Blank8
Blank6 == s6 = 0 /\ Blank7
Blank5 == s5 = 0 /\ Blank6

Still16 == UNCHANGED s16
Still15 == UNCHANGED s15 /\ Still16
Still14 == UNCHANGED s14 /\ Still15
Still13 == UNCHANGED s13 /\ Still14
Still12 == UNCHANGED s12 /\ Still13
Still11 == UNCHANGED s11 /\ Still12
Still10 == UNCHANGED s10 /\ Still11
Still9 == UNCHANGED s9 /\ Still10
Still8 == UNCHANGED s8 /\ Still9
Still7 == UNCHANGED s7 /\ Still8
Still6 == UNCHANGED s6 /\ Still7
Still5 == UNCHANGED s5 /\ Still6

Init ==
  \/ part = "bell" /\ Bell!Init /\ Blank15
  \/ part = "editor" /\ Editor!Init
  \/ part = "pages" /\ Pp!Init /\ Blank7
  \/ part = "account" /\ Al!Init /\ Blank8
  \/ part = "install" /\ In!Init /\ Blank11
  \/ part = "team" /\ Te!Init /\ Blank7
  \/ part = "clients" /\ Cb!Init /\ Blank6
  \/ part = "first" /\ Fu!Init /\ Blank6
  \/ part = "mail" /\ Ca!Init /\ Blank5
  \/ part = "fields" /\ Property!Init /\ Blank11
  \/ part = "kanban" /\ Kan!Init /\ Blank7
  \/ part = "links" /\ Overrides!Init /\ Blank8
  \/ part = "program" /\ Mini!Init /\ Blank14
  \/ part = "cmr" /\ Desk!Init /\ Blank16
  \/ part = "text" /\ Canvas!Init /\ Blank15
  \/ part = "vat" /\ Vat!Init /\ Blank5
  \/ part = "pipeline" /\ Pipe!Init /\ Blank10
  \/ part = "session" /\ Session!Init /\ Blank14
  \/ part = "views" /\ Vc!Init /\ Blank13
  \/ part = "profile" /\ Profile!Init
  \/ part = "kpi" /\ Kpi!Init /\ Blank9

Next ==
  /\ part' = part
  /\ \/ part = "bell" /\ Bell!Next /\ Still15
     \/ part = "editor" /\ Editor!Next
     \/ part = "pages" /\ Pp!Next /\ Still7
     \/ part = "account" /\ Al!Next /\ Still8
     \/ part = "install" /\ In!Next /\ Still11
     \/ part = "team" /\ Te!Next /\ Still7
     \/ part = "clients" /\ Cb!Next /\ Still6
     \/ part = "first" /\ Fu!Next /\ Still6
     \/ part = "mail" /\ Ca!Next /\ Still5
     \/ part = "fields" /\ Property!Next /\ Still11
     \/ part = "kanban" /\ Kan!Next /\ Still7
     \/ part = "links" /\ Overrides!Next /\ Still8
     \/ part = "program" /\ Mini!Next /\ Still14
     \/ part = "cmr" /\ Desk!Next /\ Still16
     \/ part = "text" /\ Canvas!Next /\ Still15
     \/ part = "vat" /\ Vat!Next /\ Still5
     \/ part = "pipeline" /\ Pipe!Next /\ Still10
     \/ part = "session" /\ Session!Next /\ Still14
     \/ part = "views" /\ Vc!Next /\ Still13
     \/ part = "profile" /\ Profile!Next
     \/ part = "kpi" /\ Kpi!Next /\ Still9

Spec == Init /\ [][Next]_vars

\* The members of each of these differ in nothing and no module chooses among them.
\* The tabs are called what the requests are: a permutation of these is one of those.
Symmetry == UNION {Permutations(S) : S \in {Requests, Apps, People}}

-----------------------------------------------------------------------------
(* Properties, as their modules state them                                 *)

\* What arrives late leaves nothing outdated on the screen: an unread note is in
\* the bell's list, once, and the badge counts them (useNotifications.ts); the rows
\* a plugin computed are those of its input as it is (PluginTransformRunner.tsx); the
\* columns a builder offers are those the rows have (engine.ts); the mentions offered
\* are those of what was typed (EditableRichText.tsx); the user shown is the one
\* whose session is stored (AuthContext.tsx).
ShownIsCurrent ==
  /\ part = "bell" => Bell!TypeOK /\ Bell!UnreadShown /\ Bell!BadgeMatches
  /\ part = "program" => Mini!TypeOK /\ Mini!SourcesExist /\ Mini!PluginsCurrent
  /\ part = "pipeline" => Pipe!PaletteIsActual /\ Pipe!MappingFits /\ Pipe!NamedRight
  /\ part = "text" => Canvas!MentionsCurrent
  /\ part = "session" => Session!SessionSound

\* What was typed into a page, a record's field or a card is stored in the end
\* (the autosave of page.tsx, PropertyField.tsx, BoardCard.tsx), what was typed into
\* an editor reaches the page (EditableRichText.tsx), and a profile that is reported
\* saved is (profile/page.tsx).
EditsAreSaved ==
  /\ part = "editor" => Editor!TypeOK /\ Editor!EditsKept /\ Editor!RetriedOnLeaving
  /\ part = "fields" => Property!TypeOK /\ Property!TypedIsSaved
  /\ part = "profile" => Profile!TypeOK /\ Profile!SettledIsStored
  /\ part = "text" => Canvas!TypeOK /\ Canvas!TypedReachesPage /\ Canvas!TimerPending

\* A project's pages have places of their own and one default, which is not lost
\* (projects.repository.ts).
PagesInOrder == part = "pages" => Pp!TypeOK /\ Pp!OneDefault /\ Pp!DefaultKept /\ Pp!OrdersDiffer

\* A link that verifies an address or resets a password is used whole, and what
\* was answered meanwhile stays (authController.ts).
LinksUsedWhole == part = "account" => Al!TypeOK /\ Al!LinkUsedWhole /\ Al!AnsweredIsKept

\* A system with a company in it is installed whole, once, and with its own
\* secrets (install.ts, migrate.ts).
InstalledWhole == part = "install" => In!TypeOK /\ In!InstalledIsWhole /\ In!SecretsWithCompany /\ In!MigratedOnce

\* A company keeps an admin, and its projects, rules and results its own people
\* (team.service.ts, kpi.service.ts).
CompanyKept ==
  /\ part = "team" => Te!TypeOK /\ Te!AdminKept /\ Te!AssignedInside
  /\ part = "kpi" => Kpi!TypeOK /\ Kpi!OwnSubjects

\* Requests that look first and insert later leave one row where one is meant,
\* and tell the user what is there (crm.service.ts, chat.routes.ts, yard.service.ts);
\* a consignment note's number is given once (CmrWorkspace.tsx).
ThereOnce ==
  /\ part = "clients" => Cb!TypeOK /\ Cb!VatOnce /\ Cb!ReportedIsThere
  /\ part = "first" => Fu!TypeOK /\ Fu!ShownIsThere /\ Fu!SeededOnce
  /\ part = "cmr" => Desk!TypeOK /\ Desk!NumberOnce /\ Desk!PdfIsItsOwn

\* What is noted of an outcome is what came of it: a campaign mails nobody twice and
\* notes what went (campaigns.service.ts); a run of KPI rules reports what it stored,
\* about the targets of each rule (kpi.service.ts); an invoice's VAT treatment is the one of the
\* parties, and is flagged where they are not understood (vat.service.ts).
OutcomeNoted ==
  /\ part = "mail" => Ca!TypeOK /\ Ca!NotesMatchMail /\ Ca!MailedOnce
  /\ part = "kpi" => Kpi!AnsweredIsStored /\ Kpi!AboutTheTarget
  /\ part = "vat" => Vat!TablesFit /\ Vat!MatrixKept /\ Vat!UnknownIsFlagged

\* What is written back whole from a screen takes nothing of others away: columns
\* under cards, properties of records, overrides of links (BoardColumn.tsx, page.tsx),
\* the choices of a view (FilterSortToolbar.tsx), and what a form of the profile
\* shows without having been typed into (profile/page.tsx).
WrittenBackWhole ==
  /\ part = "kanban" => Kan!TypeOK /\ Kan!CardsHaveColumns /\ Kan!RecordsFitSchema
  /\ part = "links" => Overrides!TypeOK /\ Overrides!OverridesKept
  /\ part = "views" => Vc!TypeOK /\ Vc!ChoicesKept /\ Vc!CachedAsItself /\ Vc!OneOfAType
  /\ part = "profile" => Profile!OnlyTypedIsChanged

=============================================================================
