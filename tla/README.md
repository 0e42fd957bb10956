# VECTRA Platform: a TLA+ verification project

Modules, model-checking configurations and machine-checked proofs about the VECTRA logistics
platform. Paths below are relative to the repository root.

## 1. The system

The platform is a TypeScript monorepo. `apps/api` is an Express server over PostgreSQL; the
cockpit (`apps/workspaces`), the marketplace and the driver's CMR app are Next.js clients of it.
A Redis queue feeds one worker, and `services/matching-engine` is a stateless Python scorer.

One fact shapes the whole model. A request handler is a chain of `await db.query(...)` calls on a
connection *pool*, each committed on its own: there is hardly a transaction in the code. Every
`await` is therefore a point where other requests run, where the process may die and where a
statement may throw. A handler is modelled as a small process with a program counter and one
action per statement (statements that nothing can tell apart are merged). What protects the data
is the WHERE clause of an UPDATE, a unique index or a foreign key, and those are what the
properties are about.

### Quote to cash: delivery (`domains/pod`)

- **State**: `pod_requests` (status, token expiry, client, shipment, agreed rate, document),
  `documents`, `shipments.status`.
- **Operations**: `create` (credit check, second check for a defaulted rate, INSERT), `attachPod`
  (find by token, refuse, insert document, consume the link by a guarded UPDATE, flag the
  shipment, draft the invoice), `simulateArrival` (a `create` without a client), document delete.
- **Interaction**: calls `invoicingService.assertCreditOk` before minting and
  `autoDraftInvoice` after the delivery; events on the company's socket room.
- **Hard**: two uploads of one link; expiry between check and UPDATE; a document deleted under a
  running upload; death between any two statements.
- **Correct when**: a link is consumed once, by the photo on record; a shipment is flagged only
  with a proof; a consumed link never changes again.

### Quote to cash: billing (`domains/billing`)

- **State**: `clients` (limit, default rate, VAT data, balance), `invoices` (number, status, amounts).
- **Operations**: client create and update, `assertCreditOk`, `autoDraftInvoice` (read the client,
  count for a number, INSERT), `approveInvoice` and `markPaid` (guarded UPDATE of the status, then
  UPDATE of the balance).
- **Hard**: two drafts counting at once against a unique index; a request dying between the status
  and the balance; double clicks.
- **Correct when**: numbers have no gap and no repeat; every approval and payment reaches the
  balance exactly once; a delivery is billed once, to its client, at its rate.

### Inbox drafts (`domains/inbox`)

- **State**: `shipment_drafts` (extracted fields, verdict of the validator, status).
- **Operations**: ingest (extract, validate, INSERT), edit (read, merge, validate again, UPDATE),
  confirm and reject (read, check, UPDATE).
- **Hard**: what an edit or a confirmation read is stale when it writes.
- **Correct when**: the stored verdict is about the stored content, a confirmation is backed by a
  valid draft and is not taken back.

### Groupage matching (`domains/ltl`)

- **State**: `partial_loads` and `ltl_suggestions` with a partial unique index.
- **Operations**: create a partial, scan (seed, list, ask the engine, then DELETE and INSERT per
  partial), accept (two statements), dismiss.
- **Hard**: two scans at once; a scan replacing the suggestion a dispatcher accepts.
- **Correct when**: a partial has one live suggestion, about an open load; accepting matches it.

### Yard and gate (`domains/yard`)

- **State**: zones, slots with a status, assets with a slot: the occupancy is stored twice.
- **Operations**: draw or seed a zone with its slots, delete it, check in at the gate (pick a slot,
  find the asset, free, assign, occupy), move on the map (find, free, occupy, assign).
- **Hard**: picking and occupying are far apart; assets have no unique identifier; nothing is one
  transaction; a dispatcher chooses a slot on a map that may be outdated, and the server does not check it.
- **Correct when**: a slot is occupied exactly when one asset is on it, and an asset exists once.

### Outlook synchronisation (`domains/outlook`, `workers/email.worker.ts`)

- **State**: the connection (tokens, status, watermark) and the copied mails.
- **Operations**: connect, disconnect, refresh a token (by the sweep, campaigns or the calendar),
  sweep (list from the watermark, store row by row, stamp).
- **Hard**: a refresh under way when the user disconnects; mail sent while a sweep runs.
- **Correct when**: no mail falls behind the watermark unstored; the tokens are those the user wants.

### Accounts and team (`controllers/authController.ts`, `domains/team`)

- **State**: companies, users with a role, verification and reset tokens, project assignments; the
  role a session acts with is the one in its JWT.
- **Operations**: signup, login, following a link, adding and removing members, roles, assignments.
- **Hard**: `BEGIN` and `COMMIT` sent to a pool that lends each statement another connection; an error
  branch without `ROLLBACK`; a token that outlives the role it names.
- **Correct when**: a link is used whole or not at all; a company keeps an admin.

### Clients, campaigns and first use (`domains/crm`, `campaigns`, `chat`, `yard`)

- **State**: clients with a VAT id, their links to projects with overrides, their page, chat threads,
  campaigns with one row per recipient, demonstration rows.
- **Operations**: create, edit and bulk import clients; link a project, edit one override; open what is
  not there yet; send a campaign recipient by recipient.
- **Hard**: find, then insert; a loop of statements that fails half-way; an edit of one field that sends
  all of them.
- **Correct when**: there is one row where one is meant, the report says what is there, a recipient's note
  says what was sent.

### KPI rules (`domains/kpi`)

- **State**: rules with a source and their targets (a project, a member, a client), one result row per
  output of a run.
- **Operations**: create, update and delete a rule; run: list the active rules, evaluate each, insert row by
  row.
- **Hard**: targets are checked in one statement and stored in another; rules and members go during a run.
- **Correct when**: results are about the company's own people and the targets of their rule, and a run
  that is answered stored all it reports.

### Folders, projects and pages (`domains/folders`, `domains/projects`)

- **State**: a folder tree per company, the projects in it; pages with order, parent and one default.
- **Operations**: create, move, delete; make a page the default in two statements.
- **Hard**: a move walks up the tree one query at a time and then writes; two requests, or a crash,
  between clearing the old default and setting the new one.
- **Correct when**: the tree has no circle, orders differ, the default page is not lost.

### Editors of the cockpit (`apps/workspaces/src`)

- **State**: blocks on a canvas, a draft per field, timers, saves under way, the query cache.
- **Operations**: typing, commits on blur and by timer, slash and mention menus, autosave, the
  migration of a legacy board, saves of a record's property map or of a schema.
- **Hard**: two debounces in a row (the text to the page, the page to the server), leaving before either
  fires, answers that arrive in another order, whole objects saved from an outdated copy.
- **Correct when**: what was typed last is what is stored in the end.

Views of a collection are a second kind of editor: two menus buffer what is chosen and store the whole
configuration of the view at every choice, and a switcher turns to another view or creates it.

### Session and profile (`packages/auth`, `controllers/profileController.ts`)

- **State**: a cookie that all tabs and apps of a browser share, its mirror in the localStorage of each
  app, the user in the state of each tab, the socket opened with it; the forms of the profile page.
- **Operations**: load, check with `/auth/me`, sign in and out, a 401; forms filled by the session or by
  loads and saved whole.
- **Hard**: a check answered after a sign-out, other tabs, a 401 to a request that had no token; a form
  saved before it was loaded, or loaded while it is typed into.
- **Correct when**: a tab shows the user it acts for and hears that user's events; who signed out stays
  out; a save changes what was typed and nothing else.

### Live boards and the bell (`packages/data/src`, `lib/hooks`, `core/realtime`)

- **State**: a query-cache entry per board, written by answers, socket events and mutations.
- **Hard**: the three writers know nothing of each other; a dropped socket loses events for good.
- **Correct when**: a quiet board shows what the database has; an unread note is in the list once, and
  the badge counts it.

### Installation (`scripts/install.ts`, `scripts/migrate.ts`)

- **State**: base schema, extensions, applied migrations, the first company, the `.env` file.
- **Hard**: a kill between any two steps, a second run, two runners at once, `--force`.
- **Correct when**: a system that has a company is whole.

### Programs (`lib/miniProgram`, `lib/programBuilder`)

- **State**: a mini program's blocks with their sources, files read, plugin outputs computed in a worker;
  a linear pipeline's column mapping and steps.
- **Hard**: a plugin's answer to an earlier input; sources that are removed or moved; what the builder
  predicts against what the engine does.
- **Correct when**: outputs belong to the present input; the columns that are offered exist.

### CMR desk (`apps/cmr`)

- **State**: users with a running number, a form, an imported batch, the history and the PDFs in IndexedDB.
- **Hard**: the number is read when a note is begun and counted on when it is saved; everything is
  persisted whole.
- **Correct when**: a number is given once, and what is downloaded for a note is its own document.

### Smart VAT (`domains/billing/vat.service.ts`)

A decision table over two country fields and a VAT id: correct when it is the matrix at its head,
wherever the fields are understood, and when a country that is not is flagged.

### The rest

| part | what it does | why it is not modelled |
|---|---|---|
| Marketplace, matching worker | publish, assign, book, match loads | the statements name statuses, columns and tables the schema lacks, so no load changes state |
| Workspaces and presets | insert the rows of a preset one by one | independent inserts of fixed rows; a second installation adds what the first one left out |
| Fleet quotes, scorer, route geometry | floating-point estimates | no state; arithmetic TLC has no numbers for |
| AI providers, integrations, webhooks, automation | configuration rows, calls to outside, logging | no behaviour of its own |
| Static pages, the marketplace's pages, the fleet and route pages | forms and demonstration data | rendering |

## 2. The modules

| module | models | source |
|---|---|---|
| `PodRequests` | delivery links, uploads, dispatcher calls, document deletion | `domains/pod`, `documents.repository.ts` |
| `Invoicing` | clients, invoices, drafting, approval and payment | `domains/billing` |
| `QuoteToCash` | the two composed over one database | both |
| `InvoiceBook` | abstract: entries under consecutive numbers, each delivery once | what the loop promises |
| `InboxDrafts` | drafts, edits and marks between their read and their write | `domains/inbox` |
| `LtlMatching` | partial loads, suggestions, scans and desks | `domains/ltl`, migration 020 |
| `Yard` | zones, slots, assets and the statements of the requests on them | `domains/yard`, migration 016 |
| `OutlookSync` | one connection, its token users, its sweep, the mail | `domains/outlook`, `email.worker.ts` |
| `LiveBoard` | a board: query answers, socket events, mutations | `lib/hooks`, `core/realtime`, `socket.ts` |
| `NotificationBell` | the bell's list and counter | `domains/notifications`, `packages/data/src/notifications` |
| `PageEditor` | a page's autosave and the migration of its board | `projects/[id]/pages/[pageId]/page.tsx`, `kanbanMigration.ts`, ... |
| `TextCanvas` | blocks and text editors up to the page's configuration | `LivePageCanvas.tsx`, `EditableRichText.tsx`, `mentionMenu.ts` |
| `RecordFields` | the text fields of a record and their saves | `PropertyField.tsx`, `BoardCard.tsx`, `domains/records` |
| `RecordBoard` | schema, cards and columns | `components/projectPage/board`, `domains/records` |
| `ViewConfig` | the views of a collection, their menus and the switch | `components/projectPage/board`, `useRecords.ts`, `domains/records` |
| `AuthSession` | the session of a browser: tabs, apps, sockets | `packages/auth`, `client.ts`, `socket.ts`, `useSocket.ts` |
| `ProfilePage` | a form of the profile page and its handlers | `app/profile/page.tsx`, `profileController.ts` |
| `Folders` | the folder tree, moves walked query by query | `domains/folders` |
| `ProjectPages` | order, nesting and default of pages | `domains/projects` |
| `AccountLinks` | following a link, over a pool of connections | `authController.ts`, `core/db` |
| `Team` | accounts, roles, members, assignments | `domains/team`, `authController.ts`, `core/auth` |
| `ClientBook` | clients by VAT id, the bulk import | `domains/crm`, `ImportClientsModal.tsx` |
| `ClientLinks` | links of a client with overrides | `domains/crm`, `records/[clientId]/page.tsx` |
| `FirstUse` | what the first session to ask creates | `domains/crm`, `chat`, `yard` |
| `Campaigns` | the send loop and its notes | `domains/campaigns` |
| `KpiRules` | rules, runs row by row, cascades | `domains/kpi`, migration 008 |
| `Installer` | installation and migrations, with kills | `scripts/install.ts`, `migrate.ts` |
| `MiniProgram` | blocks, sources, plugin runs | `lib/miniProgram`, `components/miniProgram` |
| `Pipeline` | the linear builder and its engine | `lib/programBuilder`, `programs/[id]/page.tsx` |
| `CmrDesk` | numbers, history and PDFs of consignment notes | `CmrWorkspace.tsx` |
| `SmartVat` | the VAT matrix | `domains/billing/vat.service.ts` |

**PodRequests.** `pod[p]` is the row, `upload[u]` one `attachPod` call with its program counter
(`new`, `checked`, `documented`, `flag`, `bill`, `done`, `refused`, `failed`), `order[k]` one
`create` call. `MarkDelivered` is the guarded UPDATE, `LoseToken` the same UPDATE matching no row,
`Consumable` and `KeepsReference` are its WHERE clause and the foreign key. The verdict of the
credit check is left free here and fixed in `QuoteToCash`. The clock is the action `Expire`.

**Invoicing.** `draft[d]` is one `autoDraftInvoice` call (`new`, `priced`, `numbered`, `done`,
`clashed`, `failed`), `desk[k]` an approve or pay request between its two statements. `posting` is
a history variable: what became of each balance update. Money is in cents, VAT per mille.

**QuoteToCash** shares both states. `OpenOrder` conjoins the guardrail with minting, `Bill`
conjoins the end of the upload with the start of the draft. `Book` instantiates `InvoiceBook` with
the issued invoices.

**InboxDrafts.** A draft's content is one of a few extractions that differ in what the validator
tells apart; `call[k]` is an edit or a mark that has read the row and not yet written it. Two history
variables say when the read-then-write pattern goes wrong: `overtaken`, the requests whose row another
one wrote since they read it, and `raced`, the drafts whose last edit was such a request.

**LtlMatching.** `scan[k]` walks seed, list, then DELETE and INSERT for each partial found; `desk[j]`
is an acceptance or dismissal. What the engine finds profitable is any subset of the open partials.
History: `dead`, the partials a request died about between two statements, and `crossed`, those whose
acceptance met a suggestion a rescan had deleted, or was followed by a dismissal.

**Yard.** `call[c].plan` is the sequence of statements a request has still to run, so the two orders
(the gate assigns before it occupies, a move occupies before it assigns) are two plans over the
same statements. A dispatcher's move may start with any slot that there is or was: `YardMapBlock.tsx:59-82`
chooses it on the cached layout, every slot has been free once, and `moveAsset` does not look at it again.
Slot ids follow creation, as `firstFreeSlot` orders by it. The history variable `disturbed` records that
two requests have overlapped or one has died; `outdated` has the slots that a drop chosen on an outdated
map has left wrong (`Outdated`: the target, when another asset is on it; the slot that the asset leaves, when the
target is gone).

**OutlookSync.** `conn` is the row, `sweep` the one run of `syncEmails` (the worker's concurrency is
1), `user[u]` a request holding expired credentials. History: `wanted` (what the user last asked
for), `late` (a refresh was in flight at that moment), `mail[m].safe` (no sweep was between its
listing and its stamp, and none of another mailbox has stamped the row since).

**LiveBoard.** `row[r]` counts the versions of a row, `emitting`, `wire` and `board` are the three places
an event passes; `fetch` is the query under way with the answer it will bring, `replies` the answers to
mutations. A `kind` is a board with its own handler (upsert, remove, refetch) and polling or not.
History: `lost`, `heard`, `overtaken`.

**NotificationBell.** `list` and `count` are two cache entries; `Hear` is the socket handler, `marked` and
`markedAll` the two mutations under way. History: `slipped`, `twice`, `skewed`.

**PageEditor, TextCanvas, RecordFields, ClientLinks** follow an edit from the keystroke to the row. Each
names in history variables the ways in which the code gives an edit up: `behind`, `parting`, `meddled`
(a return to a page before its last save was answered; a save on leaving that was lost; a colleague's
page), `cut` (an editor taken away with the focus in it), `swallowed`, `trampled`, `failed`, `outdated`,
`reattached`. In `TextCanvas`, `shown` is what was rendered and `queued` what will be: every change is
computed from the former.

**ViewConfig.** `local` is what the menus show, `cache[v]` what is drawn, `call[n]` the PATCH of a choice,
sent with the configuration drawn at that moment. An answer is cached under the key its hook has *then*
(`Turn` moves the key of the mutations under way). History: `overlap`, `astray`, `blind`.

**AuthSession.** `Stored(t)` is what `getToken` finds, the cookie or else the mirror; `shown[t]` is the React
state, `check[t]` the `/auth/me` under way, `hears[t]` whether a mounted listener sits on the socket in use.
History: `behind` (tabs another tab has outrun), `outlived` (listeners older than their session), `over`
(who signed out, and where), `revived` (sessions a late check brought back).

**ProfilePage.** One form of the three, with the session's copy of the name, the loads that opening its tab
starts and the PUTs that save it whole. A value is 0 (empty), 1 (registered) or the edit that made it.
History: `crossed` (requests and edits met, or one failed), `unseen` and `lost` (fields sent unknown, stored
values replaced untyped).

**RecordBoard, Folders, ProjectPages, Team, ClientBook, FirstUse, AccountLinks** are requests that look
first and write later, one action per statement; `crossed` (`raced`, `stale`) says that two of them
overlapped. In `AccountLinks` the pool lends a connection per statement, and a connection left in a
transaction (`tx`) keeps the writes of whoever gets it next in `pending`.

**Campaigns, Installer** are loops that may stop between any two steps. `blind` and `torn` name the two
gaps a rerun cannot close.

**KpiRules.** `req` is a rule between its checks and its statement; `run` holds the rules as listed (`todo`), the
outputs of the present one and the report. `Drop` is a DELETE with its cascades. History: `run.due` (what
was evaluated), `changed` (rules updated while a run or a result was about them).

**MiniProgram.** `Flow` evaluates the blocks from the top, as `evaluate` does; a plugin's output is
stored when its worker answers with the token still current. Rows are told apart by their file and the
steps they went through. **Pipeline** keeps of a row only its columns. **CmrDesk** keeps of a note its
number and which document it is; `excused` are numbers given while the code promises nothing (typed
by hand, counted by two saves at once, the same time given to all notes of a sheet read with nobody chosen).

**SmartVat** is a pure function in a one-step machine: `Init` chooses the fields, `Evaluate` decides.

The `MC*` modules extend these; the configurations give the constants their values. Interchangeable ids
are a symmetry in the runs without liveness where the module chooses nothing among them. `OutlookSync`
and `LtlMatching` are checked as they are. `MCCockpit` and `MCBackOffice` hold several modules that share no
state: `Init` picks a `part`, and the behaviour is one of that module alone. In `MCBackOffice` the
variables `s1` ... `s16` stand for those of the part that was picked; the state space is the sum of the
parts' and nothing of a module is changed by this.

## 3. The runs

| run | shows | bounds |
|---|---|---|
| `pod_requests` | single use, proof on record, arrivals proven, delivered is final, with crashes and deletions | 2 links, 2 uploads, 1 dispatcher call |
| `invoicing` | gapless numbers, each amount posted once, balance is the sum posted | 3 drafts, 2 desk requests, 2 clients |
| `quote_to_cash` | each delivery billed once, with proof, and the invoices form a book | 2 links, 2 uploads, failures |
| `quote_live` | a delivery is billed, or its draft lost a number clash; its shipment is flagged | 2 links, no failures |
| `quote_unbilled` (violation) | "auto-drafted the moment a POD lands" fails for two deliveries at once | no failures |
| `quote_guard_race` (violation) | the guardrail is passed by a load over the limit | 1 dispatcher call, 1 desk |
| `inbox` | status and verdict never contradict each other; a verdict is stale, or a confirmation taken back or unfounded, only through an overtaken request | 1 draft, 2 requests |
| `ltl` | one live suggestion; accepted is matched; matched has a route; deleted is replaced | 2 partials, 2 suggestions, 2 scans, 1 desk |
| `yard` | nothing refers to a row that is gone; slots mirror assets, one asset per slot and per plate, check-ins kept, until requests overlap, and but for slots where a drop by an outdated map went wrong | 2 requests, 2 assets, 2 zones of a slot each |
| `outlook` | no mail skipped but during a sweep; the tokens follow the user; mail is stored in the end | 2 mails, 2 mailboxes, clock to 3, 1 failure |
| `cockpit` | quiet boards show the database, boards that poll catch up; the folder tree has no circle and a move ends | 1 row of 8 kinds of board, 1 break, 1 failed query; 3 folders, 2 moves |
| `back_office` | the remaining modules, one part per behaviour; each property says what one kind of hazard must not do | 2 requests, tabs, apps or accounts of each kind, 1 to 3 ids, files, views, edits |

A property of `back_office` joins what its modules state about one hazard: `ShownIsCurrent` (bell,
plugins, pipeline, mentions, session), `EditsAreSaved` (pages, text, fields, profile),
`WrittenBackWhole` (schemas, overrides, views, profile), `ThereOnce` (clients, first use, note numbers),
`PagesInOrder`, `LinksUsedWhole`, `InstalledWhole`, `CompanyKept` (team, rules), `OutcomeNoted`
(campaigns, runs of rules, VAT). `FollowRaces = FALSE` stops the behaviours of `RecordBoard` at the
first race, after which its properties claim nothing.

Many of these components are correct only while requests do not interleave, by a read in one statement
and a write in a later one. Where that is so the property does not look away: it names the interleaving
in a history variable and claims that *nothing else* can break it, crashes, retries and long sequences
included. What breaks without that exception, found with the same modules:

- *invoicing*: a request that dies between the status and the balance leaves the balance wrong for
  good, since the retry is answered 409 (`DeskFail`; `posting` says "lost").
- *links*: an upload that found its link valid consumes it although it has expired meanwhile
  (`MarkDelivered` does not test `expired`); a client with neither rate is checked for an amount of 0 and
  billed the fallback.
- *inbox*: two edits, each valid on what it read, store a verdict about content that is not stored; an
  edit that read the draft before its confirmation takes the confirmation back; a confirmed draft may be
  edited into a contradiction; a mail with a malformed date has no draft at all, as its INSERT is refused.
- *groupage*: a partial matched after a scan listed it gets a live suggestion; a partial whose
  suggestion was replaced under the acceptance is matched and on no route.
- *yard*: two reads of one plate make two assets; a move stores the status it read over a later
  check-in; a request that dies leaves slot and asset contradicting each other; a full yard unparks a
  parked asset that is read again. With no two requests at once: a drop on a slot that was taken since the map was
  read puts a second asset on it, and the departure of either marks it free; a drop on a slot whose zone was
  deleted frees the slot that the asset is still on, as the foreign key then refuses the move.
- *mail*: the watermark survives a change of mailbox, so the second one is not backfilled, and a
  refresh in flight at a disconnection connects the mailbox again; the watermark is the end of the run
  (`outlook.service.ts:292`, `last_sync_at`), so a mail sent between the listing and the stamp is never stored, though the
  comment at `outlook.service.ts:223` speaks of mail since the last synchronisation.
- *gate*: two reads at once put two assets on one slot, where `gate.controller.ts:2` promises a free one.
- *boards*: only exceptions and delivery links poll. Invoices, drafts, suggestions, assets, wagons and
  messages stay outdated after a dropped socket, or an answer that was asked for before an event, until
  they are opened again. Zone
  events have no listener at all, and edits of drafts are never announced.
- *bell*: "mark all" answered after a new note hides it, though the database has it unread.
- *pages*: the page of a colleague, or one's own older save arriving late, replaces the newer one whole;
  a save on leaving is not retried.
- *text*: the "best-effort flush on unmount" (`EditableRichText.tsx:130`) finds its DOM reference gone and
  commits nothing, so what was typed in the last half second is lost when the page is left by the
  browser's buttons.
- *fields*: the answer to one field's save resets the draft of the field that is being typed into.
- *schemas and overrides*: two changes from two screens take each other's columns, properties and
  overrides away; a record with a property that is gone cannot be saved.
- *views*: the buffers that the comments give the menus for quick choices keep what the menus show, but
  each PATCH sends the configuration drawn before the other, so two quick choices take each other away; a
  view left during its PATCH has the answer cached as the view turned to (`useRecords.ts:103`); a second
  view of a type is created if the list was not loaded yet.
- *session*: a check answered after a sign-out brings the session back; the mirror of the other app
  survives a sign-out and makes the cookie anew; a rejected check leaves the socket in the user's rooms; a
  late 401 to a request without a token clears the session another tab has just got; a component that
  mounts before the check is answered listens on the socket that is then replaced, although
  `useSocket.ts` speaks of "the lifetime of the component".
- *profile*: the telephone number is never loaded, so every save of the overview stores an empty one; the
  answer of a load replaces what was typed; after a rename the session shows the old name until a reload;
  a member invited later has no row of preferences, so "saved" changes nothing, and so it says of a 500.
- *folders*: two moves close a circle; its folders are listed nowhere and the next check under them
  never ends.
- *default page*: cleared and set in two statements, it is lost when the process stops in between.
- *links*: an error in the reset leaves a pooled connection inside a transaction, whose next borrower is
  answered with success and rolled back by a restart.
- *team*: two admins remove each other, on tokens that still say admin. A member who wrote a message or a
  document cannot be deleted (foreign keys), which answers 500.
- *import*: a failing insert in the middle answers 500 without a report; rows without a VAT id are doubled
  by the second try.
- *rules*: a rule for one client is a rule for all of them: `kpi.service.ts:24` checks `target_client_id` and
  `kpi.repository.ts:38` has no column for it (`Insert`), against `creditRisk.evaluator.ts:39`; a run that
  fails half-way keeps its rows, and as `upsertResult` only inserts, the next run doubles them; "All
  projects" with no member is a rule about nobody.
- *risk*: the comment that `>=` is the comparison of `assertCreditOk` (`creditRisk.evaluator.ts:16`) is not
  so: that one refuses above the limit (`invoicing.service.ts:74`).
- *campaigns*: a mail that went is noted as an error when noting it fails.
- *installer*: killed between the two base files it never creates the extensions, since the second run
  finds the tables; `--force` adds a second company and new secrets.
- *programs*: `Reset` keeps the signatures, so that an unchanged plugin is not run again and stays
  empty (`forgotten`); a button's answer has no token (`pressed`); two files chosen in a row may finish in
  either order, and the name above the rows is then the other file's (`overtaken`).
- *CMR*: adding a user keeps the number in the form, so its note and a later one of the first user may
  have the same number; an imported batch has its numbers from the moment of the import. A sheet read with
  nobody chosen gives its notes `CMR-` and the time (`CmrWorkspace.tsx:190`), so notes of the same millisecond
  have one number: once a user is chosen, the batch saves two entries under it and the second PDF replaces
  the first.
- *VAT*: an unknown supplier country is taken for SI; EL typed as a country is outside the Union; a
  supplier outside the Union still charges by the table.

`CHECK_DEADLOCK FALSE` is stated where the ids, slots or clock ticks of the bound run out.

Two uploads suffice for each race: the guarded UPDATE lets one of any set of rivals through and
each loser sees only that the row is no longer pending. Three drafts are needed for numbers: with
three, a clash, a success after it and a fresh count occur in one behaviour. The theorems below
remove the bounds there. In the inbox two requests about one draft give every overlap of a read and a
write; drafts do not interact. In `ltl` two scans race over two partials, so that one scan is between
its DELETE and its INSERT while the other is at either; a single desk accepts and dismisses one
suggestion after the other. In the yard two zones of one slot and two assets let a check-in find no
slot, one slot and a choice, a zone be deleted under a request that fills it, and a drop go to a slot that is
taken or gone. One kind of zone and one plate suffice there: a camera's reads only meet on the same kind.
Once `disturbed` is true no property asks for `outdated`, and `VIEW` leaves it out; nothing but
`outdated` itself depends on it. Three clock ticks put
a mail before, at and after a watermark, and two refusals hit a sweep and its repetition. In `cockpit`
one row suffices, as no handler compares rows, and three folders make the shortest circle two moves can
close that neither sees. In `back_office` two requests per part give every overlap of two; three pages
let one be deleted between two others; two files per migration let one be applied and the next fail;
three numbers let a note be saved, a second clash and a third follow. Two tabs on two apps give a sign-out
beside a check of the same account, with or without a shared mirror; three views let one be created beside
two; one edit, one load and two saves of a profile give every order of the three; two writes of rules and
two members let a rule go, or change its member, between two rows of a run.

**Fairness.** `FairSpec` asks weak fairness of the *continuation* of each started upload and draft: Node
runs every pending continuation and PostgreSQL answers, so a request that has begun takes its next
statement. Nobody is obliged to begin one, and approvals, deletions and the clock are not fair. A scan
that has started runs on likewise; nobody must start one. The mail sweep is started again and again by
the repeatable job, so its start is fair too (`OutlookSync`). A request that dies stops for good, by
design of the code: `quote_live` therefore leaves failures out (`CanFail = FALSE`), `DeletedIsReplaced`
excepts the scan that died, and mail, which is swept again, arrives although sweeps fail (`MaxFails`
times). In `cockpit` nothing is assumed of a socket's return; the steps of a board that has begun to
fetch or to emit are fair, and so is the asking again of a board with a `refetchInterval`; the walk of a
folder move is fair step by step, its start is not.

## 4. The proofs

The `*_proofs` modules prove the safety properties of their modules for every value of the constants,
from the named assumptions on the constants alone.

- **PodRequests.** `SingleUse` is not inductive: it says nothing of an upload that is about to run
  its UPDATE. `IInv` adds `PodInv` (a pending link has no photo, a consumed one has the photo of
  an upload that names it) and `UploadInv` (an upload past `new` names a request that was minted;
  past the UPDATE, the one it consumed).
- **Invoicing.** `DraftInv` says that a number in flight is at most the count plus one, `BookInv`
  that the numbers issued are 1..n; with the unique index, an INSERT that succeeds then
  takes n + 1 exactly. `DeskInv` and `PostingInv` tie each posting that is due to the one request
  that will post it.
- **QuoteToCash.** Every step is a step or a stutter of each part, so both parts' theorems carry
  over (`ImplementsDelivery`, `ImplementsBilling`); `LoopInv` adds that a draft's client and rate
  are those of the link its upload consumed. From it: billed once, billed with proof, and the
  refinement of `InvoiceBook`.
- **SmartVat.** `VatMatrix` and `UnknownFlagged`: the table is the matrix of its header for any set of
  countries and rates, given only what the tables say of each other (`TablesFit`, which `back_office`
  checks of its values).

- **InboxDrafts.** A status follows a verdict that another statement computed. `CallInv` says what a
  request between its two statements knows: unless it was overtaken, the row is still the one it read, so
  that the verdict it stores is that of the content it stores. `VerdictSound` follows, and
  from it the two action properties about confirmations. The operators are stated once
  (`Edited` keeps the fields it is not given; `Valid` is a Boolean).
- **LtlMatching.** One live suggestion per partial rests on the partial unique index (migration 020), which
  refuses a second INSERT whatever two scans have listed and deleted. For `AcceptedIsMatched` and
  `MatchedHasRoute` the invariant follows an acceptance: past its first statement the suggestion is
  accepted (`DeskInv`), or its partial is on record as `crossed` by a rescan or a dismissal; `dead` has the
  partials of requests that died there.
- **OutlookSync.** The watermark moves to the time at which the run ends, so `Waiting` says of each safe
  mail where it is: stored, ahead of the watermark, or on the list that a sweep of its mailbox is
  storing. `TokenInv` says which mailbox the credentials in flight belong to while no refresh was
  overtaken by the user (`late`).
- **Yard.** `SoundInv` holds however requests overlap and die: a request's plan is one of finitely many
  shapes, by which it knows that its asset is there, and that "free" and "occupy" have a slot to write
  (`LayoutReq`, `FindReq`, `SlotReq`); with the foreign keys nothing dangles. `CalmInv` holds until two
  requests overlap or one dies: the slot rows and the asset rows then disagree on two slots at most, the
  one left and the one taken, and how is read off the statements still due (`Moving`). When none is due they
  agree, which is `ParkingSound`. Slots that a drop by an outdated map has left wrong (`outdated`) are
  excepted slot by slot, so the proof also shows that the error does not spread: a move between two other
  slots leaves them right. The two orders of statements, the gate's and the move's, are treated by
  one argument, as `Moving` asks only which statements are due.

**Only model-checked**: the liveness properties, which the prover cannot treat; `BalanceIsPosted`,
whose sums over sets need an induction over data; the violations; and the properties of `cockpit` and
`back_office`, most of which are about sequences of saves and answers.

## 5. What is not modelled

See `components` in `PROJECT.json` for every part with its reason. Left out on purpose inside the
modelled parts: activity-log rows and socket events (best effort, nothing reads them back), the
text of labels, tokens and notes, and the validation of request bodies (inputs are enumerated as
validation leaves them).

Further: the geometry of the matching engine, calendar rows, demo mode of Outlook and the matching of
recipients to clients; renaming of folders; what a filter lets through and the order of cards; the tab
of the profile page for the fleet, whose URLs reach no handler (`/api/fleet` is mounted on the router of
all domains, `server.ts:70`); nested blocks of toggles and columns and the heading's own editor; what a
plugin computes; the values, labels and inclusion of a pipeline's columns; two tabs of the CMR desk,
which overwrite each other's state, users with equal initials and numbers that come with a sheet; the drafts
of numbers in a property field. `SmartVat` names a rate by its country: which number the tables have, and the 20 that a country without one
would get (`vat.service.ts:70`), is not told apart, and `TablesFit` excludes a country "XX". That nobody
changes their own role is the page's doing (`team/page.tsx:146`), which `Team` follows; `updateRole` does not
check it. Hazards seen and left out: an expiry that is not tested again by the UPDATE that consumes a link; the
watermark of a second mailbox; two requests that refresh one token together; a mail that is parsed again
after its notification failed.

Most of the remaining lines are pages that render what the modelled hooks fetch (the marketplace, fleet,
route and company pages), registries of block types, generators of documents and tests. They keep form
fields and demonstration data, and no statement of theirs meets another.

## 6. The plan

Done: every module of section 2. What remains, the most valuable first:

- Proofs: the parts of `back_office` one after the other, `DefaultKept` of `ProjectPages`, `LinkUsedWhole` of
  `AccountLinks`, `AssignedInside` of `Team` and `MailedOnce` of `Campaigns` first; `AllListed` of `Folders`
  while moves do not cross.
- Abstract specifications besides `InvoiceBook`: a mailbox mirror (every mail sent is copied once) that
  `OutlookSync` implements but for its gap, and a parking lot (each vehicle on at most one slot) that the
  undisturbed `Yard` implements.
- Compositions: `Campaigns` with the connection of `OutlookSync`; `TextCanvas` with `PageEditor`, so that
  one property follows a keystroke to the row; `ClientBook` with `Invoicing`.
