# ContApp2 - a verification project

TLA+ specifications of ContApp2: a Go backend (chi router, PostgreSQL) and a
React front end that offer contract signing, clients, documents, tickets, chat
and administration to organisations.  Paths below are relative to the
repository; `app/` is `backend/internal/app/`, `repo/` is
`backend/internal/repository/dbrepo/postgres/`, `schema` is
`backend/migrations/00001_initial_schema.sql`.

The modules are checked with TLC on small instances (the `.cfg` files) and,
where a module named `...Proofs` exists, proved with TLAPS for every value of
the constants.

## 1. Inventory

| Component | State | Operations | Interacts with |
| --- | --- | --- | --- |
| Contract signing (`app/contract_signing_handlers.go`, `app/contracts_handlers.go`, `repo/contracts_repo.go`) | `contract_invites`, `contract_submissions`, `contract_numbers` | create, send, update, delete an invite; view and sign by public link; enter, delete a submission | clients, templates, members (foreign keys); the public signing page |
| Authentication and sessions (`app/auth_handlers.go`, `app/auth_middleware.go`, `repo/identity_repo.go`, `platform/auth/jwt.go`) | `refresh_sessions`, `access_token_logout_events`; tokens and cookies held by browsers | login of accounts and administrators, refresh with rotation, logout, switching the organisation, the check in front of every protected route | memberships, browser |
| Browser session layer (`frontend/src/lib/api.ts`, `lib/session.ts`, `hooks/useMe.ts`) | cookies of the jar, session snapshot in localStorage, one shared refresh promise per tab | request with retry after 401, refresh, switch, logout, storage events between tabs | authentication |
| Members, roles, permissions (`repo/organisation_repo.go`, `repo/permissions_repo.go`, `app/rbac.go`, `app/members_handlers.go`, `app/compatibility_handlers.go`) | `accounts`, `organisation_memberships`, `membership_roles`, `roles`, `role_permissions` | create, update, suspend, delete a member; replace roles; edit roles; the permission guard | everything behind the guard |
| Extensions and feature guards (`app/feature_guards.go`, `repo/entitlements_repo.go`) | `organisation_features`, `feature_definitions` | the feature guard; edits by administrators | everything behind the guard |
| Ticketing (`app/ticketing_handlers.go`, `repo/ticketing_repo.go`, `frontend/src/app/pages/ticketing/TicketingPage.tsx`) | `ticketing_tasks`; a cached list for each status filter, and the drawer, of every page | create, update, claim, complete, refuse, delete | chat (ticket from a message) |
| Internal chat (`app/chat_handlers.go`) | `chat_conversations`, `chat_participants`, `chat_messages` | list (creates the default conversation), read, post | ticketing |
| Documents (`app/documents_handlers.go`, `repo/documents_repo.go`, `app/compatibility_handlers.go`) | `files`, `organisation_documents`, `client_documents` | upload, link, delete | clients |
| Platform administration (`app/admin_handlers.go`, `app/admin_platform_handlers.go`, `frontend/src/app/admin/pages/`) | accounts, organisations, plans, jobs | CRUD, suspend and restore, trigger a job, broadcast, switch an extension | members, sessions, extensions |
| Pages with a form (`frontend/src/app/pages/`, `components/ui/Drawer.tsx`, `Modal.tsx`, `ConfirmModal.tsx`, `Button.tsx`) | the list fetched last, the open form, its fields, requests in flight | open, type, submit, close, duplicate, change, confirm a removal | one table of the server each |
| Notebook (`app/workspace_handlers.go`, `frontend/src/app/pages/notebook/NotebookPage.tsx`) | notes of one owner; editor, autosave timer, filter | write, undo, share, select, filter, create, delete, save by itself | - |
| Calendar (`frontend/src/app/pages/calendar/CalendarPage.tsx`, `app/planner_handlers.go`) | four lists of events, the day shown | add, delete, navigate; choose what a day shows and pack it into columns | planner, tickets, invites, HR |
| Router and navigation (`frontend/src/router.tsx`, `app/shell/`, `components/ui/RequireExtension.tsx`, `hooks/useExtensions.ts`) | the map of extensions, the member's right to manage settings | list, lock and gate pages; palette and shortcuts | extensions |
| Clients, templates, planner, notes, HR, automation, notifications, reports | one table each | single-statement CRUD, read-only reports | - |
| Client-side collections (`hooks/createResource.ts`, `lib/queryClient.ts`) | query cache | optimistic update, roll back, invalidate | every list |
| Worker (`backend/cmd/worker/main.go`) | none | a stub that logs and exits | - |

How the parts meet.  Every HTTP request is a goroutine; nothing in the backend
keeps state between requests except the database, so components interact
through rows.  Except for signing, role replacement and a few administrator
operations, a handler runs its statements without a transaction, and any other
handler may run between two of them.  In the browser, tabs share the cookie jar
and localStorage.

What is hard to test here, component by component:

- *Signing*: overlapping signings of one link or one organisation; failure
  after the number was drawn; a lost acknowledgement of COMMIT; revocation
  during signing; lock cycles with a clerk's INSERT; the turn of the year.
- *Sessions*: concurrent redemption of a refresh cookie; failure between
  revoke and insert; a refresh in flight during a logout; concurrent logouts;
  whole-second token times against microseconds in the database; memberships
  that change under a token.
- *Browser*: one refresh shared by several requests, none shared between tabs;
  a switch or a logout in another tab.
- *Tickets, members, chat, documents*: read-modify-write without a lock,
  several statements without a transaction; an answer for a row that is gone;
  cached lists of several filters, of which a write refetches some; two first
  visits to the chat that both create the default room; two managers who replace the roles of a member.
- *Forms*: a second press while the first request is in flight; an answer that
  closes whichever form is open by then; one drawer and one set of fields for
  every row; a failure that must not lose what was typed.
- *Notebook*: an autosave timer, saves in flight, refetches and an effect that
  moves the selection, in any order; two effects that watch different values.
- *Extensions*: one answer stored under the selection of its arrival; tables of
  keys and paths in six files that must agree.

`PROJECT.json` lists these hazards at the line where they bite, with the
properties that cover them.

## 2. The modules

| Module | Models | Kind |
| --- | --- | --- |
| `ContractSigning` | invites, submissions, numbers; the signing transaction statement by statement | detailed specification |
| `ContractRegister` | what signing promises: a register that is signed, entered and struck out atomically | abstract specification |
| `ContractSigningProofs` | inductive invariant; types, isolation, finality, withdrawal, uniqueness, gapless numbers, replies, refinement, deadlocks | proofs |
| `AuthSessions` | refresh sessions, logout events, memberships and the handlers of `auth_handlers.go` | detailed specification |
| `AuthSessionsProofs` | inductive invariants; rotation and its bound, no revival, effective logout | proofs |
| `BrowserTabs` | pages, cookie jar, localStorage and the calls of `lib/api.ts`, composed with `AuthSessions` | composition |
| `BrowserTabsProofs` | inductive invariants; pages agree, waiting calls, one refresh per page and cookie, a browser is a client of `AuthSessions` | proofs |
| `TicketLog` | what ticketing promises: a log of versions, each one operation on one whole earlier version | abstract specification |
| `Ticketing` | the handlers of tickets statement by statement, and the pages with their cached lists | detailed specification, composition |
| `TicketingProofs` | inductive invariant; the log, own writes, refinement | proofs |
| `PageForms` | a page with a list and a form over one table, parameterised by its profile | detailed specification |
| `WorkspacePages`, `AdminPages` | the profiles of 24 pages, tabs and panels of a workspace and 6 of the administration | data of `PageForms` |
| `Notebook` | notes, the editor with its timer and effects, requests in any order | detailed specification |
| `Chat` | the default conversation at its statements, lists, composers, messages | detailed specification |
| `Members` | memberships and roles; the role transaction statement by statement | detailed specification |
| `Extensions` | features, the administrator's switch, the maps of browsers, tables of pages | detailed specification |
| `CalendarView` | which events a day shows and in which columns | algorithm over a small state |
| `Workspace` | the screens side by side | composition |
| `EditingProofs` | inductive invariants of `PageForms` (saves hit their rows, one row per form, nothing is lost) and `Notebook` (texts stay in their notes, a calm writer is saved) | proofs |
| `OrganisationProofs` | inductive invariants of `Chat`, `Members` and `Extensions` | proofs |
| `CalendarViewProofs` | the sort, the loops of `layoutOverlap` and their invariant; blocks of a day apart, each event drawn once, no column wasted | proofs |
| `WorkspaceProofs` | the workspace implements its screens; its types, and the properties of the screens carried over | proofs |
| `MCContractSigning`, `MCAuthSessions`, `MCBrowserTabs`, `MCTicketing`, `MCWorkspace`, `MCCalendar` | constants for TLC | model checking |

### ContractSigning

State.  `invite[i]` is the row of `contract_invites` (`schema` 406-424) reduced
to status, deletion and expiration; a row that was not inserted yet is
`AbsentInvite`.  `submission[i]` is the one row of `contract_submissions` that
`UNIQUE (invite_id)` allows, deleted rows included; its field `series` is not a
column but remembers the counter the number came from.  `counter[o][y]` is
`contract_numbers.last_number`.  `tx[p]` is the open transaction of request
`p`: what it has written is visible to nobody before its commit, and its locks
follow from its `pc`.  `reply[s]` is what the last answer told the signer.

Actions.  One per statement of `createPublicSubmission` that may wait or whose
result steers the handler: `StartSign`, `LockInvite` or `RefuseSign` (SELECT
... FOR UPDATE and the checks behind it), `AnswerAlreadySigned` or
`ChooseSeries` (the look-up of an earlier submission), `DrawNumber` (the upsert
of the counter), `InsertSubmission` or `RejectDuplicate`, `CommitSign` (the
UPDATE of the row already locked, and COMMIT).  `RollbackSign` may strike at
any statement: a lost connection, a cancelled request, a crash.  `CommitSign`
includes the case in which the commit happened and the answer is a 500.  A
clerk's `INSERT` (`StartManual`, `InsertManual`, `CommitManual`) is one
statement but waits twice: on index entries, then for the invite row that its
foreign key shares.  The requests of the invite pages are single UPDATEs and
single actions, guarded by the row lock.

Database behaviour that is assumed (READ COMMITTED): FOR UPDATE and UPDATE
exclude each other on a row, a foreign key check waits for FOR UPDATE, a unique
index makes an INSERT wait for an uncommitted entry with the same key and fail
on a committed one, and the deadlock detector aborts one member of every wait
cycle (`WaitsFor`, `WaitCycles`, `BreakDeadlock`).

Two restrictions on inputs: a request refers to records of its own
organisation, and the status a PUT or POST writes is one the invite pages send
(`draft`, `revoked`: `frontend/src/app/pages/contracts/InvitesPage.tsx`
149-214, 473), from a snapshot that may be stale, hence in any state.

Properties: `GaplessNumbers`, `LiveNumbersUnique`, `ReplyMatchesRecord`,
`TransactionsIsolated` (invariants); `RecordsAreFinal`,
`SigningRespectsWithdrawal` (what a step may never do); `SignAnswered`
(liveness); `ImplementsRegister` (refinement: a transaction is one step, its
commit).

### AuthSessions

State.  `session[j]` is the row of `refresh_sessions` with jti `j`; `parent`
remembers the cookie it was exchanged for.  Access and refresh token are minted
together, so `j` also stands for the access token, the access cookie and the
refresh cookie; expiry is computed from `minted`, in whole seconds as
`jwt.NumericDate` does.  `lastLogout[s]` is the latest logout event of the
subject.  `workspace[s][o]` is the current membership: its id, and whether
membership and organisation are both active.  `req[r]` is a handler: the
statement it runs next, and what it read so far.

Actions.  One per statement of the handlers: `SelectWorkspace` (login),
`ReadSession`, `RevokeSession`, `CheckWorkspace`, `InsertSession` (refresh;
switch enters at `CheckWorkspace` after `Authenticate`), `LogoutSession`,
`RecordLogout`, `RecordBearer` (logout), `Authenticate` (`requireAuth`).
`FailStatement` fails any of them, or stands for a crash: what was written
stays.  Clients may present any cookie and token they were ever given.
`CloseWorkspace` and `OpenWorkspace` are member and organisation
administration as authentication sees it.

Properties: `RotatedOut`, `RotationBounded` (invariants); `LogoutIsEffective`,
`NoTokenRevives` (step properties).

### BrowserTabs

Extends `AuthSessions`: a fetch of a page is a handler `req[r]` there, and the
module replaces the free clients by pages.  `jar[a]` is the session whose
cookies the browser holds for actor `a` (account or administrator), `store[a]`
the snapshot in localStorage, `current[p]` the copy a page keeps in memory,
`stale[p]` that a storage event waits for it.  `call[r]` is one execution of
`request` in `frontend/src/lib/api.ts`: its first fetch (`sent`), the refresh it
started (`refreshing`) or joined (`waiting`), its continuation (`resumed`,
`failed`) and its second fetch (`resent`).

Actions.  `StartLogin`, `StartGet`, `StartSwitch`, `StartLogout` begin a call
with what the page holds at that moment.  `Arrive` delivers the headers of an
answer (cookies change), `Lose` makes fetch reject.  `Settle` is what the
caller does with the outcome (`hooks/useMe.ts`), `Refresh` the reaction to a
401, `AdoptToken` and `RefreshFailed` the two ends of a refresh, `Resend` and
`GiveUp` what follows.  `Write` is `setSession`, `clearSession` and
`updateAccessToken`, with the storage events it causes; `StorageEvent` is the
listener.  A page runs its queued continuations before anything else (`Busy`).
A page that is reloaded counts as a further page.

Properties: `PagesAgree`, `RefreshShared`, `WaitersAwaited` (invariants),
`ImplementsAuth` (a browser is one of the clients of `AuthSessions`),
`CallsSettle` (liveness).

### TicketLog and Ticketing

State.  `log[t]` lists the versions row `t` of `ticketing_tasks` (`schema`
553-573) has had; the database holds the last one, but handlers and pages hold
earlier ones, so an edit can name the version it started from.  `gone` are the
rows with `deleted_at`.  A page (`frontend/src/app/pages/ticketing/TicketingPage.tsx`)
has a status `filter[p]` and, because the filter is part of the query's key
(230-231), one entry `cache[p][f]` for each filter: the versions in the list
that was fetched last, whether invalidateQueries has marked it (`stale`), and
the fetch in flight.  `drawer[p]` is the ticket in the drawer.  `call[r]` is a
mutation of a page together with the handler that serves it.  `owed[p][f][t]` is
no state of the code: it remembers the newest version an answer promised to a
list that does not show it yet.

Actions.  `StartCreate`, `StartDrop`, `StartChange`, `StartWork` are the user's
clicks; an edit sends the whole ticket as the page holds it
(`ticketUpdatePayload`).  `InsertTask`, `ReadTask`, `UpdateTask`, `RereadTask`
are the statements of the handlers, without a transaction: claim, complete and
refuse read the row and write every column back, PUT writes what it was sent
and clears the three stamps, because the request has no field for them.  If the
last SELECT finds no row or fails, PUT answers what it wrote; the other three
answer a ticket of zero values with status 200 (`ZeroTicket`), because
`scanTicketingTask` returns one beside its error and `updated == nil`
(`app/ticketing_handlers.go:157`) is never true.  The page opens it in the
drawer, and what it sends from there is refused at the path (`Found`).

`Arrive` is `onSuccess`.  An edit refetches the list of the filter the page has
by then and no other (`Refetch`, :255); any other write marks every list and
fetches the one shown (`Invalidate`).  `FetchAnew` follows the query library: a
fetch in flight is cancelled and replaced, but the very first fetch of a list is
joined.  `ChooseFilter` shows another list from the cache; it is fetched if it is
marked, older than `staleTime`, or no longer there (`gcTime`), and the model
leaves both times open.  `Follow` is the effect by which the drawer takes its
ticket from the list, here the cached one: after an edit under one filter, a
page that goes back to another shows a settled list without its own write, and
the older version in its drawer.  A list that arrives under the filter shown
moves the drawer too, unless it equals the old one.  `Fail` is an error or a
lost answer at any point; what was written stays.  `DeriveTicket` is
`deriveTicketFromChat`.

Properties: `ImplementsLog` (each write is one operation on one whole version
of a ticket that is not deleted, and nothing sent for the ticket of zero values
is one), `StampsTellTruth` (who is shown as having claimed a ticket is
responsible for it, and a ticket in the backlog or the archive carries no stamp
of work), `OriginKept`, `PageSeesOwnWrites`, `OwnWritesShown` (liveness).  The
last two say what the code does promise of lists.  A write is `Promised` to the
list that is fetched for it, and, unless it is an edit, to every other list of
the cache, if no older one is on its way from the server; a list that would be
shown without a fetch has what it was promised, and one that is on the page
comes to have it.
What the code does not promise: that a list under another filter has an edit;
that the drawer is as new as the list; and that no write is lost.  An edit from
an old version undoes newer ones, and the log says so.  Nor does a refusal
release the ticket: the assignee stays, although `docs/BACKEND_API.md:589` calls
the operation "refuse/release".

### PageForms, WorkspacePages and AdminPages

The pages share their hooks (`hooks/createResource.ts`, `hooks/useCollection.ts`)
and their controls, and differ in a few decisions.  `PageForms` is what they
share; a *profile* holds the decisions of one page and is put together from one
definition per block of the page: what its rows offer (`...List`), when a row is
copied into the fields (`...Fields`), when its save handler closes the form
(`...Save`), which mutations disable the button (`...Form`), and whether a
removal is confirmed first (`...Remove`).  TLC explores the set of the profiles;
a page is thus checked by checking its profile.

State.  `rows[r]` is a row reduced to which row its data was loaded from (`of`),
its text and the form that inserted it; `shown` is the list fetched last, `due`
that it has to be fetched again.  `form`, `fields` and `asked` are the drawer or
modal, its inputs and the confirmation.  `calls` are requests between click and
answer, `latest` the last insertion (react-query runs the callbacks of the last
`mutate` only).  `failed`, `unsaved` and `patient` are no state of the code:
they say which forms had a failure, which texts are neither saved nor given up,
and whether the user waited for every answer.

Actions.  `OpenCreate`, `OpenEdit`, `Type`, `Close`, `Submit`, `Copy`, `Change`,
`AskRemove`, `Confirm`, `Refuse`, `RemoveAtOnce` are clicks; `Insert`, `Update`,
`Remove` the statement of the handler; `Arrive` and `Break` the two ends of a
request, `Refresh` a fetch of the list, `RemovedElsewhere` a colleague.
React renders the disabled button before it delivers the next click, so `Enabled`
reads the mutations as they are at the click.

Properties: `OneRowPerForm`, `SaveHitsItsRow`, `PatientUserLosesNothing`.

### Notebook

State.  `notes` is the table, `docs` the list, `picked`, `filter`, `pad` and
`timer` the state of `NotebookPage.tsx` (86-177), `saves` its requests.
A text is the stroke that wrote it, under a title that may be empty.  Two
effects follow the state and watch different values.  The one that moves a
selection the filter hides to the first note runs when the list, the filter or
the selection changes (125-142); the one that restarts or drops the 600 ms timer
runs when an input or the selected note changes (145-177).  `Settle` is the
second; `Render` runs the first before it, for a new list, filter or selection;
a `Keystroke` runs `Settle` alone, so what is typed under a search without a
match stays in the inputs and is saved.  A list that equals the last one is the
same object to React: `FetchNotes` renders only if the table was written since
(`newer`).  The server stores no empty title (`Stored`,
`app/workspace_handlers.go:142-147`); as no effect watches the title of the
list, the editor goes on showing none.  Saves in flight arrive in any order and
nothing orders them.  `calm` and `lost` remember whether the owner always waited
and whether a request failed.

Properties: `NoteTextsStay`, `CalmWriterIsSaved`.  What the page does not
promise is in the model too: an owner who selects another note within the pause
loses the stroke, a failed save is not tried again, and a cleared title comes
back as the default one when the note is opened again.

### Chat

State.  `rooms` and `messages` are rows; `asking[m]` is a request of
`listChatConversations`, which creates the room 'General' when it finds none;
`seat[m]` is the page (the list, the open conversation, the composer), `sends`
the messages on their way, bot requests included.

Properties: `MembersMeet` (two lists that were read after the last room was
created share a room: it is the oldest one that everybody joins), `DraftKept`
and `SaidOnce` (what a composer promises a member who waits for the answer).

### Members

State.  `members` are memberships, `held` the committed rows of
`membership_roles` with a version that tells a row from one inserted again,
`request[c]` the open transaction of manager `c`.  `SetMembershipRoles`
(`repo/organisation_repo.go` 398-440) reads the membership without a lock,
deletes the rows its snapshot saw and inserts the new ones: `ReadRoles`,
`DeleteRoles`, `InsertRole`, `CommitRoles`, with the waits of READ COMMITTED.
`FailRoles` may strike at any statement, and after the transaction that created
a member has committed.

Property: `RolesAsAnswered`.  Two requests about one member that overlap may
leave the roles of both; `mixed` marks her until a request ran alone, and the
property is about everybody else.

### Extensions

State.  `enabled[o]` are the features of an organisation, `flags`, `reading`,
`chosen` and `toggle` the administrator's page with its fetches and its switch,
`menu` the map a member's browser holds.  `FeatureKey`, `ExtensionsOf`,
`navGroups`, `COMMANDS`, `ShortcutPages`, `Gates`, `ForSettings` and `Needs` are
the tables of the sources, entry by entry.

Properties: `AdminSeesStored`, `SwitchTakesEffect`, `OpenPagesServed`.
`restless` and `unheard` mark the organisations for which the page claims
nothing: a fetch crossed their switch, the selection moved while it was in
flight, or its answer got lost.

### CalendarView and Workspace

`EventsForDay` is the filter and the stable sort of `CalendarPage.tsx` 137-142:
the sequence of the shown events that `Before` puts in order.  `LayoutAfter(s)[n]`
is what the two loops of `layoutOverlap` (150-183) hold after the first `n` of
them: the blocks of the groups that are finished, the columns of the group in
progress and when it ends.  `LayoutOverlap` is the table's last entry with that
group flushed.  `BlocksOfADayApart` is its promise for events that start on the
day shown; that an event of an earlier day is drawn over them is a finding.

`Workspace` puts the screens side by side.  They meet in the session, which
`BrowserTabs` models, and in rows of different tables, so a behaviour works with
one `screen` while the others rest in a fixed state.

## 3. What the runs check

| Run | Instance | Shows |
| --- | --- | --- |
| `contract_signing` | 2 invites of one organisation, 2 signers, 1 clerk, clock 0..1 with a new year at 1 | all safety properties and the refinement |
| `contract_liveness` | 1 invite, 2 signers, 1 clerk, fairness | `SignAnswered` |
| `contract_number_year` | 2 invites, 1 signer, new year | a counterexample to the comment on `contract_numbers` |
| `auth_sessions` | 1 account, 1 organisation, 2 requests in flight, 4 requests and 4 sessions in all, 2 ticks of half a second | rotation and logout |
| `auth_membership` | account and administrator, 2 organisations, 3 requests | a counterexample to the documents' rule on active memberships |
| `browser_tabs` | 2 pages with a call each, 1 account, 1 organisation, 4 sessions, 7 fetches | pages agree, types, the refinement |
| `browser_calls` | 1 page with 2 concurrent calls, 2 organisations, fairness | one shared refresh, no forgotten waiter, every call ends |
| `browser_admin_logout` | a page of an account and one of an administrator | a counterexample to the documents' logout |
| `browser_organisation` | 1 page with 2 concurrent calls, 2 organisations | a counterexample to the comment on the switch |
| `ticketing` | 1 ticket of up to 3 versions; 2 members with a page and a mutation each, 3 clicks; or 1 member with 2 filters, 2 mutations, 4 clicks; fairness | types, true stamps, origins, the refinement; own writes in the lists they are promised to |
| `workspace` | 30 profiles with 2 rows, 4 clicks, 2 requests in flight; 2 notes, 3 strokes; 2 members in the chat, 2 rooms, 3 presses; 3 events on 2 days of 5 quarters; 2 organisations, 2 extensions, 2 switches; 1 membership, 2 roles, 2 managers | the promises of the screens and of the handlers behind them |
| `calendar_overlap` | the calendar alone | a counterexample to the comment on the columns |

Why these bounds.  The signing properties relate two transactions (two
overlapping signings, or a signing and a clerk) through one invite, one counter
or one number: two invites, two signers and a clerk give every pair, and with
three processes cycles of two and of three exist.  The clock has two instants
because only the change of the year matters.  The clerk types the one number
that clashes with the counter's first.  In `AuthSessions`, four requests allow
a login, two concurrent refreshes (or logouts) of its cookie and a later use of
the result; half-second ticks put logins and logouts into one second.
In `BrowserTabs`, seven fetches (`Budget`) allow a login and two concurrent calls
that both meet a 401, refresh and fetch again; one slot per page is enough for
pages to interfere, two slots on one page for calls to share a refresh.
In `Ticketing` tickets do not interact, so one suffices; three versions (`MaxVersions`)
are a creation and two writes, one of which may undo the other.  `MCTicketing`
restricts the steps to one of two scenes, chosen at the start.  With two members
there are three clicks (`ClicksOfTwo`), that is, three mutations of two pages:
what two stale edits or a read-modify-write and its rival take; creations by the
chat and deletions need no click.  Lists matter there only as the source of
versions of any age, so neither page changes its filter.  With one member there are the
two filters (`Filters`) whose lists differ most on the page, the active tickets and
the archived ones, two mutations at a time (`Requests`) and four clicks
(`MaxClicks`): a write under one filter, a change of the filter, a second write
or fetch, and the way back; the tickets are hers and none is deleted, which is
left to the first scene.  `PickedStatuses` and
`PickedAssignees` are the values users choose: a board column and the archive,
and one member beside whoever claims.
In `Workspace` the properties of forms relate one form to a second row (`Rows`)
and a request to the click after it: two rows, two requests (`MaxCalls`) and four
clicks (`MaxClicks`) let a form be opened, filled, sent and sent again, or two
rows be edited one after the other.  Three strokes (`MaxStrokes`) write a note,
move the selection and write again.  Two members, two rooms (`MaxRooms`) and
three presses (`MaxPresses`) let two first visits race and a message be written,
sent and sent again.  In the calendar, three events are the fewest that tell a
group closed too early from one closed in time; a day of five quarters is longer
than a deadline's block and lets an hour reach into the next day.
`Switchable` holds an extension whose key differs from its feature's and one
whose key does not; two switches (`MaxToggles`) with a second organisation let
the selection move while the first is in flight.  One membership suffices
because role requests of different members touch different rows.
`Rows`, `Notes`, `People`, `RoleIds` and `Requests` are the same two values,
which makes one permutation a symmetry of all of them; no property is temporal.
Deadlock is not checked for `AuthSessions`, `BrowserTabs`, `Ticketing` and `Workspace`
because the bounds on requests and clicks end every behaviour; it is checked for `ContractSigning`.

Symmetry is used on invites and signers, and on requests of `AuthSessions`, in the
runs without liveness properties.

*Fairness* (`contract_liveness`).  A handler executes its next statement as
soon as it can; one that waits for a lock competes in PostgreSQL's lock queue
and is served when the lock is free again and again, hence strong fairness of a
request's steps.  The deadlock detector runs whenever a wait lasts
(`deadlock_timeout`), hence weak fairness of `BreakDeadlock`.  No fairness is
assumed of clients, clerks, failures or time.  (`browser_calls`)  Handlers and
the event loop of a page run what is ready, and an answer arrives or is lost:
weak fairness of each.  Nobody has to call, and time need not pass.
(`ticketing`)  A fetch that was sent is served and shown, or given up after
its retries (`lib/queryClient.ts:9`): weak fairness of `Fetch` or `FailFetch` of
any page and filter.  All of them together suffice, because clicks are bounded and
with them the fetches: none can be put off forever by others.
Handlers need not answer and nobody has to click.

*Findings.*  (1) `createPublicSubmission` reads the clock for the counter
(`app/contract_signing_handlers.go:304`) and again for the printed number
(`:315`); around New Year a number carries a year whose counter never handed it
out, and the first signing of the new year then collides with it.  (2) An
access token keeps working after its membership was suspended:
`requireAuth` and the guards behind it never read the membership's status,
while `docs/BACKEND_API.md:97-98` requires it of every request.  (3) A logout
names no actor (`hooks/useMe.ts:151`), so the server takes the account's cookie
(`app/auth_handlers.go:405-417`) and an administrator's refresh session stays
redeemable.  (4) A refresh answered after a switch of the organisation stores a
token of the old organisation beside the new principal
(`frontend/src/lib/api.ts:58`).  (5) The comment on the calendar's columns says
that overlapping events render side by side (`CalendarPage.tsx:150`); an event
without an end is shown on every later day (`:131-135`) at the hour it started,
but grouped by its real date, so it covers an event of the day.

## 4. What is proved

*Contract signing* (`ContractSigningProofs`), for
arbitrary sets of invites, organisations, signers, clerks, inputs and any
monotone calendar (`InvitesAssumption`, `ProcsAssumption`, `ClockAssumption`,
`InputsAssumption`).  The inductive invariant is `TypeOK`,
`TransactionsIsolated` and a description of the committed rows.  None of the
other invariants is inductive alone: that the committed numbers stay
`1..last_number` at a commit needs that the number in the transaction is still
the counter's next one (`DrawnNumbersNext`), which needs that nobody else holds
the counter row (`LocksExclusive`); that a signature respects a withdrawal
needs that the invite cannot change while it is locked (`LockedInvitesOpen`);
uniqueness needs that the pending row has no rival, committed or pending
(`PendingRowsUnique`).  From the invariant follow `GaplessNumbers`,
`LiveNumbersUnique`, `ReplyMatchesRecord`, the step properties
`RecordsAreFinal` and `SigningRespectsWithdrawal`, and the refinement
`ImplementsRegister`: `CommitSign` maps to `Sign`, `CommitManual` to `Enter`,
`DeleteSubmission` to `StrikeOut`, the invite pages to `ChangeAccepting`, every
other step to a stutter.  `DeadlocksHoldClerk` is the safety core of
`SignAnswered`: a signing takes the invite, then the counter, then the number,
and each of these steps waits only for somebody who is further on; the one step
that looks back is the foreign key of a clerk's `INSERT`, which holds a number
and waits for an invite.  So every deadlock (they do occur) holds such an
`INSERT` and a signing that has drawn its number, and signings alone never need
the detector.

*Sessions* (`AuthSessionsProofs`), for any subjects, organisations, requests,
resolution of the clock and lifetimes.  The inductive invariant is `TypeOK`,
`Shaped` (what a request at each statement holds: its cookie names an issued
row, its time is not in the future, and a refresh behind `RevokeSession` has
its cookie revoked) and `RotatedOut`.  `NoTokenRevives` follows because rows
only ever get revoked, logout times and the clock only grow and the times of a
row never change; `LogoutIsEffective` because the time the logout read is at
least the whole second of every token minted before it.  `RotationBounded` is a
count, and not inductive: a refresh that has read its cookie and not rotated it
yet would still add to it.  `YieldBounded` counts both, the sessions a cookie was
rotated into and the refreshes that may yet rotate it.  A step either moves a
refresh from the second set to the first or adds one to the second while the
cookie is live; a live cookie has yielded nothing yet, because whoever inserts
the new session has revoked the old one (`RotatedOut`).

*Browser* (`BrowserTabsProofs`), for any pages, slots and actors.  The inductive
invariant `BrowserInv` adds to `AuthInv` that everything a page, localStorage or
the jar holds was issued and fits its actor (`Fits`), that every handler works
for and will answer what fits its page (`RequestFits`), and that a slot without
a fetch in flight has a free handler (`CallFits`).  It gives the types (no
snapshot is ever a token without a principal), and that every step of a browser
is a step of `AuthSessions` (`BrowserIsClient`): the proof needs `Fits` because
a client may present only what was issued, and only a token of an organisation
to the switch.  `BrowserSessions` then carries the theorems about sessions over.
`RefreshShared` refines the bound on rotation from requests to pages: a page has
one slot that refreshes (`RefreshesApart`, the shared promise of `api.ts`), so
the refreshes that may rotate one cookie belong to different pages, and what a
cookie has yielded and may yet yield is bounded by the pages (`YieldShared`).
It assumes that the pages are finitely many (`PagesAssumption`).

*Tickets* (`TicketingProofs`), for any members, pages, mutations, tickets and
bounds.  `LogCorrect` is about the abstract log alone: its invariant says that
every version is a row of the table, tells the truth and has the origin of the
first one; an operation keeps that from any version, so no order of writes
matters.  The invariant of the detailed model, `TInv`, adds `CallFits` (a
handler past its read holds a version that exists, or the ticket of zero
values), `DrawerFits` (so does a drawer) and `EntryFits`, about one entry of the
query cache: what it lists, fetches and is owed exists, rows that were read
while the list is owed a write contain the write, and a list that is neither
marked nor fetched is owed nothing.  The last two make `PageSeesOwnWrites` hold:
the rows of a list that is fetched for a write were not read before it, because
`FetchAnew` replaced the fetch in flight, and a hidden list is promised a write
only together with its mark (`EntryKeeps`, `QueryKeeps`).  `TicketingIsLog` shows
that every step is a step of the log or none, and carries `StampsTellTruth` and
`OriginKept` over.

*Forms* (`EditingProofs`), for any rows, clicks, requests in flight and any
set of profiles that satisfies `FormsAssumption`: a form that stays open while
its request is in flight disables its button meanwhile, and fields that are kept
are never those of a row.  `RowsInv` adds to the types what open fields and
calls may hold (`FieldsFit`, `CallsFit`): fields are blank or those of the row
the form is for, and a call carries the row it is addressed to.
`SaveHitsItsRow` is not inductive without it.  `OnceInv` numbers forms and
requests by their clicks (`Numbered`) and says that an open create form has at
most one insertion in flight, the last one requested, or none and no row of its
own (`Insertions`).  That it is the last one matters because the answer of an
earlier insertion runs no callback: it would leave the form open, with a button
that is enabled again.
`PatientInv` says that a user who waits has one request in flight at most, which
is that of the open form and carries what it shows.

*Notebook* (`EditingProofs`), for any notes and strokes.  `NoteInv` follows a
text through pad, list, timer and saves (`PadFits`, `ListFits`, `TimerFits`,
`SavesFit`): each carries the note it was written in; `ListIsCurrent` says that
a list is the table unless that was written since.  What an effect may leave in
the editor is `SelectionFits`, whether a keystroke or a choice ran it.  `CalmInv`
says that for a calm owner one thing goes on at a time, and that the selected
note is stored as the server would store the inputs (`EditorShows`) except while
its timer or its save is on the way; under a filter that hides the note this
needs that a fetch of an unchanged list runs no effect.

*Chat, members, extensions* (`OrganisationProofs`), for any members, rooms,
roles, managers, organisations and bounds.  `RoomsInv` adds to the types
`LobbyKnown`: a list that began after the last room was created has joined the
oldest room, or will.  `SpeechInv` adds that a text has one author (`Authored`)
and what holds of a member who waits (`Careful`).  `RolesInv` adds `AloneSeesAll`: a
transaction that runs alone about a member has seen, and will delete, every row
she holds.  `SwitchInv` adds `ShownStored`: what the administrator's page shows,
and each fetch on its way that no switch crossed, is what is stored.
`OpenPagesAreServed` needs the types only: it is a statement about the tables,
proved entry by entry.

*Calendar* (`CalendarViewProofs`), for any number of events and days and any
length of a day.  The invariant of the page is small: types, and `EndsLater`, no
event of the planner ends before it starts; a block of negative length would end
before it begins.  The work is in the algorithm.  `DayIsSorted` shows that the
sequence of `EventsForDay` exists (an event's place is the number of events not
after it), `LayoutDefined` that the table of `LayoutAfter` does.  `LayoutOK` is
the invariant of the loops: a column remembers the latest end of its events,
events of one column do not overlap, `end` bounds the group in progress, and
what was flushed ended before that group and before everything still to come;
the last part needs that the sequence is sorted.  Two blocks that overlap in
time are then of one group and in different columns of it, hence do not share
the width (`ColumnsApart`): `BlocksOfADayApart`.  `DrawnOK` says that blocks and
group together are the events seen so far, each once: `CalendarDrawsOnce`.
`NarrowOK` says that every column of the group in progress ends with an event of
it: when a new column is opened each other one holds an event that still goes
on, so there are as many events at that moment as columns, and
`CalendarWastesNoColumn` follows.

*Induction without an operator.*  The library's induction theorems take an
operator as a parameter, which the provers cannot instantiate.  The two
inductions of the calendar (over the entries of the table and over the events)
go through a set instead: `LeastElement` follows from the well-foundedness of
`<` on the natural numbers, and `UpTo` says that a set that holds 0 and with
`n - 1` also `n` holds every number up to the bound.

*Workspace* (`WorkspaceProofs`), under the assumptions of its screens.  A step of
the workspace is a step of one screen and leaves the variables of the others, so
`WorkspaceSpec` implies the specification of every screen
(`WorkspaceImplementsScreens`), and what is proved of a screen by itself holds of
the composition that the run checks: `WorkspaceTypeOK`, and the thirteen other
properties of the run.

*Only model-checked*: `SignAnswered`, `CallsSettle` and `OwnWritesShown`.  They
are liveness properties under fairness, which is out of the prover's reach.
Every other property of a passing run is a theorem.

## 5. Not modelled

- Payloads (contract fields, signatures, template content), formatting, HTTP
  decoding and validation, logging, CORS and configuration carry no state the
  properties see.
- *Worker*: a stub that logs and exits.
- *Permissions*: what a role allows, the categories' effect and the second set
  of member routes of the platform administration; `Members` has the rows.
- *Files*: storage keys and downloads.  A document upload that fails between its
  two statements leaves a file row that no list shows.
- *Subscriptions*: prices, periods, and the dates between which a feature is
  enabled (`app/feature_guards.go:48-53`), which no code sets.
- *Sessions*: a GET without a token falls back to the access cookie of the other
  actor (`app/auth_middleware.go:86-101`); it changes no session.
- *Chat*: conversations other than 'General', attachments, unread counters.
- *Reports, legislation, the AI planner, the audit log and the platform's
  dashboard* only read, or keep their state in the browser.
- *Client-side cache*: the single retries of a fetch, and polling; in `Ticketing`,
  a page that is left and opened again with the cache of its last visit.
- *Plans*: creating one inserts its row and then always answers 500, because the
  SELECT of `getAdminSubscriptionPlan` has no argument
  (`app/admin_platform_handlers.go:538-544`); `PageForms` has the failure after an
  insertion (`Break`) as one of its outcomes, not as the only one.
- The landing page, layout, themes and charts.

Three hazards in `PROJECT.json` have no property, because the code makes no
promise there: the two statements of an upload, a refresh in flight during a
logout, and a bot request asked again.  The models have the behaviour of the
last two.

## 6. What is left

1. Effective permissions: the access matrix of roles, categories and features as
   an abstract specification, and the guards in front of the routes as its
   implementation.
2. Uploads with their two statements and the links between files and records.
3. The query cache of `Ticketing` (marks, cancelled and replaced fetches) for every
   page of `PageForms`, with liveness of what a page shows.
