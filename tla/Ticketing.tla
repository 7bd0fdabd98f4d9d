------------------------------- MODULE Ticketing ------------------------------
(***************************************************************************)
(* Tickets: the handlers of ticketing_handlers.go, tickets derived from the*)
(* chat, and the pages that show and edit them (TicketingPage.tsx over the *)
(* query cache of hooks/useCollection.ts).                                 *)
(*                                                                         *)
(* A page holds versions of tickets: one list for each status filter it    *)
(* has shown, cached under its own key, and the ticket in its drawer.  A   *)
(* slot r of Requests is a mutation of the page PageOf[r], with the handler*)
(* that serves it; a handler is split at its statements, which run without *)
(* a transaction.                                                          *)
(***************************************************************************)
EXTENDS TicketLog, FiniteSets

CONSTANTS
    Pages, MemberOf, Requests, PageOf,
    Filters,                            \* the status filters users choose from
    PickedStatuses, PickedAssignees,    \* what users choose: bounds on the inputs
    MaxClicks                           \* how often they click

\* An action whose last SELECT finds nothing answers a ticket of zero values.
ZeroTicket == "ticket 0"

ASSUME PagesAssumption ==
    /\ MemberOf \in [Pages -> Members]
    /\ PageOf \in [Requests -> Pages]
    /\ "all" \in Filters /\ Filters \subseteq Statuses \cup {"all"}
    /\ PickedStatuses \in SUBSET Statuses
    /\ PickedAssignees \in SUBSET Assignees
    /\ MaxClicks \in Nat
    /\ {"none", ZeroTicket} \cap Tickets = {}

VARIABLES
    filter,  \* the status filter of each page
    cache,   \* the entry of the query cache for each page and filter
    drawer,  \* the ticket, and its version, in the drawer
    call,    \* mutations
    owed,    \* newest version a page was told it wrote and a list of it lacks
    clicks   \* what users have done

pageVars == <<filter, cache, drawer, call, owed, clicks>>
vars == <<log, gone, filter, cache, drawer, call, owed, clicks>>

NoList == [t \in Tickets |-> 0]
Lists == [Tickets -> Nat]
\* "list" has the version of each ticket, 0 if it is not there; "stale" is the mark of
\* invalidateQueries.  A fetch is "sent" until the SELECT runs, then "read", with its
\* rows on the way; "failed" after the last retry.
NoQuery == [list |-> NoList, loaded |-> FALSE, stale |-> FALSE, stage |-> "idle", rows |-> NoList]
Queries == [list : Lists, loaded : BOOLEAN, stale : BOOLEAN,
            stage : {"idle", "sent", "read", "failed"}, rows : Lists]
Closed == [ticket |-> "none", version |-> 0]
ZeroDrawer == [ticket |-> ZeroTicket, version |-> 0]
Drawers == {Closed, ZeroDrawer} \cup [ticket : Tickets, version : Nat]
NoCall == [op |-> "none", pc |-> "idle", ticket |-> "none", base |-> 0, status |-> "todo",
           assignee |-> NoOne, version |-> 0, latest |-> FALSE]
Calls == [op : {"none", "create", "edit"} \cup WorkOps,
          pc : {"idle", "insert", "read", "update", "reread", "answered"},
          ticket : Tickets \cup {"none", ZeroTicket}, base : Nat, status : Statuses,
          assignee : Assignees, version : Nat, latest : BOOLEAN]

\* Rows of ticketing_tasks carry a status and an assignee the rest of the code knows;
\* pages and mutations hold versions, or the ticket of zero values.
TicketTypeOK ==
    /\ LogTypeOK
    /\ filter \in [Pages -> Filters]
    /\ cache \in [Pages -> [Filters -> Queries]]
    /\ drawer \in [Pages -> Drawers]
    /\ call \in [Requests -> Calls]
    /\ owed \in [Pages -> [Filters -> Lists]]
    /\ clicks \in 0..MaxClicks

-----------------------------------------------------------------------------
(* The lists of a page *)

Click == clicks < MaxClicks /\ clicks' = clicks + 1
InFlight(q) == q.stage \in {"sent", "read"}

\* Without cancelRefetch a fetch in flight is good enough.
JoinFetch(q) == IF InFlight(q) THEN q ELSE [q EXCEPT !.stage = "sent"]

\* refetch and invalidateQueries cancel the fetch in flight and start another; the
\* very first fetch, before there is a list, is joined.
FetchAnew(q) ==
    IF InFlight(q) /\ ~q.loaded THEN q ELSE [q EXCEPT !.stage = "sent", !.rows = NoList]

\* The page has just been opened.
Init ==
    /\ LogInit
    /\ filter = [p \in Pages |-> "all"]
    /\ cache = [p \in Pages |-> [f \in Filters |->
                    IF f = "all" THEN JoinFetch(NoQuery) ELSE NoQuery]]
    /\ drawer = [p \in Pages |-> Closed]
    /\ call = [r \in Requests |-> NoCall]
    /\ owed = [p \in Pages |-> [f \in Filters |-> NoList]]
    /\ clicks = 0

\* list.refetch: the list of the filter the page has by now, and no other.
Refetch(p) == cache' = [cache EXCEPT ![p][filter[p]] = FetchAnew(@)]

\* invalidateQueries(["ticketing"]): every list is marked, the one shown is fetched.
Invalidate(p) ==
    LET Marked(f) == [cache[p][f] EXCEPT !.stale = cache[p][f].loaded]
    IN  cache' = [cache EXCEPT ![p] = [f \in Filters |->
            IF f = filter[p] THEN FetchAnew(Marked(f)) ELSE Marked(f)]]

\* The effect on list.data: the drawer takes its ticket from the list.
Follow(p, rows) ==
    LET t == drawer[p].ticket
    IN  drawer' = IF t \in Tickets /\ rows[t] > 0
                  THEN [drawer EXCEPT ![p].version = rows[t]] ELSE drawer

\* The page comes back to a list that is older than its staleTime, or to the network.
StartFetch(p) ==
    /\ Click
    /\ ~InFlight(cache[p][filter[p]])
    /\ Refetch(p)
    /\ UNCHANGED <<log, gone, filter, drawer, call, owed>>

\* Another filter, another key.  Its list is shown from the cache, and fetched when it
\* is marked, older than its staleTime (at any time, here) or not there; after gcTime
\* the cache has dropped it.
ChooseFilter(p) ==
    /\ Click
    /\ \E f \in Filters \ {filter[p]} :
          LET q == cache[p][f]
          IN  /\ filter' = [filter EXCEPT ![p] = f]
              /\ \/ /\ q.loaded /\ ~q.stale
                    /\ Follow(p, q.list)
                    /\ UNCHANGED <<cache, owed>>
                 \/ /\ cache' = [cache EXCEPT ![p][f] = JoinFetch(@)]
                    /\ Follow(p, q.list)
                    /\ UNCHANGED owed
                 \/ /\ ~InFlight(q)
                    /\ cache' = [cache EXCEPT ![p][f] = JoinFetch(NoQuery)]
                    /\ owed' = [owed EXCEPT ![p][f] = NoList]
                    /\ UNCHANGED drawer
    /\ UNCHANGED <<log, gone, call>>

\* Mutant: archived tickets are left out too.
ListActive ==
    [t \in Tickets |->
        IF t \in gone \/ ~Exists(t) THEN 0
        ELSE IF log[t][Last(t)].status = "archived" THEN 0 ELSE Last(t)]

\* ListTicketingTasks: one SELECT, deleted tickets left out.  The handler does not read
\* the status of the query string: under every filter the list has all tickets.
ListTickets == [t \in Tickets |-> IF t \in gone THEN 0 ELSE Last(t)]

ServeFetch(p, f) ==
    /\ cache[p][f].stage = "sent"
    /\ cache' = [cache EXCEPT ![p][f].stage = "read", ![p][f].rows = ListTickets]
    /\ UNCHANGED <<log, gone, filter, drawer, call, owed, clicks>>

\* A list that arrives is fresh, whatever was marked since it was read.  The drawer
\* follows the list the page shows, when it changes: an equal list is the same object
\* to React, and the effect does not run.
ShowFetch(p, f) ==
    LET rows == cache[p][f].rows
    IN  /\ cache[p][f].stage = "read"
        /\ cache' = [cache EXCEPT ![p][f] = [NoQuery EXCEPT !.list = rows, !.loaded = TRUE]]
        /\ IF f = filter[p] /\ rows # cache[p][f].list THEN Follow(p, rows) ELSE UNCHANGED drawer
        /\ owed' = [owed EXCEPT ![p][f] = [t \in Tickets |-> IF rows[t] >= @[t] THEN 0 ELSE @[t]]]
        /\ UNCHANGED <<log, gone, filter, call, clicks>>

FailFetch(p, f) ==
    /\ InFlight(cache[p][f])
    /\ cache' = [cache EXCEPT ![p][f].stage = "failed", ![p][f].rows = NoList]
    /\ UNCHANGED <<log, gone, filter, drawer, call, owed, clicks>>

\* The tickets on the page: those of the filter, and without one all that are not archived.
ListOf(p) == cache[p][filter[p]].list
Shown(p) ==
    {t \in Tickets : /\ ListOf(p)[t] > 0
                     /\ LET s == log[t][ListOf(p)[t]].status
                        IN  IF filter[p] = "all" THEN s # "archived" ELSE s = filter[p]}

\* The filter for archived tickets shows a panel in place of the board.
OnBoard(p) == {t \in Shown(p) : filter[p] # "archived"}

OpenDrawer(p) ==
    /\ Click
    /\ \E t \in Shown(p) :
          drawer' = [drawer EXCEPT ![p] = [ticket |-> t, version |-> ListOf(p)[t]]]
    /\ UNCHANGED <<log, gone, filter, cache, call, owed>>

CloseDrawer(p) ==
    /\ Click
    /\ drawer[p] # Closed
    /\ drawer' = [drawer EXCEPT ![p] = Closed]
    /\ UNCHANGED <<log, gone, filter, cache, call, owed>>

-----------------------------------------------------------------------------
(* What the user does *)

\* Callbacks given to mutate run for the latest mutation of a button only.
Start(r, new) ==
    /\ Click
    /\ call[r] = NoCall
    /\ new.ticket \in Tickets => Last(new.ticket) < MaxVersions
    /\ call' = [q \in Requests |->
          IF q = r THEN new
          ELSE IF PageOf[q] = PageOf[r] /\ call[q].op = new.op THEN [call[q] EXCEPT !.latest = FALSE]
          ELSE call[q]]
    /\ UNCHANGED <<log, gone, filter, cache, drawer, owed>>

StartCreate(r) ==
    /\ \E t \in Tickets : ~Exists(t)
    /\ \E a \in PickedAssignees :
          Start(r, [NoCall EXCEPT !.op = "create", !.pc = "insert", !.assignee = a, !.latest = TRUE])

\* ticketUpdatePayload: the whole ticket as the page holds it, with one change.
StartEdit(r, t, i, s, a) ==
    Start(r, [NoCall EXCEPT !.op = "edit", !.pc = "update", !.ticket = t, !.base = i,
                            !.status = s, !.assignee = a, !.latest = TRUE])

\* A card is dropped on another column of the board.
StartDrop(r) ==
    LET p == PageOf[r]
    IN  \E t \in OnBoard(p) : \E s \in BoardStatuses \cap PickedStatuses :
          LET row == log[t][ListOf(p)[t]]
          IN  /\ row.status # s
              /\ StartEdit(r, t, ListOf(p)[t], s, row.assignee)

\* The fields of the drawer: status, assignee, or one that is not modelled.  What is
\* sent for the ticket of zero values does not matter.
StartChange(r) ==
    LET d == drawer[PageOf[r]]
        i == d.version
    IN  \/ /\ d.ticket \in Tickets
           /\ \/ \E s \in PickedStatuses : StartEdit(r, d.ticket, i, s, log[d.ticket][i].assignee)
              \/ \E a \in PickedAssignees : StartEdit(r, d.ticket, i, log[d.ticket][i].status, a)
        \/ d = ZeroDrawer /\ StartEdit(r, ZeroTicket, 0, "todo", NoOne)

StartWork(r) ==
    LET t == drawer[PageOf[r]].ticket
        i == drawer[PageOf[r]].version
    IN  /\ t # "none"
        /\ t \in Tickets => log[t][i].status # "archived"
        /\ \E op \in WorkOps :
              Start(r, [NoCall EXCEPT !.op = op, !.pc = "read", !.ticket = t, !.latest = TRUE])

-----------------------------------------------------------------------------
(* Handlers *)

End(r) == call' = [call EXCEPT ![r] = NoCall]

\* The fields of the request matter until its UPDATE.
Goto(r, pc, t, v) ==
    call' = [call EXCEPT ![r] = [NoCall EXCEPT !.op = call[r].op, !.latest = call[r].latest,
                                               !.pc = pc, !.ticket = t, !.version = v]]

\* The id comes from the sequence of the table.
InsertTask(r) ==
    /\ call[r].pc = "insert"
    /\ \E t \in Tickets :
          /\ CreateTicket(t, MemberOf[PageOf[r]], call[r].assignee, "manual")
          /\ Goto(r, "answered", t, 1)
    /\ UNCHANGED <<filter, cache, drawer, owed, clicks>>

\* The path of a request for ticket 0 is refused before any statement.
Found(t) == t \in Tickets /\ Live(t)

\* claim, complete and refuse read the row they will write back.
ReadTask(r) ==
    /\ call[r].pc = "read"
    /\ \/ /\ Found(call[r].ticket)
          /\ call' = [call EXCEPT ![r].pc = "update", ![r].base = Last(call[r].ticket)]
       \/ ~Found(call[r].ticket) /\ End(r)
    /\ UNCHANGED <<log, gone, filter, cache, drawer, owed, clicks>>

WriteRow(r) ==
    LET t == call[r].ticket
        row == log[t][call[r].base]
    IN  Append1(t, IF call[r].op = "edit" THEN Edit(row, call[r].status, call[r].assignee)
                   ELSE Work(call[r].op, row, MemberOf[PageOf[r]]))

\* Mutant: UPDATE without "deleted_at IS NULL".
UpdateAnyTask(r) ==
    /\ call[r].pc = "update"
    /\ call[r].ticket \in Tickets
    /\ Last(call[r].ticket) < MaxVersions
    /\ WriteRow(r)
    /\ Goto(r, "reread", call[r].ticket, Last(call[r].ticket) + 1)
    /\ UNCHANGED <<gone, filter, cache, drawer, owed, clicks>>

\* The UPDATE of every column; no row comes back for a deleted ticket.
UpdateTask(r) ==
    /\ call[r].pc = "update"
    /\ \/ /\ Found(call[r].ticket)
          /\ Last(call[r].ticket) < MaxVersions
          /\ WriteRow(r)
          /\ Goto(r, "reread", call[r].ticket, Last(call[r].ticket) + 1)
       \/ /\ ~Found(call[r].ticket)
          /\ End(r)
          /\ UNCHANGED log
    /\ UNCHANGED <<gone, filter, cache, drawer, owed, clicks>>

\* The answer is the row as it is by now.  If the SELECT finds none, or fails, a PUT
\* answers what it wrote; the other three answer the ticket of zero values, which
\* scanTicketingTask returns beside its error and is not nil.
RereadTask(r) ==
    LET t == call[r].ticket
    IN  /\ call[r].pc = "reread"
        /\ \/ Live(t) /\ Goto(r, "answered", t, Last(t))
           \/ call[r].op = "edit" /\ Goto(r, "answered", t, call[r].version)
           \/ call[r].op # "edit" /\ Goto(r, "answered", ZeroTicket, 0)
        /\ UNCHANGED <<log, gone, filter, cache, drawer, owed, clicks>>

\* POST /chat/derive-ticket assigns the ticket to whoever wrote the message.
DeriveTicket(m) ==
    /\ \E t \in Tickets : CreateTicket(t, m, m, "chat")
    /\ UNCHANGED pageVars

\* DELETE /ticketing/tickets/{id}: no page of the front end sends it.
DeleteTask(t) ==
    /\ DeleteTicket(t)
    /\ UNCHANGED pageVars

-----------------------------------------------------------------------------
(* The answer reaches the page *)

\* The lists an answer promises its version to: the one that is fetched for it, and
\* those marked for later, unless an older list for one of them is on its way.
Promised(p, op) ==
    {f \in Filters : /\ cache[p][f].loaded
                     /\ f = filter[p] \/ (op # "edit" /\ cache[p][f].stage # "read")}

Arrive(r) ==
    LET p == PageOf[r]
        t == call[r].ticket
        v == call[r].version
        op == call[r].op
    IN  /\ call[r].pc = "answered"
        /\ End(r)
        /\ IF op = "edit" THEN Refetch(p) ELSE Invalidate(p)
        /\ drawer' = IF op = "edit" \/ (op \in WorkOps /\ call[r].latest)
                     THEN [drawer EXCEPT ![p] = [ticket |-> t, version |-> v]] ELSE drawer
        /\ owed' = [owed EXCEPT ![p] = [f \in Filters |-> [u \in Tickets |->
              IF u = t /\ f \in Promised(p, op) /\ v > cache[p][f].list[u] /\ v > @[f][u]
              THEN v ELSE @[f][u]]]]
        /\ UNCHANGED <<log, gone, filter, clicks>>

\* An error, or no answer: the connection broke, before or after a statement ran.
\* A request whose row is gone ends at once in its handler, with the same effect.
Fail(r) ==
    /\ call[r].pc # "idle"
    /\ End(r)
    /\ UNCHANGED <<log, gone, filter, cache, drawer, owed, clicks>>

-----------------------------------------------------------------------------
User(r) == StartCreate(r) \/ StartDrop(r) \/ StartChange(r) \/ StartWork(r)
Handler(r) == InsertTask(r) \/ ReadTask(r) \/ UpdateTask(r) \/ RereadTask(r)
Fetch(p, f) == ServeFetch(p, f) \/ ShowFetch(p, f)

Next ==
    \/ \E r \in Requests : User(r) \/ Handler(r) \/ Arrive(r) \/ Fail(r)
    \/ \E p \in Pages : StartFetch(p) \/ ChooseFilter(p) \/ OpenDrawer(p) \/ CloseDrawer(p)
    \/ \E p \in Pages, f \in Filters : Fetch(p, f) \/ FailFetch(p, f)
    \/ \E m \in Members : DeriveTicket(m)
    \/ \E t \in Tickets : DeleteTask(t)

Spec == Init /\ [][Next]_vars

-----------------------------------------------------------------------------
\* Every write is one operation on one whole version of a ticket that is not
\* deleted, however handlers, pages and deletions interleave; a request for the ticket
\* of zero values touches none.
ImplementsLog == LogSpec

\* A list the page shows as it is cached, without a fetch, has the writes it was
\* promised, or newer ones: an edit promises its version to the list that was shown
\* when it was answered (list.refetch), every other write to all lists
\* (invalidateQueries).  The fetch for such a write never loses against one that was
\* sent before it, and the mark on a hidden list lasts until the list has the write.
\* A list an edit was not promised to may lack it: TicketingPage.tsx:255 fetches one.
PageSeesOwnWrites ==
    \A p \in Pages, f \in Filters, t \in Tickets :
        LET q == cache[p][f]
        IN  q.stage = "idle" /\ ~q.stale /\ t \notin gone => owed[p][f][t] = 0

\* A list that is behind its promised writes catches up while the page shows it, unless
\* its fetch fails; so does one that is hidden and not marked.
OwnWritesShown ==
    \A p \in Pages, f \in Filters, t \in Tickets :
        owed[p][f][t] > 0 /\ (f = filter[p] \/ ~cache[p][f].stale)
            ~> owed[p][f][t] = 0 \/ t \in gone \/ cache[p][f].stage = "failed"
=============================================================================
