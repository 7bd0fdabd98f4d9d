---------------------------- MODULE TicketingProofs ---------------------------
(***************************************************************************)
(* Proofs about TicketLog and Ticketing, for any members, tickets, pages   *)
(* and mutations.                                                          *)
(***************************************************************************)
EXTENDS Ticketing, TLAPS

-----------------------------------------------------------------------------
(* The log *)

\* The stamps of one row agree with its status and its assignee.
Truthful(row) ==
    /\ row.claimed # NoOne => row.claimed = row.assignee
    /\ (row.claimed # NoOne \/ row.completed \/ row.refused) =>
           row.status \in {"in_progress", "blocked", "done"}

SameOrigin(a, b) == a.creator = b.creator /\ a.source = b.source

LogOK == \A t \in Tickets : \A i \in 1..Last(t) :
            Truthful(log[t][i]) /\ SameOrigin(log[t][i], log[t][1])

LogInv == LogTypeOK /\ LogOK

\* A new ticket is a row of the table, without stamps.
LEMMA NewRowOK ==
    ASSUME NEW m \in Members, NEW a \in Assignees, NEW source \in {"manual", "chat"}
    PROVE  NewRow(m, a, source) \in Rows /\ Truthful(NewRow(m, a, source))
BY DEF NewRow, Rows, Truthful, Statuses, BoardStatuses, Assignees

\* A PUT yields a row of the same origin without stamps, whatever it replaces.
LEMMA EditOK ==
    ASSUME NEW row \in Rows, NEW s \in Statuses, NEW a \in Assignees
    PROVE  /\ Edit(row, s, a) \in Rows
           /\ Truthful(Edit(row, s, a))
           /\ SameOrigin(Edit(row, s, a), row)
BY DEF Edit, Rows, Truthful, SameOrigin, Assignees

\* A claim, completion or refusal keeps the stamps of a row true, and its origin.
LEMMA WorkOK ==
    ASSUME NEW op \in WorkOps, NEW row \in Rows, NEW m \in Members, Truthful(row)
    PROVE  /\ Work(op, row, m) \in Rows
           /\ Truthful(Work(op, row, m))
           /\ SameOrigin(Work(op, row, m), row)
<1>1. CASE op = "claim"
  <2>1. Work(op, row, m) = [row EXCEPT !.status = "in_progress", !.assignee = m, !.claimed = m]
    BY <1>1 DEF Work
  <2> QED  BY <2>1 DEF Rows, Truthful, SameOrigin, Statuses, BoardStatuses, Assignees
<1>2. CASE op = "complete"
  <2>1. Work(op, row, m) = [row EXCEPT !.status = "done", !.completed = TRUE]
    BY <1>2 DEF Work
  <2> QED  BY <2>1 DEF Rows, Truthful, SameOrigin, Statuses, BoardStatuses
<1>3. CASE op = "refuse"
  <2>1. Work(op, row, m) = [row EXCEPT !.status = "blocked", !.refused = TRUE]
    BY <1>3 DEF Work
  <2> QED  BY <2>1 DEF Rows, Truthful, SameOrigin, Statuses, BoardStatuses
<1> QED  BY <1>1, <1>2, <1>3 DEF WorkOps

\* Appending a true row of the right origin keeps the log in order.
LEMMA AppendOK ==
    ASSUME LogInv, NEW t \in Tickets, NEW row \in Rows, Append1(t, row), UNCHANGED gone,
           Truthful(row), Last(t) > 0 => SameOrigin(row, log[t][1])
    PROVE  LogInv'
<1>1. /\ log \in [Tickets -> Seq(Rows)]
      /\ log' = [log EXCEPT ![t] = Append(log[t], row)]
      /\ log[t] \in Seq(Rows)
  BY DEF LogInv, LogTypeOK, Append1
<1>2. log' \in [Tickets -> Seq(Rows)]
  BY <1>1
<1>3. ASSUME NEW u \in Tickets, NEW i \in 1..Len(log'[u])
      PROVE  Truthful(log'[u][i]) /\ SameOrigin(log'[u][i], log'[u][1])
  <2>1. CASE u # t
    <3>1. log'[u] = log[u]
      BY <1>1, <2>1
    <3> QED  BY <3>1, <1>3 DEF LogInv, LogOK, Last
  <2>2. CASE u = t
    <3>1. log'[t] = Append(log[t], row) /\ Len(log[t]) \in Nat
      BY <1>1
    <3>2. Len(log'[t]) = Len(log[t]) + 1 /\ log'[t][Len(log[t]) + 1] = row
      BY <3>1, <1>1
    <3>3. \A k \in 1..Len(log[t]) : log'[t][k] = log[t][k]
      BY <3>1, <1>1
    <3>4. CASE i = Len(log[t]) + 1
      <4>1. CASE Len(log[t]) = 0
        BY <3>2, <3>4, <4>1, <2>2 DEF SameOrigin
      <4>2. CASE Len(log[t]) > 0
        <5>1. log'[t][1] = log[t][1] /\ Last(t) > 0
          BY <3>3, <3>1, <4>2 DEF Last
        <5> QED  BY <3>2, <3>4, <2>2, <5>1
      <4> QED  BY <3>1, <4>1, <4>2
    <3>5. CASE i \in 1..Len(log[t])
      <4>1. log'[t][i] = log[t][i] /\ log'[t][1] = log[t][1]
        BY <3>3, <3>1, <3>5
      <4> QED  BY <4>1, <3>5, <2>2 DEF LogInv, LogOK, Last
    <3> QED  BY <3>1, <3>2, <3>4, <3>5, <1>3, <2>2
  <2> QED  BY <2>1, <2>2
<1> QED  BY <1>2, <1>3 DEF LogInv, LogTypeOK, LogOK, Last

LEMMA LogStep == LogInv /\ [LogNext]_logVars => LogInv'
<1> SUFFICES ASSUME LogInv, [LogNext]_logVars PROVE LogInv'
  OBVIOUS
<1>0. \A t \in Tickets : log[t] \in Seq(Rows) /\ Last(t) \in Nat
  BY DEF LogInv, LogTypeOK, Last
<1>r. ASSUME NEW t \in Tickets, NEW i \in 1..Last(t)
      PROVE  /\ log[t][i] \in Rows /\ Truthful(log[t][i])
             /\ SameOrigin(log[t][i], log[t][1])
  BY <1>0, <1>r DEF LogInv, LogOK, Last
<1>1. ASSUME NEW t \in Tickets, NEW m \in Members, NEW a \in Assignees,
             NEW source \in {"manual", "chat"}, CreateTicket(t, m, a, source)
      PROVE  LogInv'
  BY <1>1, NewRowOK, AppendOK DEF CreateTicket, Exists
<1>2. ASSUME NEW t \in Tickets, NEW i \in 1..Last(t), NEW s \in Statuses, NEW a \in Assignees,
             EditTicket(t, i, s, a)
      PROVE  LogInv'
  <2> DEFINE row == Edit(log[t][i], s, a)
  <2>1. row \in Rows /\ Truthful(row) /\ SameOrigin(row, log[t][1])
    BY <1>r, EditOK DEF SameOrigin
  <2> QED  BY <2>1, <1>2, AppendOK DEF EditTicket
<1>3. ASSUME NEW t \in Tickets, NEW i \in 1..Last(t), NEW op \in WorkOps, NEW m \in Members,
             WorkOnTicket(t, i, op, m)
      PROVE  LogInv'
  <2> DEFINE row == Work(op, log[t][i], m)
  <2>1. row \in Rows /\ Truthful(row) /\ SameOrigin(row, log[t][1])
    BY <1>r, WorkOK DEF SameOrigin
  <2> QED  BY <2>1, <1>3, AppendOK DEF WorkOnTicket
<1>4. ASSUME NEW t \in Tickets, DeleteTicket(t) PROVE LogInv'
  BY <1>4 DEF DeleteTicket, LogInv, LogTypeOK, LogOK, Last
<1>5. CASE UNCHANGED logVars
  BY <1>5 DEF logVars, LogInv, LogTypeOK, LogOK, Last
<1> QED  BY <1>1, <1>2, <1>3, <1>4, <1>5 DEF LogNext

\* The abstract log keeps types, true stamps and origins.
THEOREM LogCorrect == LogSpec => [](LogTypeOK /\ StampsTellTruth /\ OriginKept)
<1>1. LogInit => LogInv
  BY DEF LogInit, LogInv, LogTypeOK, LogOK, Last
<1>2. LogInv => LogTypeOK /\ StampsTellTruth /\ OriginKept
  BY DEF LogInv, LogOK, Truthful, SameOrigin, StampsTellTruth, OriginKept
<1> QED  BY <1>1, <1>2, LogStep, PTL DEF LogSpec

-----------------------------------------------------------------------------
(* Handlers and pages *)

Versions(t) == 1..Last(t)

\* What a mutation holds exists; a request for the ticket of zero values has not
\* passed its first statement, and only an action answers that ticket.
CallFits(c) ==
    /\ c.pc \in {"read", "update"} => c.ticket \in Tickets \cup {ZeroTicket}
    /\ c.pc = "read" => c.op \in WorkOps
    /\ c.pc = "update" => c.op \in {"edit"} \cup WorkOps
    /\ c.pc = "update" /\ c.ticket # ZeroTicket => c.base \in Versions(c.ticket)
    /\ c.pc = "reread" => c.ticket \in Tickets /\ c.version \in Versions(c.ticket)
    /\ c.pc = "answered" =>
          \/ c.ticket \in Tickets /\ c.version \in Versions(c.ticket)
          \/ c.ticket = ZeroTicket /\ c.version = 0

\* So does what a cached list holds; a fetch that was served has the page's own writes.
EntryFits(q, o, lg, g) ==
    \A t \in Tickets :
        /\ q.list[t] \in 0..Len(lg[t])
        /\ q.rows[t] \in 0..Len(lg[t])
        /\ o[t] \in 0..Len(lg[t])
        /\ ~q.loaded => o[t] = 0
        /\ q.stage = "idle" /\ ~q.stale => t \in g \/ o[t] = 0
        /\ q.stage = "read" => t \in g \/ q.rows[t] >= o[t]

DrawerFits(d, lg) == d.ticket \in Tickets => d.version \in 1..Len(lg[d.ticket])

PagesTypeOK ==
    /\ filter \in [Pages -> Filters]
    /\ cache \in [Pages -> [Filters -> Queries]]
    /\ drawer \in [Pages -> Drawers]
    /\ owed \in [Pages -> [Filters -> Lists]]

CallsOK ==
    /\ call \in [Requests -> Calls]
    /\ \A r \in Requests : CallFits(call[r])

PagesOK ==
    /\ PagesTypeOK
    /\ \A p \in Pages : DrawerFits(drawer[p], log)
    /\ \A p \in Pages, f \in Filters : EntryFits(cache[p][f], owed[p][f], log, gone)

TInv == LogInv /\ PagesOK /\ CallsOK /\ clicks \in 0..MaxClicks

\* Versions are never lost, and a deleted ticket stays deleted.
LEMMA Grow ==
    ASSUME LogInv, [LogNext]_logVars
    PROVE  /\ \A t \in Tickets : Last(t) \in Nat /\ Last(t)' \in Nat /\ Last(t) <= Last(t)'
           /\ gone \subseteq gone'
<1>0. /\ log \in [Tickets -> Seq(Rows)]
      /\ log' \in [Tickets -> Seq(Rows)]
  BY LogStep DEF LogInv, LogTypeOK
<1>1. \A t \in Tickets : Last(t) \in Nat /\ Last(t)' \in Nat
  BY <1>0 DEF Last
<1>2. ASSUME NEW u \in Tickets, NEW row, Append1(u, row)
      PROVE  \A t \in Tickets : Last(t) <= Last(t)'
  <2>1. \A t \in Tickets : t # u => log'[t] = log[t]
    BY <1>0, <1>2 DEF Append1
  <2>2. log'[u] = Append(log[u], row) /\ log[u] \in Seq(Rows)
    BY <1>0, <1>2 DEF Append1
  <2>3. Len(log'[u]) = Len(log[u]) + 1
    BY <2>2
  <2> QED  BY <2>1, <2>3, <1>1 DEF Last
<1>3. CASE UNCHANGED logVars
  BY <1>3, <1>1 DEF logVars, Last
<1>4. CASE LogNext
  <2>1. \/ gone' = gone /\ \E u \in Tickets : \E row : Append1(u, row)
        \/ gone \subseteq gone' /\ log' = log
    BY <1>4 DEF LogNext, CreateTicket, EditTicket, WorkOnTicket, DeleteTicket
  <2> QED  BY <2>1, <1>1, <1>2 DEF Last
<1> QED  BY <1>1, <1>3, <1>4

\* A step of the log disturbs no page.
LEMMA PagesKept ==
    ASSUME LogInv, PagesOK, [LogNext]_logVars, UNCHANGED <<filter, cache, drawer, owed>>
    PROVE  PagesOK'
<1>1. PagesTypeOK'
  BY DEF PagesOK, PagesTypeOK
<1>2. \A t \in Tickets : /\ Len(log[t]) \in Nat /\ Len(log'[t]) \in Nat
                         /\ Len(log[t]) <= Len(log'[t])
  BY Grow DEF Last
<1>3. ASSUME NEW p \in Pages PROVE DrawerFits(drawer'[p], log')
  BY <1>2, <1>3 DEF PagesOK, DrawerFits
<1>4. ASSUME NEW p \in Pages, NEW f \in Filters
      PROVE  EntryFits(cache'[p][f], owed'[p][f], log', gone')
  <2>1. EntryFits(cache[p][f], owed[p][f], log, gone)
    BY <1>4 DEF PagesOK
  <2> QED  BY <2>1, <1>2, Grow DEF EntryFits
<1> QED  BY <1>1, <1>3, <1>4 DEF PagesOK

\* Nor a mutation.
LEMMA FitsKept ==
    ASSUME LogInv, [LogNext]_logVars, NEW c \in Calls, CallFits(c)
    PROVE  CallFits(c)'
BY Grow DEF CallFits, Versions

\* A handler's step changes one mutation and the log.
LEMMA HandlerKeeps ==
    ASSUME TInv, [LogNext]_logVars, UNCHANGED <<filter, cache, drawer, owed, clicks>>,
           NEW r \in Requests, NEW c \in Calls, CallFits(c)', call' = [call EXCEPT ![r] = c]
    PROVE  TInv'
<1>1. LogInv' /\ PagesOK'
  BY LogStep, PagesKept DEF TInv
<1>2. CallsOK'
  <2>1. ASSUME NEW q \in Requests PROVE CallFits(call[q])'
    <3>1. call[q] \in Calls /\ CallFits(call[q])
      BY <2>1 DEF TInv, CallsOK
    <3>2. CallFits(call[q]) /\ call'[q] = call[q] => CallFits(call[q])'
      BY <3>1, Grow DEF CallFits, Versions, TInv
    <3> QED  BY <3>1, <3>2 DEF TInv, CallsOK
  <2> QED  BY <2>1 DEF TInv, CallsOK
<1> QED  BY <1>1, <1>2 DEF TInv

\* A click that starts a mutation.
LEMMA StartOK ==
    ASSUME TInv, NEW r \in Requests, NEW new \in Calls, CallFits(new), Start(r, new)
    PROVE  TInv' /\ UNCHANGED logVars
<1>1. UNCHANGED logVars /\ UNCHANGED <<filter, cache, drawer, owed>> /\ clicks' \in 0..MaxClicks
  BY PagesAssumption DEF Start, Click, logVars, TInv
<1>2. LogInv' /\ PagesOK'
  BY <1>1, LogStep, PagesKept DEF TInv
<1>3. ASSUME NEW q \in Requests PROVE call'[q] \in Calls /\ CallFits(call[q])'
  <2>1. call[q] \in Calls /\ CallFits(call[q])
    BY <1>3 DEF TInv, CallsOK
  <2>2. \/ call'[q] = new
        \/ call'[q] = [call[q] EXCEPT !.latest = FALSE]
        \/ call'[q] = call[q]
    BY <1>3 DEF Start
  <2>3. call'[q] \in Calls /\ CallFits(call'[q])
    BY <2>1, <2>2 DEF Calls, CallFits
  <2> QED  BY <2>3, <1>1 DEF CallFits, Versions, Last, logVars
<1>4. call' = [q \in Requests |-> call'[q]]
  BY DEF Start
<1> QED  BY <1>1, <1>2, <1>3, <1>4 DEF TInv, CallsOK

\* A slot without a mutation.
LEMMA IdleFits == NoCall \in Calls /\ CallFits(NoCall) /\ CallFits(NoCall)'
BY DEF NoCall, Calls, CallFits, Statuses, BoardStatuses, Assignees

\* Every click on a ticket starts from a version the page holds.
LEMMA UserOK ==
    ASSUME TInv, NEW r \in Requests, User(r)
    PROVE  TInv' /\ UNCHANGED logVars
<1> DEFINE p == PageOf[r]
<1>1. /\ p \in Pages /\ DrawerFits(drawer[p], log) /\ drawer[p] \in Drawers
      /\ filter[p] \in Filters /\ ListOf(p) \in Lists
      /\ EntryFits(cache[p][filter[p]], owed[p][filter[p]], log, gone)
      /\ log \in [Tickets -> Seq(Rows)]
  BY PagesAssumption DEF TInv, PagesOK, PagesTypeOK, LogInv, LogTypeOK, ListOf, Queries
<1>2. \A t \in Tickets : Last(t) \in Nat
  BY <1>1 DEF Last
<1>3. ASSUME NEW t \in Tickets, NEW i \in Versions(t), NEW st \in Statuses, NEW a \in Assignees,
             StartEdit(r, t, i, st, a)
      PROVE  TInv' /\ UNCHANGED logVars
  <2>1. PICK new : new = [NoCall EXCEPT !.op = "edit", !.pc = "update", !.ticket = t, !.base = i,
                                        !.status = st, !.assignee = a, !.latest = TRUE]
    OBVIOUS
  <2>2. new.op = "edit" /\ new.pc = "update" /\ new.ticket = t /\ new.base = i /\ i \in Nat
    BY <2>1, <1>2 DEF NoCall, Versions
  <2>3. new \in Calls
    BY <2>1, <2>2, IdleFits DEF NoCall, Calls
  <2>4. CallFits(new)
    BY <2>2, PagesAssumption DEF CallFits
  <2> QED  BY <2>1, <2>3, <2>4, <1>3, StartOK DEF StartEdit
<1>4. ASSUME NEW t \in Tickets, NEW i \in Versions(t)
      PROVE  log[t][i].status \in Statuses /\ log[t][i].assignee \in Assignees
  <2>1. log[t][i] \in Rows
    BY <1>1, <1>4 DEF Versions, Last
  <2> QED  BY <2>1 DEF Rows
<1>5. CASE StartCreate(r)
  <2>1. PICK a \in Assignees :
          Start(r, [NoCall EXCEPT !.op = "create", !.pc = "insert", !.assignee = a, !.latest = TRUE])
    BY <1>5, PagesAssumption DEF StartCreate
  <2> DEFINE new == [NoCall EXCEPT !.op = "create", !.pc = "insert", !.assignee = a, !.latest = TRUE]
  <2>2. new \in Calls /\ CallFits(new)
    BY DEF NoCall, Calls, CallFits, Statuses, BoardStatuses
  <2> QED  BY <2>1, <2>2, StartOK
<1>6. CASE StartDrop(r)
  <2>1. PICK t \in Tickets, st \in Statuses :
          ListOf(p)[t] > 0 /\ StartEdit(r, t, ListOf(p)[t], st, log[t][ListOf(p)[t]].assignee)
    BY <1>6 DEF StartDrop, OnBoard, Shown, Statuses
  <2>2. ListOf(p)[t] \in 0..Len(log[t])
    BY <1>1 DEF EntryFits, ListOf
  <2>3. ListOf(p)[t] \in Versions(t)
    BY <2>1, <2>2, <1>2 DEF Versions, Last
  <2> QED  BY <2>1, <2>3, <1>3, <1>4
<1> DEFINE d == drawer[p].ticket
           i == drawer[p].version
<1>7. d \in Tickets => i \in Versions(d)
  BY <1>1 DEF DrawerFits, Versions, Last
<1>8. CASE StartChange(r)
  <2>1. CASE d \in Tickets
    <3>1. i \in Versions(d)
      BY <2>1, <1>7
    <3>2. \/ \E st \in Statuses : StartEdit(r, d, i, st, log[d][i].assignee)
          \/ \E a \in Assignees : StartEdit(r, d, i, log[d][i].status, a)
      <4>1. drawer[p] # ZeroDrawer
        BY <2>1, PagesAssumption DEF ZeroDrawer
      <4> QED  BY <4>1, <1>8, PagesAssumption DEF StartChange
    <3> QED  BY <2>1, <3>1, <3>2, <1>3, <1>4
  <2>2. CASE d \notin Tickets
    <3>1. StartEdit(r, ZeroTicket, 0, "todo", NoOne)
      BY <1>8, <2>2 DEF StartChange
    <3> DEFINE new == [NoCall EXCEPT !.op = "edit", !.pc = "update", !.ticket = ZeroTicket,
                         !.base = 0, !.status = "todo", !.assignee = NoOne, !.latest = TRUE]
    <3>2. new \in Calls /\ CallFits(new)
      BY DEF NoCall, Calls, CallFits, Statuses, BoardStatuses, Assignees
    <3> QED  BY <3>1, <3>2, StartOK DEF StartEdit
  <2> QED  BY <2>1, <2>2
<1>9. CASE StartWork(r)
  <2>1. d \in Tickets \cup {ZeroTicket}
    BY <1>9, <1>1 DEF StartWork, Drawers, Closed, ZeroDrawer
  <2>2. PICK op \in WorkOps :
          Start(r, [NoCall EXCEPT !.op = op, !.pc = "read", !.ticket = d, !.latest = TRUE])
    BY <1>9 DEF StartWork
  <2> DEFINE new == [NoCall EXCEPT !.op = op, !.pc = "read", !.ticket = d, !.latest = TRUE]
  <2>3. new \in Calls /\ CallFits(new)
    BY <2>1 DEF NoCall, Calls, CallFits, Statuses, BoardStatuses, Assignees
  <2> QED  BY <2>2, <2>3, StartOK
<1> QED  BY <1>5, <1>6, <1>8, <1>9 DEF User

\* What a handler keeps after its UPDATE or INSERT.
LEMMA GotoOK ==
    ASSUME TInv, [LogNext]_logVars, UNCHANGED <<filter, cache, drawer, owed, clicks>>,
           NEW r \in Requests, NEW pc \in {"reread", "answered"}, NEW t \in Tickets,
           NEW v \in 1..Last(t)', Goto(r, pc, t, v)
    PROVE  TInv'
<1>1. call[r] \in Calls
  BY DEF TInv, CallsOK
<1>2. PICK c : c = [NoCall EXCEPT !.op = call[r].op, !.latest = call[r].latest,
                                 !.pc = pc, !.ticket = t, !.version = v]
  OBVIOUS
<1>3. /\ c.op = call[r].op /\ c.pc = pc /\ c.ticket = t /\ c.version = v
      /\ v \in Nat
  BY <1>2, Grow DEF NoCall, TInv
<1>4. c \in Calls
  BY <1>1, <1>2, <1>3, IdleFits DEF NoCall, Calls
<1>5. CallFits(c)'
  BY <1>3 DEF CallFits, Versions
<1> QED  BY <1>2, <1>4, <1>5, HandlerKeeps DEF Goto

\* Every statement of a handler is a step of the log, or touches no row.
LEMMA HandlerOK ==
    ASSUME TInv, NEW r \in Requests, Handler(r)
    PROVE  TInv' /\ [LogNext]_logVars
<1> PICK t : t = call[r].ticket
  OBVIOUS
<1>1. /\ call[r] \in Calls /\ CallFits(call[r])
      /\ log \in [Tickets -> Seq(Rows)]
      /\ MemberOf[PageOf[r]] \in Members
  BY PagesAssumption DEF TInv, CallsOK, LogInv, LogTypeOK
<1>2. ASSUME NEW u \in Tickets, NEW row, Append1(u, row)
      PROVE  Last(u) \in Nat /\ Last(u)' = Last(u) + 1
  <2>1. log'[u] = Append(log[u], row) /\ log[u] \in Seq(Rows)
    BY <1>1, <1>2 DEF Append1
  <2> QED  BY <2>1 DEF Last
<1>3. CASE InsertTask(r)
  <2>1. PICK u \in Tickets : /\ CreateTicket(u, MemberOf[PageOf[r]], call[r].assignee, "manual")
                             /\ Goto(r, "answered", u, 1)
    BY <1>3 DEF InsertTask
  <2>2. LogNext
    BY <2>1, <1>1 DEF LogNext, Calls
  <2>3. 1 \in 1..Last(u)'
    BY <2>1, <1>2 DEF CreateTicket
  <2> QED  BY <2>1, <2>2, <2>3, <1>3, GotoOK DEF InsertTask
<1>4. CASE ReadTask(r)
  <2>1. call[r].op \in WorkOps /\ UNCHANGED logVars
    BY <1>4, <1>1 DEF ReadTask, CallFits, logVars
  <2>2. CASE Found(t) /\ call' = [call EXCEPT ![r].pc = "update", ![r].base = Last(t)]
    <3> PICK c : c = [call[r] EXCEPT !.pc = "update", !.base = Last(t)]
      OBVIOUS
    <3>1. call' = [call EXCEPT ![r] = c]
      BY <2>2 DEF TInv, CallsOK
    <3>2. t \in Tickets /\ Last(t) \in Nat /\ Last(t) > 0 /\ Last(t)' = Last(t)
      BY <2>1, <2>2, <1>1 DEF Found, Last, Live, Exists, logVars
    <3>3. c.op = call[r].op /\ c.pc = "update" /\ c.ticket = t /\ c.base = Last(t)
      BY <1>1 DEF Calls
    <3>4. c \in Calls
      BY <3>2, <1>1 DEF Calls
    <3>5. CallFits(c)'
      BY <3>2, <3>3, <2>1 DEF CallFits, Versions
    <3> QED  BY <3>1, <3>4, <3>5, <2>1, <1>4, HandlerKeeps DEF ReadTask
  <2>3. CASE End(r)
    BY <2>3, <2>1, <1>4, IdleFits, HandlerKeeps DEF ReadTask, End
  <2> QED  BY <2>2, <2>3, <1>4 DEF ReadTask
<1>5. CASE UpdateTask(r)
  <2>1. /\ call[r].op \in {"edit"} \cup WorkOps
        /\ t \in Tickets => call[r].base \in 1..Last(t)
    BY <1>5, <1>1, PagesAssumption DEF UpdateTask, CallFits, Versions
  <2>2. CASE /\ t \in Tickets /\ Live(t)
             /\ WriteRow(r)
             /\ Goto(r, "reread", t, Last(t) + 1)
    <3>1. LogNext
      <4>1. CASE call[r].op = "edit"
        <5>1. EditTicket(t, call[r].base, call[r].status, call[r].assignee)
          BY <4>1, <2>2, <1>5 DEF WriteRow, EditTicket, UpdateTask
        <5> QED  BY <5>1, <2>1, <2>2, <1>1 DEF LogNext, Calls
      <4>2. CASE call[r].op # "edit"
        <5>1. call[r].op \in WorkOps
          BY <4>2, <2>1
        <5>2. WorkOnTicket(t, call[r].base, call[r].op, MemberOf[PageOf[r]])
          BY <4>2, <2>2, <1>5 DEF WriteRow, WorkOnTicket, UpdateTask
        <5> QED  BY <5>1, <5>2, <2>1, <2>2, <1>1 DEF LogNext
      <4> QED  BY <4>1, <4>2
    <3>2. Last(t) \in Nat /\ Last(t)' = Last(t) + 1
      BY <2>1, <2>2, <1>2 DEF WriteRow
    <3>3. Last(t) + 1 \in 1..Last(t)'
      BY <3>2
    <3> QED  BY <3>1, <3>3, <2>1, <2>2, <1>5, GotoOK DEF UpdateTask
  <2>3. CASE End(r) /\ UNCHANGED log
    BY <2>3, <1>5, IdleFits, HandlerKeeps DEF UpdateTask, End, logVars
  <2> QED  BY <2>2, <2>3, <1>5 DEF UpdateTask, Found
<1>6. CASE RereadTask(r)
  <2>1. t \in Tickets /\ call[r].version \in 1..Last(t) /\ UNCHANGED logVars
    BY <1>6, <1>1 DEF RereadTask, CallFits, Versions, logVars
  <2>2. ASSUME NEW v \in 1..Last(t), Goto(r, "answered", t, v)
        PROVE  TInv'
    <3>1. v \in 1..Last(t)'
      BY <2>1, <2>2 DEF Last, logVars
    <3> QED  BY <2>1, <2>2, <3>1, <1>6, GotoOK DEF RereadTask
  <2>3. CASE Live(t) /\ Goto(r, "answered", t, Last(t))
    <3>1. Last(t) \in 1..Last(t)
      BY <2>1, <2>3, <1>1 DEF Live, Exists, Last
    <3> QED  BY <2>1, <2>2, <2>3, <3>1
  <2>4. CASE Goto(r, "answered", ZeroTicket, 0)
    <3> PICK c : c = [NoCall EXCEPT !.op = call[r].op, !.latest = call[r].latest,
                                    !.pc = "answered", !.ticket = ZeroTicket, !.version = 0]
      OBVIOUS
    <3>1. c.pc = "answered" /\ c.ticket = ZeroTicket /\ c.version = 0
      BY DEF NoCall
    <3>2. c \in Calls
      BY <1>1, IdleFits DEF NoCall, Calls
    <3>3. CallFits(c)'
      BY <3>1 DEF CallFits
    <3> QED  BY <3>2, <3>3, <2>1, <2>4, <1>6, HandlerKeeps DEF RereadTask, Goto
  <2> QED  BY <2>1, <2>2, <2>3, <2>4, <1>6 DEF RereadTask
<1> QED  BY <1>3, <1>4, <1>5, <1>6 DEF Handler

\* A step of one page leaves the log, and with it all mutations and other pages.
LEMMA PageKeeps ==
    ASSUME TInv, UNCHANGED logVars, CallsOK', clicks' \in 0..MaxClicks, PagesTypeOK',
           NEW p \in Pages, DrawerFits(drawer'[p], log),
           \A f \in Filters : EntryFits(cache'[p][f], owed'[p][f], log, gone),
           \A q \in Pages : q # p => /\ cache'[q] = cache[q] /\ drawer'[q] = drawer[q]
                                     /\ owed'[q] = owed[q]
    PROVE  TInv'
<1>1. LogInv' /\ log' = log /\ gone' = gone
  BY LogStep DEF TInv, logVars
<1>2. ASSUME NEW q \in Pages PROVE DrawerFits(drawer'[q], log')
  BY <1>1 DEF TInv, PagesOK
<1>3. ASSUME NEW q \in Pages, NEW f \in Filters
      PROVE  EntryFits(cache'[q][f], owed'[q][f], log', gone')
  BY <1>1 DEF TInv, PagesOK
<1> QED  BY <1>1, <1>2, <1>3 DEF TInv, PagesOK

\* Mutations are not disturbed by a step of a page.
LEMMA CallsKept ==
    ASSUME TInv, UNCHANGED logVars, UNCHANGED call
    PROVE  CallsOK'
BY DEF TInv, CallsOK, CallFits, Versions, Last, logVars

\* What the invariant says of one page.
LEMMA PageFits ==
    ASSUME TInv, NEW p \in Pages, NEW f \in Filters
    PROVE  /\ cache[p][f] \in Queries /\ owed[p][f] \in Lists
           /\ EntryFits(cache[p][f], owed[p][f], log, gone)
           /\ filter[p] \in Filters /\ drawer[p] \in Drawers /\ DrawerFits(drawer[p], log)
           /\ \A t \in Tickets : Len(log[t]) \in Nat
BY DEF TInv, PagesOK, PagesTypeOK, LogInv, LogTypeOK

\* A step that changes one list of a page, and perhaps its filter and its drawer.
LEMMA EntryKeeps ==
    ASSUME TInv, UNCHANGED <<logVars, call>>, clicks' \in 0..MaxClicks,
           filter' \in [Pages -> Filters], NEW p \in Pages, NEW f \in Filters,
           NEW q \in Queries, NEW o \in Lists, NEW d \in Drawers,
           EntryFits(q, o, log, gone), DrawerFits(d, log),
           cache' = [cache EXCEPT ![p][f] = q], owed' = [owed EXCEPT ![p][f] = o],
           drawer' = [drawer EXCEPT ![p] = d]
    PROVE  TInv'
<1>1. /\ cache \in [Pages -> [Filters -> Queries]] /\ owed \in [Pages -> [Filters -> Lists]]
      /\ drawer \in [Pages -> Drawers]
  BY DEF TInv, PagesOK, PagesTypeOK
<1>2. PagesTypeOK'
  BY <1>1 DEF PagesTypeOK
<1>3. ASSUME NEW g \in Filters PROVE EntryFits(cache'[p][g], owed'[p][g], log, gone)
  BY <1>1, PageFits
<1>4. drawer'[p] = d /\ \A r \in Pages : r # p => /\ cache'[r] = cache[r] /\ owed'[r] = owed[r]
                                                  /\ drawer'[r] = drawer[r]
  BY <1>1
<1> QED  BY <1>2, <1>3, <1>4, CallsKept, PageKeeps

\* What a step leaves alone.
LEMMA Unchanged ==
    ASSUME TInv, NEW p \in Pages, NEW f \in Filters
    PROVE  /\ owed = [owed EXCEPT ![p][f] = owed[p][f]]
           /\ cache = [cache EXCEPT ![p][f] = cache[p][f]]
           /\ drawer = [drawer EXCEPT ![p] = drawer[p]]
BY DEF TInv, PagesOK, PagesTypeOK

\* A step that changes the query of one list only.
LEMMA QueryKeeps ==
    ASSUME TInv, UNCHANGED <<logVars, filter, drawer, call, owed>>, clicks' \in 0..MaxClicks,
           NEW p \in Pages, NEW f \in Filters, NEW q \in Queries,
           EntryFits(q, owed[p][f], log, gone), cache' = [cache EXCEPT ![p][f] = q]
    PROVE  TInv'
<1>1. PICK o, d : o = owed[p][f] /\ d = drawer[p]
  OBVIOUS
<1>2. /\ o \in Lists /\ d \in Drawers /\ DrawerFits(d, log)
      /\ owed' = [owed EXCEPT ![p][f] = o] /\ drawer' = [drawer EXCEPT ![p] = d]
      /\ filter' \in [Pages -> Filters]
  BY <1>1, PageFits, Unchanged DEF TInv, PagesOK, PagesTypeOK
<1> QED  BY <1>1, <1>2, EntryKeeps

\* A fetch that starts again forgets what it read, unless there was no list yet.
LEMMA FetchAnewOK ==
    ASSUME NEW q \in Queries
    PROVE  /\ FetchAnew(q) \in Queries
           /\ FetchAnew(q).stage \in {"sent", "read"}
           /\ FetchAnew(q).stage = "read" => ~q.loaded /\ q.stage = "read"
           /\ FetchAnew(q).loaded = q.loaded /\ FetchAnew(q).list = q.list
           /\ \/ FetchAnew(q).rows = q.rows
              \/ FetchAnew(q).rows = NoList
           /\ FetchAnew(q).stage = "read" => FetchAnew(q).rows = q.rows
BY DEF FetchAnew, InFlight, Queries, NoList, Lists

\* Starting or joining a fetch keeps what a list knows.
LEMMA FetchFits ==
    ASSUME NEW q \in Queries, NEW o \in Lists, NEW lg, NEW g, EntryFits(q, o, lg, g),
           \A t \in Tickets : Len(lg[t]) \in Nat
    PROVE  /\ EntryFits(FetchAnew(q), o, lg, g)
           /\ JoinFetch(q) \in Queries /\ EntryFits(JoinFetch(q), o, lg, g)
<1>1. EntryFits(FetchAnew(q), o, lg, g)
  BY FetchAnewOK DEF EntryFits, NoList
<1>2. JoinFetch(q) \in Queries /\ EntryFits(JoinFetch(q), o, lg, g)
  <2>1. CASE InFlight(q)
    BY <2>1 DEF JoinFetch
  <2>2. CASE ~InFlight(q)
    <3>1. JoinFetch(q) = [q EXCEPT !.stage = "sent"]
      BY <2>2 DEF JoinFetch
    <3>2. /\ JoinFetch(q).list = q.list /\ JoinFetch(q).rows = q.rows
          /\ JoinFetch(q).loaded = q.loaded /\ JoinFetch(q).stage = "sent"
          /\ JoinFetch(q) \in Queries
      BY <3>1 DEF Queries
    <3> QED  BY <3>2 DEF EntryFits
  <2> QED  BY <2>1, <2>2
<1> QED  BY <1>1, <1>2

\* The drawer follows a list to a version that exists.
LEMMA FollowOK ==
    ASSUME TInv, NEW p \in Pages, NEW rows \in Lists, Follow(p, rows),
           \A t \in Tickets : rows[t] \in 0..Len(log[t])
    PROVE  \E d \in Drawers : DrawerFits(d, log) /\ drawer' = [drawer EXCEPT ![p] = d]
<1>1. /\ drawer[p] \in Drawers /\ DrawerFits(drawer[p], log) /\ drawer \in [Pages -> Drawers]
      /\ \A t \in Tickets : Len(log[t]) \in Nat
  BY DEF TInv, PagesOK, PagesTypeOK, LogInv, LogTypeOK
<1>2. PICK t : t = drawer[p].ticket
  OBVIOUS
<1>3. CASE drawer' = drawer
  BY <1>1, <1>3
<1>4. CASE /\ t \in Tickets /\ rows[t] > 0
           /\ drawer' = [drawer EXCEPT ![p].version = rows[t]]
  <2>1. drawer[p] \in [ticket : Tickets, version : Nat]
    BY <1>1, <1>2, <1>4, PagesAssumption DEF Drawers, Closed, ZeroDrawer
  <2>2. PICK d : d = [drawer[p] EXCEPT !.version = rows[t]]
    OBVIOUS
  <2>3. rows[t] \in Nat /\ rows[t] \in 1..Len(log[t])
    BY <1>1, <1>4 DEF Lists
  <2>4. d.ticket = t /\ d.version = rows[t] /\ d \in [ticket : Tickets, version : Nat]
    BY <2>1, <2>2, <2>3, <1>2
  <2>5. drawer' = [drawer EXCEPT ![p] = d]
    BY <1>1, <1>4, <2>2
  <2> QED  BY <2>3, <2>4, <2>5 DEF Drawers, DrawerFits
<1> QED  BY <1>2, <1>3, <1>4 DEF Follow

LEMMA StartFetchOK ==
    ASSUME TInv, NEW p \in Pages, StartFetch(p)
    PROVE  TInv' /\ UNCHANGED logVars
<1>1. UNCHANGED <<logVars, filter, drawer, call, owed>> /\ clicks' \in 0..MaxClicks
  BY PagesAssumption DEF StartFetch, Click, logVars, TInv
<1>2. PICK f \in Filters : f = filter[p]
  BY DEF TInv, PagesOK, PagesTypeOK
<1>3. PICK q : q = FetchAnew(cache[p][f])
  OBVIOUS
<1>4. q \in Queries /\ EntryFits(q, owed[p][f], log, gone)
  BY <1>3, PageFits, FetchAnewOK, FetchFits
<1>5. cache' = [cache EXCEPT ![p][f] = q]
  BY <1>2, <1>3 DEF StartFetch, Refetch, TInv, PagesOK, PagesTypeOK
<1> QED  BY <1>1, <1>4, <1>5, QueryKeeps

LEMMA ChooseFilterOK ==
    ASSUME TInv, NEW p \in Pages, ChooseFilter(p)
    PROVE  TInv' /\ UNCHANGED logVars
<1>1. UNCHANGED <<logVars, call>> /\ clicks' \in 0..MaxClicks
  BY PagesAssumption DEF ChooseFilter, Click, logVars, TInv
<1>2. PICK f \in Filters :
        /\ filter' = [filter EXCEPT ![p] = f]
        /\ \/ Follow(p, cache[p][f].list) /\ UNCHANGED <<cache, owed>>
           \/ /\ cache' = [cache EXCEPT ![p][f] = JoinFetch(@)]
              /\ Follow(p, cache[p][f].list) /\ UNCHANGED owed
           \/ /\ cache' = [cache EXCEPT ![p][f] = JoinFetch(NoQuery)]
              /\ owed' = [owed EXCEPT ![p][f] = NoList] /\ UNCHANGED drawer
  BY DEF ChooseFilter
<1>3. PICK q : q = cache[p][f]
  OBVIOUS
<1>4. /\ q \in Queries /\ owed[p][f] \in Lists /\ EntryFits(q, owed[p][f], log, gone)
      /\ \A t \in Tickets : Len(log[t]) \in Nat
      /\ filter' \in [Pages -> Filters] /\ cache \in [Pages -> [Filters -> Queries]]
  BY <1>2, <1>3, PageFits DEF TInv, PagesOK, PagesTypeOK
<1>5. q.list \in Lists /\ \A t \in Tickets : q.list[t] \in 0..Len(log[t])
  BY <1>4 DEF Queries, EntryFits
<1>6. CASE Follow(p, q.list) /\ UNCHANGED <<cache, owed>>
  <2>1. PICK d \in Drawers : DrawerFits(d, log) /\ drawer' = [drawer EXCEPT ![p] = d]
    BY <1>5, <1>6, FollowOK
  <2> QED  BY <1>1, <1>3, <1>4, <1>6, <2>1, Unchanged, EntryKeeps
<1>7. CASE /\ cache' = [cache EXCEPT ![p][f] = JoinFetch(@)]
           /\ Follow(p, q.list) /\ UNCHANGED owed
  <2>1. PICK d \in Drawers : DrawerFits(d, log) /\ drawer' = [drawer EXCEPT ![p] = d]
    BY <1>5, <1>7, FollowOK
  <2>2. PICK e : e = JoinFetch(q)
    OBVIOUS
  <2>3. e \in Queries /\ EntryFits(e, owed[p][f], log, gone)
    BY <2>2, <1>4, FetchFits
  <2>4. cache' = [cache EXCEPT ![p][f] = e]
    BY <1>3, <1>4, <1>7, <2>2
  <2>5. PICK o : o = owed[p][f]
    OBVIOUS
  <2>6. owed' = [owed EXCEPT ![p][f] = o] /\ o \in Lists /\ EntryFits(e, o, log, gone)
    BY <2>3, <2>5, <1>4, <1>7, Unchanged
  <2> QED  BY <1>1, <1>4, <2>1, <2>3, <2>4, <2>6, EntryKeeps
<1>8. CASE /\ cache' = [cache EXCEPT ![p][f] = JoinFetch(NoQuery)]
           /\ owed' = [owed EXCEPT ![p][f] = NoList] /\ UNCHANGED drawer
  <2>1. NoList \in Lists /\ NoQuery \in Queries /\ EntryFits(NoQuery, NoList, log, gone)
    BY <1>4 DEF NoList, NoQuery, Lists, Queries, EntryFits
  <2>2. PICK e : e = JoinFetch(NoQuery)
    OBVIOUS
  <2>3. e \in Queries /\ EntryFits(e, NoList, log, gone)
    BY <2>1, <2>2, <1>4, FetchFits
  <2> QED  BY <1>1, <1>4, <1>8, <2>1, <2>2, <2>3, PageFits, Unchanged, EntryKeeps
<1> QED  BY <1>1, <1>2, <1>3, <1>6, <1>7, <1>8

LEMMA ServeFetchOK ==
    ASSUME TInv, NEW p \in Pages, NEW f \in Filters, ServeFetch(p, f)
    PROVE  TInv' /\ UNCHANGED logVars
<1>1. UNCHANGED <<logVars, filter, drawer, call, owed>> /\ clicks' \in 0..MaxClicks
  BY DEF ServeFetch, logVars, TInv
<1>2. PICK e : e = [cache[p][f] EXCEPT !.stage = "read", !.rows = ListTickets]
  OBVIOUS
<1>3. /\ cache[p][f] \in Queries /\ EntryFits(cache[p][f], owed[p][f], log, gone)
      /\ \A t \in Tickets : Len(log[t]) \in Nat
      /\ filter' \in [Pages -> Filters] /\ cache \in [Pages -> [Filters -> Queries]]
  BY <1>1, PageFits DEF TInv, PagesOK, PagesTypeOK
<1>4. /\ ListTickets \in Lists
      /\ \A t \in Tickets : /\ ListTickets[t] \in 0..Len(log[t])
                            /\ t \notin gone => ListTickets[t] = Len(log[t])
  BY <1>3 DEF ListTickets, Lists, Last
<1>5. /\ e.list = cache[p][f].list /\ e.loaded = cache[p][f].loaded
      /\ e.stage = "read" /\ e.rows = ListTickets /\ e \in Queries
  BY <1>2, <1>3, <1>4 DEF Queries
<1>6. EntryFits(e, owed[p][f], log, gone)
  BY <1>3, <1>4, <1>5 DEF EntryFits
<1>7. cache' = [cache EXCEPT ![p][f] = e]
  BY <1>2, <1>3 DEF ServeFetch
<1> QED  BY <1>1, <1>5, <1>6, <1>7, QueryKeeps

LEMMA ShowFetchOK ==
    ASSUME TInv, NEW p \in Pages, NEW f \in Filters, ShowFetch(p, f)
    PROVE  TInv' /\ UNCHANGED logVars
<1>1. UNCHANGED <<logVars, filter, call>> /\ clicks' \in 0..MaxClicks
  BY DEF ShowFetch, logVars, TInv
<1>2. PICK rows : rows = cache[p][f].rows
  OBVIOUS
<1>3. /\ cache[p][f] \in Queries /\ EntryFits(cache[p][f], owed[p][f], log, gone)
      /\ \A t \in Tickets : Len(log[t]) \in Nat
      /\ filter' \in [Pages -> Filters] /\ cache \in [Pages -> [Filters -> Queries]]
      /\ owed[p][f] \in Lists /\ cache[p][f].stage = "read"
  BY <1>1, PageFits DEF TInv, PagesOK, PagesTypeOK, ShowFetch
<1>4. rows \in Lists /\ \A t \in Tickets : rows[t] \in 0..Len(log[t])
  BY <1>2, <1>3 DEF Queries, EntryFits
<1>5. PICK e : e = [NoQuery EXCEPT !.list = rows, !.loaded = TRUE]
  OBVIOUS
<1>6. PICK o : o = [t \in Tickets |-> IF rows[t] >= owed[p][f][t] THEN 0 ELSE owed[p][f][t]]
  OBVIOUS
<1>7. /\ e.list = rows /\ e.rows = NoList /\ e.loaded /\ e.stage = "idle"
      /\ e \in Queries /\ o \in Lists
  BY <1>3, <1>4, <1>5, <1>6 DEF NoQuery, NoList, Queries, Lists
<1>8. EntryFits(e, o, log, gone)
  BY <1>2, <1>3, <1>4, <1>6, <1>7 DEF EntryFits, NoList, Lists
<1>9. PICK d \in Drawers : DrawerFits(d, log) /\ drawer' = [drawer EXCEPT ![p] = d]
  <2>1. CASE Follow(p, rows)
    BY <2>1, <1>4, FollowOK
  <2>2. CASE UNCHANGED drawer
    BY <2>2, PageFits, Unchanged
  <2> QED  BY <2>1, <2>2, <1>2 DEF ShowFetch
<1>10. cache' = [cache EXCEPT ![p][f] = e] /\ owed' = [owed EXCEPT ![p][f] = o]
  BY <1>2, <1>5, <1>6 DEF ShowFetch, TInv, PagesOK, PagesTypeOK
<1> QED  BY <1>1, <1>3, <1>7, <1>8, <1>9, <1>10, EntryKeeps

LEMMA FailFetchOK ==
    ASSUME TInv, NEW p \in Pages, NEW f \in Filters, FailFetch(p, f)
    PROVE  TInv' /\ UNCHANGED logVars
<1>1. UNCHANGED <<logVars, filter, drawer, call, owed>> /\ clicks' \in 0..MaxClicks
  BY DEF FailFetch, logVars, TInv
<1>2. PICK e : e = [cache[p][f] EXCEPT !.stage = "failed", !.rows = NoList]
  OBVIOUS
<1>3. /\ cache[p][f] \in Queries /\ EntryFits(cache[p][f], owed[p][f], log, gone)
      /\ \A t \in Tickets : Len(log[t]) \in Nat
      /\ filter' \in [Pages -> Filters] /\ cache \in [Pages -> [Filters -> Queries]]
  BY <1>1, PageFits DEF TInv, PagesOK, PagesTypeOK
<1>4. /\ e.list = cache[p][f].list /\ e.loaded = cache[p][f].loaded
      /\ e.stage = "failed" /\ e.rows = NoList /\ e \in Queries
  BY <1>2, <1>3 DEF Queries, NoList, Lists
<1>5. EntryFits(e, owed[p][f], log, gone)
  BY <1>3, <1>4 DEF EntryFits, NoList
<1>6. cache' = [cache EXCEPT ![p][f] = e]
  BY <1>2, <1>3 DEF FailFetch
<1> QED  BY <1>1, <1>4, <1>5, <1>6, QueryKeeps

LEMMA DrawerOK ==
    ASSUME TInv, NEW p \in Pages, OpenDrawer(p) \/ CloseDrawer(p)
    PROVE  TInv' /\ UNCHANGED logVars
<1>1. UNCHANGED <<logVars, filter, cache, call, owed>> /\ clicks' \in 0..MaxClicks
  BY PagesAssumption DEF OpenDrawer, CloseDrawer, Click, logVars, TInv
<1>2. PICK f \in Filters : f = filter[p]
  BY DEF TInv, PagesOK, PagesTypeOK
<1>3. /\ cache[p][f] \in Queries /\ EntryFits(cache[p][f], owed[p][f], log, gone)
      /\ \A t \in Tickets : Len(log[t]) \in Nat
      /\ filter' \in [Pages -> Filters] /\ owed[p][f] \in Lists
  BY <1>1, PageFits DEF TInv, PagesOK, PagesTypeOK
<1>4. PICK d \in Drawers : drawer' = [drawer EXCEPT ![p] = d] /\ DrawerFits(d, log)
  <2>1. CASE CloseDrawer(p)
    <3>1. Closed.ticket \notin Tickets /\ Closed \in Drawers
      BY PagesAssumption DEF Closed, Drawers
    <3> QED  BY <2>1, <3>1 DEF CloseDrawer, DrawerFits
  <2>2. CASE OpenDrawer(p)
    <3>1. PICK t \in Tickets :
            /\ ListOf(p)[t] > 0
            /\ drawer' = [drawer EXCEPT ![p] = [ticket |-> t, version |-> ListOf(p)[t]]]
      BY <2>2 DEF OpenDrawer, Shown
    <3>2. ListOf(p)[t] \in Nat /\ ListOf(p)[t] \in 1..Len(log[t])
      BY <3>1, <1>2, <1>3 DEF ListOf, Queries, Lists, EntryFits
    <3>3. PICK d : d = [ticket |-> t, version |-> ListOf(p)[t]]
      OBVIOUS
    <3>4. /\ d \in [ticket : Tickets, version : Nat]
          /\ d.ticket = t /\ d.version = ListOf(p)[t]
      BY <3>2, <3>3
    <3> QED  BY <3>1, <3>2, <3>3, <3>4 DEF Drawers, DrawerFits
  <2> QED  BY <2>1, <2>2
<1> QED  BY <1>1, <1>3, <1>4, Unchanged, EntryKeeps

\* The answer of a write: the lists it is promised to are fetched anew or marked.
LEMMA ArriveOK ==
    ASSUME TInv, NEW r \in Requests, Arrive(r)
    PROVE  TInv' /\ UNCHANGED logVars
<1>1. UNCHANGED <<logVars, filter>> /\ clicks' \in 0..MaxClicks
  BY DEF Arrive, logVars, TInv
<1>2. PICK p, t, v, op, told :
        p = PageOf[r] /\ t = call[r].ticket /\ v = call[r].version /\ op = call[r].op
        /\ told = Promised(p, op)
  OBVIOUS
<1>3. /\ p \in Pages /\ filter[p] \in Filters
      /\ filter \in [Pages -> Filters] /\ drawer \in [Pages -> Drawers]
      /\ cache \in [Pages -> [Filters -> Queries]] /\ owed \in [Pages -> [Filters -> Lists]]
      /\ \A u \in Tickets : Len(log[u]) \in Nat
  BY <1>2, PagesAssumption DEF TInv, PagesOK, PagesTypeOK, LogInv, LogTypeOK
<1>4. \/ t \in Tickets /\ v \in Nat /\ v \in 1..Len(log[t])
      \/ t = ZeroTicket /\ v = 0
  BY <1>2, <1>3 DEF Arrive, TInv, CallsOK, CallFits, Versions, Last
<1>5. /\ op = "edit" => Refetch(p)
      /\ op # "edit" => Invalidate(p)
      /\ \/ drawer' = drawer
         \/ drawer' = [drawer EXCEPT ![p] = [ticket |-> t, version |-> v]]
      /\ owed' = [owed EXCEPT ![p] = [f \in Filters |-> [u \in Tickets |->
            IF u = t /\ f \in told /\ v > cache[p][f].list[u] /\ v > owed[p][f][u]
            THEN v ELSE owed[p][f][u]]]]
  BY <1>2, <1>3 DEF Arrive
<1>6. CallsOK'
  <2>1. call' = [call EXCEPT ![r] = NoCall] /\ log' = log
    BY <1>1 DEF Arrive, End, logVars
  <2> QED  BY <2>1, IdleFits DEF TInv, CallsOK, CallFits, Versions, Last
<1>7. ASSUME NEW f \in Filters
      PROVE  /\ cache'[p][f] \in Queries /\ owed'[p][f] \in Lists
             /\ EntryFits(cache'[p][f], owed'[p][f], log, gone)
  <2>1. PICK q, o, e, n : /\ q = cache[p][f] /\ o = owed[p][f]
                          /\ e = cache'[p][f] /\ n = owed'[p][f]
    OBVIOUS
  <2>2. q \in Queries /\ o \in Lists /\ EntryFits(q, o, log, gone)
    BY <2>1, <1>3, PageFits
  <2>3. n = [u \in Tickets |-> IF u = t /\ f \in told /\ v > q.list[u] /\ v > o[u] THEN v ELSE o[u]]
    BY <2>1, <1>3, <1>5
  <2>4. v \in Nat /\ n \in Lists
    BY <2>2, <2>3, <1>4 DEF Lists
  <2>5. \A u \in Tickets : /\ n[u] \in 0..Len(log[u])
                           /\ f \notin told => n[u] = o[u]
    BY <2>2, <2>3, <1>3, <1>4, PagesAssumption DEF EntryFits
  <2>6. f \in told => q.loaded /\ (f = filter[p] \/ (op # "edit" /\ q.stage # "read"))
    BY <2>1, <1>2 DEF Promised
  <2>7. PICK m : m = [q EXCEPT !.stale = q.loaded]
    OBVIOUS
  <2>8. /\ m \in Queries /\ m.list = q.list /\ m.rows = q.rows /\ m.loaded = q.loaded
        /\ m.stage = q.stage /\ m.stale = q.loaded
    BY <2>2, <2>7 DEF Queries
  <2>9. CASE op = "edit" /\ f # filter[p]
    <3>1. e = q /\ n = o
      <4>1. e = q
        BY <2>1, <2>9, <1>3, <1>5 DEF Refetch
      <4>2. f \notin told
        BY <2>6, <2>9
      <4> QED  BY <4>1, <4>2, <2>2, <2>3 DEF Lists
    <3> QED  BY <3>1, <2>1, <2>2
  <2>10. CASE op # "edit" /\ f # filter[p]
    <3>1. e = m
      BY <2>1, <2>7, <2>10, <1>3, <1>5 DEF Invalidate
    <3>2. EntryFits(e, n, log, gone)
      BY <3>1, <2>2, <2>5, <2>6, <2>8, <2>10 DEF EntryFits
    <3> QED  BY <3>1, <3>2, <2>1, <2>4, <2>8
  <2>11. CASE f = filter[p]
    <3>1. PICK b \in {q, m} : e = FetchAnew(b)
      <4>1. CASE op = "edit"
        BY <4>1, <2>1, <2>11, <1>3, <1>5 DEF Refetch
      <4>2. CASE op # "edit"
        BY <4>2, <2>1, <2>7, <2>11, <1>3, <1>5 DEF Invalidate
      <4> QED  BY <4>1, <4>2
    <3>2. /\ b \in Queries /\ b.list = q.list /\ b.rows = q.rows /\ b.loaded = q.loaded
          /\ b.stage = q.stage
      BY <2>2, <2>8
    <3>3. /\ e \in Queries /\ e.stage \in {"sent", "read"}
          /\ e.stage = "read" => ~q.loaded /\ q.stage = "read" /\ e.rows = q.rows
          /\ e.loaded = q.loaded /\ e.list = q.list
          /\ e.rows = q.rows \/ e.rows = NoList
      BY <3>1, <3>2, FetchAnewOK
    <3>4. \A u \in Tickets : ~q.loaded => n[u] = o[u]
      BY <2>5, <2>6
    <3>5. EntryFits(e, n, log, gone)
      BY <3>3, <3>4, <2>2, <2>5, <1>3 DEF EntryFits, NoList
    <3> QED  BY <3>3, <3>5, <2>1, <2>4
  <2> QED  BY <2>9, <2>10, <2>11
<1>8. /\ cache' = [cache EXCEPT ![p] = cache'[p]] /\ owed' = [owed EXCEPT ![p] = owed'[p]]
      /\ cache'[p] = [f \in Filters |-> cache'[p][f]]
      /\ owed'[p] = [f \in Filters |-> owed'[p][f]]
  BY <1>3, <1>5 DEF Refetch, Invalidate
<1>9. /\ drawer' \in [Pages -> Drawers] /\ DrawerFits(drawer'[p], log)
      /\ \A q \in Pages : q # p => drawer'[q] = drawer[q]
  <2>1. CASE drawer' = drawer
    BY <2>1, <1>3, PageFits
  <2>2. CASE drawer' = [drawer EXCEPT ![p] = [ticket |-> t, version |-> v]]
    <3>1. PICK d : d = [ticket |-> t, version |-> v]
      OBVIOUS
    <3>2. d \in Drawers /\ d.ticket = t /\ d.version = v
      BY <3>1, <1>4 DEF Drawers, ZeroDrawer
    <3> QED  BY <2>2, <3>1, <3>2, <1>3, <1>4, PagesAssumption DEF DrawerFits
  <2> QED  BY <1>5, <2>1, <2>2
<1>10. PagesTypeOK' /\ \A q \in Pages : q # p => cache'[q] = cache[q] /\ owed'[q] = owed[q]
  <2>1. cache'[p] \in [Filters -> Queries] /\ owed'[p] \in [Filters -> Lists]
    BY <1>7, <1>8
  <2>2. PICK e, n : e = cache'[p] /\ n = owed'[p]
    OBVIOUS
  <2>3. cache' = [cache EXCEPT ![p] = e] /\ owed' = [owed EXCEPT ![p] = n]
    BY <1>8, <2>2
  <2> QED  BY <1>1, <1>3, <1>9, <2>1, <2>2, <2>3 DEF PagesTypeOK
<1> QED  BY <1>1, <1>3, <1>6, <1>7, <1>9, <1>10, PageKeeps

\* Whatever happens, the invariant is kept and the log makes a step or none.
LEMMA TicketingStep == TInv /\ [Next]_vars => TInv' /\ [LogNext]_logVars
<1> SUFFICES ASSUME TInv, [Next]_vars PROVE TInv' /\ [LogNext]_logVars
  OBVIOUS
<1>1. ASSUME NEW r \in Requests, User(r) PROVE TInv' /\ [LogNext]_logVars
  BY <1>1, UserOK
<1>2. ASSUME NEW r \in Requests, Handler(r) PROVE TInv' /\ [LogNext]_logVars
  BY <1>2, HandlerOK
<1>3. ASSUME NEW r \in Requests, Arrive(r) PROVE TInv' /\ [LogNext]_logVars
  BY <1>3, ArriveOK
<1>4. ASSUME NEW r \in Requests, Fail(r) PROVE TInv' /\ [LogNext]_logVars
  BY <1>4, IdleFits, HandlerKeeps DEF Fail, End, logVars
<1>5. ASSUME NEW p \in Pages,
             StartFetch(p) \/ ChooseFilter(p) \/ OpenDrawer(p) \/ CloseDrawer(p)
      PROVE  TInv' /\ [LogNext]_logVars
  BY <1>5, StartFetchOK, ChooseFilterOK, DrawerOK
<1>f. ASSUME NEW p \in Pages, NEW f \in Filters, Fetch(p, f) \/ FailFetch(p, f)
      PROVE  TInv' /\ [LogNext]_logVars
  BY <1>f, ServeFetchOK, ShowFetchOK, FailFetchOK DEF Fetch
<1>6. ASSUME [LogNext]_logVars, UNCHANGED pageVars PROVE TInv'
  <2>1. UNCHANGED <<filter, cache, drawer, owed>> /\ call' = call /\ clicks' = clicks
    BY <1>6 DEF pageVars
  <2>2. LogInv' /\ PagesOK'
    BY <1>6, <2>1, LogStep, PagesKept DEF TInv
  <2>3. \A r \in Requests : call[r] \in Calls /\ CallFits(call[r])
    BY DEF TInv, CallsOK
  <2>4. CallsOK'
    BY <1>6, <2>1, <2>3, Grow DEF TInv, CallsOK, CallFits, Versions
  <2> QED  BY <2>1, <2>2, <2>4 DEF TInv
<1>7. ASSUME NEW m \in Members, DeriveTicket(m) PROVE TInv' /\ [LogNext]_logVars
  BY <1>6, <1>7 DEF DeriveTicket, LogNext, Assignees
<1>8. ASSUME NEW t \in Tickets, DeleteTask(t) PROVE TInv' /\ [LogNext]_logVars
  BY <1>6, <1>8 DEF DeleteTask, LogNext
<1>9. CASE UNCHANGED vars
  BY <1>6, <1>9 DEF vars, pageVars, logVars
<1> QED  BY <1>1, <1>2, <1>3, <1>4, <1>5, <1>f, <1>7, <1>8, <1>9 DEF Next

LEMMA TicketingInit == Init => TInv
<1> SUFFICES ASSUME Init PROVE TInv
  OBVIOUS
<1>1. LogInv
  BY DEF Init, LogInit, LogInv, LogTypeOK, LogOK, Last
<1>2. /\ NoList \in Lists /\ NoQuery \in Queries /\ JoinFetch(NoQuery) \in Queries
      /\ EntryFits(NoQuery, NoList, log, gone)
      /\ EntryFits(JoinFetch(NoQuery), NoList, log, gone)
  <2>1. \A t \in Tickets : Len(log[t]) = 0
    BY DEF Init, LogInit
  <2>2. NoList \in Lists /\ NoQuery \in Queries
    BY DEF NoList, Lists, NoQuery, Queries
  <2>3. EntryFits(NoQuery, NoList, log, gone)
    BY <2>1 DEF NoQuery, NoList, EntryFits
  <2> QED  BY <2>1, <2>2, <2>3, FetchFits
<1>3. filter \in [Pages -> Filters] /\ drawer \in [Pages -> Drawers]
  BY PagesAssumption DEF Init, Drawers
<1>4. PagesOK
  BY <1>2, <1>3, PagesAssumption DEF Init, PagesOK, PagesTypeOK, DrawerFits, Closed
<1>5. CallsOK
  BY IdleFits DEF Init, CallsOK
<1> QED  BY <1>1, <1>4, <1>5, PagesAssumption DEF Init, TInv

\* The inductive invariant: what pages and mutations hold are versions that exist,
\* and a list that was read after a write contains it.
THEOREM TicketingInvariant == Spec => []TInv
BY TicketingInit, TicketingStep, PTL DEF Spec

\* Tickets, lists, fetches, drawers and mutations keep their types.
THEOREM TicketTypeCorrect == Spec => []TicketTypeOK
<1>1. TInv => TicketTypeOK
  BY DEF TInv, LogInv, PagesOK, PagesTypeOK, CallsOK, TicketTypeOK
<1> QED  BY <1>1, TicketingInvariant, PTL

\* A list that is shown from the cache as it is has the writes it was promised.
THEOREM PageAlwaysSeesOwnWrites == Spec => []PageSeesOwnWrites
<1>1. TInv => PageSeesOwnWrites
  BY DEF TInv, PagesOK, EntryFits, PageSeesOwnWrites
<1> QED  BY <1>1, TicketingInvariant, PTL

\* Handlers and pages implement the log: every write is one whole operation on one
\* whole version of a ticket that is not deleted.
THEOREM TicketingIsLog == Spec => ImplementsLog
<1>1. Init => LogInit
  BY DEF Init
<1> QED
  BY <1>1, TicketingInit, TicketingStep, PTL DEF Spec, ImplementsLog, LogSpec

\* So whatever members do at the same time, the time line of a ticket is right about
\* it, and its origin never changes.
THEOREM StampsAlwaysTellTruth == Spec => []StampsTellTruth
BY TicketingIsLog, LogCorrect, PTL DEF ImplementsLog

\* The creator and the source of a ticket survive every write of every page.
THEOREM OriginAlwaysKept == Spec => []OriginKept
BY TicketingIsLog, LogCorrect, PTL DEF ImplementsLog
=============================================================================
