------------------------------ MODULE TicketLog -------------------------------
(***************************************************************************)
(* What ticketing promises: a ticket is a log of versions, each of which is*)
(* one operation of one member applied to a whole earlier version.  That   *)
(* version need not be the last one: ticketing_handlers.go takes no lock   *)
(* and compares no version, so a write may undo another.  What it cannot do*)
(* is mix two versions, touch a deleted ticket or change its origin.       *)
(*                                                                         *)
(* The database keeps the last version only; the earlier ones are here     *)
(* because handlers and pages still hold them.                             *)
(***************************************************************************)
EXTENDS Naturals, Sequences

CONSTANTS Members, Tickets, NoOne, MaxVersions

ASSUME LogAssumption ==
    /\ NoOne \notin Members
    /\ MaxVersions \in Nat

VARIABLES
    log,    \* versions of each ticket; empty before its INSERT
    gone    \* tickets whose deleted_at is set

logVars == <<log, gone>>

BoardStatuses == {"todo", "in_progress", "blocked", "done"}
Statuses == BoardStatuses \cup {"archived"}
Assignees == Members \cup {NoOne}

\* Title, client, priority and due date travel like the assignee and are left
\* out.  "claimed" is the member whose claim set claimed_at.
Rows == [status : Statuses, assignee : Assignees, creator : Members,
         source : {"manual", "chat"}, claimed : Assignees,
         completed : BOOLEAN, refused : BOOLEAN]

\* Every version is a row the schema and the status list of the pages know.
LogTypeOK ==
    /\ log \in [Tickets -> Seq(Rows)]
    /\ gone \in SUBSET Tickets

Last(t) == Len(log[t])
Exists(t) == Last(t) > 0
Live(t) == Exists(t) /\ t \notin gone

LogInit ==
    /\ log = [t \in Tickets |-> <<>>]
    /\ gone = {}

-----------------------------------------------------------------------------
(* The operations on a row *)

\* Mutant: the status as an older front end sends it.
RawRow(m, a, source) ==
    [status |-> "pending", assignee |-> a, creator |-> m, source |-> source,
     claimed |-> NoOne, completed |-> FALSE, refused |-> FALSE]

NewRow(m, a, source) ==
    [status |-> "todo", assignee |-> a, creator |-> m, source |-> source,
     claimed |-> NoOne, completed |-> FALSE, refused |-> FALSE]

\* Mutant: an UPDATE that leaves claimed_at, completed_at and refused_at alone.
EditKeepingStamps(row, s, a) == [row EXCEPT !.status = s, !.assignee = a]

\* Mutant: a page that does not send the source back.
EditForgettingSource(row, s, a) ==
    [row EXCEPT !.status = s, !.assignee = a, !.source = "manual",
                !.claimed = NoOne, !.completed = FALSE, !.refused = FALSE]

\* PUT: the request has no field for the three time stamps, the UPDATE writes
\* every column.
Edit(row, s, a) ==
    [row EXCEPT !.status = s, !.assignee = a,
                !.claimed = NoOne, !.completed = FALSE, !.refused = FALSE]

\* claim, complete, refuse: one status, one stamp, and the assignee of a claim.
Work(op, row, m) ==
    CASE op = "claim" -> [row EXCEPT !.status = "in_progress", !.assignee = m, !.claimed = m]
      [] op = "complete" -> [row EXCEPT !.status = "done", !.completed = TRUE]
      [] op = "refuse" -> [row EXCEPT !.status = "blocked", !.refused = TRUE]

WorkOps == {"claim", "complete", "refuse"}

-----------------------------------------------------------------------------
Append1(t, row) == log' = [log EXCEPT ![t] = Append(@, row)]

CreateTicket(t, m, a, source) ==
    /\ ~Exists(t) /\ t \notin gone
    /\ Append1(t, NewRow(m, a, source))
    /\ UNCHANGED gone

EditTicket(t, i, s, a) ==
    /\ Live(t)
    /\ Append1(t, Edit(log[t][i], s, a))
    /\ UNCHANGED gone

WorkOnTicket(t, i, op, m) ==
    /\ Live(t)
    /\ Append1(t, Work(op, log[t][i], m))
    /\ UNCHANGED gone

DeleteTicket(t) ==
    /\ Live(t)
    /\ gone' = gone \cup {t}
    /\ UNCHANGED log

LogNext ==
    \E t \in Tickets :
        \/ \E m \in Members, a \in Assignees, source \in {"manual", "chat"} :
              CreateTicket(t, m, a, source)
        \/ \E i \in 1..Last(t), s \in Statuses, a \in Assignees : EditTicket(t, i, s, a)
        \/ \E i \in 1..Last(t), op \in WorkOps, m \in Members : WorkOnTicket(t, i, op, m)
        \/ DeleteTicket(t)

LogSpec == LogInit /\ [][LogNext]_logVars

-----------------------------------------------------------------------------
\* The time line of a ticket is never wrong about it: who is shown as having
\* claimed it is responsible for it, and a ticket in the backlog or the archive
\* carries no stamp of work.  Requests that read an older version write all its
\* columns back, so the columns never come from two versions.
StampsTellTruth ==
    \A t \in Tickets : \A i \in 1..Last(t) :
        LET row == log[t][i]
        IN  /\ row.claimed # NoOne => row.claimed = row.assignee
            /\ (row.claimed # NoOne \/ row.completed \/ row.refused) =>
                   row.status \in {"in_progress", "blocked", "done"}

\* Who created a ticket, and whether it came from the chat, survives every write
\* of every page, whatever version the page had loaded.
OriginKept ==
    \A t \in Tickets : \A i \in 1..Last(t) :
        /\ log[t][i].creator = log[t][1].creator
        /\ log[t][i].source = log[t][1].source
=============================================================================
