-------------------------- MODULE ContractRegister ---------------------------
(***************************************************************************)
(* What contract signing promises, with no transaction, lock or request in *)
(* sight: a register with at most one entry for each invite.  Signing an   *)
(* invite that accepts signatures is one indivisible step that draws the   *)
(* next number of a counter and writes the entry; an entry is never        *)
(* replaced, only struck out.  ContractSigning implements this module.     *)
(***************************************************************************)
EXTENDS Integers

CONSTANTS Invites, Orgs, OrgOf, Years,
          ManualNumbers  \* the numbers a clerk may enter

VARIABLES
    accepting,  \* the invites a client may sign
    entry,      \* the register: one entry per invite
    counter     \* last number drawn, per organisation and year

vars == <<accepting, entry, counter>>

NoNumber == <<0, 0>>
NoEntry == [origin |-> "none", number |-> NoNumber, series |-> 0, deleted |-> FALSE]

Init ==
    /\ accepting = {}
    /\ entry = [i \in Invites |-> NoEntry]
    /\ counter = [o \in Orgs |-> [y \in Years |-> 0]]

\* No entry of i's organisation that is not struck out carries number n.
NumberFree(i, n) ==
    n = NoNumber \/ ~\E j \in Invites :
        /\ entry[j].origin # "none" /\ ~entry[j].deleted
        /\ OrgOf[j] = OrgOf[i] /\ entry[j].number = n

\* A client signs: the number is the next one of the counter of year y, under
\* the heading of that year or a later one.
Sign(i, y, heading) ==
    LET n == counter[OrgOf[i]][y] + 1
    IN  /\ i \in accepting
        /\ entry[i] = NoEntry
        /\ heading >= y /\ NumberFree(i, <<heading, n>>)
        /\ counter' = [counter EXCEPT ![OrgOf[i]][y] = n]
        /\ entry' = [entry EXCEPT ![i] =
               [origin |-> "public", number |-> <<heading, n>>, series |-> y, deleted |-> FALSE]]
        /\ accepting' = accepting

\* A clerk enters a contract signed elsewhere.
Enter(i, n) ==
    /\ entry[i] = NoEntry
    /\ NumberFree(i, n)
    /\ entry' = [entry EXCEPT ![i] =
           [origin |-> "manual", number |-> n, series |-> 0, deleted |-> FALSE]]
    /\ UNCHANGED <<accepting, counter>>

StrikeOut(i) ==
    /\ entry[i].origin # "none"
    /\ entry' = [entry EXCEPT ![i].deleted = TRUE]
    /\ UNCHANGED <<accepting, counter>>

\* Invites are created, revoked, sent again and deleted.
ChangeAccepting ==
    /\ accepting' \in SUBSET Invites
    /\ UNCHANGED <<entry, counter>>

Next ==
    \/ \E i \in Invites, y, heading \in Years : Sign(i, y, heading)
    \/ \E i \in Invites, n \in ManualNumbers : Enter(i, n)
    \/ \E i \in Invites : StrikeOut(i)
    \/ ChangeAccepting

Spec == Init /\ [][Next]_vars
=============================================================================
