------------------------------- MODULE Members --------------------------------
(***************************************************************************)
(* The members of one organisation and their roles: requests create,       *)
(* update and remove members and delete roles; the transaction that        *)
(* replaces the roles of a member is a step for each of its statements,    *)
(* under READ COMMITTED.                                                   *)
(***************************************************************************)
EXTENDS Naturals, FiniteSets

CONSTANTS
    Accounts,       \* the addresses that are added
    MembershipIds,
    RoleIds,
    Requests        \* the managers: one request of each at a time

VARIABLES
    members,   \* memberships: whose, and whether it is live, removed or not inserted yet
    roles,     \* roles that exist
    held,      \* committed rows of membership_roles: a row inserted again is another row
    request,   \* what each request is doing
    wanted, \* the roles the last request that was answered with success asked for
    mixed      \* memberships whose role requests overlapped, until one ran alone

memberTableVars == <<members, roles, held, request, wanted, mixed>>

NoAccount == "none"
Versions == 0..(2 * Cardinality(Requests))
RoleRows == [role : RoleIds, version : Versions]
NoRequest == [stage |-> "no", member |-> NoAccount, want |-> {}, seen |-> {}, drop |-> {},
              add |-> {}, alone |-> FALSE]

OpenRequests ==
    [stage : {"roles", "delete", "insert"}, member : MembershipIds, want : SUBSET RoleIds,
     seen : SUBSET RoleRows, drop : SUBSET RoleRows, add : SUBSET RoleRows, alone : BOOLEAN]

MembersTypeOK ==
    /\ members \in [MembershipIds -> [of : Accounts \cup {NoAccount}, live : BOOLEAN]]
    /\ roles \subseteq RoleIds
    /\ held \in [MembershipIds -> SUBSET RoleRows]
    /\ request \in [Requests -> {NoRequest} \cup OpenRequests]
    /\ wanted \in [MembershipIds -> SUBSET RoleIds]
    /\ mixed \subseteq MembershipIds

-----------------------------------------------------------------------------
(* Creating and updating a member *)

LiveMember(m) == members[m].live
OpenOn(m) == {c \in Requests : request[c].stage # "no" /\ request[c].member = m}

\* Two role requests of a member that overlap may leave the roles of both.
StartRoles(c, m, want) ==
    /\ request' = [d \in Requests |->
          IF d = c THEN [NoRequest EXCEPT !.stage = "roles", !.member = m, !.want = want,
                                          !.alone = OpenOn(m) = {}]
          ELSE IF d \in OpenOn(m) THEN [request[d] EXCEPT !.alone = FALSE]
          ELSE request[d]]
    /\ mixed' = IF OpenOn(m) = {} THEN mixed ELSE mixed \cup {m}

\* One transaction finds or inserts the account and inserts the membership.  Unique
\* indexes on the address and the live membership make a concurrent one wait and fail.
CreateWorkspaceMember(c, a, m, want) ==
    /\ request[c] = NoRequest
    /\ members[m].of = NoAccount
    /\ \A n \in MembershipIds : members[n].of = a => ~LiveMember(n)
    /\ members' = [members EXCEPT ![m] = [of |-> a, live |-> TRUE]]
    /\ IF want = {} THEN UNCHANGED <<request, mixed>> ELSE StartRoles(c, m, want)
    /\ UNCHANGED <<roles, held, wanted>>

\* The name, the title and the category are written in a statement of their own; the
\* status in the request is not.  Without roles in the request the roles stay.
UpdateSettingsUser(c, m, want) ==
    /\ request[c] = NoRequest
    /\ LiveMember(m) /\ want # {}
    /\ StartRoles(c, m, want)
    /\ UNCHANGED <<members, roles, held, wanted>>

DeleteSettingsUser(m) ==
    /\ LiveMember(m)
    /\ members' = [members EXCEPT ![m].live = FALSE]
    /\ UNCHANGED <<roles, held, request, wanted, mixed>>

-----------------------------------------------------------------------------
(* SetMembershipRoles *)

Rivals(c) == {d \in Requests \ {c} : request[d].stage # "no" /\ request[d].member = request[c].member}

\* The membership is read, then the DELETE takes its snapshot of the roles.
ReadRoles(c) ==
    /\ request[c].stage = "roles"
    /\ LiveMember(request[c].member)
    /\ request' = [request EXCEPT ![c].stage = "delete", ![c].seen = held[request[c].member]]
    /\ UNCHANGED <<members, roles, held, wanted, mixed>>

\* Mutant: the rows are left in place.
NothingToDelete(c) == {}

\* The rows it saw, as far as they are still there.
ToDelete(c) == request[c].seen \cap held[request[c].member]

\* It waits while another transaction has deleted one of its rows; what such a transaction
\* inserted instead it does not see.
DeleteRoles(c) ==
    /\ request[c].stage = "delete"
    /\ \A d \in Rivals(c) : request[d].drop \cap ToDelete(c) = {}
    /\ request' = [request EXCEPT ![c].stage = "insert", ![c].drop = ToDelete(c)]
    /\ UNCHANGED <<members, roles, held, wanted, mixed>>

RolesOf(rows) == {x.role : x \in rows}

\* A row that no transaction has seen, with the smallest version of all of these.
NewRows(m, r) ==
    LET taken == held[m] \cup UNION {request[d].seen \cup request[d].add : d \in OpenOn(m)}
        fresh == {x \in RoleRows : x.role = r /\ x \notin taken}
    IN  {x \in fresh : \A y \in fresh : x.version <= y.version}

\* INSERT ... SELECT ... ON CONFLICT DO NOTHING, for one role after the other; a row that
\* another transaction is about to insert or delete is waited for.
InsertRole(c, r) ==
    /\ request[c].stage = "insert"
    /\ r \in request[c].want \ RolesOf(request[c].add)
    /\ r \in roles
    /\ r \notin RolesOf(held[request[c].member] \ request[c].drop)
    /\ \A d \in Rivals(c) : r \notin RolesOf(request[d].add \cup request[d].drop)
    /\ \E x \in NewRows(request[c].member, r) : request' = [request EXCEPT ![c].add = @ \cup {x}]
    /\ UNCHANGED <<members, roles, held, wanted, mixed>>

CommitRoles(c) ==
    LET m == request[c].member
    IN  /\ request[c].stage = "insert"
        /\ RolesOf(request[c].add) = request[c].want
        /\ held' = [held EXCEPT ![m] = (@ \ request[c].drop) \cup request[c].add]
        /\ wanted' = [wanted EXCEPT ![m] = request[c].want]
        /\ mixed' = IF request[c].alone THEN mixed \ {m} ELSE mixed
        /\ request' = [request EXCEPT ![c] = NoRequest]
        /\ UNCHANGED <<members, roles>>

\* Mutant: the statements are not one transaction.
KeepDeletes(c) ==
    /\ request[c].stage # "no"
    /\ request' = [request EXCEPT ![c] = NoRequest]
    /\ held' = [held EXCEPT ![request[c].member] = @ \ request[c].drop]
    /\ UNCHANGED <<members, roles, wanted, mixed>>

\* No membership or no role any more, a role that is held already, a deadlock, a timeout or
\* a lost connection: everything is rolled back.  A member whose creation ends here stays,
\* without roles, and cannot be created again.
FailRoles(c) ==
    /\ request[c].stage # "no"
    /\ request' = [request EXCEPT ![c] = NoRequest]
    /\ UNCHANGED <<members, roles, held, wanted, mixed>>

\* A role goes with its rows; the foreign key makes it wait for rows not yet committed.
DeleteSettingsRole(r) ==
    /\ r \in roles
    /\ \A c \in Requests : r \notin RolesOf(request[c].add \cup request[c].drop)
    /\ roles' = roles \ {r}
    /\ held' = [m \in MembershipIds |-> {x \in held[m] : x.role # r}]
    /\ wanted' = [m \in MembershipIds |-> wanted[m] \ {r}]
    /\ UNCHANGED <<members, request, mixed>>

-----------------------------------------------------------------------------

MembersInit ==
    /\ members = [m \in MembershipIds |-> [of |-> NoAccount, live |-> FALSE]]
    /\ roles = RoleIds
    /\ held = [m \in MembershipIds |-> {}]
    /\ request = [c \in Requests |-> NoRequest]
    /\ wanted = [m \in MembershipIds |-> {}] /\ mixed = {}

MembersNext ==
    \/ \E c \in Requests, m \in MembershipIds, want \in SUBSET RoleIds :
          (\E a \in Accounts : CreateWorkspaceMember(c, a, m, want)) \/ UpdateSettingsUser(c, m, want)
    \/ \E m \in MembershipIds : DeleteSettingsUser(m)
    \/ \E c \in Requests :
          \/ ReadRoles(c) \/ DeleteRoles(c) \/ CommitRoles(c) \/ FailRoles(c)
          \/ \E r \in RoleIds : InsertRole(c, r)
    \/ \E r \in RoleIds : DeleteSettingsRole(r)

MembersSpec == MembersInit /\ [][MembersNext]_memberTableVars

-----------------------------------------------------------------------------
\* A member holds the roles that were asked for by the last request about them that was
\* answered with success, however requests fail between their statements; two requests
\* that overlap may leave the roles of both, until one has run alone.
RolesAsAnswered ==
    \A m \in MembershipIds \ mixed : RolesOf(held[m]) = wanted[m]
=============================================================================
