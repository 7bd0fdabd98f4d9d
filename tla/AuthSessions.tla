----------------------------- MODULE AuthSessions -----------------------------
(***************************************************************************)
(* Authentication in the backend: login, refresh with rotation, logout,    *)
(* switching the organisation, and the check of the access token in front  *)
(* of every protected route.                                               *)
(*                                                                         *)
(* A handler is a goroutine that talks to the database statement by        *)
(* statement, with no transaction around them.  req[r] is such a handler:  *)
(* pc names the statement it runs next, or its answer.  What it computes   *)
(* from a row without another statement belongs to the step that read it.  *)
(*                                                                         *)
(* Access and refresh token are minted together and the refresh token's    *)
(* jti is the key of the row, so one id names row, cookie and token; a     *)
(* client holds them only once the row is inserted.                        *)
(***************************************************************************)
EXTENDS Integers, FiniteSets

CONSTANTS
    Subjects,        \* accounts and platform administrators
    Admins,          \* the administrators among them
    Orgs,            \* organisations
    Platform,        \* the scope of an administrator's token
    NameOrder,       \* rank of each organisation in the order of names
    Requests,        \* concurrent requests
    TicksPerSecond,  \* resolution of the clock; tokens carry whole seconds
    AccessTTL, RefreshTTL,
    MaxTime,         \* bound on the clock
    MaxSessions,     \* bound on the rows of refresh_sessions
    MaxMembers,      \* bound on membership ids
    MaxRequests      \* bound on the requests ever sent

Scopes == Orgs \cup {Platform}
Times == 0 .. MaxTime
Never == -1
Sessions == 1 .. MaxSessions
NoSession == 0  \* no cookie, no token

ASSUME SubjectsAssumption == Admins \subseteq Subjects /\ Platform \notin Orgs
ASSUME NameOrderAssumption ==
    /\ NameOrder \in [Orgs -> Nat]
    /\ \A o, p \in Orgs : NameOrder[o] = NameOrder[p] => o = p
ASSUME RequestsAssumption == IsFiniteSet(Requests)
ASSUME BoundsAssumption ==
    /\ TicksPerSecond \in Nat \ {0}
    /\ AccessTTL \in Nat /\ RefreshTTL \in Nat
    /\ MaxTime \in Nat /\ MaxSessions \in Nat /\ MaxMembers \in Nat /\ MaxRequests \in Nat

VARIABLES
    session,     \* refresh_sessions, by jti
    lastLogout,  \* latest logged_out_at in access_token_logout_events
    workspace,   \* organisation_memberships: current id, and whether active
    req,         \* the handlers
    sent,        \* how many requests were sent, for the bound only
    now          \* the wall clock

authVars == <<session, lastLogout, workspace, req, sent, now>>

NoRow == [subject |-> "none"]
SessionRows == [subject : Subjects, scope : Scopes, member : 0 .. MaxMembers,
                parent : Sessions \cup {NoSession}, minted : Times, revoked : BOOLEAN]

Answers == {"ok", "unauthorized", "forbidden", "failed"}
Statements == {"workspaces", "read", "revoke", "workspace", "insert", "authenticate",
               "logout", "record", "recordBearer"}
NoReq == [op |-> "none", pc |-> "idle", subject |-> "none", scope |-> Platform, member |-> 0,
          cookie |-> NoSession, bearer |-> NoSession, at |-> 0, new |-> NoSession]
RequestStates ==
    [op : {"none", "login", "refresh", "switch", "call", "logout"},
     pc : {"idle"} \cup Statements \cup Answers,
     subject : Subjects \cup {"none"}, scope : Scopes, member : 0 .. MaxMembers,
     cookie : Sessions \cup {NoSession}, bearer : Sessions \cup {NoSession},
     at : Times, new : Sessions \cup {NoSession}]

\* The rows, numbered in the order of their insertion.
Issued == {j \in Sessions : session[j] # NoRow}

TypeOK ==
    /\ session \in [Sessions -> SessionRows \cup {NoRow}]
    /\ lastLogout \in [Subjects -> Times \cup {Never}]
    /\ workspace \in [Subjects -> [Scopes -> [member : 0 .. MaxMembers, open : BOOLEAN]]]
    /\ req \in [Requests -> RequestStates]
    /\ sent \in 0 .. MaxRequests
    /\ now \in Times

-----------------------------------------------------------------------------
(* Tokens *)

\* jwt.NumericDate keeps whole seconds.
Second(t) == TicksPerSecond * (t \div TicksPerSecond)

CookieParses(j) == j \in Issued /\ now < Second(session[j].minted + RefreshTTL)
BearerParses(j) == j \in Issued /\ now < Second(session[j].minted + AccessTTL)

\* Mutant: tokens issued in the second of the logout survive it.
LoggedOutLater(j) == lastLogout[session[j].subject] > Second(session[j].minted)

LoggedOut(j) == lastLogout[session[j].subject] >= Second(session[j].minted)

Accepted(j) == BearerParses(j) /\ ~LoggedOut(j)

\* Mutant: GetRefreshSessionByJTI does not look at revoked_at.
RedeemableUntilExpiry(j) == CookieParses(j)

\* The cookie is compared with a row that was written from the same values.
Redeemable(j) == CookieParses(j) /\ ~session[j].revoked

\* Active memberships in active organisations; an administrator has the platform.
OpenScopes(s) == {o \in Scopes : workspace[s][o].open}

\* ListAccountWorkspaces sorts by name and login takes the first.
First(s, o) ==
    /\ o \in OpenScopes(s)
    /\ \A p \in OpenScopes(s) \cap Orgs : o \in Orgs /\ NameOrder[o] <= NameOrder[p]

\* Mutant: one logout time per subject, which a slower logout sets back.
OneLogoutTime(s, t) == [lastLogout EXCEPT ![s] = t]

\* Events are rows of a table and any of them counts, so the latest decides.
Later(s, t) == IF lastLogout[s] < t THEN [lastLogout EXCEPT ![s] = t] ELSE lastLogout

-----------------------------------------------------------------------------
Init ==
    /\ session = [j \in Sessions |-> NoRow]
    /\ lastLogout = [s \in Subjects |-> Never]
    /\ workspace = [s \in Subjects |-> [o \in Scopes |->
                       [member |-> 0, open |-> (s \in Admins) = (o = Platform)]]]
    /\ req = [r \in Requests |-> NoReq]
    /\ sent = 0
    /\ now = 0

LoginRequest(s) == [NoReq EXCEPT !.op = "login", !.pc = "workspaces", !.subject = s]
RefreshRequest(j) == [NoReq EXCEPT !.op = "refresh", !.pc = "read", !.cookie = j]
CallRequest(b) == [NoReq EXCEPT !.op = "call", !.pc = "authenticate", !.bearer = b]
SwitchRequest(b, o) ==
    [NoReq EXCEPT !.op = "switch", !.pc = "authenticate", !.bearer = b, !.scope = o]
\* logoutAt is the first thing the handler reads.
LogoutRequest(j, b) ==
    [NoReq EXCEPT !.op = "logout", !.pc = "logout", !.cookie = j, !.bearer = b, !.at = now]

Send(r, request) ==
    /\ req[r].pc = "idle" /\ sent < MaxRequests
    /\ req' = [req EXCEPT ![r] = request]
    /\ sent' = sent + 1

Goto(r, pc) == req' = [req EXCEPT ![r].pc = pc]

\* An error answer carries nothing.
Refuse(r, answer) == req' = [req EXCEPT ![r] = [NoReq EXCEPT !.pc = answer]]

Grant(r, j) == req' = [req EXCEPT ![r] = [NoReq EXCEPT !.op = req[r].op, !.pc = "ok", !.new = j]]

\* Tokens are minted from the clock as soon as the workspace is known.
Mint(r, s, o) ==
    req' = [req EXCEPT ![r].pc = "insert", ![r].subject = s, ![r].scope = o,
                       ![r].member = workspace[s][o].member, ![r].at = now]

-----------------------------------------------------------------------------
(* The statements of the handlers *)

\* The password matched: list the workspaces and select the first.
SelectWorkspace(r) ==
    LET s == req[r].subject
    IN  /\ req[r].pc = "workspaces"
        /\ \/ OpenScopes(s) = {} /\ Refuse(r, "forbidden")
           \/ \E o \in Scopes : First(s, o) /\ Mint(r, s, o)
        /\ UNCHANGED <<session, lastLogout, workspace, sent, now>>

ReadSession(r) ==
    /\ req[r].pc = "read"
    /\ \/ Redeemable(req[r].cookie) /\ Goto(r, "revoke")
       \/ ~Redeemable(req[r].cookie) /\ Refuse(r, "unauthorized")
    /\ UNCHANGED <<session, lastLogout, workspace, sent, now>>

\* Mutant: the UPDATE matches no row, which Exec does not report.
RevokeNoRow(r) ==
    LET j == req[r].cookie
    IN  /\ req[r].pc = "revoke"
        /\ req' = [req EXCEPT ![r].pc = "workspace", ![r].subject = session[j].subject,
                              ![r].scope = session[j].scope]
        /\ UNCHANGED <<session, lastLogout, workspace, sent, now>>

\* COALESCE(revoked_at, now()): revoking what another request revoked succeeds.
RevokeSession(r) ==
    LET j == req[r].cookie
    IN  /\ req[r].pc = "revoke"
        /\ session' = [session EXCEPT ![j].revoked = TRUE]
        /\ req' = [req EXCEPT ![r].pc = "workspace", ![r].subject = session[j].subject,
                              ![r].scope = session[j].scope]
        /\ UNCHANGED <<lastLogout, workspace, sent, now>>

\* A refresh keeps the membership of its session, a switch takes today's.
WorkspaceFits(r) ==
    LET w == workspace[req[r].subject][req[r].scope]
    IN  w.open /\ (req[r].op = "refresh" => w.member = session[req[r].cookie].member)

CheckWorkspace(r) ==
    /\ req[r].pc = "workspace"
    /\ \/ WorkspaceFits(r) /\ Mint(r, req[r].subject, req[r].scope)
       \/ ~WorkspaceFits(r) /\ Refuse(r, IF req[r].op = "refresh" THEN "unauthorized" ELSE "forbidden")
    /\ UNCHANGED <<session, lastLogout, workspace, sent, now>>

\* Mutant: the expiry is stored where the time of issue belongs.
StoreExpiry(r) ==
    /\ req[r].pc = "insert"
    /\ \E j \in Sessions \ Issued :
          /\ \A k \in Sessions \ Issued : j <= k
          /\ session' = [session EXCEPT ![j] =
                 [subject |-> req[r].subject, scope |-> req[r].scope, member |-> req[r].member,
                  parent |-> req[r].cookie, minted |-> req[r].at + RefreshTTL,
                  revoked |-> FALSE]]
          /\ Grant(r, j)
    /\ UNCHANGED <<lastLogout, workspace, sent, now>>

\* issueAccountRefreshCookie and issueAdminRefreshCookie: then the answer.
InsertSession(r) ==
    /\ req[r].pc = "insert"
    /\ \E j \in Sessions \ Issued :
          /\ \A k \in Sessions \ Issued : j <= k
          /\ session' = [session EXCEPT ![j] =
                 [subject |-> req[r].subject, scope |-> req[r].scope, member |-> req[r].member,
                  parent |-> req[r].cookie, minted |-> req[r].at, revoked |-> FALSE]]
          /\ Grant(r, j)
    /\ UNCHANGED <<lastLogout, workspace, sent, now>>

\* requireAuth, then the handler: switch-organisation goes on with the workspace.
Authenticate(r) ==
    LET b == req[r].bearer
    IN  /\ req[r].pc = "authenticate"
        /\ \/ ~Accepted(b) /\ Refuse(r, "unauthorized")
           \/ Accepted(b) /\ req[r].op = "call" /\ Grant(r, NoSession)
           \/ /\ Accepted(b) /\ req[r].op = "switch"
              /\ req' = [req EXCEPT ![r].pc = "workspace", ![r].subject = session[b].subject]
        /\ UNCHANGED <<session, lastLogout, workspace, sent, now>>

\* logout: revoke the session of the cookie if it parses.
LogoutSession(r) ==
    LET j == req[r].cookie
    IN  /\ req[r].pc = "logout"
        /\ \/ /\ CookieParses(j) /\ Goto(r, "record")
              /\ session' = [session EXCEPT ![j].revoked = TRUE]
           \/ ~CookieParses(j) /\ Goto(r, "recordBearer") /\ UNCHANGED session
        /\ UNCHANGED <<lastLogout, workspace, sent, now>>

RecordLogout(r) ==
    /\ req[r].pc = "record"
    /\ lastLogout' = Later(session[req[r].cookie].subject, req[r].at)
    /\ Goto(r, "recordBearer")
    /\ UNCHANGED <<session, workspace, sent, now>>

RecordBearer(r) ==
    LET b == req[r].bearer
    IN  /\ req[r].pc = "recordBearer"
        /\ lastLogout' = IF BearerParses(b) THEN Later(session[b].subject, req[r].at)
                         ELSE lastLogout
        /\ Grant(r, NoSession)
        /\ UNCHANGED <<session, workspace, sent, now>>

\* A statement fails or times out, or the process dies: what was written stays.
FailStatement(r) ==
    /\ req[r].pc \in Statements
    /\ Refuse(r, "failed")
    /\ UNCHANGED <<session, lastLogout, workspace, sent, now>>

Receive(r) ==
    /\ req[r].pc \in Answers
    /\ req' = [req EXCEPT ![r] = NoReq]
    /\ UNCHANGED <<session, lastLogout, workspace, sent, now>>

-----------------------------------------------------------------------------
(* Members come and go *)

\* A member or the organisation is suspended, or the member removed.
CloseWorkspace(s, o) ==
    /\ s \notin Admins /\ workspace[s][o].open
    /\ workspace' = [workspace EXCEPT ![s][o].open = FALSE]
    /\ UNCHANGED <<session, lastLogout, req, sent, now>>

\* A suspended member is active again; one that was removed gets a new row.
OpenWorkspace(s, o) ==
    /\ s \notin Admins /\ o \in Orgs /\ ~workspace[s][o].open
    /\ \E m \in {workspace[s][o].member, workspace[s][o].member + 1} :
          /\ m <= MaxMembers
          /\ workspace' = [workspace EXCEPT ![s][o] = [member |-> m, open |-> TRUE]]
    /\ UNCHANGED <<session, lastLogout, req, sent, now>>

Tick == now < MaxTime /\ now' = now + 1 /\ UNCHANGED <<session, lastLogout, workspace, req, sent>>

-----------------------------------------------------------------------------
ServerStep(r) ==
    \/ SelectWorkspace(r)
    \/ ReadSession(r) \/ RevokeSession(r) \/ CheckWorkspace(r) \/ InsertSession(r)
    \/ Authenticate(r)
    \/ LogoutSession(r) \/ RecordLogout(r) \/ RecordBearer(r)
    \/ FailStatement(r)

\* Clients present any cookie and any token they were ever given.
ClientStep(r) ==
    \/ /\ \/ \E s \in Subjects : Send(r, LoginRequest(s))
          \/ \E j \in Issued : Send(r, RefreshRequest(j)) \/ Send(r, CallRequest(j))
          \/ \E b \in Issued, o \in Orgs :
                session[b].scope # Platform /\ Send(r, SwitchRequest(b, o))
          \/ \E j, b \in Issued \cup {NoSession} : Send(r, LogoutRequest(j, b))
       /\ UNCHANGED <<session, lastLogout, workspace, now>>
    \/ Receive(r)

Next ==
    \/ \E r \in Requests : ClientStep(r) \/ ServerStep(r)
    \/ \E s \in Subjects, o \in Scopes : CloseWorkspace(s, o) \/ OpenWorkspace(s, o)
    \/ Tick

Spec == Init /\ [][Next]_authVars

-----------------------------------------------------------------------------
(* What the sessions promise *)

\* Rotation replaces a session by one for the same subject, organisation and
\* membership, and by then the old one is revoked: a refresh that fails half
\* way may log its user out but never leaves two cookies behind, and a member
\* who was removed and invited again does not come back on the old cookie.
RotatedOut ==
    \A j \in Issued :
        LET p == session[j].parent
        IN  p # NoSession =>
                /\ p \in Issued /\ session[p].revoked
                /\ session[p].subject = session[j].subject
                /\ session[p].scope = session[j].scope
                /\ session[p].member = session[j].member

\* Reading and revoking a session are two statements, so requests that present
\* one cookie together can all rotate it.  Only those: what a cookie yields is
\* bounded by the requests in flight, and a cookie kept for later yields nothing.
RotationBounded ==
    \A p \in Sessions :
        Cardinality({j \in Issued : session[j].parent = p}) <= Cardinality(Requests)

\* When logout answers, the cookie cannot be redeemed, the bearer is refused, and
\* with it every token its subject was issued up to the start of the logout,
\* those of the same second included, whose claim lies before the logout.
LogoutEnds(r, j) ==
    (req[r].op = "logout" /\ req[r].pc # "ok" /\ req'[r].pc = "ok") =>
        /\ j = req[r].cookie => ~Redeemable(j)'
        /\ (/\ BearerParses(req[r].bearer)
            /\ session[j].subject = session[req[r].bearer].subject
            /\ session[j].minted <= req[r].at) => ~Accepted(j)'

LogoutIsEffective == [][\A r \in Requests, j \in Issued : LogoutEnds(r, j)]_authVars

\* What was refused once stays refused: concurrent logouts that record an older
\* time, refreshes and logins of the same subject revive no token and no cookie.
StaysRefused(j) ==
    /\ ~Accepted(j) => ~Accepted(j)'
    /\ ~Redeemable(j) => ~Redeemable(j)'

NoTokenRevives == [][\A j \in Issued : StaysRefused(j)]_authVars

\* A call that passes requireAuth is made for a membership that is active, in an
\* organisation that is active (docs/BACKEND_API.md).  requireAuth compares the
\* token with the logouts only, and no guard behind it reads the status.
ActiveMembershipRequired ==
    [][\A r \in Requests :
          (/\ req[r].op = "call" /\ req[r].pc = "authenticate" /\ req'[r].pc = "ok") =>
              LET t == session[req[r].bearer]
              IN  workspace[t.subject][t.scope] = [member |-> t.member, open |-> TRUE]]_authVars

=============================================================================
