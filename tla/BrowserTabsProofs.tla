--------------------------- MODULE BrowserTabsProofs ---------------------------
(***************************************************************************)
(* Proofs about BrowserTabs, for any pages, slots and actors: types, that  *)
(* pages agree, and that a browser is a client of AuthSessions, so that the*)
(* theorems of AuthSessionsProofs hold of it.                              *)
(***************************************************************************)
EXTENDS BrowserTabs, AuthSessionsProofs

-----------------------------------------------------------------------------
(* The inductive invariant *)

\* What a page or a cookie of actor a may hold: a session that was issued, and for
\* an account one of an organisation.
Fits(a, j) == j \in Issued /\ (a = "user" => session[j].scope # Platform)

\* A handler works with, and answers, what fits the page that called it.
RequestFits(r) ==
    LET a == ActorOf[PageOf[r]]
    IN  /\ req[r].pc = "workspaces" =>
              req[r].op = "login" /\ (a = "user" => req[r].subject \notin Admins)
        /\ req[r].pc \in {"read", "revoke"} => Fits(a, req[r].cookie)
        /\ req[r].pc \in {"workspace", "insert"} =>
              req[r].op \notin {"none", "call"} /\ (a = "user" => req[r].scope # Platform)
        /\ req[r].pc = "authenticate" /\ req[r].op = "switch" => req[r].scope # Platform
        /\ req[r].new # NoSession =>
              req[r].op \notin {"none", "call"} /\ Fits(a, req[r].new)

\* An account works in organisations only.
WorkspacesFit == \A s \in Subjects \ Admins : ~workspace[s][Platform].open

JarFits == \A a \in Actors : jar[a] # NoSession => Fits(a, jar[a])

PagesFit ==
    /\ \A p \in Pages : current[p] # NoSnapshot => Fits(ActorOf[p], current[p].token)
    /\ \A a \in Actors : store[a] # NoSnapshot => Fits(a, store[a].token)

\* A call knows what its caller needs, and its slot is free when no fetch is out.
CallFits(r) ==
    /\ call[r].kind = "none" => call[r].stage = "idle"
    /\ call[r].kind \in {"login", "switch"} => call[r].principal \in Subjects
    /\ call[r].kind = "switch" => ActorOf[PageOf[r]] = "user" /\ call[r].to \in Orgs
    /\ call[r].stage \notin {"sent", "refreshing", "resent"} =>
          req[r] = NoReq /\ call[r].result = NoResult
    /\ call[r].result # NoResult => req[r] = NoReq
    /\ call[r].kind = "get" /\ call[r].stage # "refreshing" =>
          req[r].op \in {"none", "call"} /\ call[r].result.new = NoSession
    /\ call[r].result.new # NoSession => Fits(ActorOf[PageOf[r]], call[r].result.new)

RequestsFit == \A r \in Requests : RequestFits(r)
CallsFit == \A r \in Requests : CallFits(r)

SnapshotsTyped ==
    /\ store \in [Actors -> Snapshots \cup {NoSnapshot}]
    /\ current \in [Pages -> Snapshots \cup {NoSnapshot}]
    /\ stale \in [Pages -> BOOLEAN]

\* What memory and localStorage, the jar, and the calls with their handlers fulfil.
SnapshotsInv == SnapshotsTyped /\ PagesAgree /\ PagesFit
JarInv == jar \in [Actors -> Sessions \cup {NoSession}] /\ JarFits
CallsInv == call \in [Requests -> Calls] /\ RequestsFit /\ CallsFit

BrowserInv == AuthInv /\ WorkspacesFit /\ SnapshotsInv /\ JarInv /\ CallsInv

LEMMA FitsKept ==
    ASSUME Evolves, NEW a, NEW j, Fits(a, j)
    PROVE  Fits(a, j)'
  BY DEF Evolves, Fits

\* The same of an id that itself depends on the state.
StillFits(a, j) == j \in Issued' /\ (a = "user" => session'[j].scope # Platform)

LEMMA FitsStill ==
    ASSUME Evolves
    PROVE  \A a, j : Fits(a, j) => StillFits(a, j)
  BY DEF Evolves, Fits, StillFits

LEMMA FitsIssued ==
    ASSUME NEW a, NEW j, Fits(a, j)
    PROVE  j \in Issued /\ j \in Sessions
  BY DEF Fits, Issued

LEMMA SlotTyped ==
    ASSUME NEW r \in Requests
    PROVE  PageOf[r] \in Pages /\ ActorOf[PageOf[r]] \in Actors
  BY PagesAssumption

LEMMA NoReqFacts ==
    /\ NoReq.op = "none" /\ NoReq.pc = "idle" /\ NoReq.new = NoSession
    /\ NoResult.new = NoSession
    /\ NoCall.kind = "none" /\ NoCall.stage = "idle" /\ NoCall.result = NoResult
  BY DEF NoReq, NoResult, NoCall

LEMMA CallTyped ==
    ASSUME CallsInv, NEW r \in Requests
    PROVE  call[r] \in Calls
  BY DEF CallsInv

LEMMA NoCallTyped == NoCall \in Calls
  BY DEF NoCall, Calls, Stages, NoResult, Scopes, Answers

\* A request that does not move keeps fitting.
LEMMA RequestFitsKept ==
    ASSUME Evolves, NEW q \in Requests, RequestFits(q), req'[q] = req[q]
    PROVE  RequestFits(q)'
  BY FitsKept DEF RequestFits

LEMMA CallFitsKept ==
    ASSUME Evolves, NEW q \in Requests, CallFits(q), req'[q] = req[q], call'[q] = call[q]
    PROVE  CallFits(q)'
  BY FitsKept DEF CallFits

-----------------------------------------------------------------------------
(* Steps of the server *)

\* A refusal fits every page.
LEMMA RefusalFits ==
    ASSUME TypeOK, NEW r \in Requests, NEW a \in Answers, Refuse(r, a)
    PROVE  /\ RequestFits(r)' /\ req'[r].op = "none"
           /\ \A q \in Requests \ {r} : req'[q] = req[q]
  <1> DEFINE t == [NoReq EXCEPT !.pc = a]
  <1>1. t.pc = a /\ t.op = "none" /\ t.new = NoSession
    BY DEF NoReq
  <1>2. req'[r] = t /\ \A q \in Requests \ {r} : req'[q] = req[q]
    BY DEF Refuse, TypeOK
  <1>3. RequestFits(r)'
    <2> HIDE DEF t
    <2> QED
      BY <1>1, <1>2 DEF RequestFits, Answers
  <1> QED
    BY <1>1, <1>2, <1>3

\* An answer that carries a session fits if its session does.
LEMMA AnswerFits ==
    ASSUME TypeOK, NEW r \in Requests, NEW j \in Sessions \cup {NoSession}, Grant(r, j),
           j # NoSession => req[r].op \notin {"none", "call"} /\ Fits(ActorOf[PageOf[r]], j)'
    PROVE  /\ RequestFits(r)' /\ req'[r].op = req[r].op
           /\ \A q \in Requests \ {r} : req'[q] = req[q]
  <1> DEFINE t == [NoReq EXCEPT !.op = req[r].op, !.pc = "ok", !.new = j]
  <1>1. t.pc = "ok" /\ t.op = req[r].op /\ t.new = j
    BY DEF NoReq
  <1>2. req'[r] = t /\ \A q \in Requests \ {r} : req'[q] = req[q]
    BY DEF Grant, TypeOK
  <1>3. RequestFits(r)'
    <2> HIDE DEF t
    <2> QED
      BY <1>1, <1>2 DEF RequestFits
  <1> QED
    BY <1>1, <1>2, <1>3

\* A handler that goes on keeps what it answers, which is nothing yet.
LEMMA MovesOn ==
    ASSUME TypeOK, Evolves, NEW r \in Requests, RequestFits(r),
           NEW t \in RequestStates, req' = [req EXCEPT ![r] = t],
           t.pc \notin {"workspaces", "authenticate"}, t.op = req[r].op, t.new = req[r].new,
           t.pc \in {"read", "revoke"} => Fits(ActorOf[PageOf[r]], t.cookie),
           t.pc \in {"workspace", "insert"} =>
              t.op \notin {"none", "call"} /\ (ActorOf[PageOf[r]] = "user" => t.scope # Platform)
    PROVE  /\ RequestFits(r)' /\ req'[r].op = req[r].op
           /\ \A q \in Requests \ {r} : req'[q] = req[q]
  <1>1. req'[r] = t /\ \A q \in Requests \ {r} : req'[q] = req[q]
    BY DEF TypeOK
  <1>2. t.new # NoSession => Fits(ActorOf[PageOf[r]], t.new)'
    BY FitsKept DEF RequestFits
  <1>3. t.pc \in {"read", "revoke"} => Fits(ActorOf[PageOf[r]], t.cookie)'
    BY FitsKept
  <1>4. t.new # NoSession => t.op \notin {"none", "call"}
    BY DEF RequestFits
  <1> QED
    BY <1>1, <1>2, <1>3, <1>4 DEF RequestFits

LEMMA MintFits ==
    ASSUME TypeOK, Evolves, NEW r \in Requests, RequestFits(r), NEW s \in Subjects,
           NEW o \in Scopes, Mint(r, s, o), req[r].op \notin {"none", "call"},
           ActorOf[PageOf[r]] = "user" => o # Platform
    PROVE  /\ RequestFits(r)' /\ req'[r].op = req[r].op
           /\ \A q \in Requests \ {r} : req'[q] = req[q]
  <1> DEFINE t == [req[r] EXCEPT !.pc = "insert", !.subject = s, !.scope = o,
                                 !.member = workspace[s][o].member, !.at = now]
  <1>1. workspace[s][o].member \in 0 .. MaxMembers /\ now \in Times
    BY DEF TypeOK
  <1>2. t \in RequestStates /\ t.pc = "insert" /\ t.op = req[r].op /\ t.new = req[r].new /\ t.scope = o
    BY <1>1, RequestTyped DEF RequestStates, Statements
  <1>3. req' = [req EXCEPT ![r] = t]
    BY DEF Mint
  <1> HIDE DEF t
  <1> QED
    BY <1>2, <1>3, MovesOn

LEMMA GotoFits ==
    ASSUME TypeOK, Evolves, NEW r \in Requests, RequestFits(r),
           NEW pc \in {"revoke", "record", "recordBearer"}, Goto(r, pc),
           pc = "revoke" => Fits(ActorOf[PageOf[r]], req[r].cookie)
    PROVE  /\ RequestFits(r)' /\ req'[r].op = req[r].op
           /\ \A q \in Requests \ {r} : req'[q] = req[q]
  <1> DEFINE t == [req[r] EXCEPT !.pc = pc]
  <1>1. /\ t \in RequestStates /\ t.pc = pc /\ t.op = req[r].op /\ t.new = req[r].new
        /\ t.cookie = req[r].cookie
    BY RequestTyped DEF RequestStates, Statements
  <1>2. req' = [req EXCEPT ![r] = t]
    BY DEF Goto
  <1> HIDE DEF t
  <1> QED
    BY <1>1, <1>2, MovesOn

\* Every statement leaves its request fitting, and the others alone.
LEMMA ServerFits ==
    ASSUME BrowserInv, NEW r \in Requests, ServerStep(r)
    PROVE  /\ RequestFits(r)' /\ req'[r].op \in {req[r].op, "none"}
           /\ \A q \in Requests \ {r} : req'[q] = req[q]
           /\ workspace' = workspace
           /\ req[r].pc \in Statements
  <1> USE DEF AuthInv
  <1> DEFINE Goal == /\ RequestFits(r)' /\ req'[r].op \in {req[r].op, "none"}
                     /\ \A q \in Requests \ {r} : req'[q] = req[q]
             a == ActorOf[PageOf[r]]
  <1>0. workspace' = workspace /\ req[r].pc \in Statements
    BY DEF ServerStep, SelectWorkspace, ReadSession, RevokeSession, CheckWorkspace,
           InsertSession, Authenticate, LogoutSession, RecordLogout, RecordBearer,
           FailStatement, Statements
  <1> SUFFICES Goal
    BY <1>0
  <1>1. TypeOK /\ Shaped /\ RequestShape(r) /\ RequestFits(r)
    BY DEF BrowserInv, CallsInv, RequestsFit, Shaped
  <1>2. Evolves
    BY <1>1, StepKeeps DEF Next
  <1>3. CASE SelectWorkspace(r)
    <2>1. CASE Refuse(r, "forbidden")
      BY <1>1, <2>1, RefusalFits DEF Answers
    <2>2. ASSUME NEW o \in Scopes, First(req[r].subject, o), Mint(r, req[r].subject, o)
          PROVE  Goal
      <3>1. req[r].subject \in Subjects /\ workspace[req[r].subject][o].open
        BY <1>1, <1>3, <2>2 DEF SelectWorkspace, RequestShape, First, OpenScopes
      <3>2. a = "user" => o # Platform
        BY <1>1, <1>3, <3>1 DEF BrowserInv, WorkspacesFit, RequestFits, SelectWorkspace
      <3>3. req[r].op = "login"
        BY <1>1, <1>3 DEF RequestFits, SelectWorkspace
      <3> QED
        BY <1>1, <1>2, <2>2, <3>1, <3>2, <3>3, MintFits
    <2> QED
      BY <1>3, <2>1, <2>2 DEF SelectWorkspace
  <1>4. CASE ReadSession(r)
    <2>1. Fits(a, req[r].cookie)
      BY <1>1, <1>4 DEF RequestFits, ReadSession
    <2> QED
      BY <1>1, <1>2, <1>4, <2>1, RefusalFits, GotoFits DEF ReadSession, Answers
  <1>5. CASE RevokeSession(r)
    <2> DEFINE j == req[r].cookie
               t == [req[r] EXCEPT !.pc = "workspace", !.subject = session[j].subject,
                                   !.scope = session[j].scope]
    <2>1. Fits(a, j) /\ req[r].op = "refresh"
      BY <1>1, <1>5 DEF RequestFits, RevokeSession, RequestShape
    <2>2. session[j] \in SessionRows
      BY <1>1, <2>1, FitsIssued, IssuedRows
    <2>3. /\ t \in RequestStates /\ t.pc = "workspace" /\ t.op = req[r].op
          /\ t.new = req[r].new /\ t.scope = session[j].scope
      BY <1>1, <2>2, RequestTyped DEF RequestStates, Statements, SessionRows
    <2>4. req' = [req EXCEPT ![r] = t]
      BY <1>5 DEF RevokeSession
    <2>5. a = "user" => t.scope # Platform
      BY <2>1, <2>3 DEF Fits
    <2> HIDE DEF t
    <2> QED
      BY <1>1, <1>2, <2>1, <2>3, <2>4, <2>5, MovesOn
  <1>6. CASE CheckWorkspace(r)
    <2>1. /\ req[r].op \notin {"none", "call"} /\ req[r].subject \in Subjects
          /\ req[r].scope \in Scopes /\ (a = "user" => req[r].scope # Platform)
      BY <1>1, <1>6, RequestTyped DEF RequestFits, CheckWorkspace, RequestShape, RequestStates
    <2> QED
      BY <1>1, <1>2, <1>6, <2>1, RefusalFits, MintFits DEF CheckWorkspace, Answers
  <1>7. CASE InsertSession(r)
    <2>1. PICK j \in Sessions \ Issued :
             /\ session' = [session EXCEPT ![j] =
                    [subject |-> req[r].subject, scope |-> req[r].scope,
                     member |-> req[r].member, parent |-> req[r].cookie,
                     minted |-> req[r].at, revoked |-> FALSE]]
             /\ Grant(r, j)
      BY <1>7 DEF InsertSession
    <2> DEFINE row == [subject |-> req[r].subject, scope |-> req[r].scope,
                       member |-> req[r].member, parent |-> req[r].cookie,
                       minted |-> req[r].at, revoked |-> FALSE]
    <2>2. row \in SessionRows /\ row.scope = req[r].scope
      BY <1>1, <1>7, RequestTyped DEF InsertSession, RequestShape, RequestStates, SessionRows
    <2>3. j \in Issued' /\ session'[j] = row
      BY <1>1, <1>7, <2>1, <2>2, Inserted DEF InsertSession
    <2>4. req[r].op \notin {"none", "call"} /\ (a = "user" => req[r].scope # Platform)
      BY <1>1, <1>7 DEF RequestFits, InsertSession
    <2>5. Fits(a, j)'
      BY <2>2, <2>3, <2>4 DEF Fits
    <2> QED
      BY <1>1, <2>1, <2>4, <2>5, AnswerFits
  <1>8. CASE Authenticate(r)
    <2> DEFINE b == req[r].bearer
               t == [req[r] EXCEPT !.pc = "workspace", !.subject = session[b].subject]
    <2>1. CASE Refuse(r, "unauthorized")
      BY <1>1, <2>1, RefusalFits DEF Answers
    <2>2. CASE Grant(r, NoSession)
      BY <1>1, <2>2, AnswerFits
    <2>3. CASE req[r].op = "switch" /\ req' = [req EXCEPT ![r] = t]
      <3>1. session[b].subject \in Subjects
        BY <1>1, <1>8, IssuedRows DEF SessionRows, Authenticate, RequestShape
      <3>2. /\ t \in RequestStates /\ t.pc = "workspace" /\ t.op = req[r].op
            /\ t.new = req[r].new /\ t.scope = req[r].scope
        BY <1>1, <3>1, RequestTyped DEF RequestStates, Statements
      <3>3. req[r].scope # Platform
        BY <1>1, <1>8, <2>3 DEF RequestFits, Authenticate
      <3> HIDE DEF t
      <3> QED
        BY <1>1, <1>2, <2>3, <3>2, <3>3, MovesOn
    <2> QED
      BY <1>8, <2>1, <2>2, <2>3 DEF Authenticate
  <1>9. CASE LogoutSession(r)
    BY <1>1, <1>2, <1>9, GotoFits DEF LogoutSession
  <1>10. CASE RecordLogout(r)
    BY <1>1, <1>2, <1>10, GotoFits DEF RecordLogout
  <1>11. CASE RecordBearer(r)
    BY <1>1, <1>11, AnswerFits DEF RecordBearer
  <1>12. CASE FailStatement(r)
    BY <1>1, <1>12, RefusalFits DEF FailStatement, Answers
  <1> QED
    BY <1>3, <1>4, <1>5, <1>6, <1>7, <1>8, <1>9, <1>10, <1>11, <1>12 DEF ServerStep

-----------------------------------------------------------------------------
(* A browser is a client of the server *)

LEMMA HeldTokens ==
    ASSUME BrowserInv, NEW r \in Requests
    PROVE  /\ current[PageOf[r]] # NoSnapshot =>
                 /\ current[PageOf[r]] \in Snapshots
                 /\ Fits(ActorOf[PageOf[r]], current[PageOf[r]].token)
                 /\ current[PageOf[r]].token \in Issued
           /\ jar[ActorOf[PageOf[r]]] # NoSession =>
                 /\ Fits(ActorOf[PageOf[r]], jar[ActorOf[PageOf[r]]])
                 /\ jar[ActorOf[PageOf[r]]] \in Issued
           /\ jar["user"] \in Issued \cup {NoSession}
  <1>1. "user" \in Actors
    BY DEF Actors
  <1>2. \A a \in Actors : jar[a] # NoSession => Fits(a, jar[a]) /\ jar[a] \in Issued
    BY FitsIssued DEF BrowserInv, JarInv, JarFits
  <1> QED
    BY <1>1, <1>2, SlotTyped, FitsIssued DEF BrowserInv, SnapshotsInv, SnapshotsTyped, PagesFit

\* A page starts what a client may send.
LEMMA StartSends ==
    ASSUME BrowserInv, NEW r \in Requests, StartCall(r)
    PROVE  ClientStep(r)
  <1> DEFINE p == PageOf[r]
  <1>1. CASE StartLogin(r)
    BY <1>1 DEF StartLogin, Start, ClientStep
  <1>2. CASE StartGet(r)
    BY <1>2, HeldTokens DEF StartGet, Start, ClientStep
  <1>3. CASE StartSwitch(r)
    <2>1. /\ current[p].token \in Issued /\ session[current[p].token].scope # Platform
      BY <1>3, HeldTokens DEF StartSwitch, Fits, ActorOfCall
    <2>2. PICK o \in Orgs : Start(r, "switch", current[p].subject, o,
                                  SwitchRequest(current[p].token, o))
      BY <1>3 DEF StartSwitch
    <2> QED
      BY <2>1, <2>2 DEF Start, ClientStep
  <1>4. CASE StartLogout(r)
    BY <1>4, HeldTokens DEF StartLogout, Start, ClientStep
  <1> QED
    BY <1>1, <1>2, <1>3, <1>4 DEF StartCall

LEMMA RefreshSends ==
    ASSUME BrowserInv, NEW r \in Requests, Refresh(r)
    PROVE  ClientStep(r) \/ UNCHANGED authVars
  <1> DEFINE j == jar[ActorOf[PageOf[r]]]
  <1>1. CASE UNCHANGED <<req, sent>>
    BY <1>1 DEF Refresh, authVars
  <1>2. CASE j # NoSession /\ Send(r, RefreshRequest(j))
    BY <1>2, HeldTokens DEF Refresh, ClientStep
  <1> QED
    BY <1>1, <1>2 DEF Refresh

LEMMA ResendSends ==
    ASSUME BrowserInv, NEW r \in Requests, Resend(r)
    PROVE  ClientStep(r) \/ UNCHANGED authVars
  <1> DEFINE p == PageOf[r]
             token == IF current[p] # NoSnapshot THEN current[p].token
                      ELSE IF call[r].kind = "get" THEN jar[ActorOf[p]] ELSE NoSession
  <1>1. CASE UNCHANGED <<req, sent>>
    BY <1>1 DEF Resend, authVars
  <1>2. CASE token # NoSession /\ call[r].kind = "get" /\ Send(r, CallRequest(token))
    <2>1. token \in Issued
      BY <1>2, HeldTokens
    <2> HIDE DEF token
    <2> QED
      BY <1>2, <2>1 DEF Resend, ClientStep
  <1>3. CASE token # NoSession /\ call[r].kind = "switch" /\ Send(r, SwitchRequest(token, call[r].to))
    <2>1. /\ current[p] # NoSnapshot /\ token = current[p].token
      BY <1>3
    <2>2. ActorOf[p] = "user" /\ call[r].to \in Orgs
      BY <1>3 DEF BrowserInv, CallsInv, CallsFit, CallFits
    <2>3. token \in Issued /\ session[token].scope # Platform
      BY <2>1, <2>2, HeldTokens DEF Fits
    <2> HIDE DEF token
    <2> QED
      BY <1>3, <2>2, <2>3 DEF Resend, ClientStep
  <1> QED
    BY <1>1, <1>2, <1>3 DEF Resend

LEMMA PageSends ==
    ASSUME BrowserInv, NEW r \in Requests, PageStep(r)
    PROVE  ClientStep(r) \/ UNCHANGED authVars
  BY RefreshSends, ResendSends
     DEF PageStep, Settle, AdoptToken, RefreshFailed, GiveUp

LEMMA BrowserStep ==
    ASSUME BrowserInv, [BrowserNext]_vars
    PROVE  [Next]_authVars
  <1>1. ASSUME NEW r \in Requests, StartCall(r) \/ Arrive(r) \/ Lose(r) \/ PageStep(r)
        PROVE  [Next]_authVars
    BY <1>1, StartSends, PageSends DEF Arrive, Lose, ClientStep, Next
  <1>2. CASE \E p \in Pages : StorageEvent(p)
    BY <1>2 DEF StorageEvent
  <1>3. CASE ServerSide
    BY <1>3 DEF ServerSide, Next
  <1>4. CASE UNCHANGED vars
    BY <1>4 DEF vars, authVars
  <1> QED
    BY <1>1, <1>2, <1>3, <1>4 DEF BrowserNext

-----------------------------------------------------------------------------
(* Steps of the pages *)

LEMMA KeepPages ==
    ASSUME SnapshotsInv, Evolves, KeepSession
    PROVE  SnapshotsInv'
  <1>1. current' = current /\ store' = store /\ stale' = stale
    BY DEF KeepSession
  <1> QED
    BY <1>1, FitsKept DEF SnapshotsInv, SnapshotsTyped, PagesAgree, PagesFit

LEMMA WritePages ==
    ASSUME SnapshotsInv, Evolves, NEW p \in Pages, NEW s \in Snapshots \cup {NoSnapshot},
           s # NoSnapshot => Fits(ActorOf[p], s.token),
           Write(p, s)
    PROVE  SnapshotsInv'
  <1> DEFINE a == ActorOf[p]
  <1>1. a \in Actors /\ \A q \in Pages : ActorOf[q] \in Actors
    BY PagesAssumption
  <1>2. /\ current' = [current EXCEPT ![p] = s]
        /\ store' = [store EXCEPT ![a] = s]
        /\ stale' = [q \in Pages |->
              stale[q] \/ (q # p /\ ActorOf[q] = a /\ store[a] # s)]
    BY DEF Write
  <1>3. SnapshotsTyped'
    BY <1>1, <1>2 DEF SnapshotsInv, SnapshotsTyped
  <1>4. /\ \A q \in Pages : current'[q] = IF q = p THEN s ELSE current[q]
        /\ \A b \in Actors : store'[b] = IF b = a THEN s ELSE store[b]
    BY <1>1, <1>2 DEF SnapshotsInv, SnapshotsTyped
  <1>5. PagesAgree'
    <2> SUFFICES ASSUME NEW q \in Pages, ~stale'[q] PROVE current'[q] = store'[ActorOf[q]]
      BY DEF PagesAgree
    <2>1. ~(stale[q] \/ (q # p /\ ActorOf[q] = a /\ store[a] # s))
      BY <1>2
    <2> QED
      BY <1>1, <1>4, <2>1 DEF SnapshotsInv, PagesAgree
  <1>6. PagesFit'
    <2>1. \A b, j : Fits(b, j) => StillFits(b, j)
      BY FitsStill
    <2>2. \A q \in Pages : current'[q] # NoSnapshot => StillFits(ActorOf[q], current'[q].token)
      BY <1>4, <2>1 DEF SnapshotsInv, PagesFit
    <2>3. \A b \in Actors : store'[b] # NoSnapshot => StillFits(b, store'[b].token)
      BY <1>4, <2>1 DEF SnapshotsInv, PagesFit
    <2> QED
      BY <2>2, <2>3 DEF PagesFit, Fits, StillFits
  <1> QED
    BY <1>3, <1>5, <1>6 DEF SnapshotsInv

LEMMA KeepJar ==
    ASSUME JarInv, Evolves, UNCHANGED jar
    PROVE  JarInv'
  BY FitsKept DEF JarInv, JarFits

\* One slot moves, its handler with it or not at all.
LEMMA OneCall ==
    ASSUME CallsInv, Evolves, NEW r \in Requests, NEW c \in Calls,
           call' = [call EXCEPT ![r] = c],
           \A q \in Requests \ {r} : req'[q] = req[q],
           RequestFits(r)', CallFits(r)'
    PROVE  CallsInv'
  <1>1. call' \in [Requests -> Calls] /\ \A q \in Requests \ {r} : call'[q] = call[q]
    BY DEF CallsInv
  <1>2. \A q \in Requests \ {r} : RequestFits(q)' /\ CallFits(q)'
    BY <1>1, RequestFitsKept, CallFitsKept DEF CallsInv, RequestsFit, CallsFit
  <1> QED
    BY <1>1, <1>2 DEF CallsInv, RequestsFit, CallsFit

\* What a client sends fits.
LEMMA SendFits ==
    ASSUME TypeOK, Evolves, NEW r \in Requests, NEW t \in RequestStates, Send(r, t),
           t.pc \in {"workspaces", "read", "authenticate", "logout"}, t.new = NoSession,
           t.pc = "workspaces" =>
              t.op = "login" /\ (ActorOf[PageOf[r]] = "user" => t.subject \notin Admins),
           t.pc = "read" => Fits(ActorOf[PageOf[r]], t.cookie),
           t.pc = "authenticate" /\ t.op = "switch" => t.scope # Platform
    PROVE  /\ req'[r] = t /\ RequestFits(r)'
           /\ \A q \in Requests \ {r} : req'[q] = req[q]
  <1>1. req'[r] = t /\ \A q \in Requests \ {r} : req'[q] = req[q]
    BY DEF Send, TypeOK
  <1>2. t.pc = "read" => Fits(ActorOf[PageOf[r]], t.cookie)'
    BY FitsKept
  <1> QED
    BY <1>1, <1>2 DEF RequestFits

\* The requests of the four kinds of calls, and the refresh.
LEMMA RequestForms ==
    ASSUME TypeOK
    PROVE  /\ \A s \in Subjects : LET t == LoginRequest(s) IN
                 /\ t \in RequestStates /\ t.pc = "workspaces" /\ t.op = "login"
                 /\ t.subject = s /\ t.new = NoSession
           /\ \A j \in Sessions : LET t == RefreshRequest(j) IN
                 /\ t \in RequestStates /\ t.pc = "read" /\ t.op = "refresh"
                 /\ t.cookie = j /\ t.new = NoSession
           /\ \A j \in Sessions : LET t == CallRequest(j) IN
                 /\ t \in RequestStates /\ t.pc = "authenticate" /\ t.op = "call"
                 /\ t.new = NoSession
           /\ \A j \in Sessions, o \in Orgs : LET t == SwitchRequest(j, o) IN
                 /\ t \in RequestStates /\ t.pc = "authenticate" /\ t.op = "switch"
                 /\ t.scope = o /\ o # Platform /\ t.new = NoSession
           /\ \A j, b \in Sessions \cup {NoSession} : LET t == LogoutRequest(j, b) IN
                 /\ t \in RequestStates /\ t.pc = "logout" /\ t.op = "logout"
                 /\ t.new = NoSession
  <1>1. now \in Times
    BY DEF TypeOK
  <1>2. \A o \in Orgs : o \in Scopes /\ o # Platform
    BY SubjectsAssumption DEF Scopes
  <1>3. NoReq \in RequestStates /\ NoReq.new = NoSession
    BY Constants, NoReqFacts
  <1> QED
    BY <1>1, <1>2, <1>3 DEF LoginRequest, RefreshRequest, CallRequest, SwitchRequest,
       LogoutRequest, RequestStates, Statements

LEMMA StartKeeps ==
    ASSUME BrowserInv, Evolves, NEW r \in Requests,
           NEW kind \in {"login", "get", "switch", "logout"},
           NEW principal \in Subjects \cup {"none"}, NEW to \in Scopes,
           NEW t \in RequestStates, Start(r, kind, principal, to, t),
           t.pc \in {"workspaces", "authenticate", "logout"}, t.new = NoSession,
           t.pc = "workspaces" =>
              t.op = "login" /\ (ActorOf[PageOf[r]] = "user" => t.subject \notin Admins),
           t.pc = "authenticate" /\ t.op = "switch" => t.scope # Platform,
           kind \in {"login", "switch"} => principal \in Subjects,
           kind = "switch" => ActorOf[PageOf[r]] = "user" /\ to \in Orgs,
           kind = "get" => t.op = "call"
    PROVE  SnapshotsInv' /\ JarInv' /\ CallsInv'
  <1> DEFINE c == [NoCall EXCEPT !.kind = kind, !.stage = "sent", !.principal = principal,
                                 !.to = to, !.cookie = jar[ActorOfCall(r)]]
  <1>1. TypeOK /\ SnapshotsInv /\ JarInv /\ CallsInv
    BY DEF BrowserInv, AuthInv
  <1>2. jar[ActorOfCall(r)] \in Sessions \cup {NoSession}
    BY <1>1, SlotTyped DEF JarInv, ActorOfCall
  <1>3. /\ c \in Calls /\ c.kind = kind /\ c.stage = "sent" /\ c.principal = principal
        /\ c.to = to /\ c.result = NoResult
    BY <1>2, NoCallTyped, NoReqFacts DEF Calls, Stages
  <1>4. /\ req'[r] = t /\ RequestFits(r)'
        /\ \A q \in Requests \ {r} : req'[q] = req[q]
    BY <1>1, SendFits DEF Start
  <1>5. call' = [call EXCEPT ![r] = c]
    BY DEF Start
  <1>6. call'[r] = c
    BY <1>1, <1>5 DEF CallsInv
  <1> HIDE DEF c
  <1>7. CallFits(r)'
    BY <1>3, <1>4, <1>6, NoReqFacts DEF CallFits
  <1> QED
    BY <1>1, <1>3, <1>4, <1>5, <1>7, KeepPages, KeepJar, OneCall DEF Start

LEMMA StartCallKeeps ==
    ASSUME BrowserInv, Evolves, NEW r \in Requests, StartCall(r)
    PROVE  SnapshotsInv' /\ JarInv' /\ CallsInv'
  <1> DEFINE p == PageOf[r]
  <1>1. TypeOK
    BY DEF BrowserInv, AuthInv
  <1>2. Platform \in Scopes /\ Orgs \subseteq Scopes
    BY DEF Scopes
  <1>3. CASE StartLogin(r)
    <2>1. PICK s \in Subjects : /\ (s \in Admins) = (ActorOfCall(r) = "admin")
                                /\ Start(r, "login", s, Platform, LoginRequest(s))
      BY <1>3 DEF StartLogin
    <2>2. ActorOf[p] = "user" => s \notin Admins
      BY <2>1 DEF ActorOfCall
    <2> QED
      BY <1>1, <1>2, <2>1, <2>2, RequestForms, StartKeeps
  <1>4. CASE StartGet(r)
    <2>1. current[p].token \in Sessions
      BY <1>4, HeldTokens DEF StartGet, Issued
    <2> QED
      BY <1>1, <1>2, <1>4, <2>1, RequestForms, StartKeeps DEF StartGet
  <1>5. CASE StartSwitch(r)
    <2>1. /\ current[p].token \in Sessions /\ current[p].subject \in Subjects
          /\ ActorOf[p] = "user"
      BY <1>5, HeldTokens DEF StartSwitch, Issued, Snapshots, ActorOfCall
    <2>2. PICK o \in Orgs : Start(r, "switch", current[p].subject, o,
                                  SwitchRequest(current[p].token, o))
      BY <1>5 DEF StartSwitch
    <2> QED
      BY <1>1, <1>2, <2>1, <2>2, RequestForms, StartKeeps
  <1>6. CASE StartLogout(r)
    <2>1. /\ current[p].token \in Sessions /\ jar["user"] \in Sessions \cup {NoSession}
      BY <1>6, HeldTokens DEF StartLogout, Issued
    <2> QED
      BY <1>1, <1>2, <1>6, <2>1, RequestForms, StartKeeps DEF StartLogout
  <1> QED
    BY <1>3, <1>4, <1>5, <1>6 DEF StartCall

LEMMA SlotFacts ==
    ASSUME BrowserInv, NEW r \in Requests
    PROVE  /\ TypeOK /\ SnapshotsInv /\ JarInv /\ CallsInv
           /\ req[r] \in RequestStates /\ call[r] \in Calls
           /\ RequestFits(r) /\ CallFits(r)
           /\ PageOf[r] \in Pages /\ ActorOf[PageOf[r]] \in Actors
  BY RequestTyped, CallTyped, SlotTyped DEF BrowserInv, AuthInv, CallsInv, RequestsFit, CallsFit

\* A slot whose handler is received is free.
LEMMA FreeFits ==
    ASSUME NEW r \in Requests, req'[r] = NoReq
    PROVE  RequestFits(r)'
  BY NoReqFacts DEF RequestFits

LEMMA ReceiveStep ==
    ASSUME BrowserInv, NEW r \in Requests, Receive(r)
    PROVE  /\ req'[r] = NoReq /\ \A q \in Requests \ {r} : req'[q] = req[q]
           /\ RequestFits(r)'
           /\ call[r].stage \in {"sent", "refreshing", "resent"}
           /\ call[r].kind # "none"
  <1>1. req'[r] = NoReq /\ \A q \in Requests \ {r} : req'[q] = req[q]
    BY SlotFacts DEF Receive, TypeOK
  <1>2. req[r] # NoReq
    BY NoReqFacts DEF Receive, Answers
  <1> QED
    BY <1>1, <1>2, FreeFits, SlotFacts DEF CallFits

LEMMA ArriveKeeps ==
    ASSUME BrowserInv, Evolves, NEW r \in Requests, Arrive(r)
    PROVE  SnapshotsInv' /\ JarInv' /\ CallsInv'
  <1> DEFINE a == ActorOf[PageOf[r]]
             res == [pc |-> req[r].pc, new |-> req[r].new]
             c == [call[r] EXCEPT !.result = res]
  <1>1. /\ req'[r] = NoReq /\ \A q \in Requests \ {r} : req'[q] = req[q]
        /\ RequestFits(r)' /\ call[r].stage \in {"sent", "refreshing", "resent"}
        /\ call[r].kind # "none"
    BY ReceiveStep DEF Arrive
  <1>2. /\ SnapshotsInv /\ JarInv /\ CallsInv /\ RequestFits(r) /\ CallFits(r)
        /\ req[r] \in RequestStates /\ call[r] \in Calls /\ a \in Actors
    BY SlotFacts
  <1>3. req[r].pc \in Answers /\ req[r].new \in Sessions \cup {NoSession}
    BY <1>2 DEF Arrive, Receive, RequestStates
  <1>4. /\ c \in Calls /\ c.kind = call[r].kind /\ c.stage = call[r].stage
        /\ c.principal = call[r].principal /\ c.to = call[r].to
        /\ c.result.new = req[r].new
    BY <1>2, <1>3 DEF Calls
  <1>5. call' = [call EXCEPT ![r] = c]
    BY DEF Arrive
  <1>6. call'[r] = c
    BY <1>2, <1>5 DEF CallsInv
  <1>7. req[r].new # NoSession => StillFits(a, req[r].new) /\ req[r].op \notin {"none", "call"}
    BY <1>2, FitsStill DEF RequestFits
  <1>8. CallFits(r)'
    <2> HIDE DEF c
    <2> QED
      BY <1>1, <1>2, <1>4, <1>6, <1>7, NoReqFacts DEF CallFits, Fits, StillFits
  <1>9. CallsInv'
    <2> HIDE DEF c
    <2> QED
      BY <1>1, <1>2, <1>4, <1>5, <1>8, OneCall
  <1>10. JarInv'
    <2>1. CASE req[r].new # NoSession
      <3>1. jar' = [jar EXCEPT ![a] = req[r].new]
        BY <2>1 DEF Arrive, ActorOfCall
      <3>2. jar' \in [Actors -> Sessions \cup {NoSession}]
        BY <1>2, <1>3, <3>1 DEF JarInv
      <3>3. \A b \in Actors : jar'[b] = IF b = a THEN req[r].new ELSE jar[b]
        BY <1>2, <3>1 DEF JarInv
      <3>4. \A b \in Actors : jar'[b] # NoSession => StillFits(b, jar'[b])
        BY <1>2, <3>3, FitsStill DEF JarInv, JarFits, RequestFits
      <3> QED
        BY <3>2, <3>4 DEF JarInv, JarFits, Fits, StillFits
    <2>2. CASE jar' = [b \in Actors |-> NoSession]
      BY <2>2 DEF JarInv, JarFits
    <2>3. CASE jar' = jar
      BY <1>2, <2>3, KeepJar
    <2> QED
      BY <2>1, <2>2, <2>3 DEF Arrive
  <1> QED
    BY <1>2, <1>9, <1>10, KeepPages DEF Arrive

LEMMA LoseKeeps ==
    ASSUME BrowserInv, Evolves, NEW r \in Requests, Lose(r)
    PROVE  SnapshotsInv' /\ JarInv' /\ CallsInv'
  <1> DEFINE res == [pc |-> "failed", new |-> NoSession]
             c == [call[r] EXCEPT !.result = res]
  <1>1. /\ req'[r] = NoReq /\ \A q \in Requests \ {r} : req'[q] = req[q]
        /\ RequestFits(r)' /\ call[r].stage \in {"sent", "refreshing", "resent"}
        /\ call[r].kind # "none"
    BY ReceiveStep DEF Lose
  <1>2. /\ SnapshotsInv /\ JarInv /\ CallsInv /\ CallFits(r) /\ call[r] \in Calls
    BY SlotFacts
  <1>3. /\ c \in Calls /\ c.kind = call[r].kind /\ c.stage = call[r].stage
        /\ c.principal = call[r].principal /\ c.to = call[r].to
        /\ c.result.new = NoSession
    BY <1>2 DEF Calls, Answers
  <1>4. call' = [call EXCEPT ![r] = c]
    BY DEF Lose
  <1>5. call'[r] = c
    BY <1>2, <1>4 DEF CallsInv
  <1> HIDE DEF c
  <1>6. CallFits(r)'
    BY <1>1, <1>2, <1>3, <1>5, NoReqFacts DEF CallFits
  <1> QED
    BY <1>1, <1>2, <1>3, <1>4, <1>6, OneCall, KeepPages, KeepJar DEF Lose

\* A call ends: its slot and its handler are free.
LEMMA EndKeeps ==
    ASSUME BrowserInv, Evolves, NEW r \in Requests, End(r), req' = req, req[r] = NoReq
    PROVE  CallsInv'
  <1>1. call' = [call EXCEPT ![r] = NoCall] /\ call'[r] = NoCall
    BY SlotFacts DEF End, CallsInv
  <1>2. CallFits(r)'
    BY <1>1, NoReqFacts DEF CallFits
  <1> QED
    BY <1>1, <1>2, SlotFacts, NoCallTyped, FreeFits, OneCall

\* A page handles an answer only when the handler is received.
LEMMA HandledFree ==
    ASSUME BrowserInv, NEW r \in Requests, NEW stage, Handles(r, stage)
    PROVE  req[r] = NoReq /\ call[r].stage = stage
  <1>1. call[r].result # NoResult
    BY DEF Handles, NoResult
  <1> QED
    BY <1>1, SlotFacts DEF Handles, CallFits

LEMMA SettleKeeps ==
    ASSUME BrowserInv, Evolves, NEW r \in Requests, Settle(r)
    PROVE  SnapshotsInv' /\ JarInv' /\ CallsInv'
  <1> DEFINE p == PageOf[r]
             new == call[r].result.new
             s == [token |-> new, subject |-> call[r].principal, scope |-> session[new].scope]
  <1>1. /\ SnapshotsInv /\ JarInv /\ CallsInv /\ CallFits(r) /\ call[r] \in Calls /\ p \in Pages
        /\ TypeOK
    BY SlotFacts
  <1>2. req[r] = NoReq /\ call[r].stage \in {"sent", "resent"}
    BY HandledFree DEF Settle
  <1>3. req' = req /\ jar' = jar
    BY DEF Settle, authVars
  <1>4. CallsInv'
    BY <1>2, <1>3, EndKeeps DEF Settle
  <1> SUFFICES SnapshotsInv'
    BY <1>1, <1>3, <1>4, KeepJar
  <1>5. CASE Write(p, NoSnapshot)
    BY <1>1, <1>5, WritePages
  <1>6. CASE KeepSession
    BY <1>1, <1>6, KeepPages
  <1>7. CASE call[r].kind # "logout" /\ new # NoSession /\ Write(p, s)
    <2>1. Fits(ActorOf[p], new) /\ new \in Issued
      BY <1>1, <1>7, FitsIssued DEF CallFits
    <2>2. call[r].kind \in {"login", "switch"}
      BY <1>1, <1>2, <1>7 DEF CallFits, Calls
    <2>3. call[r].principal \in Subjects
      BY <1>1, <2>2 DEF CallFits
    <2>4. session[new].scope \in Scopes /\ new \in Sessions
      BY <1>1, <2>1, IssuedRows DEF SessionRows
    <2>5. s \in Snapshots /\ s.token = new
      BY <2>3, <2>4 DEF Snapshots
    <2> HIDE DEF s
    <2> QED
      BY <1>1, <1>7, <2>1, <2>5, WritePages
  <1> QED
    BY <1>5, <1>6, <1>7 DEF Settle

LEMMA GiveUpKeeps ==
    ASSUME BrowserInv, Evolves, NEW r \in Requests, GiveUp(r)
    PROVE  SnapshotsInv' /\ JarInv' /\ CallsInv'
  <1>1. req' = req /\ jar' = jar
    BY DEF GiveUp, authVars
  <1>2. req[r] = NoReq
    BY SlotFacts DEF GiveUp, CallFits
  <1> QED
    BY <1>1, <1>2, SlotFacts, EndKeeps, WritePages, KeepJar DEF GiveUp

\* A slot that changes its stage and nothing else but its result.
LEMMA Restaged ==
    ASSUME BrowserInv, NEW r \in Requests, NEW stage \in Stages
    PROVE  LET c == [call[r] EXCEPT !.stage = stage, !.result = NoResult]
           IN  /\ c \in Calls /\ c.stage = stage /\ c.result = NoResult
               /\ c.kind = call[r].kind /\ c.principal = call[r].principal /\ c.to = call[r].to
  <1>1. call[r] \in Calls /\ NoResult \in [pc : Answers \cup {"none"}, new : Sessions \cup {NoSession}]
    BY SlotFacts DEF NoResult
  <1> QED
    BY <1>1 DEF Calls

LEMMA RefreshKeeps ==
    ASSUME BrowserInv, Evolves, NEW r \in Requests, Refresh(r)
    PROVE  SnapshotsInv' /\ JarInv' /\ CallsInv'
  <1> DEFINE j == jar[ActorOf[PageOf[r]]]
             c(stage) == [call[r] EXCEPT !.stage = stage, !.result = NoResult]
  <1>1. /\ TypeOK /\ SnapshotsInv /\ JarInv /\ CallsInv /\ CallFits(r) /\ RequestFits(r)
    BY SlotFacts
  <1>2. req[r] = NoReq /\ call[r].stage = "sent" /\ call[r].kind \in {"get", "switch"}
    BY HandledFree DEF Refresh, Unauthorized
  <1> SUFFICES CallsInv'
    BY <1>1, KeepPages, KeepJar DEF Refresh
  <1>3. ASSUME NEW stage \in {"waiting", "failed"}, req' = req,
               call' = [call EXCEPT ![r].stage = stage, ![r].result = NoResult]
        PROVE  CallsInv'
    <2>1. call' = [call EXCEPT ![r] = c(stage)]
      BY <1>3
    <2>2. /\ c(stage) \in Calls /\ c(stage).stage = stage /\ c(stage).result = NoResult
          /\ c(stage).kind = call[r].kind /\ c(stage).principal = call[r].principal
          /\ c(stage).to = call[r].to
      <3>1. stage \in Stages
        BY DEF Stages
      <3> QED
        BY <3>1, Restaged
    <2>3. call'[r] = c(stage)
      BY <1>1, <2>1 DEF CallsInv
    <2> HIDE DEF c
    <2>4. CallFits(r)' /\ RequestFits(r)'
      BY <1>1, <1>2, <1>3, <2>2, <2>3, NoReqFacts, FreeFits DEF CallFits
    <2> QED
      BY <1>1, <1>3, <2>1, <2>2, <2>4, OneCall
  <1>4. CASE /\ j # NoSession
             /\ call' = [call EXCEPT ![r].stage = "refreshing", ![r].result = NoResult]
             /\ Send(r, RefreshRequest(j))
    <2>1. call' = [call EXCEPT ![r] = c("refreshing")]
      BY <1>4
    <2>2. /\ c("refreshing") \in Calls /\ c("refreshing").stage = "refreshing"
          /\ c("refreshing").result = NoResult
          /\ c("refreshing").kind = call[r].kind
          /\ c("refreshing").principal = call[r].principal
          /\ c("refreshing").to = call[r].to
      BY Restaged DEF Stages
    <2>3. call'[r] = c("refreshing")
      BY <1>1, <2>1 DEF CallsInv
    <2> HIDE DEF c
    <2>4. PICK k \in Sessions : k = j /\ Fits(ActorOf[PageOf[r]], k)
      BY <1>4, HeldTokens, FitsIssued
    <2>5. Send(r, RefreshRequest(k))
      BY <1>4, <2>4
    <2>6. /\ RequestFits(r)' /\ \A q \in Requests \ {r} : req'[q] = req[q]
      BY <1>1, <2>4, <2>5, RequestForms, SendFits
    <2>7. CallFits(r)'
      BY <1>1, <1>2, <2>2, <2>3, NoReqFacts DEF CallFits
    <2> QED
      BY <1>1, <2>1, <2>2, <2>6, <2>7, OneCall
  <1> QED
    BY <1>3, <1>4 DEF Refresh

\* The end of a refresh moves its slot and those that wait, all of them free.
LEMMA WakeKeeps ==
    ASSUME BrowserInv, Evolves, NEW r \in Requests, Handles(r, "refreshing"),
           NEW stage \in {"resumed", "failed"}, Wake(r, stage), req' = req
    PROVE  CallsInv'
  <1> DEFINE Woken(q) == q = r \/ (PageOf[q] = PageOf[r] /\ call[q].stage = "waiting")
             c(q) == [call[q] EXCEPT !.stage = stage, !.result = NoResult]
  <1>1. \A q \in Requests : call'[q] = IF Woken(q) THEN c(q) ELSE call[q]
    BY DEF Wake
  <1>2. \A q \in Requests :
           /\ c(q) \in Calls /\ c(q).stage = stage /\ c(q).result = NoResult
           /\ c(q).kind = call[q].kind /\ c(q).principal = call[q].principal
           /\ c(q).to = call[q].to
    <2>1. stage \in Stages
      BY DEF Stages
    <2> QED
      BY <2>1, Restaged
  <1>3. call' \in [Requests -> Calls]
    <2> HIDE DEF c
    <2> QED
      BY <1>2, CallTyped DEF Wake, c, BrowserInv
  <1> HIDE DEF c
  <1>4. ASSUME NEW q \in Requests
        PROVE  CallFits(q)' /\ RequestFits(q)'
    <2>1. CallFits(q) /\ RequestFits(q)
      BY SlotFacts
    <2>2. CASE Woken(q)
      <3>1. req[q] = NoReq /\ call[q].kind # "none"
        BY <2>1, <2>2, HandledFree, SlotFacts DEF CallFits
      <3>2. call'[q] = c(q)
        BY <1>1, <2>2
      <3> QED
        BY <1>2, <2>1, <3>1, <3>2, NoReqFacts, FreeFits DEF CallFits
    <2>3. CASE ~Woken(q)
      BY <1>1, <2>1, <2>3, CallFitsKept, RequestFitsKept
    <2> QED
      BY <2>2, <2>3
  <1> QED
    BY <1>3, <1>4 DEF CallsInv, CallsFit, RequestsFit

LEMMA AdoptKeeps ==
    ASSUME BrowserInv, Evolves, NEW r \in Requests, AdoptToken(r)
    PROVE  SnapshotsInv' /\ JarInv' /\ CallsInv'
  <1> DEFINE p == PageOf[r]
             new == call[r].result.new
             s == [current[p] EXCEPT !.token = new]
  <1>1. SnapshotsInv /\ JarInv /\ CallFits(r) /\ p \in Pages
    BY SlotFacts
  <1>2. req' = req /\ jar' = jar
    BY DEF AdoptToken, authVars
  <1>3. CallsInv'
    BY <1>2, WakeKeeps DEF AdoptToken
  <1>4. JarInv'
    BY <1>1, <1>2, KeepJar
  <1> SUFFICES SnapshotsInv'
    BY <1>3, <1>4
  <1>5. CASE KeepSession
    BY <1>1, <1>5, KeepPages
  <1>6. CASE current[p] # NoSnapshot /\ Write(p, s)
    <2>1. Fits(ActorOf[p], new) /\ new \in Sessions
      BY <1>1, FitsIssued DEF CallFits, AdoptToken
    <2>2. current[p] \in Snapshots
      BY <1>6, HeldTokens
    <2>3. s \in Snapshots /\ s.token = new
      BY <2>1, <2>2 DEF Snapshots
    <2> HIDE DEF s
    <2> QED
      BY <1>1, <1>6, <2>1, <2>3, WritePages
  <1> QED
    BY <1>5, <1>6 DEF AdoptToken

LEMMA FailedKeeps ==
    ASSUME BrowserInv, Evolves, NEW r \in Requests, RefreshFailed(r)
    PROVE  SnapshotsInv' /\ JarInv' /\ CallsInv'
  <1>1. req' = req /\ jar' = jar
    BY DEF RefreshFailed, authVars
  <1> QED
    BY <1>1, SlotFacts, WakeKeeps, KeepPages, KeepJar DEF RefreshFailed

LEMMA ResendKeeps ==
    ASSUME BrowserInv, Evolves, NEW r \in Requests, Resend(r)
    PROVE  SnapshotsInv' /\ JarInv' /\ CallsInv'
  <1> DEFINE p == PageOf[r]
             token == IF current[p] # NoSnapshot THEN current[p].token
                      ELSE IF call[r].kind = "get" THEN jar[ActorOf[p]] ELSE NoSession
             c == [call[r] EXCEPT !.stage = "resent"]
  <1>1. /\ TypeOK /\ SnapshotsInv /\ JarInv /\ CallsInv /\ CallFits(r) /\ call[r] \in Calls
    BY SlotFacts
  <1>2. req[r] = NoReq /\ call[r].result = NoResult /\ call[r].stage = "resumed"
    BY <1>1 DEF Resend, CallFits
  <1> SUFFICES CallsInv'
    BY <1>1, KeepPages, KeepJar DEF Resend
  <1>3. CASE End(r) /\ UNCHANGED <<req, sent>>
    BY <1>2, <1>3, EndKeeps
  <1>4. CASE token # NoSession /\ call' = [call EXCEPT ![r].stage = "resent"] /\
             \/ call[r].kind = "get" /\ Send(r, CallRequest(token))
             \/ call[r].kind = "switch" /\ Send(r, SwitchRequest(token, call[r].to))
    <2>1. /\ c \in Calls /\ c.stage = "resent" /\ c.result = NoResult
          /\ c.kind = call[r].kind /\ c.principal = call[r].principal /\ c.to = call[r].to
      BY <1>1, <1>2 DEF Calls, Stages
    <2>2. call' = [call EXCEPT ![r] = c]
      BY <1>4
    <2>3. call'[r] = c
      BY <1>1, <2>2 DEF CallsInv
    <2>4. PICK k \in Sessions : k = token
      BY <1>4, HeldTokens DEF Issued
    <2> HIDE DEF c, token
    <2>5. CASE call[r].kind = "get" /\ Send(r, CallRequest(k))
      <3>1. /\ req'[r] = CallRequest(k) /\ RequestFits(r)' /\ CallRequest(k).op = "call"
            /\ \A q \in Requests \ {r} : req'[q] = req[q]
        BY <1>1, <2>5, RequestForms, SendFits
      <3>2. CallFits(r)'
        BY <1>1, <1>2, <2>1, <2>3, <2>5, <3>1, NoReqFacts DEF CallFits
      <3> QED
        BY <1>1, <2>1, <2>2, <3>1, <3>2, OneCall
    <2>6. CASE call[r].kind = "switch" /\ Send(r, SwitchRequest(k, call[r].to))
      <3>1. PICK o \in Orgs : o = call[r].to
        BY <1>1, <2>6 DEF CallFits
      <3>2. Send(r, SwitchRequest(k, o))
        BY <2>6, <3>1
      <3>3. /\ RequestFits(r)' /\ \A q \in Requests \ {r} : req'[q] = req[q]
        BY <1>1, <3>2, RequestForms, SendFits
      <3>4. CallFits(r)'
        BY <1>1, <1>2, <2>1, <2>3, <2>6, NoReqFacts DEF CallFits
      <3> QED
        BY <1>1, <2>1, <2>2, <3>3, <3>4, OneCall
    <2> QED
      BY <1>4, <2>4, <2>5, <2>6
  <1> QED
    BY <1>3, <1>4 DEF Resend

LEMMA StorageKeeps ==
    ASSUME BrowserInv, Evolves, NEW p \in Pages, StorageEvent(p)
    PROVE  SnapshotsInv' /\ JarInv' /\ CallsInv'
  <1>1. /\ req' = req /\ jar' = jar /\ call' = call /\ store' = store
        /\ current' = [current EXCEPT ![p] = store[ActorOf[p]]]
        /\ stale' = [stale EXCEPT ![p] = FALSE]
    BY DEF StorageEvent, authVars
  <1>2. SnapshotsInv /\ JarInv /\ CallsInv
    BY DEF BrowserInv
  <1>3. \A q \in Pages : ActorOf[q] \in Actors
    BY PagesAssumption
  <1>4. SnapshotsTyped'
    BY <1>1, <1>2, <1>3 DEF SnapshotsInv, SnapshotsTyped
  <1>5. \A q \in Pages : /\ current'[q] = IF q = p THEN store[ActorOf[p]] ELSE current[q]
                         /\ stale'[q] = IF q = p THEN FALSE ELSE stale[q]
    BY <1>1, <1>2 DEF SnapshotsInv, SnapshotsTyped
  <1>6. PagesAgree'
    BY <1>1, <1>2, <1>5 DEF SnapshotsInv, PagesAgree
  <1>7. \A q \in Pages : current'[q] # NoSnapshot => StillFits(ActorOf[q], current'[q].token)
    BY <1>2, <1>3, <1>5, FitsStill DEF SnapshotsInv, PagesFit
  <1>8. \A a \in Actors : store'[a] # NoSnapshot => StillFits(a, store'[a].token)
    BY <1>1, <1>2, FitsStill DEF SnapshotsInv, PagesFit
  <1>9. PagesFit'
    BY <1>7, <1>8 DEF PagesFit, Fits, StillFits
  <1>10. CallsInv'
    BY <1>1, <1>2, CallFitsKept, RequestFitsKept DEF CallsInv, CallsFit, RequestsFit
  <1> QED
    BY <1>1, <1>2, <1>4, <1>6, <1>9, <1>10, KeepJar DEF SnapshotsInv

LEMMA ServerKeeps ==
    ASSUME BrowserInv, Evolves, ServerSide
    PROVE  SnapshotsInv' /\ JarInv' /\ CallsInv' /\ WorkspacesFit'
  <1>1. SnapshotsInv /\ JarInv /\ CallsInv /\ WorkspacesFit
    BY DEF BrowserInv
  <1>2. call' = call /\ jar' = jar /\ KeepSession
    BY DEF ServerSide, pageVars, KeepSession
  <1>3. SnapshotsInv' /\ JarInv'
    BY <1>1, <1>2, KeepPages, KeepJar
  <1>4. CASE Tick
    <2>1. req' = req /\ workspace' = workspace
      BY <1>4 DEF Tick
    <2> QED
      BY <1>1, <1>2, <1>3, <2>1, CallFitsKept, RequestFitsKept
         DEF CallsInv, CallsFit, RequestsFit, WorkspacesFit
  <1>5. ASSUME NEW r \in Requests, ServerStep(r)
        PROVE  CallsInv' /\ WorkspacesFit'
    <2>1. /\ RequestFits(r)' /\ req'[r].op \in {req[r].op, "none"}
          /\ \A q \in Requests \ {r} : req'[q] = req[q]
          /\ workspace' = workspace /\ req[r].pc \in Statements
      BY <1>5, ServerFits
    <2>2. req[r] # NoReq
      BY <2>1, NoReqFacts DEF Statements
    <2>3. CallFits(r) /\ call[r] \in Calls
      BY SlotFacts
    <2>4. call' = [call EXCEPT ![r] = call[r]]
      BY <1>1, <1>2 DEF CallsInv
    <2>5. call[r].result.new # NoSession => StillFits(ActorOf[PageOf[r]], call[r].result.new)
      BY <2>3, FitsStill DEF CallFits
    <2>6. call'[r] = call[r]
      BY <1>2
    <2>7. CallFits(r)'
      BY <2>1, <2>2, <2>3, <2>5, <2>6 DEF CallFits, Fits, StillFits
    <2>8. CallsInv'
      BY <1>1, <2>1, <2>3, <2>4, <2>7, OneCall
    <2> QED
      BY <1>1, <2>1, <2>8 DEF WorkspacesFit
  <1> QED
    BY <1>3, <1>4, <1>5 DEF ServerSide

\* The pages never touch a membership.
LEMMA PagesLeaveWorkspaces ==
    ASSUME NEW r \in Requests, StartCall(r) \/ Arrive(r) \/ Lose(r) \/ PageStep(r)
    PROVE  workspace' = workspace
  <1>1. (\/ StartLogin(r) \/ StartGet(r) \/ StartSwitch(r) \/ StartLogout(r)
         \/ Refresh(r) \/ Resend(r)) => workspace' = workspace
    BY DEF StartLogin, StartGet, StartSwitch, StartLogout, Start, Refresh, Resend
  <1>2. (\/ Arrive(r) \/ Lose(r) \/ Settle(r) \/ AdoptToken(r) \/ RefreshFailed(r)
         \/ GiveUp(r)) => workspace' = workspace
    BY DEF Arrive, Lose, Receive, Settle, AdoptToken, RefreshFailed, GiveUp, authVars
  <1> QED
    BY <1>1, <1>2 DEF StartCall, PageStep

-----------------------------------------------------------------------------
(* Waiting for a refresh *)

\* A slot that is not awaited moves.
LEMMA SlotMoves ==
    ASSUME CallsInv, WaitersAwaited, NEW r \in Requests, NEW c,
           call' = [call EXCEPT ![r] = c],
           call[r].stage = "refreshing" => c.stage = "refreshing",
           c.stage = "waiting" =>
              call[r].stage = "waiting" \/ Refreshing(PageOf[r]) \ {r} # {}
    PROVE  WaitersAwaited'
  <1> SUFFICES ASSUME NEW q \in Requests, call'[q].stage = "waiting"
               PROVE  \E s \in Requests : PageOf[s] = PageOf[q] /\ call'[s].stage = "refreshing"
    BY DEF WaitersAwaited, Refreshing, Slots
  <1>1. \A s \in Requests : call'[s] = IF s = r THEN c ELSE call[s]
    BY DEF CallsInv
  <1>2. PICK s \in Requests : PageOf[s] = PageOf[q] /\ call[s].stage = "refreshing"
    BY <1>1 DEF WaitersAwaited, Refreshing, Slots
  <1> QED
    BY <1>1, <1>2

LEMMA WakeEndsWait ==
    ASSUME CallsInv, WaitersAwaited, NEW r \in Requests, NEW stage \in {"resumed", "failed"},
           call[r].stage = "refreshing", Wake(r, stage)
    PROVE  WaitersAwaited'
  <1> SUFFICES ASSUME NEW q \in Requests, call'[q].stage = "waiting"
               PROVE  \E s \in Requests : PageOf[s] = PageOf[q] /\ call'[s].stage = "refreshing"
    BY DEF WaitersAwaited, Refreshing, Slots
  <1>1. \A s \in Requests :
           IF s = r \/ (PageOf[s] = PageOf[r] /\ call[s].stage = "waiting")
           THEN call'[s].stage = stage ELSE call'[s] = call[s]
    <2>1. \A s \in Requests :
             [call[s] EXCEPT !.stage = stage, !.result = NoResult].stage = stage
      BY CallTyped DEF Calls
    <2> QED
      BY <2>1 DEF Wake
  <1>2. PageOf[q] # PageOf[r] /\ call[q].stage = "waiting"
    BY <1>1
  <1>3. PICK s \in Requests : PageOf[s] = PageOf[q] /\ call[s].stage = "refreshing"
    BY <1>2 DEF WaitersAwaited, Refreshing, Slots
  <1> QED
    BY <1>1, <1>2, <1>3

LEMMA WaitStep ==
    ASSUME BrowserInv, WaitersAwaited, [BrowserNext]_vars
    PROVE  WaitersAwaited'
  <1>1. CallsInv
    BY DEF BrowserInv
  <1>2. ASSUME NEW r \in Requests, NEW kind, NEW principal, NEW to, NEW t,
               Start(r, kind, principal, to, t)
        PROVE  WaitersAwaited'
    <2> DEFINE c == [NoCall EXCEPT !.kind = kind, !.stage = "sent", !.principal = principal,
                                   !.to = to, !.cookie = jar[ActorOfCall(r)]]
    <2>1. c.stage = "sent" /\ call[r].stage = "idle" /\ call' = [call EXCEPT ![r] = c]
      BY <1>2, NoReqFacts DEF Start, NoCall
    <2> HIDE DEF c
    <2> QED
      BY <1>1, <2>1, SlotMoves
  <1>3. ASSUME NEW r \in Requests, NEW res,
               call' = [call EXCEPT ![r].result = res]
        PROVE  WaitersAwaited'
    <2> DEFINE c == [call[r] EXCEPT !.result = res]
    <2>1. c.stage = call[r].stage /\ call' = [call EXCEPT ![r] = c]
      BY <1>1, <1>3, CallTyped DEF Calls
    <2> HIDE DEF c
    <2> QED
      BY <1>1, <2>1, SlotMoves
  <1>4. ASSUME NEW r \in Requests, End(r), call[r].stage # "refreshing"
        PROVE  WaitersAwaited'
    BY <1>1, <1>4, NoReqFacts, SlotMoves DEF End
  <1>5. ASSUME NEW r \in Requests, Refresh(r)
        PROVE  WaitersAwaited'
    <2> DEFINE c(stage) == [call[r] EXCEPT !.stage = stage, !.result = NoResult]
    <2>1. \A stage \in Stages : c(stage).stage = stage
      BY Restaged
    <2>2. call[r].stage = "sent"
      BY <1>5 DEF Refresh, Handles
    <2>3. Refreshing(PageOf[r]) \ {r} = Refreshing(PageOf[r])
      BY <2>2 DEF Refreshing
    <2>4. \/ call' = [call EXCEPT ![r] = c("waiting")] /\ Refreshing(PageOf[r]) # {}
          \/ call' = [call EXCEPT ![r] = c("refreshing")]
          \/ call' = [call EXCEPT ![r] = c("failed")]
      BY <1>5 DEF Refresh
    <2>5. c("waiting").stage = "waiting" /\ c("refreshing").stage = "refreshing" /\ c("failed").stage = "failed"
      BY <2>1 DEF Stages
    <2> HIDE DEF c
    <2> QED
      BY <1>1, <2>2, <2>3, <2>4, <2>5, SlotMoves
  <1>6. ASSUME NEW r \in Requests, Resend(r)
        PROVE  WaitersAwaited'
    <2> DEFINE c == [call[r] EXCEPT !.stage = "resent"]
    <2>1. call[r].stage = "resumed" /\ c.stage = "resent"
      BY <1>1, <1>6, CallTyped DEF Resend, Calls
    <2>2. CASE call' = [call EXCEPT ![r].stage = "resent"]
      <3>1. call' = [call EXCEPT ![r] = c]
        BY <2>2
      <3> HIDE DEF c
      <3> QED
        BY <1>1, <2>1, <3>1, SlotMoves
    <2> QED
      BY <1>4, <1>6, <2>1, <2>2 DEF Resend
  <1>7. ASSUME NEW r \in Requests, PageStep(r)
        PROVE  WaitersAwaited'
    <2>1. CASE Settle(r)
      BY <1>4, <2>1, HandledFree DEF Settle
    <2>2. CASE AdoptToken(r)
      BY <1>1, <2>2, WakeEndsWait DEF AdoptToken, Handles
    <2>3. CASE RefreshFailed(r)
      BY <1>1, <2>3, WakeEndsWait DEF RefreshFailed, Handles
    <2>4. CASE GiveUp(r)
      BY <1>4, <2>4 DEF GiveUp
    <2> QED
      BY <1>5, <1>6, <1>7, <2>1, <2>2, <2>3, <2>4 DEF PageStep
  <1>8. ASSUME NEW r \in Requests, StartCall(r)
        PROVE  WaitersAwaited'
    BY <1>2, <1>8 DEF StartCall, StartLogin, StartGet, StartSwitch, StartLogout
  <1>9. ASSUME NEW r \in Requests, Arrive(r) \/ Lose(r)
        PROVE  WaitersAwaited'
    <2>1. \E res : call' = [call EXCEPT ![r].result = res]
      BY <1>9 DEF Arrive, Lose
    <2> QED
      BY <1>3, <2>1
  <1>10. ASSUME call' = call
         PROVE  WaitersAwaited'
    BY <1>10 DEF WaitersAwaited, Refreshing, Slots
  <1> QED
    BY <1>7, <1>8, <1>9, <1>10 DEF BrowserNext, StorageEvent, ServerSide, pageVars, vars

-----------------------------------------------------------------------------
(* Refreshes of one page *)

\* A refresh is out only for a slot that says so, and a page has one such slot.
RefreshesApart ==
    /\ \A r \in Requests : req[r].op = "refresh" => call[r].stage = "refreshing"
    /\ \A r, q \in Requests :
          PageOf[r] = PageOf[q] /\ call[r].stage = "refreshing" /\ call[q].stage = "refreshing"
              => r = q

\* A slot moves, and refreshes only if it did or nobody else of its page does.
LEMMA SlotApart ==
    ASSUME CallsInv, RefreshesApart, NEW r \in Requests, NEW c,
           call' = [call EXCEPT ![r] = c],
           \A q \in Requests \ {r} : req'[q] = req[q],
           req'[r].op = "refresh" => c.stage = "refreshing",
           c.stage = "refreshing" => call[r].stage = "refreshing" \/ Refreshing(PageOf[r]) = {}
    PROVE  RefreshesApart'
  <1>1. \A q \in Requests : call'[q] = IF q = r THEN c ELSE call[q]
    BY DEF CallsInv
  <1>2. Refreshing(PageOf[r]) = {} =>
            \A q \in Requests : PageOf[q] = PageOf[r] => call[q].stage # "refreshing"
    BY DEF Refreshing, Slots
  <1>3. \A q \in Requests : req'[q].op = "refresh" => call'[q].stage = "refreshing"
    BY <1>1 DEF RefreshesApart
  <1>4. ASSUME NEW s \in Requests, NEW q \in Requests, PageOf[s] = PageOf[q],
               call'[s].stage = "refreshing", call'[q].stage = "refreshing"
        PROVE  s = q
    BY <1>1, <1>2, <1>4 DEF RefreshesApart
  <1> QED
    BY <1>3, <1>4 DEF RefreshesApart

LEMMA SentApart ==
    ASSUME BrowserInv, NEW r \in Requests, NEW t, Send(r, t)
    PROVE  req'[r] = t /\ \A q \in Requests \ {r} : req'[q] = req[q]
  BY SlotFacts DEF Send, TypeOK

LEMMA WakeApart ==
    ASSUME BrowserInv, RefreshesApart, NEW r \in Requests, NEW stage \in {"resumed", "failed"},
           Handles(r, "refreshing"), Wake(r, stage), req' = req
    PROVE  RefreshesApart'
  <1>1. CallsInv /\ req[r] = NoReq
    BY SlotFacts, HandledFree
  <1>2. \A s \in Requests : call'[s].stage \in {stage, call[s].stage}
    <2>1. \A s \in Requests :
             [call[s] EXCEPT !.stage = stage, !.result = NoResult].stage = stage
      BY <1>1, CallTyped DEF Calls
    <2> QED
      BY <2>1 DEF Wake
  <1>3. \A s \in Requests : call'[s].stage = call[s].stage \/ req[s] = NoReq
    BY <1>1, SlotFacts DEF Wake, CallFits
  <1> QED
    BY <1>2, <1>3, NoReqFacts DEF RefreshesApart

LEMMA PageApart ==
    ASSUME BrowserInv, RefreshesApart, NEW r \in Requests, PageStep(r)
    PROVE  RefreshesApart'
  <1>1. CallsInv
    BY DEF BrowserInv
  <1>2. ASSUME End(r), req[r] = NoReq, req' = req
        PROVE  RefreshesApart'
    BY <1>1, <1>2, NoReqFacts, SlotApart DEF End
  <1>3. CASE Settle(r)
    BY <1>2, <1>3, HandledFree DEF Settle, authVars
  <1>4. CASE Refresh(r)
    <2> DEFINE c(stage) == [call[r] EXCEPT !.stage = stage, !.result = NoResult]
    <2>1. /\ c("waiting").stage = "waiting" /\ c("refreshing").stage = "refreshing"
          /\ c("failed").stage = "failed"
      BY Restaged DEF Stages
    <2>2. req[r] = NoReq
      BY <1>4, HandledFree DEF Refresh
    <2>3. CASE call' = [call EXCEPT ![r] = c("waiting")] /\ req' = req
      <3> HIDE DEF c
      <3> QED
        BY <1>1, <2>1, <2>2, <2>3, NoReqFacts, SlotApart
    <2>4. CASE call' = [call EXCEPT ![r] = c("failed")] /\ req' = req
      <3> HIDE DEF c
      <3> QED
        BY <1>1, <2>1, <2>2, <2>4, NoReqFacts, SlotApart
    <2>5. CASE /\ call' = [call EXCEPT ![r] = c("refreshing")]
               /\ Refreshing(PageOf[r]) = {}
               /\ \E t : Send(r, t)
      <3>1. \A q \in Requests \ {r} : req'[q] = req[q]
        BY <2>5, SentApart
      <3> HIDE DEF c
      <3> QED
        BY <1>1, <2>1, <2>5, <3>1, SlotApart
    <2> QED
      BY <1>4, <2>3, <2>4, <2>5 DEF Refresh
  <1>5. CASE AdoptToken(r)
    BY <1>5, WakeApart DEF AdoptToken, authVars
  <1>6. CASE RefreshFailed(r)
    BY <1>6, WakeApart DEF RefreshFailed, authVars
  <1>7. CASE Resend(r)
    <2> DEFINE c == [call[r] EXCEPT !.stage = "resent"]
    <2>1. req[r] = NoReq /\ c.stage = "resent"
      BY <1>1, <1>7, SlotFacts, CallTyped DEF Resend, CallFits, Calls
    <2>2. CASE End(r) /\ req' = req
      BY <1>2, <2>1, <2>2
    <2>3. ASSUME NEW t, Send(r, t), t.op # "refresh", call' = [call EXCEPT ![r] = c]
          PROVE  RefreshesApart'
      <3>1. req'[r] = t /\ \A q \in Requests \ {r} : req'[q] = req[q]
        BY <2>3, SentApart
      <3> HIDE DEF c
      <3> QED
        BY <1>1, <2>1, <2>3, <3>1, SlotApart
    <2>4. \A b, o : CallRequest(b).op = "call" /\ SwitchRequest(b, o).op = "switch"
      BY DEF CallRequest, SwitchRequest, NoReq
    <2> QED
      BY <1>7, <2>2, <2>3, <2>4 DEF Resend
  <1>8. CASE GiveUp(r)
    BY <1>2, <1>8, SlotFacts DEF GiveUp, CallFits, authVars
  <1> QED
    BY <1>3, <1>4, <1>5, <1>6, <1>7, <1>8 DEF PageStep

LEMMA StartApart ==
    ASSUME BrowserInv, RefreshesApart, NEW r \in Requests, StartCall(r)
    PROVE  RefreshesApart'
  <1>1. ASSUME NEW kind, NEW principal, NEW to, NEW t, t.op # "refresh",
               Start(r, kind, principal, to, t)
        PROVE  RefreshesApart'
    <2> DEFINE c == [NoCall EXCEPT !.kind = kind, !.stage = "sent", !.principal = principal,
                                   !.to = to, !.cookie = jar[ActorOfCall(r)]]
    <2>1. c.stage = "sent" /\ call' = [call EXCEPT ![r] = c] /\ Send(r, t)
      BY <1>1 DEF Start, NoCall
    <2>2. req'[r] = t /\ \A q \in Requests \ {r} : req'[q] = req[q]
      BY <2>1, SentApart
    <2> HIDE DEF c
    <2> QED
      BY <1>1, <2>1, <2>2, SlotApart DEF BrowserInv
  <1>2. \A s, j, b, o :
           /\ LoginRequest(s).op = "login" /\ CallRequest(b).op = "call"
           /\ SwitchRequest(b, o).op = "switch" /\ LogoutRequest(j, b).op = "logout"
    BY DEF LoginRequest, CallRequest, SwitchRequest, LogoutRequest, NoReq
  <1> QED
    BY <1>1, <1>2 DEF StartCall, StartLogin, StartGet, StartSwitch, StartLogout

LEMMA ApartStep ==
    ASSUME BrowserInv, RefreshesApart, [BrowserNext]_vars
    PROVE  RefreshesApart'
  <1>1. ASSUME NEW r \in Requests, Arrive(r) \/ Lose(r)
        PROVE  RefreshesApart'
    <2>1. req'[r] = NoReq /\ \A q \in Requests \ {r} : req'[q] = req[q]
      BY <1>1, ReceiveStep DEF Arrive, Lose
    <2>2. PICK res : call' = [call EXCEPT ![r].result = res]
      BY <1>1 DEF Arrive, Lose
    <2> DEFINE c == [call[r] EXCEPT !.result = res]
    <2>3. c.stage = call[r].stage /\ call' = [call EXCEPT ![r] = c]
      BY <2>2, SlotFacts DEF Calls
    <2> HIDE DEF c
    <2> QED
      BY <2>1, <2>3, NoReqFacts, SlotApart DEF BrowserInv
  <1>2. CASE ServerSide
    <2>1. call' = call
      BY <1>2 DEF ServerSide, pageVars
    <2>2. \A q \in Requests : req'[q].op = "refresh" => req[q].op = "refresh"
      BY <1>2, ServerFits DEF ServerSide, Tick
    <2> QED
      BY <2>1, <2>2 DEF RefreshesApart
  <1>3. ASSUME req' = req, call' = call
        PROVE  RefreshesApart'
    BY <1>3 DEF RefreshesApart
  <1> QED
    BY <1>1, <1>2, <1>3, StartApart, PageApart
       DEF BrowserNext, StorageEvent, authVars, vars

\* The refreshes that may rotate one cookie belong to different pages.
RedeemersApart == \A j \in Sessions : Cardinality(Redeeming(j)) <= Cardinality(Pages)

LEMMA ApartBounds ==
    ASSUME BrowserInv, RefreshesApart
    PROVE  RedeemersApart
  <1> SUFFICES ASSUME NEW j \in Sessions
               PROVE  Cardinality(Redeeming(j)) <= Cardinality(Pages)
    BY DEF RedeemersApart
  <1> DEFINE f == [r \in Redeeming(j) |-> PageOf[r]]
  <1>1. ASSUME NEW r \in Redeeming(j)
        PROVE  r \in Requests /\ call[r].stage = "refreshing"
    <2>1. req[r].op = "refresh"
      BY BoundFacts DEF BrowserInv, AuthInv, Shaped, RequestShape, Rotates, Redeeming
    <2> QED
      BY <2>1 DEF RefreshesApart, Redeeming
  <1>2. f \in [Redeeming(j) -> Pages]
    BY SlotTyped DEF Redeeming
  <1>3. \A r, q \in Redeeming(j) : f[r] = f[q] => r = q
    BY <1>1 DEF RefreshesApart
  <1>4. f \in Injection(Redeeming(j), Pages)
    <2> HIDE DEF f
    <2> QED
      BY <1>2, <1>3 DEF Injection, IsInjective
  <1> QED
    BY <1>4, PagesAssumption, FS_Injection

\* Inductive: what a cookie has yielded and may still yield is bounded by the pages.
YieldShared == \A j \in Sessions : Yield(j) <= Cardinality(Pages)

LEMMA SharedStep ==
    ASSUME AuthInv, [Next]_authVars, YieldShared, RedeemersApart'
    PROVE  YieldShared'
  <1> SUFFICES ASSUME NEW j \in Sessions
               PROVE  Yield(j)' <= Cardinality(Pages)
    BY DEF YieldShared
  <1>1. Cardinality(Pages) \in Nat
    BY PagesAssumption, FS_CardinalityType
  <1>2. CASE Children(j)' = {}
    <2>1. Cardinality(Redeeming(j)') <= Cardinality(Pages)
      BY DEF RedeemersApart
    <2> QED
      BY <1>1, <1>2, <2>1, FS_EmptySet, YieldCounts DEF Yield
  <1>3. CASE Yield(j)' <= Yield(j)
    BY <1>1, <1>3, YieldCounts DEF Yield, YieldShared
  <1> QED
    BY <1>2, <1>3, YieldStep

-----------------------------------------------------------------------------
(* The theorems *)

LEMMA BrowserKeeps ==
    ASSUME BrowserInv, [BrowserNext]_vars
    PROVE  BrowserInv'
  <1>1. AuthInv' /\ Evolves
    BY BrowserStep, StepKeeps, RotationKept DEF BrowserInv, AuthInv
  <1> SUFFICES SnapshotsInv' /\ JarInv' /\ CallsInv' /\ WorkspacesFit'
    BY <1>1 DEF BrowserInv
  <1>2. ASSUME NEW r \in Requests, StartCall(r) \/ Arrive(r) \/ Lose(r) \/ PageStep(r)
        PROVE  SnapshotsInv' /\ JarInv' /\ CallsInv' /\ WorkspacesFit'
    <2>1. WorkspacesFit'
      BY <1>2, PagesLeaveWorkspaces DEF BrowserInv, WorkspacesFit
    <2>2. CASE PageStep(r)
      BY <1>1, <2>1, <2>2, SettleKeeps, RefreshKeeps, AdoptKeeps, FailedKeeps, ResendKeeps,
         GiveUpKeeps DEF PageStep
    <2> QED
      BY <1>1, <1>2, <2>1, <2>2, StartCallKeeps, ArriveKeeps, LoseKeeps
  <1>3. ASSUME NEW p \in Pages, StorageEvent(p)
        PROVE  SnapshotsInv' /\ JarInv' /\ CallsInv' /\ WorkspacesFit'
    <2>1. workspace' = workspace
      BY <1>3 DEF StorageEvent, authVars
    <2> QED
      BY <1>1, <1>3, <2>1, StorageKeeps DEF BrowserInv, WorkspacesFit
  <1>4. CASE ServerSide
    BY <1>1, <1>4, ServerKeeps
  <1>5. CASE UNCHANGED vars
    <2>1. req' = req /\ call' = call /\ jar' = jar /\ workspace' = workspace /\ KeepSession
      BY <1>5 DEF vars, KeepSession
    <2>2. CallsInv'
      BY <1>1, <2>1, CallFitsKept, RequestFitsKept DEF BrowserInv, CallsInv, CallsFit, RequestsFit
    <2> QED
      BY <1>1, <2>1, <2>2, KeepPages, KeepJar DEF BrowserInv, WorkspacesFit
  <1> QED
    BY <1>2, <1>3, <1>4, <1>5 DEF BrowserNext

LEMMA BrowserStarts == BrowserInit => BrowserInv
  <1> SUFFICES ASSUME BrowserInit PROVE BrowserInv
    OBVIOUS
  <1>1. AuthInv
    BY AuthStarts DEF BrowserInit
  <1>2. WorkspacesFit
    BY SubjectsAssumption DEF BrowserInit, Init, WorkspacesFit, Scopes
  <1>3. SnapshotsInv
    <2>1. \A p \in Pages : ActorOf[p] \in Actors
      BY PagesAssumption
    <2> QED
      BY <2>1 DEF BrowserInit, SnapshotsInv, SnapshotsTyped, PagesAgree, PagesFit
  <1>4. JarInv
    BY DEF BrowserInit, JarInv, JarFits
  <1>5. CallsInv
    <2>1. \A r \in Requests : req[r] = NoReq /\ call[r] = NoCall
      BY DEF BrowserInit, Init
    <2>2. \A r \in Requests : RequestFits(r) /\ CallFits(r)
      BY <2>1, NoReqFacts DEF RequestFits, CallFits
    <2> QED
      BY <2>2, NoCallTyped DEF CallsInv, CallsFit, RequestsFit, BrowserInit
  <1> QED
    BY <1>1, <1>2, <1>3, <1>4, <1>5 DEF BrowserInv

THEOREM BrowserInvariant == BrowserSpec => []BrowserInv
  <1>1. BrowserInv /\ [BrowserNext]_vars => BrowserInv'
    BY BrowserKeeps
  <1> QED
    BY <1>1, BrowserStarts, PTL DEF BrowserSpec

\* Sessions, requests, snapshots and calls keep their types; a snapshot is never a
\* token without its principal.
THEOREM BrowserTypeCorrect == BrowserSpec => []BrowserTypeOK
  <1>1. BrowserInv => BrowserTypeOK
    BY DEF BrowserInv, AuthInv, SnapshotsInv, SnapshotsTyped, JarInv, CallsInv,
           BrowserTypeOK, PagesTypeOK
  <1> QED
    BY <1>1, BrowserInvariant, PTL

\* Pages that have seen their storage events show the same session.
THEOREM PagesAlwaysAgree == BrowserSpec => []PagesAgree
  <1>1. BrowserInv => PagesAgree
    BY DEF BrowserInv, SnapshotsInv
  <1> QED
    BY <1>1, BrowserInvariant, PTL

\* No call waits for a refresh that is over.
THEOREM WaitersAlwaysAwaited == BrowserSpec => []WaitersAwaited
  <1>1. BrowserInit => WaitersAwaited
    BY NoReqFacts DEF BrowserInit, WaitersAwaited
  <1>2. BrowserInv /\ WaitersAwaited /\ [BrowserNext]_vars => WaitersAwaited'
    BY WaitStep
  <1> QED
    BY <1>1, <1>2, BrowserInvariant, PTL DEF BrowserSpec

\* However many calls of a page meet a 401 together, and whatever is lost, retried or
\* answered out of order, one cookie is rotated at most once per page.
THEOREM RefreshesAreShared == BrowserSpec => []RefreshShared
  <1>1. BrowserInit => RefreshesApart /\ YieldShared
    <2> SUFFICES ASSUME BrowserInit
                 PROVE  RefreshesApart /\ YieldShared
      OBVIOUS
    <2>1. RefreshesApart
      BY NoReqFacts DEF BrowserInit, Init, RefreshesApart
    <2>2. \A j \in Sessions : Children(j) = {} /\ Redeeming(j) = {}
      BY NoReqFacts DEF BrowserInit, Init, Children, Issued, Redeeming
    <2>3. Cardinality(Pages) \in Nat
      BY PagesAssumption, FS_CardinalityType
    <2> QED
      BY <2>1, <2>2, <2>3, FS_EmptySet DEF Yield, YieldShared
  <1>2. BrowserInv /\ RefreshesApart /\ [BrowserNext]_vars => RefreshesApart'
    BY ApartStep
  <1>3. BrowserInv /\ RefreshesApart => RedeemersApart
    BY ApartBounds
  <1>4. BrowserInv /\ YieldShared /\ RedeemersApart' /\ [BrowserNext]_vars => YieldShared'
    BY BrowserStep, SharedStep DEF BrowserInv
  <1>5. YieldShared => RefreshShared
    <2> SUFFICES ASSUME YieldShared, NEW j \in Issued
                 PROVE  Cardinality(Children(j)) <= Cardinality(Pages)
      BY DEF RefreshShared, Children
    <2>1. j \in Sessions /\ Cardinality(Pages) \in Nat
      BY PagesAssumption, FS_CardinalityType DEF Issued
    <2> QED
      BY <2>1, YieldCounts DEF YieldShared, Yield
  <1> QED
    BY <1>1, <1>2, <1>3, <1>4, <1>5, BrowserInvariant, PTL DEF BrowserSpec

\* Any number of pages of any actors is a client of the session machine.
THEOREM BrowserIsClient == BrowserSpec => ImplementsAuth
  <1>1. BrowserInit => Init
    BY DEF BrowserInit
  <1>2. BrowserInv /\ [BrowserNext]_vars => [Next]_authVars
    BY BrowserStep
  <1> QED
    BY <1>1, <1>2, BrowserInvariant, PTL DEF BrowserSpec, ImplementsAuth, Spec

\* Hence what is proved of the session machine holds of browsers: rotation leaves no
\* usable cookie behind, a logout is final, and nothing that was refused revives.
THEOREM BrowserSessions ==
    BrowserSpec => []RotatedOut /\ []RotationBounded /\ LogoutIsEffective /\ NoTokenRevives
  BY BrowserIsClient, RotationReplaces, RotationIsBounded, LogoutIsFinal, NothingRevives, PTL
     DEF ImplementsAuth

=============================================================================
