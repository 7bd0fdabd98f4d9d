----------------------------- MODULE BrowserTabs ------------------------------
(***************************************************************************)
(* The front end's session layer: lib/api.ts, lib/session.ts and the login,*)
(* switch and logout of hooks/useMe.ts, in several pages of one browser.   *)
(*                                                                         *)
(* A page is one load of the application; it keeps the session it shows in *)
(* memory.  All pages share the cookie jar, which the answers of the server*)
(* write, and localStorage, which the pages write; a page learns of another*)
(* page's write from a storage event.  A slot r of Requests is an API call *)
(* of the page PageOf[r]: its first fetch, the refresh it starts or waits  *)
(* for after a 401, and its second fetch.  The fetch itself is the handler *)
(* req[r] of AuthSessions, which this module composes with the pages.      *)
(*                                                                         *)
(* JavaScript runs to completion: what the promise of a refresh resumes    *)
(* runs before anything else happens in that page (Busy).                  *)
(***************************************************************************)
EXTENDS AuthSessions

CONSTANTS
    Pages,    \* loads of the application
    ActorOf,  \* "user" or "admin": the part of the application a page shows
    PageOf    \* the page of each slot

Actors == {"user", "admin"}

ASSUME PagesAssumption ==
    /\ IsFiniteSet(Pages)
    /\ ActorOf \in [Pages -> Actors]
    /\ PageOf \in [Requests -> Pages]

VARIABLES
    jar,      \* cookies: the session whose tokens the browser holds, per actor
    store,    \* localStorage: the session snapshot of each actor
    current,  \* the snapshot each page keeps in memory
    stale,    \* a storage event waits for the page
    call      \* what each slot does

pageVars == <<jar, store, current, stale, call>>
vars == <<session, lastLogout, workspace, req, sent, now, jar, store, current, stale, call>>

\* A token, and the principal that came with some login or switch.
NoSnapshot == [token |-> NoSession]
Snapshots == [token : Sessions, subject : Subjects, scope : Scopes]

\* "waiting" awaits the refresh of another slot; "resumed" and "failed" are the
\* continuations of a refresh that ended.
Stages == {"idle", "sent", "refreshing", "waiting", "resumed", "resent", "failed"}
NoResult == [pc |-> "none", new |-> NoSession]
\* "principal" is who the page will show when the call succeeds, "to" the
\* organisation a switch asks for, "cookie" what the browser sends along.
NoCall == [kind |-> "none", stage |-> "idle", principal |-> "none", to |-> Platform,
           cookie |-> NoSession, result |-> NoResult]
Calls == [kind : {"none", "login", "get", "switch", "logout"}, stage : Stages,
          principal : Subjects \cup {"none"}, to : Scopes, cookie : Sessions \cup {NoSession},
          result : [pc : Answers \cup {"none"}, new : Sessions \cup {NoSession}]]

PagesTypeOK ==
    /\ jar \in [Actors -> Sessions \cup {NoSession}]
    /\ store \in [Actors -> Snapshots \cup {NoSnapshot}]
    /\ current \in [Pages -> Snapshots \cup {NoSnapshot}]
    /\ stale \in [Pages -> BOOLEAN]
    /\ call \in [Requests -> Calls]

BrowserTypeOK == TypeOK /\ PagesTypeOK

-----------------------------------------------------------------------------
ActorOfCall(r) == ActorOf[PageOf[r]]
Slots(p) == {r \in Requests : PageOf[r] = p}

\* Mutant: every 401 starts a refresh of its own.
NothingShared(p) == {}

\* refreshInflight: the slot whose refresh the page's other calls await.
Refreshing(p) == {r \in Slots(p) : call[r].stage = "refreshing"}

\* Continuations of a refresh are queued.
Busy(p) == \E r \in Slots(p) : call[r].stage \in {"resumed", "failed"}

\* A call may need a refresh and a second fetch: bound on new calls only.
Budget == sent + 3 + 2 * Cardinality({r \in Requests : call[r] # NoCall}) <= MaxRequests

BrowserInit ==
    /\ Init
    /\ jar = [a \in Actors |-> NoSession]
    /\ store = [a \in Actors |-> NoSnapshot]
    /\ current = [p \in Pages |-> NoSnapshot]
    /\ stale = [p \in Pages |-> FALSE]
    /\ call = [r \in Requests |-> NoCall]

-----------------------------------------------------------------------------
(* session.ts *)

\* Mutant: updateAccessToken keeps the new token in memory.
InMemoryOnly(p, snapshot) ==
    /\ current' = [current EXCEPT ![p] = snapshot]
    /\ UNCHANGED <<store, stale>>

\* setSession, clearSession, updateAccessToken: memory, localStorage, and a
\* storage event for the other pages if the stored value changed.
Write(p, snapshot) ==
    LET a == ActorOf[p]
    IN  /\ current' = [current EXCEPT ![p] = snapshot]
        /\ store' = [store EXCEPT ![a] = snapshot]
        /\ stale' = [q \in Pages |->
               stale[q] \/ (q # p /\ ActorOf[q] = a /\ store[a] # snapshot)]

KeepSession == UNCHANGED <<current, store, stale>>

\* The listener does not trust the event: it reads the storage again.
StorageEvent(p) ==
    /\ stale[p] /\ ~Busy(p)
    /\ current' = [current EXCEPT ![p] = store[ActorOf[p]]]
    /\ stale' = [stale EXCEPT ![p] = FALSE]
    /\ UNCHANGED <<authVars, jar, store, call>>

-----------------------------------------------------------------------------
(* Calls *)

End(r) == call' = [call EXCEPT ![r] = NoCall]

Start(r, kind, principal, to, request) ==
    /\ call[r] = NoCall /\ ~Busy(PageOf[r]) /\ Budget
    /\ Send(r, request)
    /\ call' = [call EXCEPT ![r] = [NoCall EXCEPT !.kind = kind, !.stage = "sent",
                        !.principal = principal, !.to = to, !.cookie = jar[ActorOfCall(r)]]]
    /\ KeepSession
    /\ UNCHANGED <<session, lastLogout, workspace, now, jar>>

\* The login page is shown only while there is no session.
StartLogin(r) ==
    /\ current[PageOf[r]] = NoSnapshot
    /\ \E s \in Subjects :
          /\ (s \in Admins) = (ActorOfCall(r) = "admin")
          /\ Start(r, "login", s, Platform, LoginRequest(s))

StartGet(r) ==
    /\ current[PageOf[r]] # NoSnapshot
    /\ Start(r, "get", "none", Platform, CallRequest(current[PageOf[r]].token))

StartSwitch(r) ==
    /\ current[PageOf[r]] # NoSnapshot /\ ActorOfCall(r) = "user"
    /\ \E o \in Orgs \ {current[PageOf[r]].scope} :
          Start(r, "switch", current[PageOf[r]].subject, o,
                SwitchRequest(current[PageOf[r]].token, o))

\* The call names no actor and its path is not below /admin, so the server
\* takes the account's cookie, whichever page logs out.
StartLogout(r) ==
    /\ current[PageOf[r]] # NoSnapshot
    /\ Start(r, "logout", "none", Platform, LogoutRequest(jar["user"], current[PageOf[r]].token))

\* The headers of an answer reach the browser: Set-Cookie takes effect.
Arrive(r) ==
    /\ Receive(r)
    /\ call' = [call EXCEPT ![r].result = [pc |-> req[r].pc, new |-> req[r].new]]
    /\ \/ req[r].new # NoSession /\ jar' = [jar EXCEPT ![ActorOfCall(r)] = req[r].new]
       \/ /\ req[r].new = NoSession /\ req[r].op = "logout"
          /\ jar' = [a \in Actors |-> NoSession]
       \/ req[r].new = NoSession /\ req[r].op # "logout" /\ UNCHANGED jar
    /\ KeepSession

\* The answer is lost on its way: fetch rejects.
Lose(r) ==
    /\ Receive(r)
    /\ call' = [call EXCEPT ![r].result = [pc |-> "failed", new |-> NoSession]]
    /\ KeepSession
    /\ UNCHANGED jar

\* The page looks at the answer of a fetch of the given stage.
Handles(r, stage) == call[r].stage = stage /\ call[r].result.pc # "none" /\ ~Busy(PageOf[r])

\* Only the first fetch of a call that carries a token leads to a refresh.
Unauthorized(r) == call[r].kind \in {"get", "switch"} /\ call[r].result.pc = "unauthorized"

\* What the caller of request() does with the outcome.
Settle(r) ==
    LET new == call[r].result.new
    IN  /\ Handles(r, "sent") \/ Handles(r, "resent")
        /\ call[r].stage = "sent" => ~Unauthorized(r)
        /\ End(r)
        /\ \/ call[r].kind = "logout" /\ Write(PageOf[r], NoSnapshot)
           \/ /\ call[r].kind # "logout" /\ new # NoSession
              /\ Write(PageOf[r], [token |-> new, subject |-> call[r].principal,
                                   scope |-> session[new].scope])
           \/ call[r].kind # "logout" /\ new = NoSession /\ KeepSession
        /\ UNCHANGED <<authVars, jar>>

\* 401: join the refresh of this page, or start one with the cookie of the jar.
\* Without a cookie the server refuses before it looks anything up.
Refresh(r) ==
    LET p == PageOf[r]
        j == jar[ActorOf[p]]
    IN  /\ Handles(r, "sent") /\ Unauthorized(r)
        /\ \/ /\ Refreshing(p) # {}
              /\ call' = [call EXCEPT ![r].stage = "waiting", ![r].result = NoResult]
              /\ UNCHANGED <<req, sent>>
           \/ /\ Refreshing(p) = {} /\ j # NoSession
              /\ call' = [call EXCEPT ![r].stage = "refreshing", ![r].result = NoResult]
              /\ Send(r, RefreshRequest(j))
           \/ /\ Refreshing(p) = {} /\ j = NoSession
              /\ call' = [call EXCEPT ![r].stage = "failed", ![r].result = NoResult]
              /\ UNCHANGED <<req, sent>>
        /\ KeepSession
        /\ UNCHANGED <<session, lastLogout, workspace, now, jar>>

\* Mutant: only the call that started the refresh goes on.
WakeStarter(r, stage) == call' = [call EXCEPT ![r].stage = stage, ![r].result = NoResult]

\* The promise of the refresh resumes the slot that started it and all that wait.
Wake(r, stage) ==
    call' = [q \in Requests |->
        IF q = r \/ (PageOf[q] = PageOf[r] /\ call[q].stage = "waiting")
        THEN [call[q] EXCEPT !.stage = stage, !.result = NoResult] ELSE call[q]]

\* Mutant: updateAccessToken without a session to update.
AdoptAnyway(r) ==
    LET p == PageOf[r]
        new == call[r].result.new
    IN  /\ Handles(r, "refreshing")
        /\ new # NoSession
        /\ Wake(r, "resumed")
        /\ Write(p, [current[p] EXCEPT !.token = new])
        /\ UNCHANGED <<authVars, jar>>

\* updateAccessToken: a new token beside the old principal, if there is one.
AdoptToken(r) ==
    LET p == PageOf[r]
        new == call[r].result.new
    IN  /\ Handles(r, "refreshing")
        /\ new # NoSession
        /\ Wake(r, "resumed")
        /\ IF current[p] = NoSnapshot THEN KeepSession
           ELSE Write(p, [current[p] EXCEPT !.token = new])
        /\ UNCHANGED <<authVars, jar>>

RefreshFailed(r) ==
    /\ Handles(r, "refreshing")
    /\ call[r].result.new = NoSession
    /\ Wake(r, "failed")
    /\ KeepSession
    /\ UNCHANGED <<authVars, jar>>

\* Mutant: the second fetch goes out although the session is gone.
ResendBlindly(r) ==
    LET token == current[PageOf[r]].token
    IN  /\ call[r].stage = "resumed"
        /\ call' = [call EXCEPT ![r].stage = "resent"]
        /\ \/ call[r].kind = "get" /\ Send(r, CallRequest(token))
           \/ call[r].kind = "switch" /\ Send(r, SwitchRequest(token, call[r].to))
        /\ KeepSession
        /\ UNCHANGED <<session, lastLogout, workspace, now, jar>>

\* The second fetch: with the page's token; if it has none, a GET goes with the
\* access cookie and anything else is refused.  That the server then looks for the access
\* cookie of the other actor (auth_middleware.go:86-101) is left out: such a call reads
\* sessions, and changes none.
Resend(r) ==
    LET p == PageOf[r]
        token == IF current[p] # NoSnapshot THEN current[p].token
                 ELSE IF call[r].kind = "get" THEN jar[ActorOf[p]] ELSE NoSession
    IN  /\ call[r].stage = "resumed"
        /\ \/ /\ token # NoSession
              /\ call' = [call EXCEPT ![r].stage = "resent"]
              /\ \/ call[r].kind = "get" /\ Send(r, CallRequest(token))
                 \/ call[r].kind = "switch" /\ Send(r, SwitchRequest(token, call[r].to))
           \/ token = NoSession /\ End(r) /\ UNCHANGED <<req, sent>>
        /\ KeepSession
        /\ UNCHANGED <<session, lastLogout, workspace, now, jar>>

\* clearSession, and the first answer is thrown.
GiveUp(r) ==
    /\ call[r].stage = "failed"
    /\ End(r)
    /\ Write(PageOf[r], NoSnapshot)
    /\ UNCHANGED <<authVars, jar>>

-----------------------------------------------------------------------------
StartCall(r) == StartLogin(r) \/ StartGet(r) \/ StartSwitch(r) \/ StartLogout(r)

PageStep(r) ==
    \/ Settle(r) \/ Refresh(r)
    \/ AdoptToken(r) \/ RefreshFailed(r)
    \/ Resend(r) \/ GiveUp(r)

\* The handlers of the server, and the time; memberships stay as they are.
ServerSide ==
    /\ (\E r \in Requests : ServerStep(r)) \/ Tick
    /\ UNCHANGED pageVars

BrowserNext ==
    \/ \E r \in Requests : StartCall(r) \/ Arrive(r) \/ Lose(r) \/ PageStep(r)
    \/ \E p \in Pages : StorageEvent(p)
    \/ ServerSide

BrowserSpec == BrowserInit /\ [][BrowserNext]_vars

(***************************************************************************)
(* Fairness: a handler comes to an end, an answer arrives or is lost, and  *)
(* the event loop of a page runs what is ready.  Nobody has to call.       *)
(***************************************************************************)
BrowserFairness ==
    \A r \in Requests :
        /\ WF_vars(ServerStep(r) /\ UNCHANGED pageVars)
        /\ WF_vars(Arrive(r) \/ Lose(r))
        /\ WF_vars(PageStep(r))

FairBrowserSpec == BrowserSpec /\ BrowserFairness

-----------------------------------------------------------------------------
(* What the session layer promises *)

\* Once its storage events are delivered, a page shows what every other page of
\* its actor shows, whatever order the pages wrote in.
PagesAgree ==
    \A p \in Pages : stale[p] \/ current[p] = store[ActorOf[p]]

\* A page uses a cookie for one refresh only, however many of its calls meet a 401
\* together: what a cookie yields is bounded by the pages, not by their calls.
RefreshShared ==
    \A j \in Issued :
        Cardinality({k \in Issued : session[k].parent = j}) <= Cardinality(Pages)

\* A call that waits for a refresh never waits for one that is already over.
WaitersAwaited ==
    \A r \in Requests : call[r].stage = "waiting" => Refreshing(PageOf[r]) # {}

\* Seen from the server, a browser is one of the clients AuthSessions allows, so
\* everything proved there holds of it: whatever order answers, storage events and
\* second fetches come in, no call presents a token or a cookie nobody issued, and
\* only a page of an account switches.
ImplementsAuth == Spec

\* Every call of every page ends, whatever is lost, refused or expired.
CallsSettle == \A r \in Requests : call[r] # NoCall ~> call[r] = NoCall

(***************************************************************************)
(* What documents and comments say and the code does not do.               *)
(***************************************************************************)

\* docs/BACKEND_API.md calls logout the call that revokes the refresh session: when
\* it is answered, the cookie of the actor who logged out is no longer redeemable.
LogoutRevokesSession ==
    [][\A r \in Requests :
          (call[r].kind = "logout" /\ call[r].result.pc = "none" /\ call'[r].result.pc = "ok") =>
              ~Redeemable(call[r].cookie)]_vars

\* useMe.ts switches the active organisation of the current session: the page shows
\* the organisation its token works in.
OrganisationShown ==
    \A p \in Pages :
        current[p] # NoSnapshot => current[p].scope = session[current[p].token].scope
=============================================================================
