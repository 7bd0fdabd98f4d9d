-------------------------- MODULE AuthSessionsProofs --------------------------
(***************************************************************************)
(* Proofs about AuthSessions, for any subjects, organisations, requests,   *)
(* token lifetimes and resolution of the clock.                            *)
(***************************************************************************)
EXTENDS AuthSessions, FiniteSetTheorems, TLAPS

LEMMA BoundFacts ==
    /\ TicksPerSecond \in Nat \ {0} /\ AccessTTL \in Nat /\ RefreshTTL \in Nat
    /\ MaxTime \in Nat /\ MaxMembers \in Nat /\ MaxSessions \in Nat /\ MaxRequests \in Nat
    /\ Times \subseteq Int /\ Times \subseteq Nat
    /\ NoSession \notin Sessions
  BY BoundsAssumption DEF Times, Sessions, NoSession

\* A row is never the absent row: it has more columns than "subject".
LEMMA RowsAreRows == NoRow \notin SessionRows
  <1>1. \A x \in SessionRows : "scope" \in DOMAIN x
    BY DEF SessionRows
  <1>2. "scope" \notin DOMAIN NoRow
    BY DEF NoRow
  <1> QED
    BY <1>1, <1>2

LEMMA IssuedRows ==
    ASSUME TypeOK, NEW j \in Issued
    PROVE  j \in Sessions /\ session[j] \in SessionRows
  BY DEF TypeOK, Issued

\* The second a token names is not after the instant it was minted.
LEMMA SecondIsFloor ==
    ASSUME NEW t \in Times
    PROVE  Second(t) \in Int /\ Second(t) <= t
  <1>1. t \in Nat /\ TicksPerSecond \in Nat \ {0}
    BY BoundFacts
  <1>2. t \div TicksPerSecond \in Nat /\ t % TicksPerSecond \in Nat
    BY <1>1
  <1>3. t = TicksPerSecond * (t \div TicksPerSecond) + (t % TicksPerSecond)
    BY <1>1
  <1>4. \A a, b, c \in Nat : a = b + c => b <= a
    OBVIOUS
  <1>5. TicksPerSecond * (t \div TicksPerSecond) \in Nat
    BY <1>1, <1>2
  <1>6. TicksPerSecond * (t \div TicksPerSecond) <= t
    BY <1>1, <1>2, <1>3, <1>4, <1>5
  <1> QED
    BY <1>5, <1>6 DEF Second

LEMMA ClocksAreInts ==
    ASSUME TypeOK
    PROVE  (\A s \in Subjects : lastLogout[s] \in Int) /\ now \in Int
  <1>1. Times \cup {Never} \subseteq Int
    BY BoundFacts DEF Never
  <1>2. \A s \in Subjects : lastLogout[s] \in Times \cup {Never}
    BY DEF TypeOK
  <1> QED
    BY <1>1, <1>2 DEF TypeOK

LEMMA SecondIsInt ==
    ASSUME NEW t \in Nat PROVE Second(t) \in Int
  BY BoundFacts DEF Second

-----------------------------------------------------------------------------
(* The inductive invariant *)

\* The session a refresh is about to replace is revoked, and the new one will
\* carry its subject and scope, and from the check of the workspace on its member.
Rotates(r) ==
    LET j == req[r].cookie
    IN  /\ j \in Issued /\ session[j].revoked
        /\ req[r].op = "refresh"
        /\ req[r].subject = session[j].subject
        /\ req[r].scope = session[j].scope
        /\ req[r].pc = "insert" => req[r].member = session[j].member

RequestShape(r) ==
    /\ req[r].pc \in {"workspaces", "workspace", "insert"} =>
          req[r].subject \in Subjects /\ req[r].op # "logout"
    /\ req[r].pc \in {"workspaces", "authenticate"} => req[r].cookie = NoSession
    /\ req[r].pc = "authenticate" => req[r].bearer \in Issued
    /\ req[r].pc \in {"read", "revoke"} => req[r].op = "refresh" /\ req[r].cookie \in Issued
    /\ req[r].pc = "workspace" /\ req[r].op = "refresh" => req[r].cookie # NoSession
    /\ req[r].pc \in {"workspace", "insert"} /\ req[r].cookie # NoSession => Rotates(r)
    /\ req[r].pc \in {"logout", "record", "recordBearer"} =>
          /\ req[r].op = "logout"
          /\ req[r].cookie \in Issued \cup {NoSession}
          /\ req[r].bearer \in Issued \cup {NoSession}
    /\ req[r].pc = "record" => req[r].cookie \in Issued
    /\ req[r].pc \in {"record", "recordBearer"} => ~Redeemable(req[r].cookie)

Shaped == \A r \in Requests : RequestShape(r)

AuthInv == TypeOK /\ Shaped /\ RotatedOut

\* What every step does to rows, logouts and clock: nothing that was issued,
\* revoked or logged out is taken back.
Evolves ==
    /\ \A j \in Issued :
          /\ j \in Issued'
          /\ session'[j].subject = session[j].subject
          /\ session'[j].scope = session[j].scope
          /\ session'[j].member = session[j].member
          /\ session'[j].parent = session[j].parent
          /\ session'[j].minted = session[j].minted
          /\ session[j].revoked => session'[j].revoked
    /\ \A s \in Subjects : lastLogout[s] <= lastLogout'[s]
    /\ now <= now'

LEMMA NothingEvolves ==
    ASSUME TypeOK, UNCHANGED session, UNCHANGED lastLogout, now' \in Int, now <= now'
    PROVE  Evolves
  <1>1. \A s \in Subjects : lastLogout[s] \in Int
    BY ClocksAreInts
  <1>2. session' = session /\ lastLogout' = lastLogout
    OBVIOUS
  <1>3. Issued' = Issued
    BY <1>2 DEF Issued
  <1>4. \A s \in Subjects : lastLogout[s] <= lastLogout'[s]
    BY <1>1, <1>2
  <1> QED
    BY <1>2, <1>3, <1>4 DEF Evolves

\* A revocation keeps everything else of the row.
LEMMA Revoked ==
    ASSUME TypeOK, NEW j \in Issued,
           session' = [session EXCEPT ![j].revoked = TRUE],
           UNCHANGED <<lastLogout, now>>
    PROVE  /\ session' \in [Sessions -> SessionRows \cup {NoRow}]
           /\ Evolves
           /\ Issued' = Issued
           /\ session'[j].revoked
  <1>1. j \in Sessions /\ session[j] \in SessionRows
    BY IssuedRows
  <1>2. [session[j] EXCEPT !.revoked = TRUE] \in SessionRows
    BY <1>1 DEF SessionRows
  <1>3. session' = [session EXCEPT ![j] = [session[j] EXCEPT !.revoked = TRUE]]
    OBVIOUS
  <1>4. session' \in [Sessions -> SessionRows \cup {NoRow}]
    BY <1>1, <1>2, <1>3 DEF TypeOK
  <1>5. \A k \in Sessions : session'[k] = IF k = j THEN [session[j] EXCEPT !.revoked = TRUE]
                                         ELSE session[k]
    BY <1>1, <1>3 DEF TypeOK
  <1>6. Issued' = Issued
    BY <1>1, <1>2, <1>5, RowsAreRows DEF Issued
  <1>7. /\ [session[j] EXCEPT !.revoked = TRUE].subject = session[j].subject
        /\ [session[j] EXCEPT !.revoked = TRUE].scope = session[j].scope
        /\ [session[j] EXCEPT !.revoked = TRUE].member = session[j].member
        /\ [session[j] EXCEPT !.revoked = TRUE].parent = session[j].parent
        /\ [session[j] EXCEPT !.revoked = TRUE].minted = session[j].minted
        /\ [session[j] EXCEPT !.revoked = TRUE].revoked
    BY <1>1 DEF SessionRows
  <1>8. (\A s \in Subjects : lastLogout[s] \in Int) /\ now \in Int
    BY ClocksAreInts
  <1>9. \A k \in Issued : k \in Sessions
    BY DEF Issued
  <1>10. session'[j].revoked
    BY <1>1, <1>5, <1>7
  <1>11. Evolves
    BY <1>5, <1>6, <1>7, <1>8, <1>9 DEF Evolves
  <1> QED
    BY <1>4, <1>6, <1>10, <1>11

\* A new row leaves the others alone.
LEMMA Inserted ==
    ASSUME TypeOK, NEW j \in Sessions \ Issued, NEW row \in SessionRows,
           session' = [session EXCEPT ![j] = row],
           UNCHANGED <<lastLogout, now>>
    PROVE  /\ session' \in [Sessions -> SessionRows \cup {NoRow}]
           /\ Evolves
           /\ Issued' = Issued \cup {j}
           /\ session'[j] = row
           /\ \A k \in Issued : session'[k] = session[k]
  <1>1. \A k \in Sessions : session'[k] = IF k = j THEN row ELSE session[k]
    BY DEF TypeOK
  <1>2. Issued' = Issued \cup {j}
    BY <1>1, RowsAreRows DEF Issued
  <1>3. \A k \in Issued : k \in Sessions /\ k # j
    BY DEF Issued
  <1>4. Evolves
    BY <1>1, <1>2, <1>3, ClocksAreInts DEF Evolves
  <1> QED
    BY <1>1, <1>2, <1>3, <1>4 DEF TypeOK

\* What was refused stays refused.
LEMMA NoRevival ==
    ASSUME TypeOK, TypeOK', Evolves, NEW j \in Issued
    PROVE  /\ ~Redeemable(j) => ~Redeemable(j)'
           /\ ~Accepted(j) => ~Accepted(j)'
  <1>1. session[j] \in SessionRows /\ session'[j] \in SessionRows
    <2>1. j \in Issued'
      BY DEF Evolves
    <2> QED
      BY <2>1, IssuedRows, RowsAreRows DEF TypeOK, Issued
  <1>2. /\ session[j].minted \in Nat /\ session[j].subject \in Subjects
        /\ session[j].minted = session'[j].minted
        /\ session[j].subject = session'[j].subject
        /\ session[j].revoked => session'[j].revoked
    BY <1>1, BoundFacts DEF SessionRows, Evolves
  <1> DEFINE m == session[j].minted
             s == session[j].subject
  <1>3. /\ Second(m) \in Int /\ Second(m + AccessTTL) \in Int
        /\ Second(m + RefreshTTL) \in Int
    BY <1>2, SecondIsInt, BoundFacts
  <1>4. now \in Int /\ now' \in Int /\ now <= now'
    BY BoundFacts DEF TypeOK, Evolves
  <1>5. lastLogout[s] \in Int /\ lastLogout'[s] \in Int /\ lastLogout[s] <= lastLogout'[s]
    <2>1. Times \cup {Never} \subseteq Int
      BY BoundFacts DEF Never
    <2> QED
      BY <2>1, <1>2 DEF TypeOK, Evolves
  <1>6. /\ CookieParses(j)' <=> (j \in Issued' /\ now' < Second(m + RefreshTTL))
        /\ BearerParses(j)' <=> (j \in Issued' /\ now' < Second(m + AccessTTL))
        /\ LoggedOut(j)' <=> lastLogout'[s] >= Second(m)
    BY <1>2 DEF CookieParses, BearerParses, LoggedOut, Second
  <1>7. /\ CookieParses(j) <=> now < Second(m + RefreshTTL)
        /\ BearerParses(j) <=> now < Second(m + AccessTTL)
        /\ LoggedOut(j) <=> lastLogout[s] >= Second(m)
    BY DEF CookieParses, BearerParses, LoggedOut
  <1>8. /\ CookieParses(j)' => CookieParses(j)
        /\ BearerParses(j)' => BearerParses(j)
        /\ LoggedOut(j) => LoggedOut(j)'
    <2> HIDE DEF m, s
    <2> QED
      BY <1>3, <1>4, <1>5, <1>6, <1>7
  <1> QED
    BY <1>2, <1>8 DEF Redeemable, Accepted

\* A request that does not move keeps its shape.
LEMMA OthersKept ==
    ASSUME TypeOK, TypeOK', Evolves, NEW q \in Requests, RequestShape(q), req'[q] = req[q]
    PROVE  RequestShape(q)'
  <1>1. \A j \in Issued : j \in Issued'
    BY DEF Evolves
  <1>2. Rotates(q) => Rotates(q)'
    BY <1>1 DEF Rotates, Evolves
  <1>3. \A j \in Issued \cup {NoSession} : ~Redeemable(j) => ~Redeemable(j)'
    <2>1. NoSession \notin Issued'
      BY BoundFacts DEF Issued
    <2>2. ~Redeemable(NoSession)'
      BY <2>1 DEF Redeemable, CookieParses
    <2> QED
      BY <2>2, NoRevival
  <1>4. /\ req[q].pc \in {"workspaces", "workspace", "insert"} =>
              req[q].subject \in Subjects /\ req[q].op # "logout"
        /\ req[q].pc \in {"workspaces", "authenticate"} => req[q].cookie = NoSession
        /\ req[q].pc = "authenticate" => req[q].bearer \in Issued'
        /\ req[q].pc \in {"read", "revoke"} => req[q].op = "refresh" /\ req[q].cookie \in Issued'
        /\ req[q].pc = "workspace" /\ req[q].op = "refresh" => req[q].cookie # NoSession
        /\ req[q].pc \in {"workspace", "insert"} /\ req[q].cookie # NoSession => Rotates(q)'
    BY <1>1, <1>2 DEF RequestShape
  <1>5. /\ req[q].pc \in {"logout", "record", "recordBearer"} =>
              /\ req[q].op = "logout"
              /\ req[q].cookie \in Issued' \cup {NoSession}
              /\ req[q].bearer \in Issued' \cup {NoSession}
        /\ req[q].pc = "record" => req[q].cookie \in Issued'
    BY <1>1 DEF RequestShape
  <1>6. req[q].pc \in {"record", "recordBearer"} => ~Redeemable(req[q].cookie)'
    BY <1>3 DEF RequestShape
  <1> QED
    BY <1>4, <1>5, <1>6 DEF RequestShape

LEMMA OneMoves ==
    ASSUME TypeOK, TypeOK', Shaped, Evolves, NEW r \in Requests,
           \A q \in Requests \ {r} : req'[q] = req[q],
           RequestShape(r)'
    PROVE  Shaped'
  BY OthersKept DEF Shaped

-----------------------------------------------------------------------------
(* The steps *)

LEMMA Constants ==
    /\ NoReq \in RequestStates
    /\ NoReq.op = "none" /\ NoReq.pc = "idle" /\ NoReq.cookie = NoSession
    /\ NoReq.bearer = NoSession
  <1>1. 0 \in Times /\ 0 \in 0 .. MaxMembers
    BY BoundFacts DEF Times
  <1> QED
    BY <1>1 DEF NoReq, RequestStates, Scopes, NoSession

LEMMA RequestTyped ==
    ASSUME TypeOK, NEW r \in Requests
    PROVE  req[r] \in RequestStates
  BY DEF TypeOK

\* A step of one request with a well-typed outcome that touches no table.
LEMMA LocalStep ==
    ASSUME TypeOK, Shaped, NEW r \in Requests, NEW t \in RequestStates,
           req' = [req EXCEPT ![r] = t], sent' \in 0 .. MaxRequests,
           UNCHANGED <<session, lastLogout, workspace, now>>,
           RequestShape(r)'
    PROVE  TypeOK' /\ Shaped' /\ Evolves
  <1>1. TypeOK'
    BY DEF TypeOK
  <1>2. Evolves
    BY NothingEvolves, ClocksAreInts
  <1>3. \A q \in Requests \ {r} : req'[q] = req[q]
    BY DEF TypeOK
  <1> QED
    BY <1>1, <1>2, <1>3, OneMoves

\* An idle request and one that is answered have every shape.
LEMMA AnsweredShape ==
    ASSUME NEW r \in Requests, req'[r].pc \in Answers \cup {"idle"}
    PROVE  RequestShape(r)'
  BY DEF RequestShape, Answers

LEMMA RefuseStep ==
    ASSUME TypeOK, Shaped, NEW r \in Requests, NEW a \in Answers, Refuse(r, a),
           UNCHANGED <<session, lastLogout, workspace, sent, now>>
    PROVE  TypeOK' /\ Shaped' /\ Evolves
  <1> DEFINE t == [NoReq EXCEPT !.pc = a]
  <1>1. t \in RequestStates /\ t.pc = a
    BY Constants DEF RequestStates
  <1>2. req' = [req EXCEPT ![r] = t] /\ sent' \in 0 .. MaxRequests
    BY DEF Refuse, TypeOK
  <1>3. req'[r] = t
    BY <1>2 DEF TypeOK
  <1>4. RequestShape(r)'
    BY <1>1, <1>3, AnsweredShape
  <1> QED
    BY <1>1, <1>2, <1>4, LocalStep

LEMMA GrantStep ==
    ASSUME TypeOK, Shaped, NEW r \in Requests, NEW j \in Sessions \cup {NoSession}, Grant(r, j)
    PROVE  /\ req' \in [Requests -> RequestStates]
           /\ \A q \in Requests \ {r} : req'[q] = req[q]
           /\ RequestShape(r)'
  <1> DEFINE t == [NoReq EXCEPT !.op = req[r].op, !.pc = "ok", !.new = j]
  <1>1. t \in RequestStates /\ t.pc = "ok"
    BY Constants, RequestTyped DEF RequestStates, Answers
  <1>2. req' = [req EXCEPT ![r] = t]
    BY DEF Grant
  <1>3. req'[r] = t
    BY <1>2 DEF TypeOK
  <1>4. RequestShape(r)'
    BY <1>1, <1>3, AnsweredShape DEF Answers
  <1> QED
    BY <1>1, <1>2, <1>4 DEF TypeOK

LEMMA GotoStep ==
    ASSUME TypeOK, NEW r \in Requests, NEW a \in Statements, Goto(r, a)
    PROVE  /\ req' \in [Requests -> RequestStates]
           /\ \A q \in Requests \ {r} : req'[q] = req[q]
           /\ req'[r] = [req[r] EXCEPT !.pc = a]
           /\ req'[r].pc = a /\ req'[r].op = req[r].op /\ req'[r].subject = req[r].subject
           /\ req'[r].scope = req[r].scope /\ req'[r].member = req[r].member
           /\ req'[r].cookie = req[r].cookie /\ req'[r].bearer = req[r].bearer
           /\ req'[r].at = req[r].at
  <1>1. [req[r] EXCEPT !.pc = a] \in RequestStates
    BY RequestTyped DEF RequestStates
  <1>2. req'[r] = [req[r] EXCEPT !.pc = a]
    BY DEF TypeOK, Goto
  <1>3. /\ [req[r] EXCEPT !.pc = a].pc = a
        /\ [req[r] EXCEPT !.pc = a].op = req[r].op
        /\ [req[r] EXCEPT !.pc = a].subject = req[r].subject
        /\ [req[r] EXCEPT !.pc = a].scope = req[r].scope
        /\ [req[r] EXCEPT !.pc = a].member = req[r].member
        /\ [req[r] EXCEPT !.pc = a].cookie = req[r].cookie
        /\ [req[r] EXCEPT !.pc = a].bearer = req[r].bearer
        /\ [req[r] EXCEPT !.pc = a].at = req[r].at
    BY RequestTyped DEF RequestStates
  <1>4. req' = [req EXCEPT ![r] = [req[r] EXCEPT !.pc = a]]
    BY DEF Goto
  <1> QED
    BY <1>1, <1>2, <1>3, <1>4 DEF TypeOK

LEMMA MintStep ==
    ASSUME TypeOK, NEW r \in Requests, NEW s \in Subjects, NEW o \in Scopes, Mint(r, s, o)
    PROVE  /\ req' \in [Requests -> RequestStates]
           /\ \A q \in Requests \ {r} : req'[q] = req[q]
           /\ req'[r].pc = "insert" /\ req'[r].op = req[r].op /\ req'[r].subject = s
           /\ req'[r].scope = o /\ req'[r].member = workspace[s][o].member
           /\ req'[r].cookie = req[r].cookie
  <1> DEFINE t == [req[r] EXCEPT !.pc = "insert", !.subject = s, !.scope = o,
                                 !.member = workspace[s][o].member, !.at = now]
  <1>1. workspace[s][o].member \in 0 .. MaxMembers /\ now \in Times
    BY DEF TypeOK
  <1>2. /\ t \in RequestStates
        /\ t.pc = "insert" /\ t.op = req[r].op /\ t.subject = s /\ t.scope = o
        /\ t.member = workspace[s][o].member /\ t.cookie = req[r].cookie
    BY <1>1, RequestTyped DEF RequestStates, Statements
  <1>3. req' = [req EXCEPT ![r] = t]
    BY DEF Mint
  <1>4. req'[r] = t
    BY <1>3 DEF TypeOK
  <1> QED
    BY <1>2, <1>3, <1>4 DEF TypeOK

\* Types of a step of one request that leaves tables and clock alone.
LEMMA Quiet ==
    ASSUME TypeOK, req' \in [Requests -> RequestStates],
           UNCHANGED <<session, lastLogout, workspace, sent, now>>
    PROVE  TypeOK' /\ Evolves /\ Issued' = Issued
  <1>1. TypeOK'
    BY DEF TypeOK
  <1>2. Evolves
    BY NothingEvolves, ClocksAreInts
  <1>3. Issued' = Issued
    BY DEF Issued
  <1> QED
    BY <1>1, <1>2, <1>3

LEMMA SelectKeeps ==
    ASSUME TypeOK, Shaped, NEW r \in Requests, SelectWorkspace(r)
    PROVE  TypeOK' /\ Shaped' /\ Evolves
  <1> DEFINE s == req[r].subject
  <1>1. s \in Subjects /\ req[r].cookie = NoSession /\ req[r].op # "logout"
    BY DEF SelectWorkspace, Shaped, RequestShape
  <1>2. CASE Refuse(r, "forbidden")
    BY <1>2, RefuseStep DEF SelectWorkspace, Answers
  <1>3. CASE \E o \in Scopes : Mint(r, s, o)
    <2>1. PICK o \in Scopes : Mint(r, s, o)
      BY <1>3
    <2>2. TypeOK' /\ Evolves
      BY <1>1, <2>1, MintStep, Quiet DEF SelectWorkspace
    <2>3. RequestShape(r)'
      BY <1>1, <2>1, MintStep DEF RequestShape
    <2> QED
      BY <1>1, <2>1, <2>2, <2>3, MintStep, OneMoves
  <1> QED
    BY <1>2, <1>3 DEF SelectWorkspace

LEMMA ReadKeeps ==
    ASSUME TypeOK, Shaped, NEW r \in Requests, ReadSession(r)
    PROVE  TypeOK' /\ Shaped' /\ Evolves
  <1>1. req[r].op = "refresh" /\ req[r].cookie \in Issued
    BY DEF ReadSession, Shaped, RequestShape
  <1>2. CASE Refuse(r, "unauthorized")
    BY <1>2, RefuseStep DEF ReadSession, Answers
  <1>3. CASE Goto(r, "revoke")
    <2>1. TypeOK' /\ Evolves /\ Issued' = Issued
      BY <1>3, GotoStep, Quiet DEF ReadSession, Statements
    <2>2. RequestShape(r)'
      BY <1>1, <1>3, <2>1, GotoStep DEF RequestShape, Statements
    <2> QED
      BY <1>3, <2>1, <2>2, GotoStep, OneMoves DEF Statements
  <1> QED
    BY <1>2, <1>3 DEF ReadSession

LEMMA RevokeKeeps ==
    ASSUME TypeOK, Shaped, NEW r \in Requests, RevokeSession(r)
    PROVE  TypeOK' /\ Shaped' /\ Evolves
  <1> DEFINE j == req[r].cookie
             t == [req[r] EXCEPT !.pc = "workspace", !.subject = session[j].subject,
                                 !.scope = session[j].scope]
  <1>1. req[r].op = "refresh" /\ j \in Issued
    BY DEF RevokeSession, Shaped, RequestShape
  <1>2. session[j] \in SessionRows /\ j # NoSession
    BY <1>1, IssuedRows, BoundFacts
  <1>3. /\ session' \in [Sessions -> SessionRows \cup {NoRow}]
        /\ Evolves /\ Issued' = Issued /\ session'[j].revoked
    BY <1>1, Revoked DEF RevokeSession
  <1>4. session[j].subject \in Subjects /\ session[j].scope \in Scopes
    BY <1>2 DEF SessionRows
  <1>5. /\ t \in RequestStates /\ t.pc = "workspace" /\ t.op = "refresh" /\ t.cookie = j
        /\ t.subject = session[j].subject /\ t.scope = session[j].scope
    BY <1>1, <1>4, RequestTyped DEF RequestStates, Statements
  <1>6. req' = [req EXCEPT ![r] = t]
    BY DEF RevokeSession
  <1>7. req'[r] = t /\ \A q \in Requests \ {r} : req'[q] = req[q]
    BY <1>6 DEF TypeOK
  <1>8. TypeOK'
    BY <1>3, <1>5, <1>6 DEF TypeOK, RevokeSession
  <1>9. /\ session'[j].subject = session[j].subject
        /\ session'[j].scope = session[j].scope
    BY <1>1, <1>3 DEF Evolves
  <1>10. Rotates(r)'
    <2> HIDE DEF t
    <2> QED
      BY <1>1, <1>3, <1>5, <1>7, <1>9 DEF Rotates
  <1>11. RequestShape(r)'
    <2> HIDE DEF t
    <2> QED
      BY <1>2, <1>4, <1>5, <1>7, <1>10 DEF RequestShape
  <1> QED
    BY <1>3, <1>7, <1>8, <1>11, OneMoves

LEMMA CheckKeeps ==
    ASSUME TypeOK, Shaped, NEW r \in Requests, CheckWorkspace(r)
    PROVE  TypeOK' /\ Shaped' /\ Evolves
  <1>1. req[r].pc = "workspace" /\ RequestShape(r)
    BY DEF CheckWorkspace, Shaped
  <1>2. req[r].subject \in Subjects /\ req[r].scope \in Scopes /\ req[r].op # "logout"
    BY <1>1, RequestTyped DEF RequestShape, RequestStates
  <1>3. CASE \E a \in Answers : Refuse(r, a)
    BY <1>3, RefuseStep DEF CheckWorkspace
  <1>4. CASE WorkspaceFits(r) /\ Mint(r, req[r].subject, req[r].scope)
    <2> DEFINE w == workspace[req[r].subject][req[r].scope]
    <2>1. TypeOK' /\ Evolves /\ Issued' = Issued
      BY <1>2, <1>4, MintStep, Quiet DEF CheckWorkspace
    <2>2. /\ req'[r].pc = "insert" /\ req'[r].op = req[r].op
          /\ req'[r].subject = req[r].subject /\ req'[r].scope = req[r].scope
          /\ req'[r].member = w.member /\ req'[r].cookie = req[r].cookie
      BY <1>2, <1>4, MintStep
    <2>3. req[r].cookie # NoSession => Rotates(r)'
      <3>1. ASSUME req[r].cookie # NoSession
            PROVE  Rotates(r) /\ w.member = session[req[r].cookie].member
        BY <3>1, <1>1, <1>4 DEF RequestShape, Rotates, WorkspaceFits
      <3>2. session' = session
        BY DEF CheckWorkspace
      <3> QED
        BY <2>1, <2>2, <3>1, <3>2 DEF Rotates
    <2>4. RequestShape(r)'
      BY <1>2, <2>2, <2>3 DEF RequestShape
    <2> QED
      BY <1>2, <1>4, <2>1, <2>4, MintStep, OneMoves
  <1> QED
    BY <1>3, <1>4 DEF CheckWorkspace, Answers

LEMMA InsertKeeps ==
    ASSUME TypeOK, Shaped, NEW r \in Requests, InsertSession(r)
    PROVE  /\ TypeOK' /\ Shaped' /\ Evolves
           /\ \E j \in Sessions \ Issued :
                 /\ Issued' = Issued \cup {j}
                 /\ \A k \in Issued : session'[k] = session[k]
                 /\ session'[j].parent # NoSession =>
                       LET p == session'[j].parent
                       IN  /\ p \in Issued /\ session[p].revoked
                           /\ session[p].subject = session'[j].subject
                           /\ session[p].scope = session'[j].scope
                           /\ session[p].member = session'[j].member
  <1> DEFINE row == [subject |-> req[r].subject, scope |-> req[r].scope,
                     member |-> req[r].member, parent |-> req[r].cookie,
                     minted |-> req[r].at, revoked |-> FALSE]
  <1>1. PICK j \in Sessions \ Issued :
            session' = [session EXCEPT ![j] = row] /\ Grant(r, j)
    BY DEF InsertSession
  <1>2. req[r].pc = "insert" /\ RequestShape(r)
    BY DEF InsertSession, Shaped
  <1>3. row \in SessionRows
    BY <1>2, RequestTyped DEF RequestShape, RequestStates, SessionRows
  <1>4. /\ session' \in [Sessions -> SessionRows \cup {NoRow}]
        /\ Evolves /\ Issued' = Issued \cup {j} /\ session'[j] = row
        /\ \A k \in Issued : session'[k] = session[k]
    BY <1>1, <1>3, Inserted DEF InsertSession
  <1>5. TypeOK'
    BY <1>1, <1>4, GrantStep DEF TypeOK, InsertSession
  <1>6. Shaped'
    BY <1>1, <1>4, <1>5, GrantStep, OneMoves
  <1>7. req[r].cookie # NoSession => Rotates(r)
    BY <1>2 DEF RequestShape
  <1> QED
    BY <1>2, <1>4, <1>5, <1>6, <1>7 DEF Rotates

LEMMA AuthenticateKeeps ==
    ASSUME TypeOK, Shaped, NEW r \in Requests, Authenticate(r)
    PROVE  TypeOK' /\ Shaped' /\ Evolves
  <1> DEFINE b == req[r].bearer
             t == [req[r] EXCEPT !.pc = "workspace", !.subject = session[b].subject]
  <1>1. b \in Issued /\ req[r].cookie = NoSession
    BY DEF Authenticate, Shaped, RequestShape
  <1>2. CASE Refuse(r, "unauthorized")
    BY <1>2, RefuseStep DEF Authenticate, Answers
  <1>3. CASE Grant(r, NoSession)
    <2>1. TypeOK' /\ Evolves
      BY <1>3, GrantStep, Quiet DEF Authenticate
    <2> QED
      BY <1>3, <2>1, GrantStep, OneMoves
  <1>4. CASE req[r].op = "switch" /\ req' = [req EXCEPT ![r] = t]
    <2>1. session[b].subject \in Subjects
      BY <1>1, IssuedRows DEF SessionRows
    <2>2. /\ t \in RequestStates /\ t.pc = "workspace" /\ t.op = "switch"
          /\ t.subject = session[b].subject /\ t.cookie = NoSession
      BY <1>1, <1>4, <2>1, RequestTyped DEF RequestStates, Statements
    <2>3. req'[r] = t
      BY <1>4 DEF TypeOK
    <2>4. RequestShape(r)'
      <3> HIDE DEF t
      <3> QED
        BY <2>1, <2>2, <2>3 DEF RequestShape
    <2>5. sent' \in 0 .. MaxRequests
      BY DEF TypeOK, Authenticate
    <2> QED
      BY <1>4, <2>2, <2>4, <2>5, LocalStep DEF Authenticate
  <1> QED
    BY <1>2, <1>3, <1>4 DEF Authenticate

\* A logout that is recorded covers its own time and never moves the latest back.
LEMMA LaterStep ==
    ASSUME TypeOK, NEW s \in Subjects, NEW t \in Times, lastLogout' = Later(s, t)
    PROVE  /\ lastLogout' \in [Subjects -> Times \cup {Never}]
           /\ \A u \in Subjects : lastLogout[u] <= lastLogout'[u]
           /\ lastLogout'[s] >= t
  <1>1. t \in Int /\ \A u \in Subjects : lastLogout[u] \in Int
    BY BoundFacts, ClocksAreInts
  <1>2. CASE lastLogout[s] < t
    <2>1. \A u \in Subjects : lastLogout'[u] = IF u = s THEN t ELSE lastLogout[u]
      BY <1>2 DEF Later, TypeOK
    <2> QED
      BY <1>1, <1>2, <2>1 DEF Later, TypeOK
  <1>3. CASE ~(lastLogout[s] < t)
    BY <1>1, <1>3 DEF Later, TypeOK
  <1> QED
    BY <1>2, <1>3

\* Recording a logout changes no row of refresh_sessions.
LEMMA RecordStep ==
    ASSUME TypeOK, NEW s \in Subjects, NEW t \in Times, lastLogout' = Later(s, t),
           req' \in [Requests -> RequestStates], UNCHANGED <<session, workspace, sent, now>>
    PROVE  TypeOK' /\ Evolves /\ Issued' = Issued
  <1>1. Issued' = Issued
    BY DEF Issued
  <1>2. TypeOK'
    BY LaterStep DEF TypeOK
  <1>3. now <= now'
    BY ClocksAreInts
  <1>4. \A u \in Subjects : lastLogout[u] <= lastLogout'[u]
    BY LaterStep
  <1>5. session' = session
    OBVIOUS
  <1> QED
    BY <1>1, <1>2, <1>3, <1>4, <1>5 DEF Evolves

LEMMA LogoutKeeps ==
    ASSUME TypeOK, Shaped, NEW r \in Requests, LogoutSession(r)
    PROVE  TypeOK' /\ Shaped' /\ Evolves
  <1> DEFINE j == req[r].cookie
  <1>1. /\ req[r].op = "logout" /\ j \in Issued \cup {NoSession}
        /\ req[r].bearer \in Issued \cup {NoSession}
    BY DEF LogoutSession, Shaped, RequestShape
  <1>2. CASE /\ CookieParses(j) /\ Goto(r, "record")
             /\ session' = [session EXCEPT ![j].revoked = TRUE]
    <2>1. j \in Issued
      BY <1>2 DEF CookieParses
    <2>2. /\ session' \in [Sessions -> SessionRows \cup {NoRow}]
          /\ Evolves /\ Issued' = Issued /\ session'[j].revoked
      BY <1>2, <2>1, Revoked DEF LogoutSession
    <2>3. TypeOK'
      BY <1>2, <2>2, GotoStep DEF TypeOK, LogoutSession, Statements
    <2>4. ~Redeemable(j)'
      BY <1>2, <2>2, GotoStep DEF Redeemable, Statements
    <2>5. RequestShape(r)'
      BY <1>1, <1>2, <2>1, <2>2, <2>4, GotoStep DEF RequestShape, Statements
    <2> QED
      BY <1>2, <2>2, <2>3, <2>5, GotoStep, OneMoves DEF Statements
  <1>3. CASE ~CookieParses(j) /\ Goto(r, "recordBearer") /\ UNCHANGED session
    <2>1. TypeOK' /\ Evolves /\ Issued' = Issued
      BY <1>3, GotoStep, Quiet DEF LogoutSession, Statements
    <2>2. session' = session /\ now' = now
      BY <1>3 DEF LogoutSession
    <2>3. ~Redeemable(j)'
      BY <1>3, <2>1, <2>2, GotoStep DEF Redeemable, CookieParses, Statements
    <2>4. RequestShape(r)'
      BY <1>1, <1>3, <2>1, <2>3, GotoStep DEF RequestShape, Statements
    <2> QED
      BY <1>3, <2>1, <2>4, GotoStep, OneMoves DEF Statements
  <1> QED
    BY <1>2, <1>3 DEF LogoutSession

LEMMA RecordKeeps ==
    ASSUME TypeOK, Shaped, NEW r \in Requests, RecordLogout(r)
    PROVE  TypeOK' /\ Shaped' /\ Evolves
  <1> DEFINE j == req[r].cookie
  <1>1. /\ req[r].op = "logout" /\ j \in Issued /\ ~Redeemable(j)
        /\ req[r].bearer \in Issued \cup {NoSession}
    BY DEF RecordLogout, Shaped, RequestShape
  <1>2. session[j].subject \in Subjects /\ req[r].at \in Times
    BY <1>1, IssuedRows, RequestTyped DEF SessionRows, RequestStates
  <1>3. /\ req' \in [Requests -> RequestStates]
        /\ \A q \in Requests \ {r} : req'[q] = req[q]
        /\ req'[r].pc = "recordBearer" /\ req'[r].op = "logout" /\ req'[r].cookie = j
        /\ req'[r].bearer = req[r].bearer
    BY <1>1, GotoStep DEF RecordLogout, Statements
  <1>4. TypeOK' /\ Evolves /\ Issued' = Issued
    BY <1>2, <1>3, RecordStep DEF RecordLogout
  <1>5. ~Redeemable(j)'
    BY <1>1, <1>3, <1>4, NoRevival
  <1>6. RequestShape(r)'
    BY <1>1, <1>3, <1>4, <1>5 DEF RequestShape
  <1> QED
    BY <1>3, <1>4, <1>6, OneMoves

LEMMA BearerKeeps ==
    ASSUME TypeOK, Shaped, NEW r \in Requests, RecordBearer(r)
    PROVE  TypeOK' /\ Shaped' /\ Evolves
  <1> DEFINE b == req[r].bearer
  <1>1. /\ req' \in [Requests -> RequestStates] /\ RequestShape(r)'
        /\ \A q \in Requests \ {r} : req'[q] = req[q]
    BY GrantStep DEF RecordBearer
  <1>2. CASE BearerParses(b)
    <2>1. session[b].subject \in Subjects /\ req[r].at \in Times
      BY <1>2, IssuedRows, RequestTyped DEF SessionRows, RequestStates, BearerParses
    <2>2. TypeOK' /\ Evolves
      BY <1>1, <1>2, <2>1, RecordStep DEF RecordBearer
    <2> QED
      BY <1>1, <2>2, OneMoves
  <1>3. CASE ~BearerParses(b)
    <2>1. TypeOK' /\ Evolves
      BY <1>1, <1>3, Quiet DEF RecordBearer
    <2> QED
      BY <1>1, <2>1, OneMoves
  <1> QED
    BY <1>2, <1>3

\* A new request presents what was issued.
LEMMA SendStep ==
    ASSUME TypeOK, Shaped, NEW r \in Requests, NEW t \in RequestStates, Send(r, t),
           UNCHANGED <<session, lastLogout, workspace, now>>,
           RequestShape(r)'
    PROVE  TypeOK' /\ Shaped' /\ Evolves
  <1>1. sent' \in 0 .. MaxRequests
    BY BoundFacts DEF Send, TypeOK
  <1>2. req' = [req EXCEPT ![r] = t]
    BY DEF Send
  <1> QED
    BY <1>1, <1>2, LocalStep

LEMMA ClientKeeps ==
    ASSUME TypeOK, Shaped, NEW r \in Requests, ClientStep(r)
    PROVE  TypeOK' /\ Shaped' /\ Evolves
  <1>1. Orgs \subseteq Scopes /\ Issued \subseteq Sessions /\ now \in Times
    BY DEF Scopes, Issued, TypeOK
  <1>2. \A t \in RequestStates : Send(r, t) => req'[r] = t
    BY DEF Send, TypeOK
  <1>3. Issued' = Issued
    BY DEF ClientStep, Receive, Issued
  <1>4. ASSUME NEW s \in Subjects, Send(r, LoginRequest(s)),
               UNCHANGED <<session, lastLogout, workspace, now>>
        PROVE  TypeOK' /\ Shaped' /\ Evolves
    <2> DEFINE t == LoginRequest(s)
    <2>1. /\ t \in RequestStates /\ t.pc = "workspaces" /\ t.subject = s /\ t.cookie = NoSession
          /\ t.op = "login"
      BY Constants DEF LoginRequest, RequestStates, Statements
    <2>2. req'[r] = t
      BY <1>2, <1>4, <2>1
    <2>3. RequestShape(r)'
      BY <2>1, <2>2 DEF RequestShape
    <2> QED
      BY <1>4, <2>1, <2>3, SendStep
  <1>5. ASSUME NEW j \in Issued, Send(r, RefreshRequest(j)),
               UNCHANGED <<session, lastLogout, workspace, now>>
        PROVE  TypeOK' /\ Shaped' /\ Evolves
    <2> DEFINE t == RefreshRequest(j)
    <2>1. t \in RequestStates /\ t.pc = "read" /\ t.op = "refresh" /\ t.cookie = j
      BY <1>1, Constants DEF RefreshRequest, RequestStates, Statements
    <2>2. req'[r] = t
      BY <1>2, <1>5, <2>1
    <2>3. RequestShape(r)'
      BY <1>3, <2>1, <2>2 DEF RequestShape
    <2> QED
      BY <1>5, <2>1, <2>3, SendStep
  <1>6. ASSUME NEW j \in Issued, Send(r, CallRequest(j)),
               UNCHANGED <<session, lastLogout, workspace, now>>
        PROVE  TypeOK' /\ Shaped' /\ Evolves
    <2> DEFINE t == CallRequest(j)
    <2>1. t \in RequestStates /\ t.pc = "authenticate" /\ t.bearer = j /\ t.cookie = NoSession
      BY <1>1, Constants DEF CallRequest, RequestStates, Statements
    <2>2. req'[r] = t
      BY <1>2, <1>6, <2>1
    <2>3. RequestShape(r)'
      BY <1>3, <2>1, <2>2 DEF RequestShape
    <2> QED
      BY <1>6, <2>1, <2>3, SendStep
  <1>7. ASSUME NEW b \in Issued, NEW o \in Orgs, Send(r, SwitchRequest(b, o)),
               UNCHANGED <<session, lastLogout, workspace, now>>
        PROVE  TypeOK' /\ Shaped' /\ Evolves
    <2> DEFINE t == SwitchRequest(b, o)
    <2>1. t \in RequestStates /\ t.pc = "authenticate" /\ t.bearer = b /\ t.cookie = NoSession
      BY <1>1, Constants DEF SwitchRequest, RequestStates, Statements
    <2>2. req'[r] = t
      BY <1>2, <1>7, <2>1
    <2>3. RequestShape(r)'
      BY <1>3, <2>1, <2>2 DEF RequestShape
    <2> QED
      BY <1>7, <2>1, <2>3, SendStep
  <1>8. ASSUME NEW j \in Issued \cup {NoSession}, NEW b \in Issued \cup {NoSession},
               Send(r, LogoutRequest(j, b)),
               UNCHANGED <<session, lastLogout, workspace, now>>
        PROVE  TypeOK' /\ Shaped' /\ Evolves
    <2> DEFINE t == LogoutRequest(j, b)
    <2>1. /\ t \in RequestStates /\ t.pc = "logout" /\ t.op = "logout"
          /\ t.cookie = j /\ t.bearer = b
      BY <1>1, Constants DEF LogoutRequest, RequestStates, Statements
    <2>2. req'[r] = t
      BY <1>2, <1>8, <2>1
    <2>3. RequestShape(r)'
      <3> HIDE DEF t
      <3> QED
        BY <1>3, <2>1, <2>2 DEF RequestShape
    <2> QED
      BY <1>8, <2>1, <2>3, SendStep
  <1>9. CASE Receive(r)
    <2>1. req' = [req EXCEPT ![r] = NoReq] /\ sent' \in 0 .. MaxRequests
      BY <1>9 DEF Receive, TypeOK
    <2>2. req'[r] = NoReq
      BY <2>1 DEF TypeOK
    <2>3. RequestShape(r)'
      BY <2>2, Constants, AnsweredShape
    <2> QED
      BY <1>9, <2>1, <2>3, Constants, LocalStep DEF Receive
  <1> QED
    BY <1>4, <1>5, <1>6, <1>7, <1>8, <1>9 DEF ClientStep

\* Membership changes and the clock touch neither rows nor requests.
LEMMA OutsideKeeps ==
    ASSUME TypeOK, Shaped,
           \/ \E s \in Subjects, o \in Scopes : CloseWorkspace(s, o) \/ OpenWorkspace(s, o)
           \/ Tick
    PROVE  TypeOK' /\ Shaped' /\ Evolves /\ UNCHANGED session
  <1>1. UNCHANGED <<session, lastLogout, req, sent>>
    BY DEF CloseWorkspace, OpenWorkspace, Tick
  <1>2. now' \in Times /\ now <= now'
    BY ClocksAreInts, BoundFacts DEF CloseWorkspace, OpenWorkspace, Tick, Times, TypeOK
  <1>3. workspace' \in [Subjects -> [Scopes -> [member : 0 .. MaxMembers, open : BOOLEAN]]]
    <2>1. ASSUME NEW s \in Subjects, NEW o \in Scopes, CloseWorkspace(s, o)
          PROVE  workspace' \in [Subjects -> [Scopes -> [member : 0 .. MaxMembers, open : BOOLEAN]]]
      <3> DEFINE w == [workspace[s][o] EXCEPT !.open = FALSE]
      <3>1. w \in [member : 0 .. MaxMembers, open : BOOLEAN]
        <4>1. workspace[s][o] \in [member : 0 .. MaxMembers, open : BOOLEAN]
          BY DEF TypeOK
        <4> QED
          BY <4>1
      <3>2. workspace' = [workspace EXCEPT ![s][o] = w]
        BY <2>1 DEF CloseWorkspace
      <3> QED
        BY <3>1, <3>2 DEF TypeOK
    <2>2. ASSUME NEW s \in Subjects, NEW o \in Scopes, OpenWorkspace(s, o)
          PROVE  workspace' \in [Subjects -> [Scopes -> [member : 0 .. MaxMembers, open : BOOLEAN]]]
      <3>1. PICK m \in {workspace[s][o].member, workspace[s][o].member + 1} :
                /\ m <= MaxMembers
                /\ workspace' = [workspace EXCEPT ![s][o] = [member |-> m, open |-> TRUE]]
        BY <2>2 DEF OpenWorkspace
      <3>2. workspace[s][o].member \in 0 .. MaxMembers
        BY DEF TypeOK
      <3>3. m \in 0 .. MaxMembers
        BY <3>1, <3>2, BoundFacts
      <3> QED
        BY <3>1, <3>3 DEF TypeOK
    <2>3. CASE Tick
      BY <2>3 DEF Tick, TypeOK
    <2> QED
      BY <2>1, <2>2, <2>3
  <1>4. TypeOK'
    BY <1>1, <1>2, <1>3 DEF TypeOK
  <1>5. Evolves
    BY <1>1, <1>2, NothingEvolves, BoundFacts
  <1>6. Shaped'
    BY <1>1, <1>4, <1>5, OthersKept DEF Shaped
  <1> QED
    BY <1>1, <1>4, <1>5, <1>6

LEMMA FailKeeps ==
    ASSUME TypeOK, Shaped, NEW r \in Requests, FailStatement(r)
    PROVE  TypeOK' /\ Shaped' /\ Evolves
  BY RefuseStep DEF FailStatement, Answers

\* Every step keeps types and shapes, and undoes nothing.
LEMMA StepKeeps ==
    ASSUME TypeOK, Shaped, [Next]_authVars
    PROVE  TypeOK' /\ Shaped' /\ Evolves
  <1>1. CASE UNCHANGED authVars
    <2>1. UNCHANGED <<session, lastLogout, workspace, sent, now, req>>
      BY <1>1 DEF authVars
    <2>2. req' \in [Requests -> RequestStates]
      BY <2>1 DEF TypeOK
    <2>3. TypeOK' /\ Evolves
      BY <2>1, <2>2, Quiet
    <2> QED
      BY <2>1, <2>3, OthersKept DEF Shaped
  <1>2. ASSUME NEW r \in Requests, ServerStep(r)
        PROVE  TypeOK' /\ Shaped' /\ Evolves
    BY <1>2, SelectKeeps, ReadKeeps, RevokeKeeps, CheckKeeps, InsertKeeps, AuthenticateKeeps,
       LogoutKeeps, RecordKeeps, BearerKeeps, FailKeeps DEF ServerStep
  <1> QED
    BY <1>1, <1>2, ClientKeeps, OutsideKeeps DEF Next

-----------------------------------------------------------------------------
(* The theorems *)

LEMMA AuthStarts == Init => AuthInv
  <1> SUFFICES ASSUME Init PROVE AuthInv
    OBVIOUS
  <1>1. \A r \in Requests : req[r] = NoReq
    BY DEF Init
  <1>2. \A r \in Requests : RequestShape(r)
    BY <1>1, Constants DEF RequestShape
  <1>3. Issued = {}
    BY DEF Init, Issued
  <1>4. 0 \in Times /\ 0 \in 0 .. MaxMembers /\ 0 \in 0 .. MaxRequests
    BY BoundFacts DEF Times
  <1>5. /\ session \in [Sessions -> SessionRows \cup {NoRow}]
        /\ lastLogout \in [Subjects -> Times \cup {Never}]
        /\ req \in [Requests -> RequestStates]
        /\ sent \in 0 .. MaxRequests /\ now \in Times
    BY <1>4, Constants DEF Init
  <1>6. workspace \in [Subjects -> [Scopes -> [member : 0 .. MaxMembers, open : BOOLEAN]]]
    <2>1. \A s \in Subjects, o \in Scopes :
             [member |-> 0, open |-> (s \in Admins) = (o = Platform)]
                 \in [member : 0 .. MaxMembers, open : BOOLEAN]
      BY <1>4
    <2> QED
      BY <2>1 DEF Init
  <1>7. TypeOK
    BY <1>5, <1>6 DEF TypeOK
  <1> QED
    BY <1>2, <1>3, <1>7 DEF AuthInv, Shaped, RotatedOut

\* Only InsertSession adds a row.
LEMMA WhoInserts ==
    ASSUME TypeOK, Shaped, [Next]_authVars
    PROVE  Issued' = Issued \/ \E r \in Requests : InsertSession(r)
  <1>1. ASSUME session' = session
        PROVE  Issued' = Issued
    BY <1>1 DEF Issued
  <1>2. ASSUME NEW r \in Requests, RevokeSession(r)
        PROVE  Issued' = Issued
    <2>1. req[r].cookie \in Issued
      BY <1>2 DEF RevokeSession, Shaped, RequestShape
    <2> QED
      BY <1>2, <2>1, Revoked DEF RevokeSession
  <1>3. ASSUME NEW r \in Requests, LogoutSession(r)
        PROVE  Issued' = Issued
    <2>1. CASE CookieParses(req[r].cookie) /\
               session' = [session EXCEPT ![req[r].cookie].revoked = TRUE]
      BY <1>3, <2>1, Revoked DEF LogoutSession, CookieParses
    <2>2. CASE UNCHANGED session
      BY <1>1, <2>2
    <2> QED
      BY <1>3, <2>1, <2>2 DEF LogoutSession
  <1>4. ASSUME NEW r \in Requests, ServerStep(r), ~InsertSession(r)
        PROVE  Issued' = Issued
    <2>1. \/ SelectWorkspace(r) \/ ReadSession(r) \/ CheckWorkspace(r) \/ Authenticate(r)
          \/ RecordLogout(r) \/ RecordBearer(r) \/ FailStatement(r)
          => session' = session
      BY DEF SelectWorkspace, ReadSession, CheckWorkspace, Authenticate, RecordLogout,
             RecordBearer, FailStatement
    <2> QED
      BY <1>1, <1>2, <1>3, <1>4, <2>1 DEF ServerStep
  <1>5. ASSUME NEW r \in Requests, ClientStep(r)
        PROVE  Issued' = Issued
    BY <1>1, <1>5 DEF ClientStep, Receive
  <1>6. CASE UNCHANGED authVars
    BY <1>1, <1>6 DEF authVars
  <1> QED
    BY <1>1, <1>4, <1>5, <1>6, OutsideKeeps DEF Next

LEMMA RotationKept ==
    ASSUME AuthInv, [Next]_authVars
    PROVE  RotatedOut'
  <1>1. TypeOK /\ Shaped /\ RotatedOut /\ Evolves
    BY StepKeeps DEF AuthInv
  <1> DEFINE Replaced(j) ==
        LET p == session'[j].parent
        IN  p # NoSession =>
                /\ p \in Issued' /\ session'[p].revoked
                /\ session'[p].subject = session'[j].subject
                /\ session'[p].scope = session'[j].scope
                /\ session'[p].member = session'[j].member
  <1>2. ASSUME NEW j \in Issued PROVE Replaced(j)
    BY <1>1 DEF RotatedOut, Evolves
  <1>3. ASSUME NEW r \in Requests, InsertSession(r), NEW k \in Issued' \ Issued
        PROVE  Replaced(k)
    <2>1. PICK j \in Sessions \ Issued :
             /\ Issued' = Issued \cup {j}
             /\ session'[j].parent # NoSession =>
                   LET p == session'[j].parent
                   IN  /\ p \in Issued /\ session[p].revoked
                       /\ session[p].subject = session'[j].subject
                       /\ session[p].scope = session'[j].scope
                       /\ session[p].member = session'[j].member
      BY <1>1, <1>3, InsertKeeps
    <2>2. k = j
      BY <1>3, <2>1
    <2> QED
      BY <1>1, <2>1, <2>2 DEF Evolves
  <1>4. \A j \in Issued' : Replaced(j)
    BY <1>1, <1>2, <1>3, WhoInserts
  <1> QED
    BY <1>4 DEF RotatedOut

THEOREM AuthInvariant == Spec => []AuthInv
  <1>1. AuthInv /\ [Next]_authVars => AuthInv'
    BY StepKeeps, RotationKept DEF AuthInv
  <1> QED
    BY <1>1, AuthStarts, PTL DEF Spec

\* Every row, request and clock keeps its type.
THEOREM AuthTypeCorrect == Spec => []TypeOK
  <1>1. AuthInv => TypeOK
    BY DEF AuthInv
  <1> QED
    BY <1>1, AuthInvariant, PTL

\* A refresh never leaves its old session usable, and hands on neither another
\* subject nor another membership.
THEOREM RotationReplaces == Spec => []RotatedOut
  <1>1. AuthInv => RotatedOut
    BY DEF AuthInv
  <1> QED
    BY <1>1, AuthInvariant, PTL

\* A refused token or cookie is refused for ever.
THEOREM NothingRevives == Spec => NoTokenRevives
  <1>1. ASSUME AuthInv, [Next]_authVars, NEW j \in Issued
        PROVE  StaysRefused(j)
    <2>1. TypeOK /\ TypeOK' /\ Evolves
      BY <1>1, StepKeeps DEF AuthInv
    <2> QED
      BY <2>1, NoRevival DEF StaysRefused
  <1>2. AuthInv /\ [Next]_authVars => [\A j \in Issued : StaysRefused(j)]_authVars
    BY <1>1
  <1> QED
    BY <1>2, AuthInvariant, PTL DEF Spec, NoTokenRevives

\* The last statement of a logout is the only one that makes it answer "ok".
LEMMA LogoutAnswer ==
    ASSUME AuthInv, Next, NEW r \in Requests,
           req[r].op = "logout", req[r].pc # "ok", req'[r].pc = "ok"
    PROVE  RecordBearer(r)
  <1>1. TypeOK /\ RequestShape(r)
    BY DEF AuthInv, Shaped
  <1>2. req'[r] # req[r]
    OBVIOUS
  <1>3. ASSUME NEW q \in Requests, NEW t, req' = [req EXCEPT ![q] = t]
        PROVE  q = r /\ t.pc = "ok"
    BY <1>1, <1>2, <1>3 DEF TypeOK
  <1>4. ASSUME NEW q \in Requests, NEW a, Goto(q, a)
        PROVE  q = r /\ a = "ok"
    <2>1. q = r /\ [req[q] EXCEPT !.pc = a].pc = "ok"
      BY <1>3, <1>4 DEF Goto
    <2> QED
      BY <1>1, <2>1, RequestTyped DEF RequestStates
  <1>5. ASSUME NEW q \in Requests, NEW a \in Answers, Refuse(q, a)
        PROVE  a = "ok"
    <2>1. [NoReq EXCEPT !.pc = a].pc = "ok"
      BY <1>3, <1>5 DEF Refuse
    <2> QED
      BY <2>1 DEF NoReq
  <1>6. ASSUME NEW q \in Requests, NEW s, NEW o, Mint(q, s, o)
        PROVE  FALSE
    <2> DEFINE t == [req[q] EXCEPT !.pc = "insert", !.subject = s, !.scope = o,
                                   !.member = workspace[s][o].member, !.at = now]
    <2>1. req' = [req EXCEPT ![q] = t]
      BY <1>6 DEF Mint
    <2>2. t.pc = "insert"
      BY <1>1, RequestTyped DEF RequestStates
    <2> HIDE DEF t
    <2> QED
      BY <1>3, <2>1, <2>2
  <1>7. ASSUME NEW q \in Requests, NEW j, Grant(q, j)
        PROVE  q = r
    BY <1>3, <1>7 DEF Grant
  <1>8. ASSUME NEW q \in Requests, NEW t, Send(q, t)
        PROVE  t.pc = "ok"
    BY <1>3, <1>8 DEF Send
  <1>9. ASSUME NEW q \in Requests, ClientStep(q)
        PROVE  FALSE
    <2>1. /\ \A s \in Subjects : LoginRequest(s).pc = "workspaces"
          /\ \A j : RefreshRequest(j).pc = "read" /\ CallRequest(j).pc = "authenticate"
          /\ \A b, o : SwitchRequest(b, o).pc = "authenticate"
          /\ \A j, b : LogoutRequest(j, b).pc = "logout"
      BY DEF LoginRequest, RefreshRequest, CallRequest, SwitchRequest, LogoutRequest, NoReq
    <2>2. CASE Receive(q)
      BY <1>3, <2>2, Constants DEF Receive
    <2> QED
      BY <1>8, <1>9, <2>1, <2>2 DEF ClientStep
  <1>10. ASSUME NEW q \in Requests, ServerStep(q)
         PROVE  RecordBearer(r)
    <2>1. ~SelectWorkspace(q)
      BY <1>5, <1>6 DEF SelectWorkspace, Answers
    <2>2. ~ReadSession(q)
      BY <1>4, <1>5 DEF ReadSession, Answers
    <2>3. ~RevokeSession(q)
      <3> DEFINE t == [req[q] EXCEPT !.pc = "workspace", !.subject = session[req[q].cookie].subject,
                                     !.scope = session[req[q].cookie].scope]
      <3>1. ASSUME RevokeSession(q) PROVE t.pc = "ok"
        BY <1>3, <3>1 DEF RevokeSession
      <3>2. t.pc = "workspace"
        BY <1>1, RequestTyped DEF RequestStates
      <3> QED
        BY <3>1, <3>2
    <2>4. ~CheckWorkspace(q)
      BY <1>5, <1>6 DEF CheckWorkspace, Answers
    <2>5. ~InsertSession(q)
      BY <1>1, <1>7 DEF InsertSession, RequestShape
    <2>6. ~Authenticate(q)
      <3> DEFINE t == [req[q] EXCEPT !.pc = "workspace", !.subject = session[req[q].bearer].subject]
      <3>1. ASSUME req' = [req EXCEPT ![q] = t] PROVE t.pc = "ok"
        BY <1>3, <3>1
      <3>2. t.pc = "workspace"
        BY <1>1, RequestTyped DEF RequestStates
      <3> QED
        BY <1>5, <1>7, <3>1, <3>2 DEF Authenticate, Answers
    <2>7. ~LogoutSession(q) /\ ~RecordLogout(q)
      BY <1>4 DEF LogoutSession, RecordLogout
    <2>8. ~FailStatement(q)
      BY <1>5 DEF FailStatement, Answers
    <2>9. RecordBearer(q) => q = r
      BY <1>7 DEF RecordBearer
    <2> QED
      BY <1>10, <2>1, <2>2, <2>3, <2>4, <2>5, <2>6, <2>7, <2>8, <2>9 DEF ServerStep
  <1>11. \A s \in Subjects, o \in Scopes : ~CloseWorkspace(s, o) /\ ~OpenWorkspace(s, o)
    BY <1>2 DEF CloseWorkspace, OpenWorkspace
  <1>12. ~Tick
    BY <1>2 DEF Tick
  <1> QED
    BY <1>9, <1>10, <1>11, <1>12 DEF Next

\* An answered logout has ended its cookie and every token of its bearer's subject
\* that was minted by the time the logout began.
THEOREM LogoutIsFinal == Spec => LogoutIsEffective
  <1>1. ASSUME AuthInv, Next, NEW r \in Requests, NEW j \in Issued
        PROVE  LogoutEnds(r, j)
    <2> SUFFICES ASSUME req[r].op = "logout", req[r].pc # "ok", req'[r].pc = "ok"
                 PROVE  /\ j = req[r].cookie => ~Redeemable(j)'
                        /\ (/\ BearerParses(req[r].bearer)
                            /\ session[j].subject = session[req[r].bearer].subject
                            /\ session[j].minted <= req[r].at) => ~Accepted(j)'
      BY DEF LogoutEnds
    <2> DEFINE b == req[r].bearer
    <2>1. RecordBearer(r) /\ TypeOK /\ TypeOK' /\ Evolves /\ RequestShape(r)
      BY <1>1, LogoutAnswer, StepKeeps DEF AuthInv, Shaped
    <2>2. ASSUME j = req[r].cookie
          PROVE  ~Redeemable(j)'
      <3>1. ~Redeemable(j)
        BY <2>1, <2>2 DEF RecordBearer, RequestShape
      <3> QED
        BY <2>1, <3>1, NoRevival
    <2>3. ASSUME BearerParses(b), session[j].subject = session[b].subject,
                 session[j].minted <= req[r].at
          PROVE  ~Accepted(j)'
      <3>1. session[j] \in SessionRows /\ req[r].at \in Times
        BY <2>1, IssuedRows, RequestTyped DEF RequestStates
      <3>2. session[j].subject \in Subjects /\ session[j].minted \in Times
        BY <3>1 DEF SessionRows
      <3>3. lastLogout'[session[j].subject] >= req[r].at
        BY <2>1, <2>3, <3>1, <3>2, LaterStep DEF RecordBearer
      <3>4. /\ lastLogout'[session[j].subject] \in Int
            /\ Second(session[j].minted) \in Int
            /\ Second(session[j].minted) <= session[j].minted
            /\ session[j].minted \in Int /\ req[r].at \in Int
        <4>1. Times \cup {Never} \subseteq Int
          BY BoundFacts DEF Never
        <4>2. lastLogout'[session[j].subject] \in Times \cup {Never}
          BY <2>1, <3>2 DEF TypeOK
        <4> QED
          BY <3>1, <3>2, <4>1, <4>2, SecondIsFloor
      <3>5. lastLogout'[session[j].subject] >= Second(session[j].minted)
        BY <2>3, <3>3, <3>4
      <3>6. session' = session
        BY <2>1 DEF RecordBearer
      <3>7. LoggedOut(j)'
        BY <3>5, <3>6 DEF LoggedOut, Second
      <3> QED
        BY <3>7 DEF Accepted
    <2> QED
      BY <2>2, <2>3
  <1>2. AuthInv /\ [Next]_authVars =>
            [\A r \in Requests, j \in Issued : LogoutEnds(r, j)]_authVars
    BY <1>1
  <1> QED
    BY <1>2, AuthInvariant, PTL DEF Spec, LogoutIsEffective

-----------------------------------------------------------------------------
(* What one cookie yields *)

\* The sessions a cookie was rotated into, and the refreshes that have read it as
\* redeemable and may still rotate it.
Children(p) == {j \in Issued : session[j].parent = p}
Redeeming(p) ==
    {r \in Requests : req[r].pc \in {"revoke", "workspace", "insert"} /\ req[r].cookie = p}

Yield(p) == Cardinality(Children(p)) + Cardinality(Redeeming(p))

\* Inductive: a cookie that has yielded a session is revoked, so nobody joins the
\* refreshes of it any more, and each of them inserts one session and leaves.
YieldBounded == \A p \in Sessions : Yield(p) <= Cardinality(Requests)

LEMMA YieldCounts ==
    ASSUME NEW p
    PROVE  /\ IsFiniteSet(Children(p)) /\ IsFiniteSet(Children(p)')
           /\ Cardinality(Children(p)) \in Nat /\ Cardinality(Children(p)') \in Nat
           /\ IsFiniteSet(Redeeming(p)) /\ IsFiniteSet(Redeeming(p)')
           /\ Cardinality(Redeeming(p)) \in Nat /\ Cardinality(Redeeming(p)') \in Nat
           /\ Cardinality(Redeeming(p)') <= Cardinality(Requests)
           /\ Cardinality(Requests) \in Nat
  <1>1. IsFiniteSet(Sessions)
    BY BoundFacts, FS_Interval DEF Sessions
  <1>2. Children(p) \in SUBSET Sessions /\ Children(p)' \in SUBSET Sessions
    BY DEF Children, Issued
  <1>3. Redeeming(p) \in SUBSET Requests /\ Redeeming(p)' \in SUBSET Requests
    BY DEF Redeeming
  <1>4. /\ IsFiniteSet(Children(p)) /\ IsFiniteSet(Children(p)')
        /\ IsFiniteSet(Redeeming(p)) /\ IsFiniteSet(Redeeming(p)')
        /\ Cardinality(Redeeming(p)') <= Cardinality(Requests)
    BY <1>1, <1>2, <1>3, RequestsAssumption, FS_Subset
  <1> QED
    BY <1>4, RequestsAssumption, FS_CardinalityType

\* No cookie that was rotated is redeemed again.
LEMMA RotatedIsRevoked ==
    ASSUME RotatedOut, NEW p \in Sessions, ~session[p].revoked
    PROVE  Children(p) = {}
  BY BoundFacts DEF RotatedOut, Children

\* Only a request that reads the session as not revoked joins those that redeem it.
LEMMA WhoRedeems ==
    ASSUME TypeOK, Shaped, [Next]_authVars, NEW p \in Sessions,
           NEW q \in Requests, q \in Redeeming(p)', q \notin Redeeming(p)
    PROVE  UNCHANGED session /\ ~session[p].revoked
  <1>1. /\ req'[q].pc \in {"revoke", "workspace", "insert"} /\ req'[q].cookie = p
        /\ ~(req[q].pc \in {"revoke", "workspace", "insert"} /\ req[q].cookie = p)
        /\ p # NoSession
    BY BoundFacts DEF Redeeming
  <1>2. req'[q] # req[q]
    BY <1>1
  <1>3. RequestShape(q)
    BY DEF Shaped
  <1>4. ASSUME NEW r \in Requests, NEW a \in Answers, Refuse(r, a)
        PROVE  FALSE
    <2> DEFINE t == [NoReq EXCEPT !.pc = a]
    <2>1. t.pc = a
      BY DEF NoReq
    <2>2. req'[q] = IF q = r THEN t ELSE req[q]
      BY <1>4 DEF Refuse, TypeOK
    <2> QED
      BY <1>1, <1>2, <2>1, <2>2 DEF Answers
  <1>5. ASSUME NEW r \in Requests, NEW j, Grant(r, j)
        PROVE  FALSE
    <2> DEFINE t == [NoReq EXCEPT !.op = req[r].op, !.pc = "ok", !.new = j]
    <2>1. t.pc = "ok"
      BY DEF NoReq
    <2>2. req'[q] = IF q = r THEN t ELSE req[q]
      BY <1>5 DEF Grant, TypeOK
    <2> QED
      BY <1>1, <1>2, <2>1, <2>2
  <1>6. ASSUME NEW r \in Requests, NEW s \in Subjects, NEW o \in Scopes, Mint(r, s, o),
               req[r].pc = "workspaces" \/ req[r].pc = "workspace"
        PROVE  FALSE
    BY <1>1, <1>2, <1>3, <1>6, MintStep DEF RequestShape
  <1>7. ASSUME NEW r \in Requests, NEW a \in Statements, Goto(r, a),
               a \notin {"revoke", "workspace", "insert"}
        PROVE  FALSE
    <2>1. req'[r].pc = a /\ (q # r => req'[q] = req[q])
      BY <1>7, GotoStep
    <2> QED
      BY <1>1, <1>2, <1>7, <2>1
  <1>8. ASSUME NEW r \in Requests, NEW t \in RequestStates, req' = [req EXCEPT ![r] = t],
               t.pc \notin {"revoke", "workspace", "insert"}
        PROVE  FALSE
    BY <1>1, <1>2, <1>8 DEF TypeOK
  <1>9. ASSUME NEW r \in Requests, ServerStep(r)
        PROVE  UNCHANGED session /\ ~session[p].revoked
    <2>1. CASE SelectWorkspace(r)
      <3>1. req[r].subject \in Subjects
        BY <2>1 DEF SelectWorkspace, Shaped, RequestShape
      <3> QED
        BY <1>4, <1>6, <2>1, <3>1 DEF SelectWorkspace, Answers
    <2>2. CASE ReadSession(r)
      <3>1. Redeemable(req[r].cookie) /\ Goto(r, "revoke")
        BY <1>4, <2>2 DEF ReadSession, Answers
      <3>2. req[r].cookie = p
        BY <1>1, <1>2, <3>1, GotoStep DEF Statements
      <3> QED
        BY <2>2, <3>1, <3>2 DEF ReadSession, Redeemable
    <2>3. CASE RevokeSession(r)
      <3> DEFINE j == req[r].cookie
                 t == [req[r] EXCEPT !.pc = "workspace", !.subject = session[j].subject,
                                     !.scope = session[j].scope]
      <3>1. req[r].pc = "revoke" /\ t.cookie = j
        BY <2>3, RequestTyped DEF RevokeSession, RequestStates
      <3>2. req'[q] = IF q = r THEN t ELSE req[q]
        BY <2>3 DEF RevokeSession, TypeOK
      <3> QED
        BY <1>1, <1>2, <3>1, <3>2
    <2>4. CASE CheckWorkspace(r)
      <3>1. req[r].subject \in Subjects /\ req[r].scope \in Scopes /\ req[r].pc = "workspace"
        BY <2>4, RequestTyped DEF CheckWorkspace, Shaped, RequestShape, RequestStates
      <3> QED
        BY <1>4, <1>6, <2>4, <3>1 DEF CheckWorkspace, Answers
    <2>5. CASE InsertSession(r)
      BY <1>5, <2>5 DEF InsertSession
    <2>6. CASE Authenticate(r)
      <3> DEFINE t == [req[r] EXCEPT !.pc = "workspace", !.subject = session[req[r].bearer].subject]
      <3>1. req[r].cookie = NoSession
        BY <2>6 DEF Authenticate, Shaped, RequestShape
      <3>2. t.cookie = NoSession
        BY <3>1, RequestTyped DEF RequestStates
      <3>3. ASSUME req' = [req EXCEPT ![r] = t]
            PROVE  FALSE
        <4>1. req'[q] = IF q = r THEN t ELSE req[q]
          BY <3>3 DEF TypeOK
        <4> QED
          BY <1>1, <1>2, <3>2, <4>1
      <3> QED
        BY <1>4, <1>5, <2>6, <3>3 DEF Authenticate, Answers
    <2>7. CASE LogoutSession(r)
      BY <1>7, <2>7 DEF LogoutSession, Statements
    <2>8. CASE RecordLogout(r)
      BY <1>7, <2>8 DEF RecordLogout, Statements
    <2>9. CASE RecordBearer(r)
      BY <1>5, <2>9 DEF RecordBearer
    <2>10. CASE FailStatement(r)
      BY <1>4, <2>10 DEF FailStatement, Answers
    <2> QED
      BY <1>9, <2>1, <2>2, <2>3, <2>4, <2>5, <2>6, <2>7, <2>8, <2>9, <2>10 DEF ServerStep
  <1>10. ASSUME NEW r \in Requests, ClientStep(r)
         PROVE  FALSE
    <2>1. ASSUME NEW t, Send(r, t), t.pc \notin {"revoke", "workspace", "insert"}
          PROVE  FALSE
      <3>1. req'[q] = IF q = r THEN t ELSE req[q]
        BY <2>1 DEF Send, TypeOK
      <3> QED
        BY <1>1, <1>2, <2>1, <3>1
    <2>2. \A j, b, s, o :
             /\ LoginRequest(s).pc = "workspaces" /\ RefreshRequest(j).pc = "read"
             /\ CallRequest(b).pc = "authenticate" /\ SwitchRequest(b, o).pc = "authenticate"
             /\ LogoutRequest(j, b).pc = "logout"
      BY DEF LoginRequest, RefreshRequest, CallRequest, SwitchRequest, LogoutRequest, NoReq
    <2>3. CASE Receive(r)
      BY <1>8, <2>3, Constants DEF Receive
    <2> QED
      BY <1>10, <2>1, <2>2, <2>3 DEF ClientStep
  <1>11. ASSUME req' = req
         PROVE  FALSE
    BY <1>2, <1>11
  <1> QED
    BY <1>9, <1>10, <1>11 DEF Next, authVars, CloseWorkspace, OpenWorkspace, Tick

\* A step never raises what a cookie yields, unless the cookie has yielded nothing yet.
LEMMA YieldStep ==
    ASSUME AuthInv, [Next]_authVars, NEW p \in Sessions
    PROVE  Yield(p)' <= Yield(p) \/ Children(p)' = {}
  <1>1. TypeOK /\ Shaped /\ RotatedOut /\ Evolves
    BY StepKeeps DEF AuthInv
  <1>2. ASSUME Redeeming(p)' \subseteq Redeeming(p), Children(p)' = Children(p)
        PROVE  Yield(p)' <= Yield(p)
    <2>1. Cardinality(Redeeming(p)') <= Cardinality(Redeeming(p))
      BY <1>2, YieldCounts, FS_Subset
    <2> QED
      BY <1>2, <2>1, YieldCounts DEF Yield
  <1>3. CASE Issued' = Issued
    <2>1. Children(p)' = Children(p)
      BY <1>1, <1>3 DEF Children, Evolves
    <2>2. CASE \E q \in Requests : q \in Redeeming(p)' /\ q \notin Redeeming(p)
      BY <1>1, <2>1, <2>2, WhoRedeems, RotatedIsRevoked
    <2> QED
      BY <1>2, <2>1, <2>2 DEF Redeeming
  <1>4. ASSUME NEW r \in Requests, InsertSession(r)
        PROVE  Yield(p)' <= Yield(p)
    <2> DEFINE row == [subject |-> req[r].subject, scope |-> req[r].scope,
                       member |-> req[r].member, parent |-> req[r].cookie,
                       minted |-> req[r].at, revoked |-> FALSE]
    <2>1. PICK j \in Sessions \ Issued :
              session' = [session EXCEPT ![j] = row] /\ Grant(r, j)
      BY <1>4 DEF InsertSession
    <2>2. req[r].pc = "insert" /\ row \in SessionRows /\ row.parent = req[r].cookie
      BY <1>1, <1>4, RequestTyped DEF InsertSession, Shaped, RequestShape, RequestStates, SessionRows
    <2>3. /\ Issued' = Issued \cup {j} /\ session'[j] = row
          /\ \A k \in Issued : session'[k] = session[k]
      BY <1>1, <1>4, <2>1, <2>2, Inserted DEF InsertSession
    <2>4. req'[r].pc = "ok" /\ \A q \in Requests \ {r} : req'[q] = req[q]
      <3>1. [NoReq EXCEPT !.op = req[r].op, !.pc = "ok", !.new = j].pc = "ok"
        BY DEF NoReq
      <3> QED
        BY <1>1, <2>1, <3>1 DEF Grant, TypeOK
    <2>5. Redeeming(p)' = Redeeming(p) \ {r}
      BY <2>4 DEF Redeeming
    <2>6. CASE req[r].cookie = p
      <3>1. Children(p)' = Children(p) \cup {j} /\ j \notin Children(p)
        BY <2>2, <2>3, <2>6 DEF Children
      <3>2. r \in Redeeming(p)
        BY <2>2, <2>6 DEF Redeeming
      <3>3. IsFiniteSet(Children(p)) /\ IsFiniteSet(Redeeming(p))
        BY YieldCounts
      <3>4. Cardinality(Children(p)') = Cardinality(Children(p)) + 1
        BY <3>1, <3>3, FS_AddElement
      <3>5. Cardinality(Redeeming(p)') = Cardinality(Redeeming(p)) - 1
        BY <2>5, <3>2, <3>3, FS_RemoveElement
      <3> QED
        BY <3>4, <3>5, YieldCounts DEF Yield
    <2>7. CASE req[r].cookie # p
      <3>1. Children(p)' = Children(p)
        BY <2>2, <2>3, <2>7 DEF Children
      <3> QED
        BY <1>2, <2>5, <3>1
    <2> QED
      BY <2>6, <2>7
  <1> QED
    BY <1>1, <1>3, <1>4, WhoInserts

\* What a cookie yields is bounded by the requests that can be in flight together.
THEOREM RotationIsBounded == Spec => []RotationBounded
  <1>1. Init => YieldBounded
    <2> SUFFICES ASSUME Init, NEW p \in Sessions
                 PROVE  Yield(p) <= Cardinality(Requests)
      BY DEF YieldBounded
    <2>1. Children(p) = {} /\ Redeeming(p) = {}
      BY Constants DEF Init, Children, Issued, Redeeming
    <2> QED
      BY <2>1, FS_EmptySet, YieldCounts DEF Yield
  <1>2. AuthInv /\ YieldBounded /\ [Next]_authVars => YieldBounded'
    <2> SUFFICES ASSUME AuthInv, YieldBounded, [Next]_authVars, NEW p \in Sessions
                 PROVE  Yield(p)' <= Cardinality(Requests)
      BY DEF YieldBounded
    <2>1. CASE Children(p)' = {}
      BY <2>1, FS_EmptySet, YieldCounts DEF Yield
    <2>2. CASE Yield(p)' <= Yield(p)
      BY <2>2, YieldCounts DEF Yield, YieldBounded
    <2> QED
      BY <2>1, <2>2, YieldStep
  <1>3. YieldBounded => RotationBounded
    <2> SUFFICES ASSUME YieldBounded, NEW p \in Sessions
                 PROVE  Cardinality(Children(p)) <= Cardinality(Requests)
      BY DEF RotationBounded, Children
    <2> QED
      BY YieldCounts DEF YieldBounded, Yield
  <1> QED
    BY <1>1, <1>2, <1>3, AuthInvariant, PTL DEF Spec

=============================================================================
