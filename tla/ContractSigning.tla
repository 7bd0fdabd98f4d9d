--------------------------- MODULE ContractSigning ---------------------------
(***************************************************************************)
(* The contract signing flow of the backend: invites, the submissions that *)
(* record a signed contract, and the per-organisation, per-year counter    *)
(* that numbers them.                                                      *)
(*                                                                         *)
(* Three kinds of actors meet on the same PostgreSQL rows:                 *)
(*   - a signer's POST /public/sign/{token}: one transaction of several    *)
(*     statements that locks the invite row, looks for an earlier          *)
(*     submission, draws the next number, inserts the submission, marks    *)
(*     the invite signed and commits;                                      *)
(*   - a clerk's POST /contracts/submissions: a single INSERT that takes   *)
(*     no lock of its own but waits on unique entries and on the foreign   *)
(*     key of the invite;                                                  *)
(*   - single-statement requests on an invite or a submission (create,     *)
(*     send, update, view, delete), atomic once the row lock is free.      *)
(*                                                                         *)
(* Every statement that can wait for another transaction is a step of its  *)
(* own.  Uncommitted writes live in tx[p] and become visible at commit.    *)
(***************************************************************************)
EXTENDS Integers, FiniteSets

CONSTANTS
    Invites,          \* ids of contract_invites rows
    NoInvite,         \* the invite of a process that serves no request
    Orgs,             \* organisations
    OrgOf,            \* organisation_id of an invite
    Signers,          \* concurrent POST /public/sign/{token} requests
    Clerks,           \* concurrent POST /contracts/submissions requests
    RequestStatuses,  \* status values that bodies of POST and PUT carry
    Expirations,      \* expiration dates that bodies carry, or NoExpiration
    ManualNumbers,    \* contract numbers a clerk types, or NoNumber
    MaxTime,          \* bound on the clock
    YearOf            \* calendar year of each instant

NoExpiration == -1
NoNumber == <<0, 0>>
Times == 0 .. MaxTime
Years == {YearOf[t] : t \in Times}
Numbers == Years \X (Nat \ {0})
Statuses == {"draft", "sent", "viewed", "signed", "expired", "revoked"}
Procs == Signers \cup Clerks

ASSUME InvitesAssumption == NoInvite \notin Invites /\ OrgOf \in [Invites -> Orgs]
ASSUME ProcsAssumption == Signers \cap Clerks = {}
ASSUME ClockAssumption ==
    /\ MaxTime \in Nat
    /\ YearOf \in [Times -> Nat \ {0}]
    /\ \A s, t \in Times : s <= t => YearOf[s] <= YearOf[t]
ASSUME InputsAssumption ==
    /\ RequestStatuses \subseteq Statuses
    /\ Expirations \subseteq Times \cup {NoExpiration}
    /\ ManualNumbers \subseteq Numbers \cup {NoNumber}

VARIABLES
    invite,      \* committed contract_invites rows
    submission,  \* committed contract_submissions row of each invite
    counter,     \* committed contract_numbers.last_number
    tx,          \* the open transaction of each process
    reply,       \* the confirmation in each signer's last answer
    now          \* the wall clock

vars == <<invite, submission, counter, tx, reply, now>>

AbsentInvite == [status |-> "absent", deleted |-> FALSE, expires |-> NoExpiration]
InviteRows == [status : Statuses \cup {"absent"}, deleted : BOOLEAN,
               expires : Times \cup {NoExpiration}]

(***************************************************************************)
(* invite_id is unique over all rows, deleted ones included, so an invite  *)
(* has at most one row.  "series" is an observation, not a column: the     *)
(* year of the counter row the number was drawn from (0 for a clerk's).    *)
(***************************************************************************)
NoSubmission == [origin |-> "none", number |-> NoNumber, series |-> 0, deleted |-> FALSE]
SubmissionRows == [origin : {"none", "public", "manual"},
                   number : Numbers \cup {NoNumber},
                   series : Years \cup {0}, deleted : BOOLEAN]

SignerSteps == {"begin", "locked", "numbering", "numbered", "inserted"}
ClerkSteps == {"insert", "fk"}
NoTx == [pc |-> "idle", inv |-> NoInvite, series |-> 0, number |-> NoNumber]
Transactions == [pc : {"idle"} \cup SignerSteps \cup ClerkSteps,
                 inv : Invites \cup {NoInvite},
                 series : Years \cup {0}, number : Numbers \cup {NoNumber}]

\* A 201 carries the submission's number; 404 and 500 carry nothing.
NoReply == [inv |-> NoInvite, number |-> NoNumber]
Replies == [inv : Invites \cup {NoInvite}, number : Numbers \cup {NoNumber}]

TypeOK ==
    /\ invite \in [Invites -> InviteRows]
    /\ submission \in [Invites -> SubmissionRows]
    /\ counter \in [Orgs -> [Years -> Nat]]
    /\ tx \in [Procs -> Transactions]
    /\ reply \in [Signers -> Replies]
    /\ now \in Times

-----------------------------------------------------------------------------
(* Rows and locks *)

Live(i) == invite[i].status # "absent" /\ ~invite[i].deleted

LiveSubmission(i) == submission[i].origin # "none" /\ ~submission[i].deleted

Expired(i) == invite[i].expires # NoExpiration /\ now > invite[i].expires

\* Mutant: a plain SELECT, without FOR UPDATE.
NoInviteLock(p, i) == FALSE

\* SELECT ... FOR UPDATE keeps the invite row until commit or rollback.
HoldsInvite(p, i) ==
    tx[p].inv = i /\ tx[p].pc \in {"locked", "numbering", "numbered", "inserted"}

\* Mutant: the number is read and written back instead of upserted.
NoCounterLock(p, o, y) == FALSE

\* The upsert keeps the row of (organisation, year) until commit or rollback.
HoldsCounter(p, o, y) ==
    /\ tx[p].pc \in {"numbered", "inserted"}
    /\ OrgOf[tx[p].inv] = o /\ tx[p].series = y

\* An uncommitted row of p that p's index entries make others wait for.
HasPendingRow(p) == tx[p].pc \in {"inserted", "fk"}

InviteUnlocked(i) == \A q \in Procs : ~HoldsInvite(q, i)

SameNumber(i, n, j, m) == n # NoNumber /\ n = m /\ OrgOf[i] = OrgOf[j]

\* Uncommitted rows of other transactions with the same key in an index.
PendingConflicts(p) ==
    {q \in Procs \ {p} :
        /\ HasPendingRow(q)
        /\ \/ tx[q].inv = tx[p].inv
           \/ SameNumber(tx[p].inv, tx[p].number, tx[q].inv, tx[q].number)}

\* Mutant: no unique index on contract_number.
NoNumberIndex(p) == submission[tx[p].inv].origin # "none"

\* Mutant: the index on invite_id leaves out deleted rows.
PartialInviteIndex(p) ==
    \/ LiveSubmission(tx[p].inv)
    \/ \E j \in Invites :
          /\ LiveSubmission(j)
          /\ SameNumber(tx[p].inv, tx[p].number, j, submission[j].number)

\* UNIQUE (invite_id) sees deleted rows, the index on contract_number does not.
CommittedConflict(p) ==
    \/ submission[tx[p].inv].origin # "none"
    \/ \E j \in Invites :
          /\ LiveSubmission(j)
          /\ SameNumber(tx[p].inv, tx[p].number, j, submission[j].number)

-----------------------------------------------------------------------------
Init ==
    /\ invite = [i \in Invites |-> AbsentInvite]
    /\ submission = [i \in Invites |-> NoSubmission]
    /\ counter = [o \in Orgs |-> [y \in Years |-> 0]]
    /\ tx = [p \in Procs |-> NoTx]
    /\ reply = [s \in Signers |-> NoReply]
    /\ now = 0

Confirm(s, number) ==
    /\ tx' = [tx EXCEPT ![s] = NoTx]
    /\ reply' = [reply EXCEPT ![s] = [inv |-> tx[s].inv, number |-> number]]

Fail(s) == tx' = [tx EXCEPT ![s] = NoTx] /\ UNCHANGED reply

-----------------------------------------------------------------------------
(* The signer's transaction *)

\* The body is valid and the token names i: BEGIN.
StartSign(s, i) ==
    /\ tx[s].pc = "idle"
    /\ invite[i].status # "absent"
    /\ tx' = [tx EXCEPT ![s] = [NoTx EXCEPT !.pc = "begin", !.inv = i]]
    /\ reply' = [reply EXCEPT ![s] = NoReply]
    /\ UNCHANGED <<invite, submission, counter, now>>

Refused(i) == ~Live(i) \/ Expired(i) \/ invite[i].status = "revoked"

\* SELECT ... FOR UPDATE waits for the row, then the handler checks what it read.
LockInvite(s) ==
    /\ tx[s].pc = "begin"
    /\ InviteUnlocked(tx[s].inv)
    /\ ~Refused(tx[s].inv)
    /\ tx' = [tx EXCEPT ![s].pc = "locked"]
    /\ UNCHANGED <<invite, submission, counter, reply, now>>

\* No such row, expired or revoked: sql.ErrNoRows, rollback, answer 404.
RefuseSign(s) ==
    /\ tx[s].pc = "begin"
    /\ InviteUnlocked(tx[s].inv)
    /\ Refused(tx[s].inv)
    /\ Fail(s)
    /\ UNCHANGED <<invite, submission, counter, now>>

\* A live submission exists: commit the read-only transaction, repeat its number.
AnswerAlreadySigned(s) ==
    /\ tx[s].pc = "locked"
    /\ LiveSubmission(tx[s].inv)
    /\ Confirm(s, submission[tx[s].inv].number)
    /\ UNCHANGED <<invite, submission, counter, now>>

\* None exists: the handler reads the clock for the year of the counter.
ChooseSeries(s) ==
    /\ tx[s].pc = "locked"
    /\ ~LiveSubmission(tx[s].inv)
    /\ tx' = [tx EXCEPT ![s].pc = "numbering", ![s].series = YearOf[now]]
    /\ UNCHANGED <<invite, submission, counter, reply, now>>

\* Mutant: the upsert returns last_number as it was.
DrawOldNumber(s) ==
    LET o == OrgOf[tx[s].inv]
        y == tx[s].series
    IN  /\ tx[s].pc = "numbering"
        /\ \A q \in Procs : ~HoldsCounter(q, o, y)
        /\ tx' = [tx EXCEPT ![s].pc = "numbered",
                            ![s].number = <<YearOf[now], counter[o][y]>>]
        /\ UNCHANGED <<invite, submission, counter, reply, now>>

\* The upsert waits for the counter row and returns last_number + 1; the number
\* is then formatted with the year of a second reading of the clock.
DrawNumber(s) ==
    LET o == OrgOf[tx[s].inv]
        y == tx[s].series
    IN  /\ tx[s].pc = "numbering"
        /\ \A q \in Procs : ~HoldsCounter(q, o, y)
        /\ tx' = [tx EXCEPT ![s].pc = "numbered",
                            ![s].number = <<YearOf[now], counter[o][y] + 1>>]
        /\ UNCHANGED <<invite, submission, counter, reply, now>>

\* Mutant: the handler answers before it commits.
ReplyBeforeCommit(s) ==
    /\ tx[s].pc = "numbered"
    /\ PendingConflicts(s) = {}
    /\ ~CommittedConflict(s)
    /\ tx' = [tx EXCEPT ![s].pc = "inserted"]
    /\ reply' = [reply EXCEPT ![s] = [inv |-> tx[s].inv, number |-> tx[s].number]]
    /\ UNCHANGED <<invite, submission, counter, now>>

\* INSERT INTO contract_submissions, once no pending row has the same key.
InsertSubmission(s) ==
    /\ tx[s].pc = "numbered"
    /\ PendingConflicts(s) = {}
    /\ ~CommittedConflict(s)
    /\ tx' = [tx EXCEPT ![s].pc = "inserted"]
    /\ UNCHANGED <<invite, submission, counter, reply, now>>

\* UPDATE of the locked invite, COMMIT, answer 201.  The acknowledgement of the
\* COMMIT may be lost: the handler then answers 500 although the row is there.
CommitSign(s) ==
    LET i == tx[s].inv
        o == OrgOf[i]
        y == tx[s].series
    IN  /\ tx[s].pc = "inserted"
        /\ invite' = [invite EXCEPT ![i].status = "signed"]
        /\ submission' = [submission EXCEPT ![i] =
               [origin |-> "public", number |-> tx[s].number, series |-> y, deleted |-> FALSE]]
        /\ counter' = [counter EXCEPT ![o][y] = @ + 1]
        /\ Confirm(s, tx[s].number) \/ Fail(s)
        /\ UNCHANGED now

\* Mutant: the number is drawn outside the transaction.
RollbackKeepsNumber(s) ==
    LET o == OrgOf[tx[s].inv]
        y == tx[s].series
    IN  /\ tx[s].pc \in SignerSteps
        /\ Fail(s)
        /\ counter' = IF tx[s].pc \in {"numbered", "inserted"}
                      THEN [counter EXCEPT ![o][y] = @ + 1] ELSE counter
        /\ UNCHANGED <<invite, submission, now>>

\* A unique violation, a lost connection, a cancelled request context or a
\* crash: the deferred Rollback undoes every write of the transaction.
RollbackSign(s) ==
    /\ tx[s].pc \in SignerSteps
    /\ Fail(s)
    /\ UNCHANGED <<invite, submission, counter, now>>

\* Mutant: the handler goes back to a savepoint and draws a number again.
RetryDuplicate(s) ==
    /\ tx[s].pc = "numbered"
    /\ PendingConflicts(s) = {}
    /\ CommittedConflict(s)
    /\ tx' = [tx EXCEPT ![s].pc = "numbering", ![s].number = NoNumber]
    /\ UNCHANGED <<invite, submission, counter, reply, now>>

\* The part of RollbackSign that the database forces: the key is taken.
RejectDuplicate(s) ==
    /\ tx[s].pc = "numbered"
    /\ PendingConflicts(s) = {}
    /\ CommittedConflict(s)
    /\ RollbackSign(s)

-----------------------------------------------------------------------------
(* The clerk's single INSERT *)

\* The body names an invite of the organisation and an optional number; neither
\* the status of the invite nor its deletion is checked.
StartManual(c, i, n) ==
    /\ tx[c].pc = "idle"
    /\ invite[i].status # "absent"
    /\ tx' = [tx EXCEPT ![c] = [NoTx EXCEPT !.pc = "insert", !.inv = i, !.number = n]]
    /\ UNCHANGED <<invite, submission, counter, reply, now>>

InsertManual(c) ==
    /\ tx[c].pc = "insert"
    /\ PendingConflicts(c) = {}
    /\ ~CommittedConflict(c)
    /\ tx' = [tx EXCEPT ![c].pc = "fk"]
    /\ UNCHANGED <<invite, submission, counter, reply, now>>

\* The foreign key takes FOR KEY SHARE on the invite row, which conflicts with
\* a signer's FOR UPDATE; then the statement commits.
CommitManual(c) ==
    LET i == tx[c].inv
    IN  /\ tx[c].pc = "fk"
        /\ InviteUnlocked(i)
        /\ submission' = [submission EXCEPT ![i] =
               [origin |-> "manual", number |-> tx[c].number, series |-> 0, deleted |-> FALSE]]
        /\ tx' = [tx EXCEPT ![c] = NoTx]
        /\ UNCHANGED <<invite, counter, reply, now>>

RollbackManual(c) ==
    /\ tx[c].pc \in ClerkSteps
    /\ tx' = [tx EXCEPT ![c] = NoTx]
    /\ UNCHANGED <<invite, submission, counter, reply, now>>

RejectManualDuplicate(c) ==
    /\ tx[c].pc = "insert"
    /\ PendingConflicts(c) = {}
    /\ CommittedConflict(c)
    /\ RollbackManual(c)

-----------------------------------------------------------------------------
(* Single-statement requests: an UPDATE of an invite waits for its row lock *)

CreateInvite(i, st, e) ==
    /\ invite[i] = AbsentInvite
    /\ invite' = [invite EXCEPT ![i] = [status |-> st, deleted |-> FALSE, expires |-> e]]
    /\ UNCHANGED <<submission, counter, tx, reply, now>>

\* POST .../send marks any invite that is not signed as sent, a revoked one too.
SendInvite(i) ==
    /\ Live(i) /\ InviteUnlocked(i)
    /\ invite' = [invite EXCEPT ![i].status = IF @ = "signed" THEN @ ELSE "sent"]
    /\ UNCHANGED <<submission, counter, tx, reply, now>>

\* PUT writes status and expiration whatever the old ones were.
UpdateInvite(i, st, e) ==
    /\ Live(i) /\ InviteUnlocked(i)
    /\ invite' = [invite EXCEPT ![i].status = st, ![i].expires = e]
    /\ UNCHANGED <<submission, counter, tx, reply, now>>

\* GET /public/sign/{token} marks the invite before it looks at the expiration.
ViewInvite(i) ==
    /\ Live(i) /\ InviteUnlocked(i)
    /\ invite' = [invite EXCEPT ![i].status =
                      IF @ \in {"draft", "sent"} THEN "viewed" ELSE @]
    /\ UNCHANGED <<submission, counter, tx, reply, now>>

DeleteInvite(i) ==
    /\ Live(i) /\ InviteUnlocked(i)
    /\ invite' = [invite EXCEPT ![i].deleted = TRUE]
    /\ UNCHANGED <<submission, counter, tx, reply, now>>

DeleteSubmission(i) ==
    /\ LiveSubmission(i)
    /\ submission' = [submission EXCEPT ![i].deleted = TRUE]
    /\ UNCHANGED <<invite, counter, tx, reply, now>>

Tick ==
    /\ now < MaxTime
    /\ now' = now + 1
    /\ UNCHANGED <<invite, submission, counter, tx, reply>>

-----------------------------------------------------------------------------
(* Deadlock detection of the database *)

WaitsFor(p) ==
    CASE tx[p].pc \in {"begin", "fk"} -> {q \in Procs \ {p} : HoldsInvite(q, tx[p].inv)}
      [] tx[p].pc = "numbering" ->
             {q \in Procs : HoldsCounter(q, OrgOf[tx[p].inv], tx[p].series)}
      [] tx[p].pc \in {"numbered", "insert"} -> PendingConflicts(p)
      [] OTHER -> {}

\* Everyone in D waits for someone in D.
Deadlocked(D) == \A p \in D : WaitsFor(p) \cap D # {}

\* A cycle holds nobody who merely waits for a member of it.
WaitCycles ==
    {D \in (SUBSET Procs) \ {{}} :
        Deadlocked(D) /\ \A E \in (SUBSET D) \ {{}, D} : ~Deadlocked(E)}

\* The detector aborts one transaction of the cycle.
BreakDeadlock(p) ==
    /\ \E D \in WaitCycles : p \in D
    /\ \/ p \in Signers /\ RollbackSign(p)
       \/ p \in Clerks /\ RollbackManual(p)

-----------------------------------------------------------------------------
SignStep(s) ==
    \/ LockInvite(s) \/ RefuseSign(s)
    \/ AnswerAlreadySigned(s) \/ ChooseSeries(s)
    \/ DrawNumber(s)
    \/ InsertSubmission(s) \/ RejectDuplicate(s)
    \/ CommitSign(s)

ManualStep(c) == InsertManual(c) \/ RejectManualDuplicate(c) \/ CommitManual(c)

InviteStep(i) ==
    \/ \E st \in RequestStatuses, e \in Expirations :
          CreateInvite(i, st, e) \/ UpdateInvite(i, st, e)
    \/ SendInvite(i) \/ ViewInvite(i) \/ DeleteInvite(i) \/ DeleteSubmission(i)

Next ==
    \/ \E s \in Signers :
          (\E i \in Invites : StartSign(s, i)) \/ SignStep(s) \/ RollbackSign(s)
    \/ \E c \in Clerks :
          \/ \E i \in Invites, n \in ManualNumbers : StartManual(c, i, n)
          \/ ManualStep(c) \/ RollbackManual(c)
    \/ \E p \in Procs : BreakDeadlock(p)
    \/ \E i \in Invites : InviteStep(i)
    \/ Tick

Spec == Init /\ [][Next]_vars

(***************************************************************************)
(* Fairness: a request that can execute its next statement does so.  A     *)
(* statement that waits for a lock is served again and again in turn by    *)
(* the lock queue, hence strong fairness; the detector runs whenever a     *)
(* cycle lasts.  Nothing makes a client or a clerk send a request.         *)
(***************************************************************************)
Fairness ==
    /\ \A s \in Signers : SF_vars(SignStep(s))
    /\ \A c \in Clerks : SF_vars(ManualStep(c))
    /\ WF_vars(\E p \in Procs : BreakDeadlock(p))

FairSpec == Spec /\ Fairness

-----------------------------------------------------------------------------
(* Properties *)

\* The invites signed with a number of organisation o's counter of year y.
SignedInSeries(o, y) ==
    {i \in Invites : /\ submission[i].origin = "public"
                     /\ OrgOf[i] = o /\ submission[i].series = y}

\* The numbers drawn from a counter and committed are 1, 2, ... last_number, each
\* once: a signing that fails or is rolled back leaves no gap, and two signings
\* that overlap never get the same number.
GaplessNumbers ==
    \A o \in Orgs, y \in Years :
        /\ {submission[i].number[2] : i \in SignedInSeries(o, y)} = 1 .. counter[o][y]
        /\ \A i, j \in SignedInSeries(o, y) :
              submission[i].number[2] = submission[j].number[2] => i = j

\* Whoever is told that an invite is signed, by the request that signed it or by
\* a later retry, is told the number of the one submission of that invite.
ReplyMatchesRecord ==
    \A s \in Signers :
        reply[s].inv # NoInvite =>
            /\ submission[reply[s].inv].origin # "none"
            /\ submission[reply[s].inv].number = reply[s].number

\* Two submissions an organisation can see never carry the same contract number,
\* whether the counter or a clerk gave it.
LiveNumbersUnique ==
    \A i, j \in Invites :
        /\ LiveSubmission(i) /\ LiveSubmission(j)
        /\ SameNumber(i, submission[i].number, j, submission[j].number)
        => i = j

\* A signature is recorded only on an invite that at that very moment is neither
\* deleted nor revoked: a revocation that is answered before the commit wins.
SigningRespectsWithdrawal ==
    [][\A i \in Invites :
          submission[i].origin = "none" /\ submission'[i].origin = "public" =>
              Live(i) /\ invite[i].status # "revoked"]_vars

\* A submission, once recorded, is never replaced, renumbered or revived, not
\* even by signing again after a clerk deleted it.
RecordsAreFinal ==
    [][\A i \in Invites :
          submission[i].origin # "none" =>
              submission'[i] \in {submission[i], [submission[i] EXCEPT !.deleted = TRUE]}]_vars

\* Every signing request that reached the database is answered, whatever the
\* others do: no lock is kept for ever and no wait cycle lasts.
SignAnswered == \A s \in Signers : tx[s].pc # "idle" ~> tx[s].pc = "idle"

(***************************************************************************)
(* What the row locks and the unique indexes give an open transaction:     *)
(* what it read stays true until it commits.  GaplessNumbers and           *)
(* SigningRespectsWithdrawal rest on it.                                   *)
(***************************************************************************)
LocksExclusive ==
    \A p, q \in Procs :
        /\ \A i \in Invites : HoldsInvite(p, i) /\ HoldsInvite(q, i) => p = q
        /\ \A o \in Orgs, y \in Years : HoldsCounter(p, o, y) /\ HoldsCounter(q, o, y) => p = q

LockedInvitesOpen ==
    \A p \in Procs, i \in Invites :
        HoldsInvite(p, i) => Live(i) /\ invite[i].status # "revoked"

DrawnNumbersNext ==
    \A p \in Procs :
        /\ tx[p].pc \in {"numbering", "numbered", "inserted"} => tx[p].series <= YearOf[now]
        /\ tx[p].pc \in {"numbered", "inserted"} =>
              /\ tx[p].number[1] >= tx[p].series
              /\ tx[p].number[2] = counter[OrgOf[tx[p].inv]][tx[p].series] + 1

PendingRowsUnique ==
    \A p \in Procs :
        HasPendingRow(p) => ~CommittedConflict(p) /\ PendingConflicts(p) = {}

\* The snapshot an open signing transaction works on cannot go stale: nobody else
\* locks its invite or its counter, the invite stays open, the drawn number stays
\* the next one and the pending row stays the only one with its keys.
TransactionsIsolated ==
    /\ LocksExclusive
    /\ LockedInvitesOpen
    /\ DrawnNumbersNext
    /\ PendingRowsUnique

\* The rows the register is made of implement it: seen through the refinement
\* mapping, a transaction is one step, its commit.
Accepting == {i \in Invites : Live(i) /\ invite[i].status # "revoked"}

Register == INSTANCE ContractRegister WITH accepting <- Accepting, entry <- submission

ImplementsRegister == Register!Spec

(***************************************************************************)
(* What the documents say and the code does not do.                        *)
(***************************************************************************)

\* docs/contapp_database.dbml calls contract_numbers the counter of the
\* organisation and year: a number of year y is at most that year's counter.
NumberWithinItsYear ==
    \A i \in Invites :
        submission[i].origin = "public" =>
            submission[i].number[2] <= counter[OrgOf[i]][submission[i].number[1]]
=============================================================================
