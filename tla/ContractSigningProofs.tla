------------------------ MODULE ContractSigningProofs ------------------------
(***************************************************************************)
(* Proofs about ContractSigning, for any number of invites, organisations, *)
(* signers, clerks and years.                                              *)
(***************************************************************************)
EXTENDS ContractSigning, TLAPS

LEMMA ConstantFacts ==
    /\ NoInvite \notin Invites
    /\ \A i \in Invites : OrgOf[i] \in Orgs
    /\ \A t \in Times : YearOf[t] \in Years /\ YearOf[t] \in Nat \ {0}
    /\ Years \subseteq Nat \ {0}
    /\ RequestStatuses \subseteq Statuses
    /\ Expirations \subseteq Times \cup {NoExpiration}
    /\ ManualNumbers \subseteq Numbers \cup {NoNumber}
  BY InvitesAssumption, ClockAssumption, InputsAssumption DEF Years


-----------------------------------------------------------------------------
(* Types *)

\* A process is at a step of its own kind; past its start it has an invite, past
\* "numbering" a counter, past "numbered" a number.
TxShape(p) ==
    /\ tx[p].pc # "idle" => tx[p].inv \in Invites
    /\ tx[p].pc \in {"numbering", "numbered", "inserted"} => tx[p].series \in Years
    /\ tx[p].pc \in {"numbered", "inserted"} => tx[p].number \in Numbers
    /\ p \in Signers => tx[p].pc \in {"idle"} \cup SignerSteps
    /\ p \in Clerks => tx[p].pc \in {"idle"} \cup ClerkSteps

Typing == TypeOK /\ \A p \in Procs : TxShape(p)

\* One process moves to a well-shaped transaction, the others stay.
LEMMA TxStep ==
    ASSUME Typing, NEW p \in Procs, NEW t \in Transactions,
           tx' = [tx EXCEPT ![p] = t],
           t.pc # "idle" => t.inv \in Invites,
           t.pc \in {"numbering", "numbered", "inserted"} => t.series \in Years,
           t.pc \in {"numbered", "inserted"} => t.number \in Numbers,
           p \in Signers => t.pc \in {"idle"} \cup SignerSteps,
           p \in Clerks => t.pc \in {"idle"} \cup ClerkSteps
    PROVE  tx' \in [Procs -> Transactions] /\ \A q \in Procs : TxShape(q)'
  BY DEF Typing, TypeOK, TxShape

LEMMA IdleTx == NoTx \in Transactions /\ NoTx.pc = "idle"
  BY DEF NoTx, Transactions

\* A process that gives up its transaction is idle.
LEMMA TxEnds ==
    ASSUME Typing, NEW p \in Procs, tx' = [tx EXCEPT ![p] = NoTx]
    PROVE  tx' \in [Procs -> Transactions] /\ \A q \in Procs : TxShape(q)'
  BY IdleTx, TxStep

LEMMA CounterIsNat ==
    ASSUME TypeOK, NEW i \in Invites, NEW y \in Years
    PROVE  counter[OrgOf[i]][y] \in Nat
  <1>1. OrgOf[i] \in Orgs
    BY ConstantFacts
  <1>2. counter[OrgOf[i]] \in [Years -> Nat]
    BY <1>1 DEF TypeOK
  <1> QED
    BY <1>2

LEMMA RowStatus ==
    ASSUME TypeOK, NEW i \in Invites, NEW st \in Statuses
    PROVE  [invite EXCEPT ![i].status = st] \in [Invites -> InviteRows]
  <1>1. [invite[i] EXCEPT !.status = st] \in InviteRows
    BY DEF TypeOK, InviteRows
  <1> QED
    BY <1>1 DEF TypeOK

LEMMA SignStepTyping ==
    ASSUME Typing, NEW s \in Signers, SignStep(s) \/ RollbackSign(s)
    PROVE  Typing'
  <1> USE ConstantFacts
  <1>0. s \in Procs /\ s \notin Clerks
    BY ProcsAssumption DEF Procs
  <1>1. CASE LockInvite(s)
    <2> DEFINE t == [tx[s] EXCEPT !.pc = "locked"]
    <2>1. t \in Transactions /\ t.pc = "locked" /\ t.inv \in Invites
      BY <1>0, <1>1 DEF LockInvite, Typing, TypeOK, TxShape, Transactions, SignerSteps
    <2>2. tx' = [tx EXCEPT ![s] = t]
      BY <1>1 DEF LockInvite
    <2> QED
      BY <1>0, <1>1, <2>1, <2>2, TxStep DEF LockInvite, Typing, TypeOK, SignerSteps
  <1>2. CASE RefuseSign(s)
    BY <1>0, <1>2, TxEnds DEF RefuseSign, Fail, Typing, TypeOK
  <1>3. CASE AnswerAlreadySigned(s)
    <2>1. tx[s].inv \in Invites
      BY <1>0, <1>3 DEF AnswerAlreadySigned, Typing, TxShape
    <2>2. reply' \in [Signers -> Replies]
      BY <1>3, <2>1 DEF AnswerAlreadySigned, Confirm, Typing, TypeOK, Replies, SubmissionRows
    <2> QED
      BY <1>0, <1>3, <2>2, TxEnds DEF AnswerAlreadySigned, Confirm, Typing, TypeOK
  <1>4. CASE ChooseSeries(s)
    <2> DEFINE t == [tx[s] EXCEPT !.pc = "numbering", !.series = YearOf[now]]
    <2>1. t \in Transactions /\ t.pc = "numbering" /\ t.inv \in Invites /\ t.series \in Years
      BY <1>0, <1>4 DEF ChooseSeries, Typing, TypeOK, TxShape, Transactions, SignerSteps
    <2>2. tx' = [tx EXCEPT ![s] = t]
      BY <1>0, <1>4 DEF ChooseSeries, Typing, TypeOK
    <2> QED
      BY <1>0, <1>4, <2>1, <2>2, TxStep DEF ChooseSeries, Typing, TypeOK, SignerSteps
  <1>5. CASE DrawNumber(s)
    <2> DEFINE n == <<YearOf[now], counter[OrgOf[tx[s].inv]][tx[s].series] + 1>>
               t == [tx[s] EXCEPT !.pc = "numbered", !.number = n]
    <2>1. tx[s].inv \in Invites /\ tx[s].series \in Years
      BY <1>0, <1>5 DEF DrawNumber, Typing, TxShape
    <2>2. n \in Numbers
      <3>1. YearOf[now] \in Years
        BY DEF Typing, TypeOK
      <3>2. counter[OrgOf[tx[s].inv]][tx[s].series] \in Nat
        BY <2>1, CounterIsNat DEF Typing
      <3> QED
        BY <3>1, <3>2 DEF Numbers
    <2>3. t \in Transactions /\ t.pc = "numbered" /\ t.inv \in Invites /\ t.series \in Years
           /\ t.number \in Numbers
      BY <1>0, <2>1, <2>2 DEF Typing, TypeOK, Transactions, SignerSteps
    <2>4. tx' = [tx EXCEPT ![s] = t]
      BY <1>0, <1>5 DEF DrawNumber, Typing, TypeOK
    <2> QED
      BY <1>0, <1>5, <2>3, <2>4, TxStep DEF DrawNumber, Typing, TypeOK, SignerSteps
  <1>6. CASE InsertSubmission(s)
    <2> DEFINE t == [tx[s] EXCEPT !.pc = "inserted"]
    <2>1. t \in Transactions /\ t.pc = "inserted" /\ t.inv \in Invites /\ t.series \in Years
           /\ t.number \in Numbers
      BY <1>0, <1>6 DEF InsertSubmission, Typing, TypeOK, TxShape, Transactions, SignerSteps
    <2>2. tx' = [tx EXCEPT ![s] = t]
      BY <1>6 DEF InsertSubmission
    <2> QED
      BY <1>0, <1>6, <2>1, <2>2, TxStep DEF InsertSubmission, Typing, TypeOK, SignerSteps
  <1>7. CASE RollbackSign(s) \/ RejectDuplicate(s)
    BY <1>0, <1>7, TxEnds DEF RollbackSign, RejectDuplicate, Fail, Typing, TypeOK
  <1>8. CASE CommitSign(s)
    <2>1. tx[s].inv \in Invites /\ tx[s].series \in Years /\ tx[s].number \in Numbers
      BY <1>0, <1>8 DEF CommitSign, Typing, TxShape
    <2>2. invite' \in [Invites -> InviteRows]
      BY <1>8, <2>1, RowStatus DEF CommitSign, Typing, TypeOK, Statuses
    <2>5. submission' \in [Invites -> SubmissionRows]
      <3>1. [origin |-> "public", number |-> tx[s].number, series |-> tx[s].series,
             deleted |-> FALSE] \in SubmissionRows
        BY <2>1 DEF SubmissionRows
      <3> QED
        BY <1>8, <2>1, <3>1 DEF CommitSign, Typing, TypeOK
    <2>3. counter' \in [Orgs -> [Years -> Nat]]
      BY <1>8, <2>1 DEF CommitSign, Typing, TypeOK
    <2>4. reply' \in [Signers -> Replies]
      BY <1>8, <2>1 DEF CommitSign, Confirm, Fail, Typing, TypeOK, Replies
    <2> QED
      BY <1>0, <1>8, <2>2, <2>3, <2>4, <2>5, TxEnds DEF CommitSign, Confirm, Fail, Typing, TypeOK
  <1> QED
    BY <1>1, <1>2, <1>3, <1>4, <1>5, <1>6, <1>7, <1>8 DEF SignStep

LEMMA OtherStepTyping ==
    ASSUME Typing, [Next]_vars, ~\E s \in Signers : SignStep(s) \/ RollbackSign(s)
    PROVE  Typing'
  <1> USE ConstantFacts
  <1>1. ASSUME NEW s \in Signers, NEW i \in Invites, StartSign(s, i) PROVE Typing'
    <2> DEFINE t == [NoTx EXCEPT !.pc = "begin", !.inv = i]
    <2>1. s \in Procs /\ s \notin Clerks
      BY ProcsAssumption DEF Procs
    <2>2. t \in Transactions /\ t.pc = "begin" /\ t.inv = i
      BY DEF NoTx, Transactions, SignerSteps
    <2>3. reply' \in [Signers -> Replies]
      BY <1>1 DEF StartSign, Typing, TypeOK, NoReply, Replies
    <2> QED
      BY <1>1, <2>1, <2>2, <2>3, TxStep DEF StartSign, Typing, TypeOK, SignerSteps
  <1>2. ASSUME NEW c \in Clerks, NEW i \in Invites, NEW n \in ManualNumbers, StartManual(c, i, n)
        PROVE  Typing'
    <2> DEFINE t == [NoTx EXCEPT !.pc = "insert", !.inv = i, !.number = n]
    <2>1. c \in Procs /\ c \notin Signers
      BY ProcsAssumption DEF Procs
    <2>2. t \in Transactions /\ t.pc = "insert" /\ t.inv = i
      BY DEF NoTx, Transactions, ClerkSteps
    <2> QED
      BY <1>2, <2>1, <2>2, TxStep DEF StartManual, Typing, TypeOK, ClerkSteps
  <1>3. ASSUME NEW c \in Clerks, ManualStep(c) \/ RollbackManual(c) PROVE Typing'
    <2>1. c \in Procs /\ c \notin Signers
      BY ProcsAssumption DEF Procs
    <2>2. CASE InsertManual(c)
      <3> DEFINE t == [tx[c] EXCEPT !.pc = "fk"]
      <3>1. t \in Transactions /\ t.pc = "fk" /\ t.inv \in Invites
        BY <2>1, <2>2 DEF InsertManual, Typing, TypeOK, TxShape, Transactions, ClerkSteps
      <3>2. tx' = [tx EXCEPT ![c] = t]
        BY <2>2 DEF InsertManual
      <3> QED
        BY <2>1, <2>2, <3>1, <3>2, TxStep DEF InsertManual, Typing, TypeOK, ClerkSteps
    <2>3. CASE RollbackManual(c) \/ RejectManualDuplicate(c)
      BY <2>1, <2>3, TxEnds DEF RollbackManual, RejectManualDuplicate, Typing, TypeOK
    <2>4. CASE CommitManual(c)
      <3>1. tx[c].inv \in Invites /\ tx[c].number \in Numbers \cup {NoNumber}
        BY <2>1, <2>4 DEF CommitManual, Typing, TypeOK, TxShape, Transactions
      <3>2. [origin |-> "manual", number |-> tx[c].number, series |-> 0, deleted |-> FALSE]
              \in SubmissionRows
        BY <3>1 DEF SubmissionRows
      <3>3. submission' \in [Invites -> SubmissionRows]
        BY <2>4, <3>1, <3>2 DEF CommitManual, Typing, TypeOK
      <3> QED
        BY <2>1, <2>4, <3>3, TxEnds DEF CommitManual, Typing, TypeOK
    <2> QED
      BY <1>3, <2>2, <2>3, <2>4 DEF ManualStep
  <1>4. ASSUME NEW i \in Invites, InviteStep(i) PROVE Typing'
    <2>1. ASSUME NEW st \in RequestStatuses, NEW e \in Expirations,
                 CreateInvite(i, st, e) \/ UpdateInvite(i, st, e)
          PROVE  invite' \in [Invites -> InviteRows]
      <3>1. \A row \in InviteRows : [row EXCEPT !.status = st, !.expires = e] \in InviteRows
        BY DEF InviteRows
      <3>2. [status |-> st, deleted |-> FALSE, expires |-> e] \in InviteRows
        BY DEF InviteRows
      <3>3. CASE CreateInvite(i, st, e)
        BY <3>2, <3>3 DEF CreateInvite, Typing, TypeOK
      <3>4. CASE UpdateInvite(i, st, e)
        <4>1. invite' = [invite EXCEPT ![i] = [invite[i] EXCEPT !.status = st, !.expires = e]]
          BY <3>4 DEF UpdateInvite, Typing, TypeOK
        <4> QED
          BY <3>1, <4>1 DEF Typing, TypeOK
      <3> QED
        BY <2>1, <3>3, <3>4
    <2>2. CASE SendInvite(i) \/ ViewInvite(i)
      <3>1. \E st \in InviteRows : st = invite[i]
        BY DEF Typing, TypeOK
      <3>2. invite[i].status \in Statuses
        BY <2>2, <3>1 DEF SendInvite, ViewInvite, Live, InviteRows
      <3>3. PICK st \in Statuses : invite' = [invite EXCEPT ![i].status = st]
        <4> DEFINE sent == IF invite[i].status = "signed" THEN invite[i].status ELSE "sent"
                   seen == IF invite[i].status \in {"draft", "sent"}
                           THEN "viewed" ELSE invite[i].status
        <4>1. sent \in Statuses /\ seen \in Statuses
          BY <3>2 DEF Statuses
        <4>2. invite' = [invite EXCEPT ![i].status = sent]
              \/ invite' = [invite EXCEPT ![i].status = seen]
          BY <2>2 DEF SendInvite, ViewInvite
        <4> QED
          BY <4>1, <4>2
      <3>4. invite' \in [Invites -> InviteRows]
        BY <3>3, RowStatus DEF Typing
      <3> QED
        BY <2>2, <3>4 DEF SendInvite, ViewInvite, Typing, TypeOK, TxShape
    <2>3. CASE DeleteInvite(i)
      <3>1. [invite[i] EXCEPT !.deleted = TRUE] \in InviteRows
        BY DEF Typing, TypeOK, InviteRows
      <3>2. invite' \in [Invites -> InviteRows]
        BY <2>3, <3>1 DEF DeleteInvite, Typing, TypeOK
      <3> QED
        BY <2>3, <3>2 DEF DeleteInvite, Typing, TypeOK, TxShape
    <2>4. CASE DeleteSubmission(i)
      <3>1. [submission[i] EXCEPT !.deleted = TRUE] \in SubmissionRows
        BY DEF Typing, TypeOK, SubmissionRows
      <3>2. submission' \in [Invites -> SubmissionRows]
        BY <2>4, <3>1 DEF DeleteSubmission, Typing, TypeOK
      <3> QED
        BY <2>4, <3>2 DEF DeleteSubmission, Typing, TypeOK, TxShape
    <2>5. ASSUME NEW st \in RequestStatuses, NEW e \in Expirations,
                 CreateInvite(i, st, e) \/ UpdateInvite(i, st, e)
          PROVE  Typing'
      BY <2>1, <2>5 DEF CreateInvite, UpdateInvite, Typing, TypeOK, TxShape
    <2> QED
      BY <1>4, <2>2, <2>3, <2>4, <2>5 DEF InviteStep
  <1>5. CASE Tick
    BY <1>5, ClockAssumption DEF Tick, Typing, TypeOK, TxShape, Times
  <1>6. CASE UNCHANGED vars
    BY <1>6 DEF vars, Typing, TypeOK, TxShape
  <1>7. CASE \E p \in Procs : BreakDeadlock(p)
    <2> PICK p \in Procs : BreakDeadlock(p)
      BY <1>7
    <2> QED
      BY <1>3 DEF BreakDeadlock
  <1> QED
    BY <1>1, <1>2, <1>3, <1>4, <1>5, <1>6, <1>7 DEF Next

LEMMA TypingHolds == Spec => []Typing
  <1>1. Init => Typing
    BY ConstantFacts, ClockAssumption DEF Init, Typing, TypeOK, TxShape, AbsentInvite,
       InviteRows, NoSubmission, SubmissionRows, NoTx, Transactions, NoReply, Replies,
       Times, Procs
  <1>2. Typing /\ [Next]_vars => Typing'
    BY SignStepTyping, OtherStepTyping
  <1> QED
    BY <1>1, <1>2, PTL DEF Spec

\* Every variable keeps its type.
THEOREM TypeCorrect == Spec => []TypeOK
  BY TypingHolds, PTL DEF Typing

-----------------------------------------------------------------------------
(* Isolation of the open transactions *)

\* What the holders of locks and pending rows of a state depend on.
LEMMA OneTxMoves ==
    ASSUME Typing, NEW p \in Procs, NEW t, tx' = [tx EXCEPT ![p] = t]
    PROVE  tx'[p] = t /\ \A q \in Procs \ {p} : tx'[q] = tx[q]
  BY DEF Typing, TypeOK

HoldingSteps == {"locked", "numbering", "numbered", "inserted"}

(***************************************************************************)
(* Process p moves to transaction t and the committed rows stay: isolation *)
(* survives if t itself is entitled to the locks and the row it holds.     *)
(***************************************************************************)
LEMMA MoveKeepsIsolation ==
    ASSUME Typing, TransactionsIsolated, NEW p \in Procs, NEW t,
           tx' = [tx EXCEPT ![p] = t], UNCHANGED <<invite, submission, counter, now>>,
           t.pc \in HoldingSteps =>
               /\ Live(t.inv) /\ invite[t.inv].status # "revoked"
               /\ \A q \in Procs \ {p} : ~HoldsInvite(q, t.inv),
           t.pc \in {"numbering", "numbered", "inserted"} => t.series <= YearOf[now],
           t.pc \in {"numbered", "inserted"} =>
               /\ \A q \in Procs \ {p} : ~HoldsCounter(q, OrgOf[t.inv], t.series)
               /\ t.number[1] >= t.series
               /\ t.number[2] = counter[OrgOf[t.inv]][t.series] + 1,
           t.pc \in {"inserted", "fk"} =>
               /\ submission[t.inv].origin = "none"
               /\ \A j \in Invites :
                     LiveSubmission(j) => ~SameNumber(t.inv, t.number, j, submission[j].number)
               /\ \A q \in Procs \ {p} :
                     HasPendingRow(q) =>
                         /\ tx[q].inv # t.inv
                         /\ ~SameNumber(t.inv, t.number, tx[q].inv, tx[q].number)
    PROVE  TransactionsIsolated'
  <1>0. tx'[p] = t /\ \A q \in Procs \ {p} : tx'[q] = tx[q]
    BY OneTxMoves
  <1>1. LocksExclusive'
    BY <1>0 DEF TransactionsIsolated, LocksExclusive, HoldsInvite, HoldsCounter, HoldingSteps
  <1>2. LockedInvitesOpen'
    BY <1>0 DEF TransactionsIsolated, LockedInvitesOpen, HoldsInvite, Live, HoldingSteps
  <1>3. DrawnNumbersNext'
    BY <1>0 DEF TransactionsIsolated, DrawnNumbersNext
  <1>4. PendingRowsUnique'
    <2> SUFFICES ASSUME NEW q \in Procs, HasPendingRow(q)'
                 PROVE  /\ ~CommittedConflict(q)'
                        /\ PendingConflicts(q)' = {}
      BY DEF PendingRowsUnique
    <2>1. ~CommittedConflict(q)'
      BY <1>0 DEF TransactionsIsolated, PendingRowsUnique, HasPendingRow, CommittedConflict,
         SameNumber, LiveSubmission
    <2>2. ASSUME NEW r \in Procs \ {q}, HasPendingRow(r)'
          PROVE  tx'[r].inv # tx'[q].inv /\ ~SameNumber(tx'[q].inv, tx'[q].number, tx'[r].inv, tx'[r].number)
      BY <1>0, <2>2 DEF TransactionsIsolated, PendingRowsUnique, HasPendingRow, PendingConflicts, SameNumber
    <2> QED
      BY <2>1, <2>2 DEF PendingConflicts
  <1> QED
    BY <1>1, <1>2, <1>3, <1>4 DEF TransactionsIsolated

\* A transaction that ends without a write, and one that only begins.
LEMMA IdleKeepsIsolation ==
    ASSUME Typing, TransactionsIsolated, NEW p \in Procs, NEW t,
           tx' = [tx EXCEPT ![p] = t], UNCHANGED <<invite, submission, counter, now>>,
           t.pc \in {"idle", "begin", "insert"}
    PROVE  TransactionsIsolated'
  BY MoveKeepsIsolation DEF HoldingSteps

LEMMA SignStepIsolation ==
    ASSUME Typing, TransactionsIsolated, NEW s \in Signers,
           SignStep(s) \/ RollbackSign(s), ~CommitSign(s)
    PROVE  TransactionsIsolated'
  <1> s \in Procs
    BY DEF Procs
  <1>0. tx[s] \in Transactions /\ TxShape(s)
    BY DEF Typing, TypeOK
  <1>1. CASE LockInvite(s)
    <2> DEFINE t == [tx[s] EXCEPT !.pc = "locked"]
    <2>1. /\ t.pc = "locked" /\ t.inv = tx[s].inv
          /\ tx' = [tx EXCEPT ![s] = t] /\ UNCHANGED <<invite, submission, counter, now>>
          /\ Live(tx[s].inv) /\ invite[tx[s].inv].status # "revoked"
          /\ \A q \in Procs \ {s} : ~HoldsInvite(q, tx[s].inv)
      BY <1>0, <1>1 DEF LockInvite, Refused, InviteUnlocked, Transactions
    <2> HIDE DEF t
    <2> QED
      BY <2>1, MoveKeepsIsolation
  <1>2. CASE RefuseSign(s) \/ AnswerAlreadySigned(s) \/ RollbackSign(s) \/ RejectDuplicate(s)
    BY <1>2, IdleTx, IdleKeepsIsolation
       DEF RefuseSign, AnswerAlreadySigned, RollbackSign, RejectDuplicate, Confirm, Fail
  <1>3. CASE ChooseSeries(s)
    <2> DEFINE t == [tx[s] EXCEPT !.pc = "numbering", !.series = YearOf[now]]
    <2>1. /\ t.pc = "numbering" /\ t.inv = tx[s].inv /\ t.series = YearOf[now]
          /\ tx' = [tx EXCEPT ![s] = t] /\ UNCHANGED <<invite, submission, counter, now>>
          /\ HoldsInvite(s, tx[s].inv) /\ tx[s].inv \in Invites
      BY <1>0, <1>3 DEF ChooseSeries, Transactions, HoldsInvite, TxShape, Typing, TypeOK
    <2>2. t.series <= YearOf[now]
      <3>1. YearOf[now] \in Nat
        BY ConstantFacts DEF Typing, TypeOK
      <3> QED
        BY <2>1, <3>1
    <2>3. /\ Live(tx[s].inv) /\ invite[tx[s].inv].status # "revoked"
          /\ \A q \in Procs \ {s} : ~HoldsInvite(q, tx[s].inv)
      BY <2>1 DEF TransactionsIsolated, LocksExclusive, LockedInvitesOpen
    <2> HIDE DEF t
    <2> QED
      BY <2>1, <2>2, <2>3, MoveKeepsIsolation
  <1>4. CASE DrawNumber(s)
    <2> DEFINE n == <<YearOf[now], counter[OrgOf[tx[s].inv]][tx[s].series] + 1>>
               t == [tx[s] EXCEPT !.pc = "numbered", !.number = n]
    <2>1. /\ t.pc = "numbered" /\ t.inv = tx[s].inv /\ t.series = tx[s].series /\ t.number = n
          /\ tx' = [tx EXCEPT ![s] = t] /\ UNCHANGED <<invite, submission, counter, now>>
          /\ HoldsInvite(s, tx[s].inv) /\ tx[s].inv \in Invites /\ tx[s].pc = "numbering"
          /\ \A q \in Procs \ {s} : ~HoldsCounter(q, OrgOf[tx[s].inv], tx[s].series)
      BY <1>0, <1>4 DEF DrawNumber, Transactions, HoldsInvite, TxShape, Typing, TypeOK
    <2>2. YearOf[now] \in Nat /\ tx[s].series \in Nat
      BY <1>0, <2>1, ConstantFacts DEF Typing, TypeOK, TxShape
    <2>3. /\ Live(tx[s].inv) /\ invite[tx[s].inv].status # "revoked"
          /\ \A q \in Procs \ {s} : ~HoldsInvite(q, tx[s].inv)
      BY <2>1 DEF TransactionsIsolated, LocksExclusive, LockedInvitesOpen
    <2>4. tx[s].series <= YearOf[now]
      BY <2>1 DEF TransactionsIsolated, DrawnNumbersNext
    <2>5. n[1] = YearOf[now] /\ n[2] = counter[OrgOf[tx[s].inv]][tx[s].series] + 1
      OBVIOUS
    <2> HIDE DEF t, n
    <2> QED
      BY <2>1, <2>2, <2>3, <2>4, <2>5, MoveKeepsIsolation
  <1>5. CASE InsertSubmission(s)
    <2> DEFINE t == [tx[s] EXCEPT !.pc = "inserted"]
    <2>1. /\ t.pc = "inserted" /\ t.inv = tx[s].inv /\ t.series = tx[s].series
          /\ t.number = tx[s].number
          /\ tx' = [tx EXCEPT ![s] = t] /\ UNCHANGED <<invite, submission, counter, now>>
          /\ HoldsInvite(s, tx[s].inv) /\ tx[s].inv \in Invites /\ tx[s].pc = "numbered"
          /\ tx[s].series \in Years /\ OrgOf[tx[s].inv] \in Orgs
      BY <1>0, <1>5, ConstantFacts DEF InsertSubmission, Transactions, HoldsInvite, TxShape
    <2>2. /\ Live(tx[s].inv) /\ invite[tx[s].inv].status # "revoked"
          /\ \A q \in Procs \ {s} : ~HoldsInvite(q, tx[s].inv)
      BY <2>1 DEF TransactionsIsolated, LocksExclusive, LockedInvitesOpen
    <2>3. \A q \in Procs \ {s} : ~HoldsCounter(q, OrgOf[tx[s].inv], tx[s].series)
      <3>1. HoldsCounter(s, OrgOf[tx[s].inv], tx[s].series)
        BY <2>1 DEF HoldsCounter
      <3> QED
        BY <2>1, <3>1 DEF TransactionsIsolated, LocksExclusive
    <2>4. /\ tx[s].series <= YearOf[now] /\ tx[s].number[1] >= tx[s].series
          /\ tx[s].number[2] = counter[OrgOf[tx[s].inv]][tx[s].series] + 1
      BY <2>1 DEF TransactionsIsolated, DrawnNumbersNext
    <2>5. /\ submission[tx[s].inv].origin = "none"
          /\ \A j \in Invites : LiveSubmission(j) =>
                ~SameNumber(tx[s].inv, tx[s].number, j, submission[j].number)
          /\ \A q \in Procs \ {s} : HasPendingRow(q) =>
                /\ tx[q].inv # tx[s].inv
                /\ ~SameNumber(tx[s].inv, tx[s].number, tx[q].inv, tx[q].number)
      BY <1>5 DEF InsertSubmission, CommittedConflict, PendingConflicts
    <2> HIDE DEF t
    <2> QED
      BY <2>1, <2>2, <2>3, <2>4, <2>5, MoveKeepsIsolation
  <1> QED
    BY <1>1, <1>2, <1>3, <1>4, <1>5 DEF SignStep

(***************************************************************************)
(* Process p, whose row is pending, commits: the others keep what they     *)
(* hold, for none of it is the invite, the counter or the keys of p.       *)
(***************************************************************************)
LEMMA CommitKeepsPending ==
    ASSUME Typing, TransactionsIsolated, NEW p \in Procs, HasPendingRow(p),
           tx' = [tx EXCEPT ![p] = NoTx], NEW row,
           submission' = [submission EXCEPT ![tx[p].inv] = row],
           row.number = tx[p].number
    PROVE  PendingRowsUnique'
  <1> SUFFICES ASSUME NEW q \in Procs, HasPendingRow(q)'
               PROVE  ~CommittedConflict(q)' /\ PendingConflicts(q)' = {}
    BY DEF PendingRowsUnique
  <1>0. tx'[p] = NoTx /\ \A r \in Procs \ {p} : tx'[r] = tx[r]
    BY OneTxMoves
  <1>1. q # p /\ tx'[q] = tx[q] /\ HasPendingRow(q)
    BY <1>0, IdleTx DEF HasPendingRow
  <1>2. ~CommittedConflict(q) /\ PendingConflicts(q) = {}
    BY <1>1 DEF TransactionsIsolated, PendingRowsUnique
  <1>3. tx[q].inv # tx[p].inv /\ ~SameNumber(tx[q].inv, tx[q].number, tx[p].inv, tx[p].number)
    BY <1>1, <1>2 DEF PendingConflicts
  <1>4. tx[p].inv \in Invites /\ tx[q].inv \in Invites
    BY <1>1 DEF HasPendingRow, Typing, TxShape
  <1>5. submission'[tx[p].inv] = row
         /\ \A j \in Invites \ {tx[p].inv} : submission'[j] = submission[j]
    BY <1>4 DEF Typing, TypeOK
  <1>6. ~CommittedConflict(q)'
    BY <1>1, <1>2, <1>3, <1>4, <1>5 DEF CommittedConflict, LiveSubmission, SameNumber
  <1>7. PendingConflicts(q)' = {}
    <2> SUFFICES ASSUME NEW r \in PendingConflicts(q)' PROVE FALSE
      OBVIOUS
    <2>1. r \in Procs \ {q} /\ r # p /\ tx'[r] = tx[r]
      BY <1>0, IdleTx DEF PendingConflicts, HasPendingRow
    <2>2. r \in PendingConflicts(q)
      BY <1>1, <2>1 DEF PendingConflicts, HasPendingRow, SameNumber
    <2> QED
      BY <1>2, <2>2
  <1> QED
    BY <1>6, <1>7

LEMMA CommitSignIsolation ==
    ASSUME Typing, TransactionsIsolated, NEW s \in Signers, CommitSign(s)
    PROVE  TransactionsIsolated'
  <1> DEFINE i == tx[s].inv
             o == OrgOf[i]
             y == tx[s].series
  <1>1. s \in Procs /\ tx[s].pc = "inserted" /\ i \in Invites /\ y \in Years /\ o \in Orgs
    BY ConstantFacts DEF CommitSign, Typing, TxShape, Procs
  <1>2. tx' = [tx EXCEPT ![s] = NoTx]
    BY DEF CommitSign, Confirm, Fail
  <1>3. tx'[s] = NoTx /\ \A q \in Procs \ {s} : tx'[q] = tx[q]
    BY <1>1, <1>2, OneTxMoves
  <1>4. /\ \A j \in Invites \ {i} : invite'[j] = invite[j]
        /\ now' = now
    BY <1>1 DEF CommitSign, Typing, TypeOK
  <1>5. \A p \in Orgs, z \in Years : p # o \/ z # y => counter'[p][z] = counter[p][z]
    BY <1>1 DEF CommitSign, Typing, TypeOK
  <1>6. LocksExclusive'
    BY <1>3, IdleTx DEF TransactionsIsolated, LocksExclusive, HoldsInvite, HoldsCounter
  <1>7. LockedInvitesOpen'
    <2> SUFFICES ASSUME NEW q \in Procs, NEW j \in Invites, HoldsInvite(q, j)'
                 PROVE  Live(j)' /\ invite'[j].status # "revoked"
      BY DEF LockedInvitesOpen
    <2>1. q # s /\ HoldsInvite(q, j)
      BY <1>3, IdleTx DEF HoldsInvite
    <2>2. HoldsInvite(s, i)
      BY <1>1 DEF HoldsInvite
    <2>3. j # i
      BY <1>1, <2>1, <2>2 DEF TransactionsIsolated, LocksExclusive
    <2> QED
      BY <1>4, <2>1, <2>3 DEF TransactionsIsolated, LockedInvitesOpen, Live
  <1>8. DrawnNumbersNext'
    <2> SUFFICES ASSUME NEW q \in Procs, tx'[q].pc \in {"numbering", "numbered", "inserted"}
                 PROVE  /\ tx'[q].series <= YearOf[now']
                        /\ tx'[q].pc \in {"numbered", "inserted"} =>
                              /\ tx'[q].number[1] >= tx'[q].series
                              /\ tx'[q].number[2] = counter'[OrgOf[tx'[q].inv]][tx'[q].series] + 1
      BY DEF DrawnNumbersNext
    <2>1. q # s /\ tx'[q] = tx[q]
      BY <1>3, IdleTx
    <2>2. tx[q].series <= YearOf[now'] /\ OrgOf[tx[q].inv] \in Orgs /\ tx[q].series \in Years
      BY <1>4, <2>1, ConstantFacts DEF TransactionsIsolated, DrawnNumbersNext, Typing, TxShape
    <2>3. ASSUME tx[q].pc \in {"numbered", "inserted"}
          PROVE  OrgOf[tx[q].inv] # o \/ tx[q].series # y
      <3>1. HoldsCounter(q, OrgOf[tx[q].inv], tx[q].series) /\ HoldsCounter(s, o, y)
        BY <1>1, <2>3 DEF HoldsCounter
      <3> QED
        BY <1>1, <2>1, <2>2, <3>1 DEF TransactionsIsolated, LocksExclusive
    <2> QED
      BY <1>5, <2>1, <2>2, <2>3 DEF TransactionsIsolated, DrawnNumbersNext
  <1>9. PendingRowsUnique'
    <2> DEFINE row == [origin |-> "public", number |-> tx[s].number, series |-> y,
                       deleted |-> FALSE]
    <2>1. HasPendingRow(s) /\ row.number = tx[s].number
      BY <1>1 DEF HasPendingRow
    <2>2. submission' = [submission EXCEPT ![i] = row]
      BY DEF CommitSign
    <2> HIDE DEF row
    <2> QED
      BY <1>1, <1>2, <2>1, <2>2, CommitKeepsPending
  <1> QED
    BY <1>6, <1>7, <1>8, <1>9 DEF TransactionsIsolated

LEMMA ManualIsolation ==
    ASSUME Typing, TransactionsIsolated, NEW c \in Clerks, ManualStep(c) \/ RollbackManual(c)
    PROVE  TransactionsIsolated'
  <1>0. c \in Procs /\ tx[c] \in Transactions /\ TxShape(c)
    BY DEF Procs, Typing, TypeOK
  <1>1. CASE InsertManual(c)
    <2> DEFINE t == [tx[c] EXCEPT !.pc = "fk"]
    <2>1. /\ t.pc = "fk" /\ t.inv = tx[c].inv /\ t.number = tx[c].number
          /\ tx' = [tx EXCEPT ![c] = t] /\ UNCHANGED <<invite, submission, counter, now>>
      BY <1>0, <1>1 DEF InsertManual, Transactions
    <2>2. /\ submission[tx[c].inv].origin = "none"
          /\ \A j \in Invites : LiveSubmission(j) =>
                ~SameNumber(tx[c].inv, tx[c].number, j, submission[j].number)
          /\ \A q \in Procs \ {c} : HasPendingRow(q) =>
                /\ tx[q].inv # tx[c].inv
                /\ ~SameNumber(tx[c].inv, tx[c].number, tx[q].inv, tx[q].number)
      BY <1>1 DEF InsertManual, CommittedConflict, PendingConflicts
    <2> HIDE DEF t
    <2> QED
      BY <1>0, <2>1, <2>2, MoveKeepsIsolation DEF HoldingSteps
  <1>2. CASE RejectManualDuplicate(c) \/ RollbackManual(c)
    BY <1>0, <1>2, IdleTx, IdleKeepsIsolation DEF RejectManualDuplicate, RollbackManual
  <1>3. CASE CommitManual(c)
    <2>1. tx' = [tx EXCEPT ![c] = NoTx] /\ UNCHANGED <<invite, counter, now>>
      BY <1>3 DEF CommitManual
    <2>2. tx'[c] = NoTx /\ \A q \in Procs \ {c} : tx'[q] = tx[q]
      BY <1>0, <2>1, OneTxMoves
    <2>3. LocksExclusive' /\ LockedInvitesOpen' /\ DrawnNumbersNext'
      BY <2>1, <2>2, IdleTx DEF TransactionsIsolated, LocksExclusive, LockedInvitesOpen,
         DrawnNumbersNext, HoldsInvite, HoldsCounter, Live
    <2>4. PendingRowsUnique'
      <3> DEFINE row == [origin |-> "manual", number |-> tx[c].number, series |-> 0,
                         deleted |-> FALSE]
      <3>1. HasPendingRow(c) /\ row.number = tx[c].number
        BY <1>3 DEF HasPendingRow, CommitManual
      <3>2. submission' = [submission EXCEPT ![tx[c].inv] = row]
        BY <1>3 DEF CommitManual
      <3> HIDE DEF row
      <3> QED
        BY <1>0, <2>1, <3>1, <3>2, CommitKeepsPending
    <2> QED
      BY <2>3, <2>4 DEF TransactionsIsolated
  <1> QED
    BY <1>1, <1>2, <1>3 DEF ManualStep

\* An invite that no transaction holds may change in any way.
LEMMA UnlockedInviteChanges ==
    ASSUME TransactionsIsolated, NEW i \in Invites, InviteUnlocked(i),
           \A j \in Invites \ {i} : invite'[j] = invite[j],
           UNCHANGED <<submission, counter, tx, now>>
    PROVE  TransactionsIsolated'
  <1>1. LocksExclusive' /\ DrawnNumbersNext' /\ PendingRowsUnique'
    BY DEF TransactionsIsolated, LocksExclusive, DrawnNumbersNext, PendingRowsUnique, HoldsInvite,
       HoldsCounter, HasPendingRow, CommittedConflict, PendingConflicts, LiveSubmission, SameNumber
  <1>2. LockedInvitesOpen'
    BY DEF TransactionsIsolated, LockedInvitesOpen, InviteUnlocked, HoldsInvite, Live
  <1> QED
    BY <1>1, <1>2 DEF TransactionsIsolated

LEMMA InviteStepIsolation ==
    ASSUME Typing, TransactionsIsolated, NEW i \in Invites, InviteStep(i)
    PROVE  TransactionsIsolated'
  <1>1. ASSUME NEW st \in RequestStatuses, NEW e \in Expirations, CreateInvite(i, st, e)
        PROVE  TransactionsIsolated'
    <2>1. ~Live(i)
      BY <1>1 DEF CreateInvite, Live, AbsentInvite
    <2>2. InviteUnlocked(i)
      BY <2>1 DEF InviteUnlocked, TransactionsIsolated, LockedInvitesOpen
    <2> QED
      BY <1>1, <2>2, UnlockedInviteChanges DEF CreateInvite, Typing, TypeOK
  <1>2. ASSUME NEW st \in RequestStatuses, NEW e \in Expirations, UpdateInvite(i, st, e)
        PROVE  TransactionsIsolated'
    BY <1>2, UnlockedInviteChanges DEF UpdateInvite, Typing, TypeOK
  <1>3. CASE SendInvite(i)
    BY <1>3, UnlockedInviteChanges DEF SendInvite, Typing, TypeOK
  <1>4. CASE ViewInvite(i)
    BY <1>4, UnlockedInviteChanges DEF ViewInvite, Typing, TypeOK
  <1>5. CASE DeleteInvite(i)
    BY <1>5, UnlockedInviteChanges DEF DeleteInvite, Typing, TypeOK
  <1>6. CASE DeleteSubmission(i)
    <2>1. \A j \in Invites : /\ submission'[j].origin = submission[j].origin
                             /\ submission'[j].number = submission[j].number
                             /\ LiveSubmission(j)' => LiveSubmission(j)
      BY <1>6 DEF DeleteSubmission, Typing, TypeOK, SubmissionRows, LiveSubmission
    <2>2. UNCHANGED <<invite, counter, tx, now>>
      BY <1>6 DEF DeleteSubmission
    <2>3. LocksExclusive' /\ LockedInvitesOpen' /\ DrawnNumbersNext'
      BY <2>2 DEF TransactionsIsolated, LocksExclusive, LockedInvitesOpen, DrawnNumbersNext,
         HoldsInvite, HoldsCounter, Live
    <2>4. PendingRowsUnique'
      <3> SUFFICES ASSUME NEW p \in Procs, HasPendingRow(p)'
                   PROVE  ~CommittedConflict(p)' /\ PendingConflicts(p)' = {}
        BY DEF PendingRowsUnique
      <3>1. HasPendingRow(p) /\ ~CommittedConflict(p) /\ PendingConflicts(p) = {}
        BY <2>2 DEF HasPendingRow, TransactionsIsolated, PendingRowsUnique
      <3>2. tx[p].inv \in Invites
        BY <3>1 DEF HasPendingRow, Typing, TxShape
      <3>3. ~CommittedConflict(p)'
        BY <2>1, <2>2, <3>1, <3>2 DEF CommittedConflict, SameNumber
      <3>4. PendingConflicts(p)' = PendingConflicts(p)
        BY <2>2 DEF PendingConflicts, HasPendingRow, SameNumber
      <3> QED
        BY <3>1, <3>3, <3>4
    <2> QED
      BY <2>3, <2>4 DEF TransactionsIsolated
  <1> QED
    BY <1>1, <1>2, <1>3, <1>4, <1>5, <1>6 DEF InviteStep

LEMMA StepIsolation ==
    ASSUME Typing, TransactionsIsolated, [Next]_vars
    PROVE  TransactionsIsolated'
  <1>1. ASSUME NEW s \in Signers, NEW i \in Invites, StartSign(s, i) PROVE TransactionsIsolated'
    <2> DEFINE t == [NoTx EXCEPT !.pc = "begin", !.inv = i]
    <2>1. s \in Procs /\ t.pc = "begin" /\ tx' = [tx EXCEPT ![s] = t]
          /\ UNCHANGED <<invite, submission, counter, now>>
      BY <1>1 DEF StartSign, Procs, NoTx
    <2> HIDE DEF t
    <2> QED
      BY <2>1, IdleKeepsIsolation
  <1>2. ASSUME NEW c \in Clerks, NEW i \in Invites, NEW n \in ManualNumbers, StartManual(c, i, n)
        PROVE  TransactionsIsolated'
    <2> DEFINE t == [NoTx EXCEPT !.pc = "insert", !.inv = i, !.number = n]
    <2>1. c \in Procs /\ t.pc = "insert" /\ tx' = [tx EXCEPT ![c] = t]
          /\ UNCHANGED <<invite, submission, counter, now>>
      BY <1>2 DEF StartManual, Procs, NoTx
    <2> HIDE DEF t
    <2> QED
      BY <2>1, IdleKeepsIsolation
  <1>3. ASSUME NEW s \in Signers, SignStep(s) \/ RollbackSign(s) PROVE TransactionsIsolated'
    BY <1>3, SignStepIsolation, CommitSignIsolation
  <1>4. ASSUME NEW c \in Clerks, ManualStep(c) \/ RollbackManual(c) PROVE TransactionsIsolated'
    BY <1>4, ManualIsolation
  <1>5. ASSUME NEW p \in Procs, BreakDeadlock(p) PROVE TransactionsIsolated'
    BY <1>3, <1>4, <1>5 DEF BreakDeadlock
  <1>6. ASSUME NEW i \in Invites, InviteStep(i) PROVE TransactionsIsolated'
    BY <1>6, InviteStepIsolation
  <1>7. CASE Tick
    <2>1. now \in Times /\ now' \in Times /\ now <= now' /\ UNCHANGED <<invite, submission, counter, tx>>
      BY <1>7, ClockAssumption DEF Tick, Typing, TypeOK, Times
    <2>2. YearOf[now] <= YearOf[now'] /\ YearOf[now] \in Nat /\ YearOf[now'] \in Nat
      BY <2>1, ConstantFacts, ClockAssumption
    <2>3. LocksExclusive' /\ LockedInvitesOpen' /\ PendingRowsUnique'
      BY <2>1 DEF TransactionsIsolated, LocksExclusive, LockedInvitesOpen, PendingRowsUnique,
         HoldsInvite, HoldsCounter, Live, HasPendingRow, CommittedConflict, PendingConflicts,
         LiveSubmission, SameNumber
    <2>4. DrawnNumbersNext'
      <3> SUFFICES ASSUME NEW p \in Procs, tx[p].pc \in {"numbering", "numbered", "inserted"}
                   PROVE  tx[p].series <= YearOf[now']
        BY <2>1 DEF DrawnNumbersNext, TransactionsIsolated
      <3>1. tx[p].series \in Nat
        BY ConstantFacts DEF Typing, TxShape
      <3>2. tx[p].series <= YearOf[now]
        BY DEF TransactionsIsolated, DrawnNumbersNext
      <3> QED
        BY <2>2, <3>1, <3>2
    <2> QED
      BY <2>3, <2>4 DEF TransactionsIsolated
  <1>8. CASE UNCHANGED vars
    BY <1>8 DEF vars, TransactionsIsolated, LocksExclusive, LockedInvitesOpen, DrawnNumbersNext,
       PendingRowsUnique, HoldsInvite, HoldsCounter, Live, HasPendingRow, CommittedConflict,
       PendingConflicts, LiveSubmission, SameNumber
  <1> QED
    BY <1>1, <1>2, <1>3, <1>4, <1>5, <1>6, <1>7, <1>8 DEF Next

\* What the locks and indexes give an open transaction holds in every state.
THEOREM Isolation == Spec => []TransactionsIsolated
  <1>1. Init => TransactionsIsolated
    BY DEF Init, NoTx, TransactionsIsolated, LocksExclusive, LockedInvitesOpen, DrawnNumbersNext,
       PendingRowsUnique, HoldsInvite, HoldsCounter, HasPendingRow
  <1>2. Typing /\ TransactionsIsolated /\ [Next]_vars => TransactionsIsolated'
    BY StepIsolation
  <1> QED
    BY <1>1, <1>2, TypingHolds, PTL DEF Spec

-----------------------------------------------------------------------------
(***************************************************************************)
(* What the isolation of the open transactions buys: the submissions and   *)
(* the counters stay correct and implement ContractRegister.               *)
(***************************************************************************)

\* Only three statements of the program write a submission or a counter.
LEMMA Writers ==
    ASSUME [Next]_vars
    PROVE  \/ UNCHANGED <<submission, counter>>
           \/ \E s \in Signers : CommitSign(s)
           \/ \E c \in Clerks : CommitManual(c)
           \/ \E i \in Invites : DeleteSubmission(i)
  <1>1. CASE UNCHANGED vars
    BY <1>1 DEF vars
  <1>2. ASSUME NEW s \in Signers, SignStep(s) \/ RollbackSign(s), ~CommitSign(s)
        PROVE  UNCHANGED <<submission, counter>>
    BY <1>2 DEF SignStep, LockInvite, RefuseSign, AnswerAlreadySigned, ChooseSeries, DrawNumber,
       InsertSubmission, RejectDuplicate, RollbackSign
  <1>3. ASSUME NEW c \in Clerks, ManualStep(c) \/ RollbackManual(c), ~CommitManual(c)
        PROVE  UNCHANGED <<submission, counter>>
    BY <1>3 DEF ManualStep, InsertManual, RejectManualDuplicate, RollbackManual
  <1>4. ASSUME NEW i \in Invites, InviteStep(i), ~DeleteSubmission(i)
        PROVE  UNCHANGED <<submission, counter>>
    BY <1>4 DEF InviteStep, CreateInvite, UpdateInvite, SendInvite, ViewInvite, DeleteInvite
  <1>5. ASSUME NEW p \in Procs, BreakDeadlock(p) PROVE UNCHANGED <<submission, counter>>
    BY <1>5 DEF BreakDeadlock, RollbackSign, RollbackManual
  <1>6. ASSUME NEW s \in Signers, NEW i \in Invites, StartSign(s, i)
        PROVE  UNCHANGED <<submission, counter>>
    BY <1>6 DEF StartSign
  <1>7. ASSUME NEW c \in Clerks, NEW i \in Invites, NEW n \in ManualNumbers, StartManual(c, i, n)
        PROVE  UNCHANGED <<submission, counter>>
    BY <1>7 DEF StartManual
  <1>8. CASE Tick
    BY <1>8 DEF Tick
  <1> QED
    BY <1>1, <1>2, <1>3, <1>4, <1>5, <1>6, <1>7, <1>8 DEF Next

\* A row that is not there has no number, and a clerk's request carries one of
\* the numbers a clerk may enter.
Rows ==
    /\ \A i \in Invites : submission[i].origin = "none" => submission[i] = NoSubmission
    /\ \A c \in Clerks : tx[c].pc # "idle" => tx[c].number \in ManualNumbers

LEMMA CommitSignWrites ==
    ASSUME Typing, TransactionsIsolated, Rows, NEW s \in Signers, CommitSign(s)
    PROVE  LET i == tx[s].inv
               o == OrgOf[i]
               y == tx[s].series
           IN  /\ i \in Invites /\ o \in Orgs /\ y \in Years
               /\ Live(i) /\ invite[i].status # "revoked"
               /\ submission[i] = NoSubmission
               /\ tx[s].number \in Numbers /\ tx[s].number[1] >= y
               /\ tx[s].number[2] = counter[o][y] + 1
               /\ \A j \in Invites : LiveSubmission(j) =>
                     ~SameNumber(i, tx[s].number, j, submission[j].number)
               /\ submission' = [submission EXCEPT ![i] =
                      [origin |-> "public", number |-> tx[s].number, series |-> y,
                       deleted |-> FALSE]]
               /\ counter' = [counter EXCEPT ![o][y] = counter[o][y] + 1]
  <1>1. s \in Procs /\ tx[s].pc = "inserted" /\ tx[s].inv \in Invites /\ tx[s].series \in Years
         /\ OrgOf[tx[s].inv] \in Orgs /\ tx[s].number \in Numbers
    BY ConstantFacts DEF CommitSign, Typing, TxShape, Procs
  <1>2. HoldsInvite(s, tx[s].inv) /\ HasPendingRow(s)
    BY <1>1 DEF HoldsInvite, HasPendingRow
  <1>3. Live(tx[s].inv) /\ invite[tx[s].inv].status # "revoked"
    BY <1>1, <1>2 DEF TransactionsIsolated, LockedInvitesOpen
  <1>4. /\ tx[s].number[1] >= tx[s].series
        /\ tx[s].number[2] = counter[OrgOf[tx[s].inv]][tx[s].series] + 1
    BY <1>1 DEF TransactionsIsolated, DrawnNumbersNext
  <1>5. ~CommittedConflict(s)
    BY <1>1, <1>2 DEF TransactionsIsolated, PendingRowsUnique
  <1>6. submission[tx[s].inv] = NoSubmission
    BY <1>1, <1>5 DEF CommittedConflict, Rows
  <1>7. /\ submission' = [submission EXCEPT ![tx[s].inv] =
               [origin |-> "public", number |-> tx[s].number, series |-> tx[s].series,
                deleted |-> FALSE]]
        /\ counter' = [counter EXCEPT ![OrgOf[tx[s].inv]][tx[s].series] =
               counter[OrgOf[tx[s].inv]][tx[s].series] + 1]
    BY <1>1 DEF CommitSign, Typing, TypeOK
  <1> QED
    BY <1>1, <1>3, <1>4, <1>5, <1>6, <1>7 DEF CommittedConflict

LEMMA CommitManualWrites ==
    ASSUME Typing, TransactionsIsolated, Rows, NEW c \in Clerks, CommitManual(c)
    PROVE  LET i == tx[c].inv
           IN  /\ i \in Invites /\ tx[c].number \in ManualNumbers
               /\ submission[i] = NoSubmission
               /\ \A j \in Invites : LiveSubmission(j) =>
                     ~SameNumber(i, tx[c].number, j, submission[j].number)
               /\ submission' = [submission EXCEPT ![i] =
                      [origin |-> "manual", number |-> tx[c].number, series |-> 0,
                       deleted |-> FALSE]]
               /\ UNCHANGED <<invite, counter>>
  <1>1. c \in Procs /\ tx[c].pc = "fk" /\ tx[c].inv \in Invites
    BY DEF CommitManual, Typing, TxShape, Procs
  <1>2. ~CommittedConflict(c)
    BY <1>1 DEF TransactionsIsolated, PendingRowsUnique, HasPendingRow
  <1>3. submission[tx[c].inv] = NoSubmission /\ tx[c].number \in ManualNumbers
    BY <1>1, <1>2 DEF CommittedConflict, Rows
  <1> QED
    BY <1>1, <1>2, <1>3 DEF CommitManual, CommittedConflict

\* The record that a request writes, and all the others stay.
LEMMA RowWritten ==
    ASSUME Typing, NEW i \in Invites, NEW row, submission' = [submission EXCEPT ![i] = row]
    PROVE  submission'[i] = row /\ \A j \in Invites \ {i} : submission'[j] = submission[j]
  BY DEF Typing, TypeOK

LEMMA RowsKept ==
    ASSUME Typing, TransactionsIsolated, Rows, [Next]_vars
    PROVE  Rows'
  <1> DEFINE Recorded == \A i \in Invites : submission[i].origin = "none"
                                              => submission[i] = NoSubmission
             Entering == \A c \in Clerks : tx[c].pc # "idle" => tx[c].number \in ManualNumbers
  <1>1. Recorded'
    <2>1. CASE UNCHANGED <<submission, counter>>
      BY <2>1 DEF Rows
    <2>2. ASSUME NEW s \in Signers, CommitSign(s) PROVE Recorded'
      <3> DEFINE row == [origin |-> "public", number |-> tx[s].number,
                         series |-> tx[s].series, deleted |-> FALSE]
      <3>1. row.origin = "public" /\ tx[s].inv \in Invites
            /\ submission' = [submission EXCEPT ![tx[s].inv] = row]
        BY <2>2, CommitSignWrites
      <3> HIDE DEF row
      <3> QED
        BY <3>1, RowWritten DEF Rows
    <2>3. ASSUME NEW c \in Clerks, CommitManual(c) PROVE Recorded'
      <3> DEFINE row == [origin |-> "manual", number |-> tx[c].number, series |-> 0,
                         deleted |-> FALSE]
      <3>1. row.origin = "manual" /\ tx[c].inv \in Invites
            /\ submission' = [submission EXCEPT ![tx[c].inv] = row]
        BY <2>3, CommitManualWrites
      <3> HIDE DEF row
      <3> QED
        BY <3>1, RowWritten DEF Rows
    <2>4. ASSUME NEW i \in Invites, DeleteSubmission(i) PROVE Recorded'
      BY <2>4 DEF Rows, DeleteSubmission, LiveSubmission, Typing, TypeOK, SubmissionRows
    <2> QED
      BY <2>1, <2>2, <2>3, <2>4, Writers
  <1>2. Entering'
    <2> SUFFICES ASSUME NEW c \in Clerks, tx'[c].pc # "idle" PROVE tx'[c].number \in ManualNumbers
      OBVIOUS
    <2>1. c \in Procs /\ c \notin Signers /\ tx[c] \in Transactions
      BY ProcsAssumption DEF Procs, Typing, TypeOK
    <2>2. CASE tx'[c] = tx[c]
      BY <2>2 DEF Rows
    <2>3. ASSUME NEW d \in Clerks, NEW i \in Invites, NEW n \in ManualNumbers, StartManual(d, i, n)
          PROVE  tx'[c].number \in ManualNumbers
      BY <2>1, <2>2, <2>3 DEF StartManual, NoTx, Typing, TypeOK
    <2>4. ASSUME NEW d \in Clerks, ManualStep(d) \/ RollbackManual(d)
          PROVE  tx'[c].number \in ManualNumbers
      <3>1. CASE InsertManual(d)
        <4>1. tx'[c].number = tx[c].number /\ tx[c].pc # "idle"
          BY <2>1, <3>1 DEF InsertManual, Typing, TypeOK, Transactions
        <4> QED
          BY <4>1 DEF Rows
      <3>2. CASE RollbackManual(d) \/ RejectManualDuplicate(d) \/ CommitManual(d)
        BY <2>1, <2>2, <3>2, IdleTx
           DEF RollbackManual, RejectManualDuplicate, CommitManual, Typing, TypeOK
      <3> QED
        BY <2>4, <3>1, <3>2 DEF ManualStep
    <2>5. ASSUME NEW s \in Signers, SignStep(s) \/ RollbackSign(s) PROVE tx'[c] = tx[c]
      BY <2>1, <2>5 DEF SignStep, LockInvite, RefuseSign, AnswerAlreadySigned, ChooseSeries,
         DrawNumber, InsertSubmission, RejectDuplicate, CommitSign, RollbackSign, Confirm, Fail,
         Typing, TypeOK
    <2>6. ASSUME NEW s \in Signers, NEW i \in Invites, StartSign(s, i) PROVE tx'[c] = tx[c]
      BY <2>1, <2>6 DEF StartSign, Typing, TypeOK
    <2>7. ASSUME NEW p \in Procs, BreakDeadlock(p) PROVE tx'[c].number \in ManualNumbers
      BY <2>2, <2>4, <2>5, <2>7 DEF BreakDeadlock
    <2>8. ASSUME NEW i \in Invites, InviteStep(i) PROVE tx'[c] = tx[c]
      BY <2>8 DEF InviteStep, CreateInvite, UpdateInvite, SendInvite, ViewInvite, DeleteInvite,
         DeleteSubmission
    <2>9. CASE Tick \/ UNCHANGED vars
      BY <2>2, <2>9 DEF Tick, vars
    <2> QED
      BY <2>2, <2>3, <2>4, <2>5, <2>6, <2>7, <2>8, <2>9 DEF Next
  <1> QED
    BY <1>1, <1>2 DEF Rows

\* The invariant of the data base: types, isolation and the shape of the rows.
Consistent == Typing /\ TransactionsIsolated /\ Rows

LEMMA ConsistentHolds == Spec => []Consistent
  <1>1. Init => Rows
    BY DEF Init, Rows, NoTx, Procs
  <1>2. Typing /\ TransactionsIsolated /\ Rows /\ [Next]_vars => Rows'
    BY RowsKept
  <1> QED
    BY <1>1, <1>2, TypingHolds, Isolation, PTL DEF Spec, Consistent

-----------------------------------------------------------------------------
(* The records *)

LEMMA StepKeepsRecords ==
    ASSUME Consistent, [Next]_vars, NEW i \in Invites, submission[i].origin # "none"
    PROVE  submission'[i] \in {submission[i], [submission[i] EXCEPT !.deleted = TRUE]}
  <1>1. CASE UNCHANGED <<submission, counter>>
    BY <1>1
  <1>2. ASSUME NEW s \in Signers, CommitSign(s) PROVE submission'[i] = submission[i]
    <2>1. submission[tx[s].inv] = NoSubmission /\ tx[s].inv \in Invites
      BY <1>2, CommitSignWrites DEF Consistent
    <2>2. i # tx[s].inv
      BY <2>1 DEF NoSubmission
    <2> QED
      BY <1>2, <2>1, <2>2, CommitSignWrites DEF Consistent, Typing, TypeOK
  <1>3. ASSUME NEW c \in Clerks, CommitManual(c) PROVE submission'[i] = submission[i]
    <2>1. submission[tx[c].inv] = NoSubmission /\ tx[c].inv \in Invites
      BY <1>3, CommitManualWrites DEF Consistent
    <2>2. i # tx[c].inv
      BY <2>1 DEF NoSubmission
    <2> QED
      BY <1>3, <2>1, <2>2, CommitManualWrites DEF Consistent, Typing, TypeOK
  <1>4. ASSUME NEW j \in Invites, DeleteSubmission(j)
        PROVE  submission'[i] \in {submission[i], [submission[i] EXCEPT !.deleted = TRUE]}
    <2>1. submission' = [submission EXCEPT ![j] = [submission[j] EXCEPT !.deleted = TRUE]]
      BY <1>4 DEF DeleteSubmission, Consistent, Typing, TypeOK
    <2> QED
      BY <2>1 DEF Consistent, Typing, TypeOK
  <1> QED
    BY <1>1, <1>2, <1>3, <1>4, Writers

\* A recorded submission is never replaced, renumbered or revived.
THEOREM RecordsFinal == Spec => RecordsAreFinal
  <1>1. Consistent /\ [Next]_vars =>
           [\A i \in Invites : submission[i].origin # "none" =>
               submission'[i] \in {submission[i], [submission[i] EXCEPT !.deleted = TRUE]}]_vars
    BY StepKeepsRecords
  <1> QED
    BY <1>1, ConsistentHolds, PTL DEF Spec, RecordsAreFinal

\* A signature is recorded only on an invite that is neither deleted nor revoked
\* in the state in which it commits.
THEOREM WithdrawalRespected == Spec => SigningRespectsWithdrawal
  <1>1. ASSUME Consistent, [Next]_vars, NEW i \in Invites,
               submission[i].origin = "none", submission'[i].origin = "public"
        PROVE  Live(i) /\ invite[i].status # "revoked"
    <2>1. submission'[i] # submission[i]
      BY <1>1
    <2>2. ASSUME NEW s \in Signers, CommitSign(s) PROVE i = tx[s].inv
      BY <1>1, <2>1, <2>2, CommitSignWrites DEF Consistent, Typing, TypeOK
    <2>3. ASSUME NEW c \in Clerks, CommitManual(c) PROVE FALSE
      <3> DEFINE row == [origin |-> "manual", number |-> tx[c].number, series |-> 0,
                         deleted |-> FALSE]
      <3>1. row.origin = "manual" /\ tx[c].inv \in Invites
            /\ submission' = [submission EXCEPT ![tx[c].inv] = row]
        BY <1>1, <2>3, CommitManualWrites DEF Consistent
      <3> HIDE DEF row
      <3> QED
        BY <1>1, <2>1, <3>1, RowWritten DEF Consistent
    <2>4. ASSUME NEW j \in Invites, DeleteSubmission(j) PROVE FALSE
      BY <1>1, <2>4 DEF DeleteSubmission, LiveSubmission, Consistent, Typing, TypeOK, SubmissionRows
    <2>5. PICK s \in Signers : CommitSign(s)
      BY <1>1, <2>1, <2>3, <2>4, Writers
    <2> QED
      BY <1>1, <2>2, <2>5, CommitSignWrites DEF Consistent
  <1>2. Consistent /\ [Next]_vars =>
           [\A i \in Invites :
               submission[i].origin = "none" /\ submission'[i].origin = "public" =>
                   Live(i) /\ invite[i].status # "revoked"]_vars
    BY <1>1
  <1> QED
    BY <1>2, ConsistentHolds, PTL DEF Spec, SigningRespectsWithdrawal

\* Two visible submissions of an organisation never share a number.
THEOREM NumbersUnique == Spec => []LiveNumbersUnique
  <1>1. Init => LiveNumbersUnique
    BY DEF Init, NoSubmission, LiveNumbersUnique, LiveSubmission
  <1>2. ASSUME Consistent, LiveNumbersUnique, [Next]_vars PROVE LiveNumbersUnique'
    <2>1. ASSUME NEW i \in Invites, NEW row,
                 submission' = [submission EXCEPT ![i] = row],
                 \A j \in Invites :
                    LiveSubmission(j) => ~SameNumber(i, row.number, j, submission[j].number)
          PROVE  LiveNumbersUnique'
      <3>1. submission'[i] = row /\ \A j \in Invites \ {i} : submission'[j] = submission[j]
        BY <1>2, <2>1, RowWritten DEF Consistent
      <3> QED
        BY <1>2, <2>1, <3>1 DEF LiveNumbersUnique, LiveSubmission, SameNumber
    <2>2. CASE UNCHANGED <<submission, counter>>
      BY <1>2, <2>2 DEF LiveNumbersUnique, LiveSubmission, SameNumber
    <2>3. ASSUME NEW s \in Signers, CommitSign(s) PROVE LiveNumbersUnique'
      <3> DEFINE row == [origin |-> "public", number |-> tx[s].number, series |-> tx[s].series,
                         deleted |-> FALSE]
      <3>1. row.number = tx[s].number
        OBVIOUS
      <3>2. /\ tx[s].inv \in Invites /\ submission' = [submission EXCEPT ![tx[s].inv] = row]
            /\ \A j \in Invites : LiveSubmission(j) =>
                  ~SameNumber(tx[s].inv, tx[s].number, j, submission[j].number)
        BY <1>2, <2>3, CommitSignWrites DEF Consistent
      <3> HIDE DEF row
      <3> QED
        BY <2>1, <3>1, <3>2
    <2>4. ASSUME NEW c \in Clerks, CommitManual(c) PROVE LiveNumbersUnique'
      <3> DEFINE row == [origin |-> "manual", number |-> tx[c].number, series |-> 0,
                         deleted |-> FALSE]
      <3>1. row.number = tx[c].number
        OBVIOUS
      <3>2. /\ tx[c].inv \in Invites /\ submission' = [submission EXCEPT ![tx[c].inv] = row]
            /\ \A j \in Invites : LiveSubmission(j) =>
                  ~SameNumber(tx[c].inv, tx[c].number, j, submission[j].number)
        BY <1>2, <2>4, CommitManualWrites DEF Consistent
      <3> HIDE DEF row
      <3> QED
        BY <2>1, <3>1, <3>2
    <2>5. ASSUME NEW i \in Invites, DeleteSubmission(i) PROVE LiveNumbersUnique'
      <3>1. \A j \in Invites : /\ submission'[j].number = submission[j].number
                               /\ LiveSubmission(j)' => LiveSubmission(j)
        BY <1>2, <2>5 DEF DeleteSubmission, Consistent, Typing, TypeOK, SubmissionRows, LiveSubmission
      <3> QED
        BY <1>2, <3>1 DEF LiveNumbersUnique, SameNumber
    <2> QED
      BY <1>2, <2>2, <2>3, <2>4, <2>5, Writers
  <1> QED
    BY <1>1, <1>2, ConsistentHolds, PTL DEF Spec

-----------------------------------------------------------------------------
(* The counters *)

LEMMA SeriesUnchanged ==
    ASSUME NEW o, NEW y, GaplessNumbers, o \in Orgs, y \in Years,
           \A i \in Invites :
              (i \in SignedInSeries(o, y)') = (i \in SignedInSeries(o, y)),
           \A i \in SignedInSeries(o, y) : submission'[i].number = submission[i].number,
           counter'[o][y] = counter[o][y]
    PROVE  /\ {submission'[i].number[2] : i \in SignedInSeries(o, y)'} = 1 .. counter'[o][y]
           /\ \A i, j \in SignedInSeries(o, y)' :
                 submission'[i].number[2] = submission'[j].number[2] => i = j
  <1>1. SignedInSeries(o, y)' = SignedInSeries(o, y)
    BY DEF SignedInSeries
  <1> QED
    BY <1>1 DEF GaplessNumbers

\* The numbers of a counter are 1, 2, ... last_number, each drawn once.
THEOREM NumbersGapless == Spec => []GaplessNumbers
  <1>1. Init => GaplessNumbers
    <2> SUFFICES ASSUME Init, NEW o \in Orgs, NEW y \in Years
                 PROVE  SignedInSeries(o, y) = {} /\ counter[o][y] = 0
      BY DEF GaplessNumbers
    <2> QED
      BY DEF Init, NoSubmission, SignedInSeries
  <1>2. ASSUME Consistent, GaplessNumbers, [Next]_vars PROVE GaplessNumbers'
    <2> SUFFICES ASSUME NEW o \in Orgs, NEW y \in Years
                 PROVE  /\ {submission'[i].number[2] : i \in SignedInSeries(o, y)'}
                             = 1 .. counter'[o][y]
                        /\ \A i, j \in SignedInSeries(o, y)' :
                              submission'[i].number[2] = submission'[j].number[2] => i = j
      BY DEF GaplessNumbers
    <2> DEFINE Goal == /\ {submission'[i].number[2] : i \in SignedInSeries(o, y)'}
                            = 1 .. counter'[o][y]
                       /\ \A i, j \in SignedInSeries(o, y)' :
                             submission'[i].number[2] = submission'[j].number[2] => i = j
    <2>1. CASE UNCHANGED <<submission, counter>>
      BY <1>2, <2>1, SeriesUnchanged DEF SignedInSeries
    <2>2. ASSUME NEW s \in Signers, CommitSign(s), OrgOf[tx[s].inv] # o \/ tx[s].series # y PROVE Goal
      <3> DEFINE row == [origin |-> "public", number |-> tx[s].number, series |-> tx[s].series,
                         deleted |-> FALSE]
      <3>1. row.series = tx[s].series /\ tx[s].inv \in Invites
            /\ submission' = [submission EXCEPT ![tx[s].inv] = row]
            /\ submission[tx[s].inv] = NoSubmission
        BY <1>2, <2>2, CommitSignWrites DEF Consistent
      <3>2. counter'[o][y] = counter[o][y]
        <4> DEFINE p == OrgOf[tx[s].inv]
                   z == tx[s].series
        <4>1. p \in Orgs /\ z \in Years /\ counter' = [counter EXCEPT ![p][z] = counter[p][z] + 1]
          BY <1>2, <2>2, CommitSignWrites DEF Consistent
        <4> QED
          BY <1>2, <2>2, <4>1 DEF Consistent, Typing, TypeOK
      <3> HIDE DEF row
      <3>3. submission'[tx[s].inv] = row
            /\ \A j \in Invites \ {tx[s].inv} : submission'[j] = submission[j]
        BY <1>2, <3>1, RowWritten DEF Consistent
      <3>4. tx[s].inv \notin SignedInSeries(o, y) /\ tx[s].inv \notin SignedInSeries(o, y)'
        BY <2>2, <3>1, <3>3 DEF SignedInSeries, NoSubmission
      <3>5. \A i \in Invites : (i \in SignedInSeries(o, y)') = (i \in SignedInSeries(o, y))
        BY <3>3, <3>4 DEF SignedInSeries
      <3>6. \A i \in SignedInSeries(o, y) : submission'[i].number = submission[i].number
        BY <3>3, <3>4 DEF SignedInSeries
      <3> QED
        BY <1>2, <3>2, <3>5, <3>6, SeriesUnchanged
    <2>3. ASSUME NEW s \in Signers, CommitSign(s), OrgOf[tx[s].inv] = o, tx[s].series = y PROVE Goal
      <3> DEFINE new == tx[s].inv
                 n == counter[o][y] + 1
                 row == [origin |-> "public", number |-> tx[s].number, series |-> y,
                         deleted |-> FALSE]
      <3>1. row.series = y /\ row.origin = "public" /\ row.number[2] = n /\ new \in Invites
            /\ submission' = [submission EXCEPT ![new] = row]
            /\ submission[new] = NoSubmission
        BY <1>2, <2>3, CommitSignWrites DEF Consistent
      <3>2. counter[o][y] \in Nat /\ counter'[o][y] = n
        <4>1. counter' = [counter EXCEPT ![o][y] = n]
          BY <1>2, <2>3, CommitSignWrites DEF Consistent
        <4> QED
          BY <1>2, <4>1 DEF Consistent, Typing, TypeOK
      <3> HIDE DEF row
      <3>3. submission'[new] = row /\ \A j \in Invites \ {new} : submission'[j] = submission[j]
        BY <1>2, <3>1, RowWritten DEF Consistent
      <3>4. new \notin SignedInSeries(o, y)
        BY <3>1 DEF SignedInSeries, NoSubmission
      <3>5. SignedInSeries(o, y)' = SignedInSeries(o, y) \cup {new}
        BY <2>3, <3>1, <3>3 DEF SignedInSeries
      <3>6. \A i \in SignedInSeries(o, y) : /\ submission'[i] = submission[i]
                                            /\ submission[i].number[2] \in 1 .. counter[o][y]
        BY <1>2, <3>3, <3>4 DEF GaplessNumbers, SignedInSeries
      <3>7. {submission'[i].number[2] : i \in SignedInSeries(o, y)'}
              = {submission[i].number[2] : i \in SignedInSeries(o, y)} \cup {n}
        BY <3>1, <3>3, <3>5, <3>6
      <3>8. {submission[i].number[2] : i \in SignedInSeries(o, y)} = 1 .. counter[o][y]
        BY <1>2 DEF GaplessNumbers
      <3>9. (1 .. counter[o][y]) \cup {n} = 1 .. n
        BY <3>2
      <3>10. \A i, j \in SignedInSeries(o, y)' :
                submission'[i].number[2] = submission'[j].number[2] => i = j
        BY <1>2, <3>1, <3>2, <3>3, <3>5, <3>6 DEF GaplessNumbers
      <3> QED
        BY <3>2, <3>7, <3>8, <3>9, <3>10
    <2>4. ASSUME NEW c \in Clerks, CommitManual(c) PROVE Goal
      <3> DEFINE row == [origin |-> "manual", number |-> tx[c].number, series |-> 0,
                         deleted |-> FALSE]
      <3>1. row.origin = "manual" /\ tx[c].inv \in Invites
            /\ submission' = [submission EXCEPT ![tx[c].inv] = row]
            /\ submission[tx[c].inv] = NoSubmission /\ counter' = counter
        BY <1>2, <2>4, CommitManualWrites DEF Consistent
      <3> HIDE DEF row
      <3>3. submission'[tx[c].inv] = row
            /\ \A j \in Invites \ {tx[c].inv} : submission'[j] = submission[j]
        BY <1>2, <3>1, RowWritten DEF Consistent
      <3>4. tx[c].inv \notin SignedInSeries(o, y) /\ tx[c].inv \notin SignedInSeries(o, y)'
        BY <3>1, <3>3 DEF SignedInSeries, NoSubmission
      <3>5. \A i \in Invites : (i \in SignedInSeries(o, y)') = (i \in SignedInSeries(o, y))
        BY <3>3, <3>4 DEF SignedInSeries
      <3>6. \A i \in SignedInSeries(o, y) : submission'[i].number = submission[i].number
        BY <3>3, <3>4 DEF SignedInSeries
      <3> QED
        BY <1>2, <3>1, <3>5, <3>6, SeriesUnchanged
    <2>5. ASSUME NEW k \in Invites, DeleteSubmission(k) PROVE Goal
      <3>1. \A j \in Invites : /\ submission'[j].number = submission[j].number
                               /\ submission'[j].origin = submission[j].origin
                               /\ submission'[j].series = submission[j].series
        BY <1>2, <2>5 DEF DeleteSubmission, Consistent, Typing, TypeOK, SubmissionRows
      <3>2. \A i \in Invites : (i \in SignedInSeries(o, y)') = (i \in SignedInSeries(o, y))
        BY <3>1 DEF SignedInSeries
      <3>3. \A i \in SignedInSeries(o, y) : submission'[i].number = submission[i].number
        BY <3>1 DEF SignedInSeries
      <3>4. counter' = counter
        BY <2>5 DEF DeleteSubmission
      <3> QED
        BY <1>2, <3>2, <3>3, <3>4, SeriesUnchanged
    <2> QED
      BY <1>2, <2>1, <2>2, <2>3, <2>4, <2>5, Writers
  <1> QED
    BY <1>1, <1>2, ConsistentHolds, PTL DEF Spec

-----------------------------------------------------------------------------
(* The answers *)

\* A confirmed number stays the number of the invite's one submission.
LEMMA RecordedNumberStays ==
    ASSUME Consistent, [Next]_vars, NEW i \in Invites, submission[i].origin # "none"
    PROVE  submission'[i].origin # "none" /\ submission'[i].number = submission[i].number
  <1>1. submission'[i] \in {submission[i], [submission[i] EXCEPT !.deleted = TRUE]}
    BY StepKeepsRecords
  <1> QED
    BY <1>1 DEF Consistent, Typing, TypeOK, SubmissionRows

\* Only the signer's own steps change its answer.
LEMMA Answers ==
    ASSUME Consistent, [Next]_vars, NEW r \in Signers
    PROVE  \/ reply'[r] = reply[r]
           \/ reply'[r] = NoReply
           \/ AnswerAlreadySigned(r) \/ CommitSign(r)
  <1>1. ASSUME NEW s \in Signers, SignStep(s) \/ RollbackSign(s),
               ~AnswerAlreadySigned(s), ~CommitSign(s)
        PROVE  reply' = reply
    BY <1>1 DEF SignStep, LockInvite, RefuseSign, ChooseSeries, DrawNumber, InsertSubmission,
       RejectDuplicate, RollbackSign, Fail
  <1>2. ASSUME NEW s \in Signers, AnswerAlreadySigned(s) \/ CommitSign(s), s # r
        PROVE  reply'[r] = reply[r]
    BY <1>2 DEF AnswerAlreadySigned, CommitSign, Confirm, Fail, Consistent, Typing, TypeOK
  <1>3. ASSUME NEW s \in Signers, NEW i \in Invites, StartSign(s, i)
        PROVE  reply'[r] = reply[r] \/ reply'[r] = NoReply
    BY <1>3 DEF StartSign, Consistent, Typing, TypeOK
  <1>4. ASSUME NEW c \in Clerks, ManualStep(c) \/ RollbackManual(c) PROVE reply' = reply
    BY <1>4 DEF ManualStep, InsertManual, RejectManualDuplicate, CommitManual, RollbackManual
  <1>5. ASSUME NEW c \in Clerks, NEW i \in Invites, NEW n \in ManualNumbers, StartManual(c, i, n)
        PROVE  reply' = reply
    BY <1>5 DEF StartManual
  <1>6. ASSUME NEW i \in Invites, InviteStep(i) PROVE reply' = reply
    BY <1>6 DEF InviteStep, CreateInvite, UpdateInvite, SendInvite, ViewInvite, DeleteInvite,
       DeleteSubmission
  <1>7. ASSUME NEW p \in Procs, BreakDeadlock(p) PROVE reply' = reply
    BY <1>7 DEF BreakDeadlock, RollbackSign, RollbackManual, Fail
  <1>8. CASE Tick \/ UNCHANGED vars
    BY <1>8 DEF Tick, vars
  <1> QED
    BY <1>1, <1>2, <1>3, <1>4, <1>5, <1>6, <1>7, <1>8 DEF Next, SignStep

\* Whoever is told that an invite is signed is told its one number.
THEOREM RepliesMatch == Spec => []ReplyMatchesRecord
  <1>1. Init => ReplyMatchesRecord
    BY DEF Init, NoReply, ReplyMatchesRecord
  <1>2. ASSUME Consistent, ReplyMatchesRecord, [Next]_vars PROVE ReplyMatchesRecord'
    <2> SUFFICES ASSUME NEW r \in Signers, reply'[r].inv # NoInvite
                 PROVE  /\ submission'[reply'[r].inv].origin # "none"
                        /\ submission'[reply'[r].inv].number = reply'[r].number
      BY DEF ReplyMatchesRecord
    <2>1. CASE reply'[r] = reply[r]
      <3>1. reply[r].inv \in Invites
        BY <1>2, <2>1 DEF Consistent, Typing, TypeOK, Replies
      <3> QED
        BY <1>2, <2>1, <3>1, RecordedNumberStays DEF ReplyMatchesRecord
    <2>2. CASE reply'[r] = NoReply
      BY <2>2 DEF NoReply
    <2>3. CASE AnswerAlreadySigned(r)
      BY <1>2, <2>3 DEF AnswerAlreadySigned, LiveSubmission, Confirm, Consistent, Typing, TypeOK
    <2>4. CASE CommitSign(r)
      <3> DEFINE row == [origin |-> "public", number |-> tx[r].number,
                         series |-> tx[r].series, deleted |-> FALSE]
      <3>1. row.origin = "public" /\ row.number = tx[r].number /\ tx[r].inv \in Invites
            /\ submission' = [submission EXCEPT ![tx[r].inv] = row]
        BY <1>2, <2>4, CommitSignWrites DEF Consistent
      <3> HIDE DEF row
      <3>2. submission'[tx[r].inv] = row
        BY <1>2, <3>1, RowWritten DEF Consistent
      <3>3. reply'[r] = reply[r] \/ reply'[r] = [inv |-> tx[r].inv, number |-> tx[r].number]
        BY <1>2, <2>4 DEF CommitSign, Confirm, Fail, Consistent, Typing, TypeOK
      <3> QED
        BY <2>1, <3>1, <3>2, <3>3
    <2> QED
      BY <1>2, <2>1, <2>2, <2>3, <2>4, Answers
  <1> QED
    BY <1>1, <1>2, ConsistentHolds, PTL DEF Spec

-----------------------------------------------------------------------------
(* The transactions implement the register *)

\* The conflicts that a committing row does not have are those of the register.
LEMMA FreeNumber ==
    ASSUME NEW i \in Invites, NEW n,
           \A j \in Invites : LiveSubmission(j) => ~SameNumber(i, n, j, submission[j].number)
    PROVE  Register!NumberFree(i, n)
  BY DEF Register!NumberFree, Register!NoNumber, NoNumber, LiveSubmission, SameNumber

LEMMA CommitSignIsSign ==
    ASSUME Consistent, NEW s \in Signers, CommitSign(s)
    PROVE  Register!Sign(tx[s].inv, tx[s].series, tx[s].number[1])
           /\ tx[s].number[1] \in Years /\ tx[s].series \in Years /\ tx[s].inv \in Invites
  <1> DEFINE i == tx[s].inv
             o == OrgOf[i]
             y == tx[s].series
             n == tx[s].number
  <1>1. /\ i \in Invites /\ o \in Orgs /\ y \in Years
        /\ Live(i) /\ invite[i].status # "revoked"
        /\ submission[i] = NoSubmission
        /\ n \in Numbers /\ n[1] >= y
        /\ n[2] = counter[o][y] + 1
        /\ \A j \in Invites : LiveSubmission(j) => ~SameNumber(i, n, j, submission[j].number)
        /\ submission' = [submission EXCEPT ![i] =
               [origin |-> "public", number |-> n, series |-> y, deleted |-> FALSE]]
        /\ counter' = [counter EXCEPT ![o][y] = counter[o][y] + 1]
    BY CommitSignWrites DEF Consistent
  <1>2. n[1] \in Years /\ n = <<n[1], counter[o][y] + 1>>
    BY <1>1 DEF Numbers
  <1>3. Accepting' = Accepting
    <2>1. invite' = [invite EXCEPT ![i] = [invite[i] EXCEPT !.status = "signed"]]
      BY DEF CommitSign, Consistent, Typing, TypeOK
    <2>2. /\ invite'[i].status = "signed" /\ invite'[i].deleted = invite[i].deleted
          /\ \A j \in Invites \ {i} : invite'[j] = invite[j]
      BY <1>1, <2>1 DEF Consistent, Typing, TypeOK, InviteRows
    <2> QED
      BY <1>1, <2>2 DEF Accepting, Live
  <1>4. i \in Accepting
    BY <1>1 DEF Accepting
  <1>5. Register!NumberFree(i, n)
    BY <1>1, FreeNumber
  <1>6. submission[i] = Register!NoEntry
    BY <1>1 DEF NoSubmission, NoNumber, Register!NoEntry, Register!NoNumber
  <1> HIDE DEF i, n, o, y
  <1>7. Register!Sign(i, y, n[1])
    BY <1>1, <1>2, <1>3, <1>4, <1>5, <1>6 DEF Register!Sign, o
  <1> QED
    BY <1>1, <1>2, <1>7 DEF i, y, n

LEMMA CommitManualIsEnter ==
    ASSUME Consistent, NEW c \in Clerks, CommitManual(c)
    PROVE  Register!Enter(tx[c].inv, tx[c].number)
           /\ tx[c].inv \in Invites /\ tx[c].number \in ManualNumbers
  <1> DEFINE i == tx[c].inv
             n == tx[c].number
  <1>1. /\ i \in Invites /\ n \in ManualNumbers
        /\ submission[i] = NoSubmission
        /\ \A j \in Invites : LiveSubmission(j) => ~SameNumber(i, n, j, submission[j].number)
        /\ submission' = [submission EXCEPT ![i] =
               [origin |-> "manual", number |-> n, series |-> 0, deleted |-> FALSE]]
        /\ UNCHANGED <<invite, counter>>
    BY CommitManualWrites DEF Consistent
  <1>2. Accepting' = Accepting
    BY <1>1 DEF Accepting, Live
  <1>3. Register!NumberFree(i, n)
    BY <1>1, FreeNumber
  <1>4. submission[i] = Register!NoEntry
    BY <1>1 DEF NoSubmission, NoNumber, Register!NoEntry, Register!NoNumber
  <1> HIDE DEF i, n
  <1>5. Register!Enter(i, n)
    BY <1>1, <1>2, <1>3, <1>4 DEF Register!Enter
  <1> QED
    BY <1>1, <1>5 DEF i, n

\* Every step of the program is a step of the register or leaves it alone.
LEMMA StepRefines ==
    ASSUME Consistent, [Next]_vars
    PROVE  [Register!Next]_(Register!vars)
  <1>1. Accepting' \in SUBSET Invites
    BY DEF Accepting
  <1>2. CASE UNCHANGED <<submission, counter>>
    BY <1>1, <1>2 DEF Register!Next, Register!ChangeAccepting
  <1>3. ASSUME NEW s \in Signers, CommitSign(s) PROVE Register!Next
    BY <1>3, CommitSignIsSign DEF Register!Next
  <1>4. ASSUME NEW c \in Clerks, CommitManual(c) PROVE Register!Next
    BY <1>4, CommitManualIsEnter DEF Register!Next
  <1>5. ASSUME NEW i \in Invites, DeleteSubmission(i) PROVE Register!Next
    <2>1. Accepting' = Accepting
      BY <1>5 DEF DeleteSubmission, Accepting, Live
    <2>2. Register!StrikeOut(i)
      BY <1>5, <2>1 DEF DeleteSubmission, LiveSubmission, Register!StrikeOut
    <2> QED
      BY <2>2 DEF Register!Next
  <1> QED
    BY <1>2, <1>3, <1>4, <1>5, Writers

\* The transactions of signers and clerks, their locks and their rollbacks
\* implement the register in which signing is one indivisible step.
THEOREM Refinement == Spec => ImplementsRegister
  <1>1. Init => Register!Init
    BY DEF Init, Register!Init, Accepting, Live, AbsentInvite, NoSubmission, NoNumber,
       Register!NoEntry, Register!NoNumber
  <1>2. Consistent /\ [Next]_vars => [Register!Next]_(Register!vars)
    BY StepRefines
  <1> QED
    BY <1>1, <1>2, ConsistentHolds, PTL DEF Spec, ImplementsRegister, Register!Spec

-----------------------------------------------------------------------------
(* Deadlocks *)

\* A request that waits in D waits for another one of D, which has come further: only the
\* foreign key of a clerk's row looks back, at the invite of a signing.
SigningMeetsClerk ==
    \A D \in (SUBSET Procs) \ {{}} :
        Deadlocked(D) =>
            /\ \E c \in D \cap Clerks : tx[c].pc = "fk"
            /\ \E s \in D \cap Signers : tx[s].pc = "numbered"

LEMMA WhoIsWaitedFor ==
    ASSUME Typing, NEW p \in Procs, NEW q \in WaitsFor(p)
    PROVE  /\ tx[p].pc \notin {"idle", "locked", "inserted"}
           /\ tx[p].pc \in {"begin", "fk"} => tx[q].pc \in {"locked", "numbering", "numbered", "inserted"}
           /\ tx[p].pc = "numbering" => tx[q].pc \in {"numbered", "inserted"}
           /\ tx[p].pc \in {"numbered", "insert"} => tx[q].pc \in {"inserted", "fk"}
  BY DEF WaitsFor, HoldsInvite, HoldsCounter, PendingConflicts, HasPendingRow

LEMMA DeadlocksMeetClerk == Typing => SigningMeetsClerk
  <1> SUFFICES ASSUME Typing, NEW D \in SUBSET Procs, D # {}, Deadlocked(D)
               PROVE  /\ \E c \in D \cap Clerks : tx[c].pc = "fk"
                      /\ \E s \in D \cap Signers : tx[s].pc = "numbered"
    BY DEF SigningMeetsClerk
  <1>1. ASSUME NEW p \in D
        PROVE  /\ \/ p \in Signers /\ tx[p].pc \in {"idle"} \cup SignerSteps
                  \/ p \in Clerks /\ tx[p].pc \in {"idle"} \cup ClerkSteps
               /\ \E q \in D : q \in WaitsFor(p)
    BY DEF Deadlocked, Typing, TxShape, Procs
  <1>2. ASSUME NEW p \in D
        PROVE  tx[p].pc \in {"begin", "numbering", "numbered", "insert", "fk"}
    BY <1>1, WhoIsWaitedFor DEF SignerSteps, ClerkSteps
  <1>3. ASSUME NEW p \in D, tx[p].pc \in {"begin", "fk", "numbering"}
        PROVE  \E s \in D : tx[s].pc = "numbered"
    <2>1. ASSUME NEW q \in D, tx[q].pc = "numbering"
          PROVE  \E s \in D : tx[s].pc = "numbered"
      BY <1>1, <1>2, <2>1, WhoIsWaitedFor
    <2>2. CASE tx[p].pc \in {"begin", "fk"}
      <3>1. PICK q \in D : tx[q].pc \in {"locked", "numbering", "numbered", "inserted"}
        BY <1>1, <2>2, WhoIsWaitedFor
      <3> QED
        BY <1>2, <2>1, <3>1
    <2> QED
      BY <1>3, <2>1, <2>2
  <1>4. ASSUME NEW p \in D, tx[p].pc \in {"numbered", "insert"}
        PROVE  \E c \in D : tx[c].pc = "fk"
    <2>1. PICK q \in D : tx[q].pc \in {"inserted", "fk"}
      BY <1>1, <1>4, WhoIsWaitedFor
    <2> QED
      BY <1>2, <2>1
  <1>5. /\ \E c \in D : tx[c].pc = "fk"
        /\ \E s \in D : tx[s].pc = "numbered"
    <2>1. PICK p \in D : TRUE
      OBVIOUS
    <2> QED
      BY <1>2, <1>3, <1>4, <2>1
  <1> QED
    BY <1>1, <1>5 DEF SignerSteps, ClerkSteps

\* Signings alone never deadlock, however many invites, counters and numbers they meet on:
\* every cycle the detector has to break holds a clerk's INSERT that waits for the invite
\* row and a signing whose number or invite that INSERT has taken.
THEOREM DeadlocksHoldClerk == Spec => []SigningMeetsClerk
  BY TypingHolds, DeadlocksMeetClerk, PTL
=============================================================================
