-------------------------- MODULE MCContractSigning --------------------------
(* Instances of ContractSigning for TLC. *)
EXTENDS ContractSigning, TLC

MCOrgOf == [i \in Invites |-> CHOOSE o \in Orgs : TRUE]

\* Each instant lies in a year of its own: the clock can turn the year between
\* any two statements of a transaction.
MCYearOf == [t \in 0 .. MaxTime |-> 2025 + t]

\* What the invites page sends: new and duplicated invites are drafts, "revoke"
\* is an update.
PageStatuses == {"draft", "revoked"}

NeverExpires == {NoExpiration}
ExpiresAtOnce == {0}

\* No number, or the one the counter is about to give.
MCManualNumbers == {NoNumber, <<2025, 1>>}
ClashingNumber == {<<2025, 1>>}

Symmetry == Permutations(Invites) \cup Permutations(Signers)
=============================================================================
