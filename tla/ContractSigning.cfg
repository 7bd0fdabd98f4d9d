SPECIFICATION Spec
CONSTANTS
    Invites = {i1, i2}
    NoInvite = NoInvite
    Orgs = {org}
    Signers = {s1, s2}
    Clerks = {c1}
    MaxTime = 1
    OrgOf <- MCOrgOf
    YearOf <- MCYearOf
    RequestStatuses <- PageStatuses
    Expirations <- NeverExpires
    ManualNumbers <- ClashingNumber
SYMMETRY Symmetry
INVARIANTS
    TypeOK
    TransactionsIsolated
    GaplessNumbers
    ReplyMatchesRecord
    LiveNumbersUnique
PROPERTIES
    ImplementsRegister
    SigningRespectsWithdrawal
    RecordsAreFinal
