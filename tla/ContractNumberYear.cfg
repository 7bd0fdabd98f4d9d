SPECIFICATION Spec
CONSTANTS
    Invites = {i1, i2}
    NoInvite = NoInvite
    Orgs = {org}
    Signers = {s1}
    Clerks = {}
    MaxTime = 1
    OrgOf <- MCOrgOf
    YearOf <- MCYearOf
    RequestStatuses <- PageStatuses
    Expirations <- NeverExpires
    ManualNumbers <- MCManualNumbers
INVARIANTS
    NumberWithinItsYear
