SPECIFICATION FairSpec
CONSTANTS
    Invites = {i1}
    NoInvite = NoInvite
    Orgs = {org}
    Signers = {s1, s2}
    Clerks = {c1}
    MaxTime = 1
    OrgOf <- MCOrgOf
    YearOf <- MCYearOf
    RequestStatuses <- PageStatuses
    Expirations <- ExpiresAtOnce
    ManualNumbers <- MCManualNumbers
PROPERTIES
    SignAnswered
