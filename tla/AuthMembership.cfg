SPECIFICATION Spec
CONSTANTS
    alice = alice
    root = root
    acme = acme
    bistro = bistro
    r1 = r1
    r2 = r2
    Subjects = {alice, root}
    Admins = {root}
    Orgs = {acme, bistro}
    Platform = Platform
    NameOrder <- MCNameOrder
    Requests = {r1, r2}
    TicksPerSecond = 2
    AccessTTL = 2
    RefreshTTL = 3
    MaxTime = 2
    MaxSessions = 3
    MaxMembers = 1
    MaxRequests = 3
CHECK_DEADLOCK FALSE
PROPERTY ActiveMembershipRequired
