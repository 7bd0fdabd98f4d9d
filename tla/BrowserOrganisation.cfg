SPECIFICATION BrowserSpec
CONSTANTS
    alice = alice
    root = root
    acme = acme
    bistro = bistro
    r1 = r1
    r2 = r2
    p1 = p1
    p2 = p2
    Subjects = {alice}
    Admins = {}
    Orgs = {acme, bistro}
    Platform = Platform
    NameOrder <- MCNameOrder
    Requests = {r1, r2}
    Pages = {p1}
    ActorOf <- UserPages
    PageOf <- SlotPages
    TicksPerSecond = 1
    AccessTTL = 1
    RefreshTTL = 2
    MaxTime = 1
    MaxSessions = 4
    MaxMembers = 0
    MaxRequests = 7
CHECK_DEADLOCK FALSE
INVARIANTS
    OrganisationShown
