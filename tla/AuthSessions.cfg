SPECIFICATION Spec
CONSTANTS
    alice = alice
    root = root
    acme = acme
    bistro = bistro
    r1 = r1
    r2 = r2
    Subjects = {alice}
    Admins = {}
    Orgs = {acme}
    Platform = Platform
    NameOrder <- MCNameOrder
    Requests = {r1, r2}
    TicksPerSecond = 2
    AccessTTL = 2
    RefreshTTL = 3
    MaxTime = 2
    MaxSessions = 4
    MaxMembers = 1
    MaxRequests = 4
CHECK_DEADLOCK FALSE
SYMMETRY Symmetry
INVARIANTS
    TypeOK
    RotatedOut
    RotationBounded
PROPERTIES
    LogoutIsEffective
    NoTokenRevives
