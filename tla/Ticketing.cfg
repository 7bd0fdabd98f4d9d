SPECIFICATION MCSpec
CONSTANTS
    ana = ana
    dan = dan
    r1 = r1
    r2 = r2
    r3 = r3
    p1 = p1
    p2 = p2
    t1 = t1
    NoOne = NoOne
    Members = {ana, dan}
    Tickets = {t1}
    Pages = {p1, p2}
    Requests = {r1, r2, r3}
    MemberOf <- MCMemberOf
    PageOf <- MCPageOf
    Filters = {"all", "archived"}
    PickedStatuses = {"todo", "archived"}
    PickedAssignees = {dan}
    MaxClicks = 4
    ClicksOfTwo = 3
    MaxVersions = 3
CHECK_DEADLOCK FALSE
INVARIANTS
    TicketTypeOK
    StampsTellTruth
    OriginKept
    PageSeesOwnWrites
PROPERTIES
    ImplementsLog
    OwnWritesShown
