SPECIFICATION WorkspaceSpec
CONSTANTS
    a = a
    b = b
    Rows = {a, b}
    Pages <- MCPages
    MaxClicks = 4
    MaxCalls = 2
    Notes = {a, b}
    MaxStrokes = 3
    People = {a, b}
    MaxRooms = 2
    MaxPresses = 3
    MaxEvents = 3
    LastDay = 1
    DayLength = 5
    Ahead = FALSE
    Ours = "ours"
    Others = {"theirs"}
    Switchable = {"contracts_pro", "internal_chat"}
    Bought <- MCBought
    MaxToggles = 2
    Accounts = {"ana"}
    MembershipIds = {1}
    RoleIds = {a, b}
    Requests = {a, b}
SYMMETRY Symmetry
CHECK_DEADLOCK FALSE
INVARIANTS
    WorkspaceTypeOK
    OneRowPerForm
    SaveHitsItsRow
    PatientUserLosesNothing
    NoteTextsStay
    CalmWriterIsSaved
    MembersMeet
    DraftKept
    SaidOnce
    BlocksOfADayApart
    OpenPagesServed
    AdminSeesStored
    SwitchTakesEffect
    RolesAsAnswered
