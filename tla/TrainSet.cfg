SPECIFICATION TrainSpec
CONSTANTS
    g1 = g1
    g2 = g2
    g3 = g3
    g4 = g4
    g5 = g5
    g6 = g6
    g7 = g7
    l1 = l1
    l2 = l2
    l3 = l3
    Photos = {g1, g2, g3, g4, g5, g6, g7, l1, l2, l3}
    General = {g1, g2, g3, g4, g5, g6, g7}
    LookItems = {l1, l2, l3}
    Travel <- MCTravel
    Visit <- MCVisit
    Hash <- MCHash
    Category <- MCCategory
    Region <- MCRegion
    Place <- MCPlace
    BlockedPlace = {g7}
    EvalTravels = {"te"}
    DiagTravels = {}
    BlockedVisitors = {"tb"}
    EvalHashes = {5}
    DiagHashes = {}
    Categories <- MCCategories
    Regions <- MCRegions
    LookQuota <- MCLookQuota
    RoleOrder <- MCPilotRoles
    RoleSeq <- MCRoles
    SpareSeq <- MCSpareRoles
    MaxPerTravel = 3
    MaxRuns = 2
    BatchSize = 2
    Commands <- MCCommands
    MaxStarts = 2
    Verdicts <- MCVerdicts
SYMMETRY MCSymmetry
INVARIANTS
    RecordsFit
    QuotaFilled
    TrainingSound
CHECK_DEADLOCK FALSE
