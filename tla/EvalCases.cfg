SPECIFICATION EvalSpec
CONSTANTS
    a1 = a1
    a2 = a2
    b1 = b1
    b2 = b2
    LabelA <- MCLabelA
    LabelB <- MCLabelB
    LabelAug <- MCLabelAug
    Travel <- MCTravel
    CategoryB <- MCCategoryB
    RegionOf <- MCRegionOf
    Regions <- MCRegions
    Shuffled <- MCShuffled
    GenCommands <- MCGenCommands
    PerCategory = 1
    PerRegion = 1
    PlaceOf <- MCPlaceOf
    Rank <- MCRank
    OtherOf <- MCOtherOf
    Landmarks = {"moon", "pond", "hill"}
    LOOKALIKE = {"moon", "pond"}
    Grades = {"success", "retry", "fail"}
    MeasureCommands <- MCMeasureCommands
    Relabel <- MCRelabel
    CountCommands <- MCCountCommands
    MaxScripts = 3
INVARIANTS
    FinalUnseen
    OneRunPerResult
    PlanAsRecorded
    CountedOnce
PROPERTIES
    VerdictStays
    JobsDoneOnce
CHECK_DEADLOCK FALSE
