SPECIFICATION FairSpec
CONSTANTS
    t1 = t1
    t2 = t2
    jeju = jeju
    north = north
    south = south
    midKey = midKey
    Triggers = {t1, t2}
    Regions = {jeju}
    Grids <- MCGrids
    MidKey <- MCMidKey
    Weather <- MCWeather
    Delay = 40
    Ttl = 30
    FORECAST_DAYS = 9
    PoolSize = 2
    MayBreak = {midKey}
    Starts <- MCStarts
    Steps = {29, 30}
INVARIANTS
    AnswerTrue
    NoDayMissed
PROPERTIES
    LoadsAtomic
    TriggerAnswered
CHECK_DEADLOCK FALSE
