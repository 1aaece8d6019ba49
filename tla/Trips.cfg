SPECIFICATION TripsSpec
CONSTANTS
    Places <- MCPlaces
    CategoriesOf <- Region
    Night <- MCClubs
    Outdoor = {"park", "picnic"}
    Avoided = {"church"}
    Coded = {"palace", "tower", "museum", "park", "bowling", "diner", "picnic", "club2", "club3"}
    Rank <- MCRank
    Ranking <- MCRanking
    TripLengths = {1, 2}
    HasEvening = TRUE
    WeatherDays <- MCWeatherDays
    PickWidth = 2
    Spare = 3
    r1 = r1
    r2 = r2
    Requests = {r1, r2}
    MaxConnections = 5
    MaxQueries = 1
INVARIANTS
    NoPlaceTwice
    TasteCountsDaytime
    FailureIsolated
    NothingAfterAnswer
PROPERTIES
    NoSlotLost
    RequestServed
CHECK_DEADLOCK FALSE
