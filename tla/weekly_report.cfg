SPECIFICATION Spec
CONSTANTS
    computer = 1
    monitor = 2
    AssetIds = {1, 2, 3, 4, 5}
    Fleets <- FleetsOfThree
    NewAssets <- Later
    Never = Never
    NoCategory = NoCategory
    WeeklyCategories = {1}
    StaleDays = 1
    CriticalDays = 2
    MaxRows = 2
    Limit = 2
    DaysPerWeek = 2
    FirstDay = 2
    LastDay = 3
    MaxChanges = 3
INVARIANTS
    TypeOK
    ListsTheFleet
    SilentAreShown
    WorstAreShown
PROPERTIES
    ListingEnds
