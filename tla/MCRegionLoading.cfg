SPECIFICATION FairRegionSpec
CONSTANTS
    Region <- MCRegion
    Distance <- MCDistance
    Line <- MCLine
    Overflows <- MCOverflows
    Forest = {2, 3, 4}
    Call = {c1, c2}
    Wanted = {1, 3, 5}
    NoOne = NoOne
    NoFeature = NoFeature
INVARIANTS CreatorReserved NothingLeftBehind
PROPERTIES StatesAdvance 
CHECK_DEADLOCK FALSE
