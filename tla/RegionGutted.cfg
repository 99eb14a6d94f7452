SPECIFICATION RegionSpec
CONSTANTS
    Region <- MCRegion
    Distance <- MCDistance
    Line <- MCLine
    Overflows <- MCOverflows
    Forest = {2, 3, 4}
    Call = {c1, c2}
    Wanted = {1, 4}
    NoOne = NoOne
    NoFeature = NoFeature
INVARIANTS NoGuttedFeatures
CHECK_DEADLOCK FALSE
