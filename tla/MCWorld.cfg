SPECIFICATION WorldSpec
CONSTANTS
    s = s
    a = a
    b = b
    c = c
    NoParent = NoParent
    g = g
    NoNode = NoNode
    Node <- MCNode
    Start = s
    CostMaps <- MCCostMaps
    Estimates <- MCEstimates
    GoalSets <- MCGoalSets
    Borders <- MCBorders
    MaxFuel = 3
    Size = 2
    Height = 2
    Chunks <- MCPair
    Levels <- MCPair
    Ground <- MCGround
    Ranges <- MCRanges
    MaxEdits = 2
    Nearness = {1}
    WanderFuel = 2
    planet_size = 16
    SIZE = 2
    CHUNK_SIZE = 2
    SLAB_SIZE = 2
    Requested <- MCRequested
    GroundLevel <- MCGroundLevel
    Boundary <- MCBoundary
    Woods <- MCWoods
    Grass <- MCGrass
    Radius = 1
    Trees <- MCTrees
    MaxTrees = 1
    Heights <- MCHeights
    Corners <- MCCorners
    MaxWood = 4
    MaxLine = 4
    expansion = 1
    continent_start_radius = 8
    continent_dec_min = 2
    continent_dec_max = 3
    max_continents = 4
    continent_min_distance = 6
    Spots <- MCSpots
    MaxBlobs = 3
    Coasts <- MCCoasts
    Noise <- MCNoise
CHECK_DEADLOCK FALSE
INVARIANTS VerdictsAreTrue NavigationIsRight PictureIsRight DefinitionsAreSound PlanetIsRight
PROPERTIES SearchesEnd EditsAreExact
