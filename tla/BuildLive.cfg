CONSTANTS
    w1 = w1
    w2 = w2
    i1 = i1
    i2 = i2
    human = human
    berry = berry
    nearby = nearby
    distant = distant
    NoOne = NoOne
    Nothing = Nothing
    Worker = {w1, w2}
    Stranger = {}
    Item = {i1, i2}
    Mortal = {}
    Needed = 2
    Steps = 1
    Being = {human, berry}
    Body = {human, berry}
    Senser = {human}
    Spot = {nearby, distant}
    Close <- MCClose
    Nowhere = Nowhere
    SpatialPeriod = 2
    SENSE_DECAY = 2
    Wide = 2
    High = 4
    Rows = {2}
    Ground <- MCGround
    Goals = {2}
    Speeds = {50}
    MaxEdits = 2
    SettleTicks = 4
    ChunkSide = 2
    SlabHeight = 3
    Extent = 1
    GridWidth = 3
    GridDepth = 4
    GridHeight = 2
SPECIFICATION WorkSpec
INVARIANTS  MotionIsSound 
PROPERTIES BlockIsBuilt BuildsArePaid
