SPECIFICATION PeopleSpec
CONSTANTS
    ann = ann
    bob = bob
    sheep = sheep
    apple = apple
    brick = brick
    grass = grass
    sack = sack
    a = a
    b = b
    c = c
    d = d
    log = log
    plan = plan
    NoOne = NoOne
    Nothing = Nothing
    NoStack = NoStack
    NoHerd = NoHerd
    None = None
    NoToken = NoToken
    Tokens = {1, 2, 3, 4}
    MaxWaypoints = 2
    FollowTicks = 2
    MaxPosted = 3
    Folk = {ann, bob, sheep}
    Item = {apple, brick, grass}
    Bag = {sack}
    Haulable = {apple, brick}
    Edible = {apple, grass}
    Grazes <- GrassOnly
    BagsOf <- MCBagsOf
    Slots = 2
    Hands <- MCHands
    Volume <- MCVolume
    VolumeLimit = 5
    Bites = 2
    Selectable = {ann, sheep, plan, apple}
    Ai = {ann, sheep}
    Ours = {ann}
    Movers = {sheep}
    Loose = {apple}
    Plans = {plan}
    Nearest <- MCNearest
    ColumnOf <- MCWhere
    Columns = {0, 1}
    Top = 2
    Views = {1, 2}
    SolidAtFirst <- MCGround
    Digs <- MCDigs
    MaxInputs = 5
    MaxEvents = 2
    MaxCommands = 2
    Herdable = {a, b, c, d}
    SpeciesOf <- MCSpecies
    Expiry = 7
    MaxHerd = 3
    Hauler = {ann, bob}
    Thing = {a, b}
    Place = {c, d}
    Size <- MCSize
    BoxLimit = 2
    First = c
    Stored = {a}
    MaxHaulJobs = 2
    MaxEdits = 1
    Nobody = NoOne
    Piece = {a, b, c, d}
    Spare = {1, 2, 3, 4}
    Copyable = {a, b, c}
    Identical <- MCIdentical
    UnitVolume = 2
    MaxCount = 3
CHECK_DEADLOCK FALSE
INVARIANTS   StacksValid ChoicesAreSound WalksAreAwaited SelectionIsCurrent ContainersAreKept
PROPERTIES HerdsAreKept
