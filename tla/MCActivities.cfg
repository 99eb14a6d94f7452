CONSTANTS
    w1 = w1
    w2 = w2
    i1 = i1
    i2 = i2
    i3 = i3
    item = item
    h1 = h1
    h2 = h2
    h3 = h3
    BeenHauled = BeenHauled
    All = All
    NoTask = NoTask
    NoOne = NoOne
    Nothing = Nothing
    Worker = {w1, w2}
    Stranger = {}
    Item = {i1, i2, i3}
    Mortal = {w2}
    Needed = 2
    Steps = 2
SPECIFICATION ActivitiesSpec
INVARIANTS ReservationsAddUp HauledHasTransform HaulsMatchActivities PlacedOnce TasksAreDriven
