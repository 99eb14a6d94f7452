CONSTANTS
    e1 = e1
    e2 = e2
    item = item
    h1 = h1
    h2 = h2
    h3 = h3
    Hauled = Hauled
    Died = Died
    All = All
    NoTask = NoTask
    Entity <- OneEntity
    Subject <- MCSubject
    Type <- MCType
    Handle <- MCHandle
    WaitTicks <- MCWaitTicks
    MaxPosted = 2
    MaxSink = 2
SPECIFICATION FairRuntimeSpec
INVARIANTS TasksAreDriven
PROPERTIES TimersElapse
