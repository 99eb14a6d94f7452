CONSTANTS
    e1 = e1
    e2 = e2
    j1 = j1
    j2 = j2
    break = break
    gather2 = gather2
    gather1 = gather1
    go_break = go_break
    haul = haul
    wander = wander
    Entity <- MCEntity
    Task <- MCTask
    max_reservers <- MCMaxReservers
    Job <- MCJob
    JobTasks <- MCJobTasks
    Action <- MCAction
    ActionsOf <- MCActionsOf
    BaseAction <- MCBaseAction
    DivineAction <- MCDivineAction
    Nop = Nop
    NoSource = NoSource
    Base = Base
    Divine = Divine
    NoWork = NoWork
    NoActivity = NoActivity
    NoCommand = NoCommand
    NoChoice = NoChoice
    AiPeriod = 2
SYMMETRY Symmetric
SPECIFICATION SocietySpec
INVARIANTS CountsAgree ReservationMatchesAi ActivityMatchesAi OneWorkerPerUnshareable RemovedJobsAbandoned
PROPERTIES ReportReleases
