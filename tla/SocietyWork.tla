---------------------------- MODULE SocietyWork -----------------------------
(***************************************************************************)
(* How the people of a society come to work on its jobs, tick by tick.     *)
(*                                                                         *)
(* A job (society/job/job.rs) lists the tasks it wants done.  Every few    *)
(* ticks the AI (ai/system.rs) refreshes the jobs, lets every entity       *)
(* choose, admits only the best candidates to a task, reserves what was    *)
(* chosen and leaves a new activity for the activity system.  Every tick   *)
(* the activity system (activity/system.rs) switches activities or         *)
(* collects the result of a finished one and tells the job; then the       *)
(* runtime polls the activities.  The systems run one after the other on a *)
(* single thread; what makes them hard is that each acts on what another   *)
(* left behind some phases, or some ticks, ago.                            *)
(*                                                                         *)
(* What a job's tasks are is left open here, as the trait SocietyJobImpl   *)
(* leaves it open: a refresh may change them in any way.  BuildWork fixes  *)
(* it for the jobs that build a block.                                     *)
(***************************************************************************)
EXTENDS Reservations

CONSTANTS
    Job,            \* jobs that the player may order
    JobTasks,       \* Job -> the tasks it can ever list
    Action,         \* what an entity can be told to do (AiAction)
    ActionsOf,      \* Task -> the actions of its DSE, one for each target
    BaseAction,     \* actions the species chooses by itself
    DivineAction,   \* actions the player may command directly
    Nop,            \* AiAction::default()
    NoSource, Base, Divine,  \* AiComponent.current: None, Base(_), Additional(DivineCommand)
    NoWork, NoActivity, NoCommand, NoChoice,  \* None
    AiPeriod        \* the AI runs on every AiPeriod'th tick (10 in the code)

Work == Job \X Task     \* (SocietyJobRef, SocietyTask)

ASSUME JobTasksAssumption == JobTasks \in [Job -> SUBSET Task]
ASSUME ActionAssumption ==
    /\ ActionsOf \in [Task -> SUBSET Action]
    /\ BaseAction \subseteq Action
    /\ DivineAction \subseteq Action
    /\ Nop \notin Action
\* Only the shareable task, GatherMaterials, has a DSE with several targets.
ASSUME UnshareableAssumption ==
    \A t \in Task : max_reservers[t] = 1 =>
        \A a, b \in ActionsOf[t] : a = b
ASSUME NoneAssumption ==
    /\ {NoSource, Base, Divine, NoWork} \cap Work = {}
    /\ NoSource \notin {Base, Divine} /\ Base # Divine
    /\ NoActivity \notin Action \cup {Nop}
    /\ NoActivity \notin [action : Action, work : Work \cup {NoWork}]
    /\ NoCommand \notin Action
    /\ NoChoice \notin [source : Work \cup {NoSource, Base, Divine}, action : Action]
ASSUME AiPeriodAssumption == AiPeriod \in Nat \ {0}

VARIABLES
    phase,          \* the system that runs now
    todo,           \* the entities this system has still to visit
    tick,           \* tick number modulo AiPeriod
    alive,          \* entities that exist
    submitted,      \* jobs ordered so far
    jobs,           \* SocietyJobList.jobs
    to_cancel,      \* SocietyJobList.to_cancel
    tasks,          \* SocietyJob.tasks of each job
    pending_complete, \* SocietyJob.pending_complete of each job
    choice,         \* Intelligence.decision_progress: the decision of each entity
    current,        \* AiComponent.current
    last_action,    \* Intelligence.last_action
    divine,         \* the command in the additional DSEs
    new_activity,   \* ActivityComponent.new_activity
    current_society_task, \* ActivityComponent.current_society_task
    running,        \* the activity of ActivityComponent.current, or Nop
    result          \* its state: Running, or the result nobody has read yet

clock == <<phase, todo, tick>>
jobvars == <<submitted, jobs, to_cancel, tasks, pending_complete>>
aivars == <<current, last_action, divine>>
actvars == <<new_activity, current_society_task, running, result>>
svars == <<clock, alive, jobvars, choice, aivars, actvars, rvars>>

Result == {"Success", "Failure"}
Source == Work \cup {NoSource, Base, Divine}
Choice == [source : Source, action : Action]
Phase == {"ui", "jobs", "choose", "consume", "activity", "runtime", "end"}

SocietyTypeOK ==
    /\ phase \in Phase
    /\ todo \subseteq Entity
    /\ tick \in 0 .. AiPeriod - 1
    /\ alive \subseteq Entity
    /\ submitted \subseteq Job /\ jobs \subseteq submitted /\ to_cancel \subseteq submitted
    /\ tasks \in [Job -> SUBSET Task]
    /\ pending_complete \in [Job -> SUBSET (Task \X Result)]
    /\ choice \in [Entity -> Choice \cup {NoChoice}]
    /\ current \in [Entity -> Source]
    /\ last_action \in [Entity -> Action \cup {Nop}]
    /\ divine \in [Entity -> DivineAction \cup {NoCommand}]
    /\ new_activity \in [Entity -> [action : Action, work : Work \cup {NoWork}] \cup {NoActivity}]
    /\ current_society_task \in [Entity -> Work \cup {NoWork}]
    /\ running \in [Entity -> Action \cup {Nop, NoActivity}]
    /\ result \in [Entity -> Result \cup {"Running"}]
    /\ ResTypeOK

SocietyInit ==
    /\ phase = "ui" /\ todo = {} /\ tick = 0
    /\ alive = Entity
    /\ submitted = {} /\ jobs = {} /\ to_cancel = {}
    /\ tasks = [j \in Job |-> {}]
    /\ pending_complete = [j \in Job |-> {}]
    /\ choice = [e \in Entity |-> NoChoice]
    /\ current = [e \in Entity |-> NoSource]
    /\ last_action = [e \in Entity |-> Nop]
    /\ divine = [e \in Entity |-> NoCommand]
    /\ new_activity = [e \in Entity |-> NoActivity]
    /\ current_society_task = [e \in Entity |-> NoWork]
    /\ running = [e \in Entity |-> NoActivity]
    /\ result = [e \in Entity |-> "Running"]
    /\ ResInit

-----------------------------------------------------------------------------
(* Scheduling: a tick is ui, then (when the AI is due) jobs, choose and      *)
(* consume, then activity, runtime and end (tick, tick_systems, AiSystem).  *)

Visits(p) == IF p \in {"consume", "activity"} THEN alive ELSE {}

GoTo(p) == phase' = p /\ todo' = Visits(p)

EnterSystems ==
    /\ phase = "ui"
    /\ GoTo(IF tick = 0 THEN "jobs" ELSE "activity")
    /\ UNCHANGED <<tick, alive, jobvars, choice, aivars, actvars, rvars>>

\* The last entity of the AI's, or of the activity system's, join is done.
LeaveSystem ==
    /\ todo = {}
    /\ \/ phase = "consume" /\ GoTo("activity")
       \/ phase = "activity" /\ GoTo("runtime")
       \/ phase = "runtime" /\ GoTo("end")
    /\ UNCHANGED <<tick, alive, jobvars, choice, aivars, actvars, rvars>>

EndTick ==
    /\ phase = "end"
    /\ GoTo("ui")
    /\ tick' = (tick + 1) % AiPeriod
    /\ UNCHANGED <<alive, jobvars, choice, aivars, actvars, rvars>>

Visit(p, e) ==
    /\ phase = p
    /\ e \in todo
    /\ todo' = todo \ {e}
    /\ UNCHANGED <<phase, tick, alive>>

-----------------------------------------------------------------------------
(* The player's orders (process_ui_commands) *)

\* IssueSocietyCommand: submit the job, whose initial tasks are listed.
SubmitJob(j, initial) ==
    /\ phase = "ui"
    /\ j \in Job \ submitted
    /\ submitted' = submitted \cup {j}
    /\ jobs' = jobs \cup {j}
    /\ tasks' = [tasks EXCEPT ![j] = initial]
    /\ UNCHANGED <<clock, alive, to_cancel, pending_complete, choice, aivars, actvars, rvars>>

\* CancelJob: the job leaves the list at the next refresh.
CancelJob(j) ==
    /\ phase = "ui"
    /\ j \in submitted
    /\ to_cancel' = to_cancel \cup {j}
    /\ UNCHANGED <<clock, alive, submitted, jobs, tasks, pending_complete, choice, aivars,
                   actvars, rvars>>

\* IssueDivineCommand and CancelDivineCommand: add_divine_command replaces any
\* earlier command, remove_divine_command drops it.
CommandEntity(e, command) ==
    /\ phase = "ui"
    /\ e \in alive
    /\ divine' = [divine EXCEPT ![e] = command]
    /\ UNCHANGED <<clock, alive, jobvars, choice, current, last_action, actvars, rvars>>

-----------------------------------------------------------------------------
(* The AI *)

\* UpdateSocietyJobs, refresh_jobs: every listed job brings its tasks up to
\* date, consuming the completions it was told of, and leaves the list when it
\* has a result or no task; then the cancelled ones leave.
RefreshJobs(refreshed, done) ==
    /\ phase = "jobs" /\ GoTo("choose")
    /\ refreshed \in [jobs -> SUBSET Task]
    /\ {j \in jobs : refreshed[j] = {}} \subseteq done
    /\ tasks' = [j \in Job |-> IF j \in jobs THEN refreshed[j] ELSE tasks[j]]
    /\ pending_complete' = [j \in Job |-> IF j \in jobs THEN {} ELSE pending_complete[j]]
    /\ jobs' = jobs \ (done \cup to_cancel)
    /\ to_cancel' = {}
    /\ UNCHANGED <<tick, alive, submitted, choice, aivars, actvars, rvars>>

\* Mutants of Offers: nobody asks check_for; the jobs that have left the list
\* are still offered.
OffersUnchecked(e) ==
    UNION {[source : {w}, action : ActionsOf[w[2]]] :
              w \in {v \in jobs \X Task : v[2] \in tasks[v[1]]}}

OffersRemoved(e) ==
    UNION {[source : {w}, action : ActionsOf[w[2]]] :
              w \in {v \in submitted \X Task : /\ v[2] \in tasks[v[1]]
                                               /\ CheckFor(v[2], e) # {Unavailable}}}

\* filter_applicable_tasks: what the society offers to an entity.
Offers(e) ==
    UNION {[source : {w}, action : ActionsOf[w[2]]] :
              w \in {v \in jobs \X Task : /\ v[2] \in tasks[v[1]]
                                          /\ CheckFor(v[2], e) # {Unavailable}}}

\* A command outscores everything (AbsoluteOverride); else any DSE may win.
Choices(e) ==
    IF divine[e] # NoCommand
    THEN {[source |-> Divine, action |-> divine[e]]}
    ELSE [source : {Base}, action : BaseAction] \cup Offers(e)

\* MakeInitialChoice and FinaliseChoice: an entity may have a society task
\* only as one of the max_workers best candidates (BestNCandidates) for its
\* DSE and target; those denied choose again.  Reservations do not change yet.
Decide(decision) ==
    /\ phase = "choose" /\ GoTo("consume")
    /\ \A e \in alive : decision[e] \in Choices(e)
    /\ \A t \in Task : \A a \in ActionsOf[t] :
          Cardinality({e \in alive : /\ decision[e].source \in Job \X {t}
                                     /\ decision[e].action = a}) <= max_reservers[t]
    /\ choice' = [e \in Entity |-> IF e \in alive THEN decision[e] ELSE NoChoice]
    /\ UNCHANGED <<tick, alive, jobvars, aivars, actvars, rvars>>

\* interrupt_current_action: a society task gives up its reservation unless
\* another society task is about to replace it; a command is taken for done.
InterruptDivine(e) ==
    divine' = [divine EXCEPT ![e] = IF current[e] = Divine THEN NoCommand ELSE @]

\* Mutant of InterruptTo: a society task that nothing replaces is not cancelled.
InterruptToKeeping(e, source) ==
    /\ InterruptDivine(e)
    /\ IF source \in Work THEN Reserve(source[2], e) ELSE UNCHANGED rvars
    /\ current' = [current EXCEPT ![e] = source]

InterruptTo(e, source) ==
    /\ InterruptDivine(e)
    /\ CASE source \in Work -> Reserve(source[2], e)
         [] source \notin Work /\ current[e] \in Work -> Cancel(e)
         [] OTHER -> UNCHANGED rvars
    /\ current' = [current EXCEPT ![e] = source]

WorkOf(source) == IF source \in Work THEN source ELSE NoWork

\* ConsumeDecision, IntelligentDecision::Unchanged: the same action again.
ConsumeUnchanged(e) ==
    /\ Visit("consume", e)
    /\ choice[e].action = last_action[e]
    /\ choice' = [choice EXCEPT ![e] = NoChoice]
    /\ UNCHANGED <<jobvars, aivars, actvars, rvars>>

\* IntelligentDecision::New: interrupt, reserve, and pass the activity on.
ConsumeNew(e) ==
    /\ Visit("consume", e)
    /\ choice[e].action # last_action[e]
    /\ InterruptTo(e, choice[e].source)
    /\ last_action' = [last_action EXCEPT ![e] = choice[e].action]
    /\ new_activity' = [new_activity EXCEPT ![e] =
                           [action |-> choice[e].action, work |-> WorkOf(choice[e].source)]]
    /\ choice' = [choice EXCEPT ![e] = NoChoice]
    /\ UNCHANGED <<jobvars, current_society_task, running, result>>

-----------------------------------------------------------------------------
(* The activity system *)

\* notify_completion
Notify(e) ==
    pending_complete' =
        [j \in Job |-> pending_complete[j] \cup
            {<<w[2], result[e]>> : w \in {current_society_task[e]} \cap ({j} \X Task)}]

\* Mutants of StartActivity: the old activity's society task is kept; the old
\* activity's result is told to its job.
StartActivityKeepingTask(e) ==
    /\ Visit("activity", e)
    /\ new_activity[e] # NoActivity
    /\ running' = [running EXCEPT ![e] = new_activity[e].action]
    /\ result' = [result EXCEPT ![e] = "Running"]
    /\ new_activity' = [new_activity EXCEPT ![e] = NoActivity]
    /\ UNCHANGED <<current_society_task, jobvars, choice, aivars, rvars>>

StartActivityNotifying(e) ==
    /\ Visit("activity", e)
    /\ new_activity[e] # NoActivity
    /\ IF result[e] = "Running" THEN UNCHANGED pending_complete ELSE Notify(e)
    /\ running' = [running EXCEPT ![e] = new_activity[e].action]
    /\ result' = [result EXCEPT ![e] = "Running"]
    /\ current_society_task' = [current_society_task EXCEPT ![e] = new_activity[e].work]
    /\ new_activity' = [new_activity EXCEPT ![e] = NoActivity]
    /\ UNCHANGED <<submitted, jobs, to_cancel, tasks, choice, aivars, rvars>>

\* A new activity replaces the current one, whose task is cancelled: a result
\* that nobody has read yet goes with it.
StartActivity(e) ==
    /\ Visit("activity", e)
    /\ new_activity[e] # NoActivity
    /\ running' = [running EXCEPT ![e] = new_activity[e].action]
    /\ result' = [result EXCEPT ![e] = "Running"]
    /\ current_society_task' = [current_society_task EXCEPT ![e] = new_activity[e].work]
    /\ new_activity' = [new_activity EXCEPT ![e] = NoActivity]
    /\ UNCHANGED <<jobvars, choice, aivars, rvars>>

\* The activity has finished (or there is none yet): the AI forgets it, the
\* job is told, and the entity idles.
CollectResult(e) ==
    /\ Visit("activity", e)
    /\ new_activity[e] = NoActivity
    /\ running[e] = NoActivity \/ result[e] # "Running"
    /\ InterruptTo(e, NoSource)
    /\ last_action' = [last_action EXCEPT ![e] = Nop]
    /\ Notify(e)
    /\ current_society_task' = [current_society_task EXCEPT ![e] = NoWork]
    /\ running' = [running EXCEPT ![e] = Nop]
    /\ result' = [result EXCEPT ![e] = "Running"]
    /\ UNCHANGED <<submitted, jobs, to_cancel, tasks, choice, new_activity>>

ContinueActivity(e) ==
    /\ Visit("activity", e)
    /\ new_activity[e] = NoActivity
    /\ running[e] # NoActivity /\ result[e] = "Running"
    /\ UNCHANGED <<jobvars, choice, aivars, actvars, rvars>>

-----------------------------------------------------------------------------
(* The runtime polls the activities; the idle one never ends. *)

Finish(e, res) ==
    /\ phase = "runtime"
    /\ e \in alive
    /\ running[e] \in Action /\ result[e] = "Running"
    /\ result' = [result EXCEPT ![e] = res]
    /\ UNCHANGED <<clock, alive, jobvars, choice, aivars, new_activity,
                   current_society_task, running, rvars>>

\* delete_queued_entities: the components go with the entity, and that is all.
Die(e) ==
    /\ phase = "end"
    /\ e \in alive
    /\ alive' = alive \ {e}
    /\ current' = [current EXCEPT ![e] = NoSource]
    /\ last_action' = [last_action EXCEPT ![e] = Nop]
    /\ divine' = [divine EXCEPT ![e] = NoCommand]
    /\ current_society_task' = [current_society_task EXCEPT ![e] = NoWork]
    /\ running' = [running EXCEPT ![e] = NoActivity]
    /\ result' = [result EXCEPT ![e] = "Running"]
    /\ UNCHANGED <<clock, jobvars, choice, new_activity, rvars>>

-----------------------------------------------------------------------------
Schedule == EnterSystems \/ LeaveSystem \/ EndTick

Player ==
    \/ \E j \in Job :
          \/ \E initial \in SUBSET JobTasks[j] : SubmitJob(j, initial)
          \/ CancelJob(j)
    \/ \E e \in Entity, c \in DivineAction \cup {NoCommand} : CommandEntity(e, c)

Ai ==
    \/ \E refreshed \in [jobs -> SUBSET Task], done \in SUBSET jobs :
          /\ \A j \in jobs : refreshed[j] \subseteq JobTasks[j]
          /\ RefreshJobs(refreshed, done)
    \/ \E decision \in [alive -> UNION {Choices(e) : e \in alive}] : Decide(decision)
    \/ \E e \in todo : ConsumeUnchanged(e) \/ ConsumeNew(e)

ActivitySystem ==
    \E e \in todo : StartActivity(e) \/ CollectResult(e) \/ ContinueActivity(e)

SocietyNext ==
    \/ Schedule
    \/ Player
    \/ Ai
    \/ ActivitySystem
    \/ \E e \in Entity : Die(e) \/ \E res \in Result : Finish(e, res)

SocietySpec == SocietyInit /\ [][SocietyNext]_svars

-----------------------------------------------------------------------------
(* Properties *)

\* A living entity holds the reservation of exactly the society task that its
\* AI believes it is doing: the table is kept by ConsumeDecision and by the
\* activity system, in different systems and ticks, and activity/system.rs:83
\* relies on the other ("not necessary to manually cancel society reservation
\* here, as the ai interruption already did").
ReservationMatchesAi ==
    \A e \in alive : \A t \in Task :
        <<t, e>> \in reservations <=> current[e] \in Job \X {t}

\* What the activity system works on, or is about to, is what the AI chose:
\* AiComponent.current and ActivityComponent are written by different systems.
ActivityMatchesAi ==
    \A e \in alive :
        WorkOf(current[e]) = IF new_activity[e] # NoActivity
                             THEN new_activity[e].work
                             ELSE current_society_task[e]

\* Two living entities never work on the same unshareable task, although a
\* reservation is made some phases after it was found free and the old worker
\* stops some phases after it gave its reservation up.
OneWorkerPerUnshareable ==
    \A e, f \in alive : \A t \in Task :
        /\ max_reservers[t] = 1
        /\ current_society_task[e] \in Job \X {t}
        /\ current_society_task[f] \in Job \X {t}
        => e = f

\* A job hears of a task only from an entity that held its reservation, which
\* gives it up in the same step: the job never hears of one attempt twice.
ReportReleases ==
    [][\A j \in Job : \A c \in pending_complete'[j] \ pending_complete[j] :
          \E r \in ReserversOf(c[1]) : result[r[2]] = c[2] /\ r \notin reservations']_svars

\* Once a job has left the list, whether finished or cancelled, nobody goes on
\* with its task when the AI and the activity system have run, unless another
\* task, the species or the player wants the very same done: nothing tells them
\* but the absence of its tasks from what they are offered.
RemovedJobsAbandoned ==
    tick = 0 /\ phase \in {"runtime", "end"} =>
        \A e \in alive : current_society_task[e] # NoWork =>
            running[e] \in BaseAction \cup {divine[e]}
                              \cup UNION {ActionsOf[t] : t \in UNION {tasks[j] : j \in jobs}}

\* activity/system.rs:131, "notify society job of completion": the result of a
\* finished society task is told to its job, if that is still listed.
CompletionReachesJob ==
    [][\A e \in alive : \A j \in jobs : \A t \in Task :
          (current_society_task[e] = <<j, t>> /\ result[e] \in Result /\ e \in alive'
             /\ current_society_task'[e] # <<j, t>>)
          => <<t, result[e]>> \in pending_complete'[j]]_svars
=============================================================================
