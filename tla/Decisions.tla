----------------------------- MODULE Decisions -----------------------------
(***************************************************************************)
(* How the AI ranks what an entity may do (ai::Intelligence) and settles   *)
(* who does what for the society (the pipeline of AiSystem).  Every DSE is *)
(* realised once for each of its targets, with its considerations; an      *)
(* option is scored until it cannot win any more; the best few entities    *)
(* are kept for each option the society offers; whoever chose one without  *)
(* being among them falls back to his next best.  What a consideration     *)
(* makes of its input, from the component it reads to its curve, is a      *)
(* given percentage of the entity's profile.                               *)
(***************************************************************************)
EXTENDS Integers, Sequences, SequencesExt, FiniteSets, FiniteSetsExt, TLC

CONSTANTS Thinkers,      \* the entities, in the order in which they are joined
          TasksListed,   \* the society's tasks, in the order of its jobs
          Casts,         \* their profiles: what their considerations make of the world
          None

VARIABLES profile,       \* of each entity
          stage, turn,   \* the step of the pipeline, and whose turn it is
          options,       \* RealisedDses of each entity, scored
          progress,      \* DecisionProgress: [is, candidate]
          unregistered,  \* options of this entity the scorer has not seen
          best,          \* best_society_dse_candidate: <<entity, score>> ascending
          holders,       \* the entities that have reserved a task
          current        \* the action each entity is doing, as the option it was

decisionVars == <<profile, stage, turn, options, progress, unregistered, best,
                  holders, current>>

MAX_DSE_CANDIDATES == 5
TargetOf == <<"target">>     \* the subject of an input that is about the DSE's target

Entities == ToSet(Thinkers)
Me == Thinkers[turn]
Kind(task) == task[1]

\* DecisionWeight::multiplier, in hundredths.
Idle == 100
Normal == 200
BasicNeeds == 350
AbsoluteOverride == 100000

\* How many have reserved a task, and what as_dse makes of it.
Shared(task) == Cardinality(holders[task])
Multiplier(task, e) ==
  IF e \in holders[task] THEN 120
  ELSE CASE Shared(task) = 0 -> 95
         [] Shared(task) \in {1, 2} -> 80
         [] Shared(task) = 3 -> 75
         [] Shared(task) = 4 -> 70
MaxWorkers(task) == IF Kind(task) = "GatherMaterials" THEN 3 ELSE 1

\* filter_applicable_tasks, and as_dse's "don't even bother".
Applicable(task, e) ==
  \/ e \in holders[task]
  \/ holders[task] = {}
  \/ MaxWorkers(task) > 1 /\ Shared(task) < 5

\* Every consideration is its input and what that is about.
OfTarget(name) == <<name, TargetOf>>
Constant(percent) == <<"constant", <<percent>>>>
Hunger == <<"hunger", None>>
HoldingFood == <<"holding", None>>
CanUseHeldFood == <<"usable", None>>
IsFarFromHerdLeader == <<"herd", None>>
ProximityTo(place) == <<"near", place>>
ProximityToTarget == OfTarget("near")
LikesToEatTarget == OfTarget("likes")
HasFreeHandsToHoldTarget == OfTarget("free hands")
HasExtraHandsFor(item) == <<"hands", item>>
TargetBlockTypeMatches == OfTarget("solid")

Dse(name, task, weight, considerations) ==
  [dse |-> name, task |-> task, weight |-> weight, considerations |-> considerations]

WanderDse == Dse("Wander", None, Idle, <<Constant(1)>>)
ObeyDivineCommandDse == Dse("ObeyDivineCommand", None, AbsoluteOverride, <<Constant(100)>>)
StayCloseToHerdDse == Dse("StayCloseToHerd", None, Idle, <<IsFarFromHerdLeader>>)
EatHeldFoodDse ==
  Dse("EatHeldFood", None, BasicNeeds, <<Hunger, HoldingFood, CanUseHeldFood>>)
FindLocalEquippableFoodDse ==
  Dse("FindLocalEquippableFood", None, Normal,
      <<Hunger, LikesToEatTarget, ProximityToTarget, HasFreeHandsToHoldTarget>>)
FindLocalGrazingFoodDse ==
  Dse("FindLocalGrazingFood", None, Normal, <<Hunger, LikesToEatTarget, ProximityToTarget>>)
BreakBlockDse(task) ==
  Dse("BreakBlock", task, Normal, <<ProximityToTarget, TargetBlockTypeMatches>>)
BuildDse(task) == Dse("Build", task, Normal, <<ProximityTo(task)>>)
HaulDse(task) == Dse("Haul", task, Normal, <<HasExtraHandsFor(task), ProximityTo(task)>>)
GatherMaterialsDse(task) ==
  Dse("GatherMaterials", task, Normal,
      <<OfTarget("hands"), ProximityToTarget, ProximityTo(task)>>)

AsDse(task) == CASE Kind(task) = "BreakBlock" -> BreakBlockDse(task)
                 [] Kind(task) = "Build" -> BuildDse(task)
                 [] Kind(task) = "GatherMaterials" -> GatherMaterialsDse(task)
                 [] Kind(task) = "Haul" -> HaulDse(task)

\* Dse::target: None is Untargeted, where a search may find nothing.
Targets(d, e) ==
  CASE d.dse \in {"FindLocalEquippableFood", "FindLocalGrazingFood"} -> profile[e].food
    [] d.dse = "GatherMaterials" -> profile[e].materials
    [] d.dse = "BreakBlock" -> <<d.task>>
    [] OTHER -> <<None>>

BaseDses(species) ==
  CASE species = "human" -> <<WanderDse, EatHeldFoodDse, FindLocalEquippableFoodDse>>
    [] species = "dog" -> <<WanderDse>>
    [] species = "sheep" -> <<WanderDse, StayCloseToHerdDse, FindLocalGrazingFoodDse>>

\* One option for each target, with the same weight to begin with.
Realised(d, e, multiplier) ==
  LET targets == Targets(d, e)
  IN [i \in DOMAIN targets |->
        [d EXCEPT !.weight = @ * multiplier] @@ [target |-> targets[i]]]

\* RealisedDses::new: additional, base and then stream DSEs.
RealisedDses(e) ==
  LET additional == IF profile[e].commanded THEN <<ObeyDivineCommandDse>> ELSE << >>
      own == additional \o BaseDses(profile[e].species)
      tasks == IF profile[e].species = "human"
               THEN SelectSeq(TasksListed, LAMBDA t : Applicable(t, e)) ELSE << >>
  IN FlattenSeq([i \in DOMAIN own |-> Realised(own[i], e, 100)])
     \o FlattenSeq([i \in DOMAIN tasks |->
          Realised(AsDse(tasks[i]), e, Multiplier(tasks[i], e))])

\* AiInput::get and what the consideration makes of it, in percent.
InputValue(e, input, target) ==
  LET about == IF input[2] = TargetOf THEN target ELSE input[2]
      key == <<input[1], about>>
  IN CASE input[1] = "constant" -> input[2][1]
       [] input[2] = TargetOf /\ target = None -> 0
       [] OTHER -> IF key \in DOMAIN profile[e].value THEN profile[e].value[key] ELSE 100

\* InputCache::get: what was read without a target serves every target.
CachedFor(cache, input, target) ==
  IF <<input, None>> \in cache THEN None ELSE target

\* A mutant: the considerations that are left are taken for granted.
ScoreHasty(e, option, bestSoFar, cache) ==
  LET value == InputValue(e, option.considerations[1], option.target)
  IN [score |-> (option.weight * value) \div 100, cache |-> cache]

\* DseToScore::score gives up on an option that fell below the best so far.
Score(e, option, bestSoFar, cache) ==
  LET Consider(acc, input) ==
        IF acc.done THEN acc
        ELSE IF acc.score < bestSoFar THEN [acc EXCEPT !.score = 0, !.done = TRUE]
        ELSE LET from == CachedFor(acc.cache, input, option.target)
                 value == InputValue(e, input, from)
             IN [score |-> (acc.score * value) \div 100, done |-> value = 0,
                 cache |-> acc.cache \cup {<<input, from>>}]
  IN FoldLeft(Consider, [score |-> option.weight, done |-> FALSE, cache |-> cache],
              option.considerations)

Scored(e, dses) ==
  LET Next(acc, option) ==
        LET s == IF option.weight < acc.best THEN [score |-> 0, cache |-> acc.cache]
                 ELSE Score(e, option, acc.best, acc.cache)
        IN [best |-> Max({acc.best, s.score}), cache |-> s.cache,
            scores |-> Append(acc.scores, s.score)]
      result == FoldLeft(Next, [best |-> 0, cache |-> {}, scores |-> << >>], dses)
  IN [i \in DOMAIN dses |-> [dses[i] EXCEPT !.weight = result.scores[i]]]

DecisionInit ==
  /\ profile \in Casts
  /\ stage = "think" /\ turn = 1
  /\ options = [e \in Entities |-> << >>]
  /\ progress = [e \in Entities |-> [is |-> "None", candidate |-> 0]]
  /\ unregistered = << >> /\ best = << >>
  /\ holders = [t \in ToSet(TasksListed) |-> {}]
  /\ current = [e \in Entities |-> None]

\* Whose turn is next in this stage, or the first one's of the next stage.
NextTurn(next) ==
  IF turn < Len(Thinkers) THEN turn' = turn + 1 /\ stage' = stage
  ELSE turn' = 1 /\ stage' = next

KeyOf(option) == <<option.task, option.target>>
LastBest(scores) ==
  Max({i \in DOMAIN scores : \A j \in DOMAIN scores : scores[j].weight <= scores[i].weight})

\* choose_with_stream_dses.
MakeInitialChoice ==
  /\ stage = "think" /\ progress[Me].is = "None"
  /\ LET scored == Scored(Me, RealisedDses(Me)) IN
     /\ options' = [options EXCEPT ![Me] = scored]
     /\ progress' = [progress EXCEPT ![Me] =
          IF scored = << >> THEN [is |-> "NoChoice", candidate |-> 0]
          ELSE [is |-> "InitialChoice", candidate |-> LastBest(scored)]]
     /\ unregistered' = SelectSeq(scored, LAMBDA o : o.task # None)
  /\ UNCHANGED <<profile, stage, turn, best, holders, current>>

\* BestNCandidates::insert, at one of the places its binary search may return.
Inserted(list, entry, limit, i) ==
  IF Len(list) = limit
  THEN IF i = limit THEN Append(Tail(list), entry) ELSE list
  ELSE IF i = 0 THEN list ELSE InsertAt(list, i + 1, entry)

Places(list, score) ==
  LET same == {i \in DOMAIN list : list[i][2] = score}
  IN IF same = {} THEN {Cardinality({i \in DOMAIN list : list[i][2] < score})}
     ELSE {i - 1 : i \in same}

RegisterScore ==
  /\ stage = "think" /\ unregistered # << >>
  /\ LET option == Head(unregistered)
         key == KeyOf(option)
         entry == <<Me, option.weight>>
         limit == Min({MaxWorkers(option.task), MAX_DSE_CANDIDATES})
     IN IF key \in DOMAIN best
        THEN \E i \in Places(best[key], option.weight) :
               best' = [best EXCEPT ![key] = Inserted(@, entry, limit, i)]
        ELSE best' = (key :> <<entry>>) @@ best
  /\ unregistered' = Tail(unregistered)
  /\ UNCHANGED <<profile, stage, turn, options, progress, holders, current>>

HasThought ==
  /\ stage = "think" /\ progress[Me].is # "None" /\ unregistered = << >>
  /\ NextTurn("finalise")
  /\ UNCHANGED <<profile, options, progress, unregistered, best, holders, current>>

IsCandidate(e, option) ==
  LET list == best[KeyOf(option)] IN \E i \in DOMAIN list : list[i][1] = e
Denied(e, option) == option.task # None /\ ~IsCandidate(e, option)

FinaliseChoice ==
  /\ stage = "finalise"
  /\ LET p == progress[Me] IN
     progress' = [progress EXCEPT ![Me].is =
       IF p.is = "NoChoice" THEN "Taken"
       ELSE IF Denied(Me, options[Me][p.candidate]) THEN "Denied" ELSE "Decided"]
  /\ NextTurn("fallback")
  /\ UNCHANGED <<profile, options, unregistered, best, holders, current>>

\* find_next_best, whose sort leaves equals in any order.
ChooseBestWithSkipper ==
  /\ stage = "fallback"
  /\ IF progress[Me].is # "Denied" THEN progress' = progress
     ELSE LET open == {i \in DOMAIN options[Me] : ~Denied(Me, options[Me][i])}
              top == {i \in open : \A j \in open : options[Me][j].weight <= options[Me][i].weight}
          IN IF open = {} THEN progress' = [progress EXCEPT ![Me].is = "NoChoice"]
             ELSE \E i \in top :
                    progress' = [progress EXCEPT ![Me] = [is |-> "Decided", candidate |-> i]]
  /\ NextTurn("consume")
  /\ UNCHANGED <<profile, options, unregistered, best, holders, current>>

Chosen(e) == options[e][progress[e].candidate]
ActionOf(option) == [dse |-> option.dse, task |-> option.task, target |-> option.target]
GivenUp(e) == [t \in DOMAIN holders |-> holders[t] \ {e}]

ConsumeDecision ==
  /\ stage = "consume"
  /\ LET action == ActionOf(Chosen(Me)) IN
     IF action = current[Me] THEN UNCHANGED <<current, holders>>
     ELSE /\ current' = [current EXCEPT ![Me] = action]
          /\ holders' = IF action.task = None THEN GivenUp(Me)
                        ELSE [GivenUp(Me) EXCEPT ![action.task] = @ \cup {Me}]
  /\ NextTurn("idle")
  /\ UNCHANGED <<profile, options, progress, unregistered, best>>

\* The activity of e ends, with the reservation and the divine command for it.
Finish(e) ==
  /\ stage = "idle" /\ current[e] # None
  /\ current' = [current EXCEPT ![e] = None] /\ holders' = GivenUp(e)
  /\ profile' = [profile EXCEPT ![e].commanded = @ /\ current[e].dse # "ObeyDivineCommand"]
  /\ UNCHANGED <<stage, turn, options, progress, unregistered, best>>

NextThought ==
  /\ stage = "idle" /\ stage' = "think"
  /\ options' = [e \in Entities |-> << >>]
  /\ progress' = [e \in Entities |-> [is |-> "None", candidate |-> 0]]
  /\ best' = << >>
  /\ UNCHANGED <<profile, turn, unregistered, holders, current>>

DecisionNext ==
  \/ MakeInitialChoice \/ RegisterScore \/ HasThought
  \/ FinaliseChoice \/ ChooseBestWithSkipper \/ ConsumeDecision
  \/ NextThought
  \/ \E e \in Entities : Finish(e)

DecisionSpec == DecisionInit /\ [][DecisionNext]_decisionVars

---------------------------------------------------------------------------
\* The score of an option, scored alone, to the end and without a cache.
FullScore(e, option) ==
  FoldLeft(LAMBDA s, input : (s * InputValue(e, input, option.target)) \div 100,
           option.weight, option.considerations)
FullScores(e) == LET all == RealisedDses(e) IN [i \in DOMAIN all |-> FullScore(e, all[i])]

(* What gives up early, and remembers inputs across options, still finds   *)
(* an option than which none is better.                                    *)
InitialChoiceIsBest ==
  stage = "think" =>
    \A e \in Entities : progress[e].is = "InitialChoice" =>
      LET full == FullScores(e)
      IN \A i \in DOMAIN full : full[i] <= full[progress[e].candidate]

(* Whatever is denied to whom, everyone ends up with an option all of whose*)
(* considerations speak for it: the search that EatHeldFood expects in the *)
(* cache has been made, targets are there, and no progress is unreachable. *)
ChoicesAreFeasible ==
  stage = "consume" /\ turn = 1 =>
    \A e \in Entities :
      progress[e].is = "Decided" /\ FullScores(e)[progress[e].candidate] > 0

ChoicesAreSound == InitialChoiceIsBest /\ ChoicesAreFeasible

(* No more entities go for the same offer than its task has workers.       *)
OffersAreNotOverrun ==
  stage = "consume" =>
    \A key \in DOMAIN best :
      Cardinality({e \in Entities : Chosen(e).task # None /\ KeyOf(Chosen(e)) = key})
        <= MaxWorkers(key[1])
=============================================================================
