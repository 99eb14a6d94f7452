------------------------------ MODULE MCPeople ------------------------------
(* The components that decide for and act on single creatures, each in a part *)
(* of its own: they share no state.  A behaviour is one of one part.          *)
EXTENDS Items, Stacks, Following, Player, Herds, Containers, TLC

CONSTANTS ann, bob, sheep, apple, brick, grass, sack, a, b, c, d, log, plan,
          None

VARIABLE part
VARIABLES profile, stage, turn, options, progress, unregistered, best, holders, current

-----------------------------------------------------------------------------
\* Two people with two hands, one of whom has a sack, and a sheep that grazes.
MCBagsOf == ann :> <<sack>> @@ bob :> <<>> @@ sheep :> <<>>
GrassOnly == ann :> {} @@ bob :> {} @@ sheep :> {grass}
MCHands == apple :> 1 @@ brick :> 2 @@ grass :> 1
MCVolume == apple :> 1 @@ brick :> 3 @@ grass :> 9

\* Four items; two are equal, three can be copied.
MCIdentical == {<<x, x>> : x \in {a, b, c, d}} \cup {<<a, b>>, <<b, a>>}

\* Four of one species, and herds that are left by the second run.
MCSpecies == [e \in Herdable |-> "sheep"]

\* A block to break, one to build and one to gather a log for; who is near what, who is
\* hungry and who obeys differs.
Tasks == <<<<"BreakBlock", 1>>, <<"GatherMaterials", 2>>, <<"Build", 3>>>>
Near(x, y, z) ==
    <<"near", Tasks[1]>> :> x @@ <<"near", log>> :> y @@ <<"near", Tasks[3]>> :> z
Hungry(n) == <<"hunger", None>> :> n @@ <<"holding", None>> :> 0
Cast(species, commanded, meals, materials, value) ==
    [species |-> species, commanded |-> commanded, food |-> meals, materials |-> materials,
     value |-> value]
Handy == Cast("human", FALSE, <<>>, <<log>>, Near(50, 80, 50) @@ Hungry(0))
Peckish == Cast("human", FALSE, <<apple>>, <<log>>, Near(80, 50, 50) @@ Hungry(50))
Starving == Cast("human", FALSE, <<apple>>, <<>>, Near(50, 80, 80) @@ Hungry(80))
Obedient == Cast("human", TRUE, <<>>, <<log>>, Near(80, 90, 80) @@ Hungry(0))
Eager == Cast("human", FALSE, <<apple>>, <<>>, Near(90, 50, 50) @@ Hungry(0))
Distant == Cast("human", FALSE, <<>>, <<log>>, Near(80, 50, 20) @@ Hungry(0))
Grazer == Cast("sheep", FALSE, <<apple>>, <<>>, <<"herd", None>> :> 50 @@ Hungry(0))
De == INSTANCE Decisions WITH
        Thinkers <- <<a, b, c, d>>, TasksListed <- Tasks,
        Casts <- {a :> w @@ b :> x @@ c :> y @@ d :> z :
                    w \in {Handy, Obedient, Distant}, x \in {Handy, Peckish, Eager},
                    y \in {Peckish, Starving}, z \in {Peckish, Obedient, Grazer}}

\* Two columns, one a block higher; a person in one, a sheep, an item and the plan of a
\* build job in the other.
MCWhere == ann :> 0 @@ sheep :> 1 @@ plan :> 1 @@ apple :> 1
MCNearest == 0 :> <<ann>> @@ 1 :> <<plan, sheep, apple>>
MCGround == {<<0, 0>>, <<1, 0>>, <<1, 1>>}
MCDigs == {<<<<<<1, 1>>, <<1, 1>>>>, "air">>}

\* A chest with the smaller of two things, which just fits no other with the larger.
MCSize == a :> 1 @@ b :> 2

-----------------------------------------------------------------------------
decisions == <<profile, stage, turn, options, progress, unregistered, best, holders, current>>

pvars == <<part, itvars, stvars, herdVars, decisions, followVars, plvars, cvars>>

\* A part that is not the behaviour's stays in an initial state.
PeopleInit ==
    /\ part \in {"items", "stacks", "herds", "decisions", "following", "player", "containers"}
    /\ Init /\ StacksInit /\ HerdsInit /\ FollowInit /\ De!DecisionInit /\ PlayerInit
    /\ ContainersInit
    /\ part # "decisions" => profile = a :> Handy @@ b :> Handy @@ c :> Peckish @@ d :> Peckish

PeopleNext ==
    \/ /\ part = "items" /\ Next
       /\ UNCHANGED <<part, stvars, herdVars, decisions, followVars, plvars, cvars>>
    \/ /\ part = "stacks" /\ StacksNext
       /\ UNCHANGED <<part, itvars, herdVars, decisions, followVars, plvars, cvars>>
    \/ /\ part = "herds" /\ HerdsNext
       /\ UNCHANGED <<part, itvars, stvars, decisions, followVars, plvars, cvars>>
    \/ /\ part = "decisions" /\ De!DecisionNext
       /\ UNCHANGED <<part, itvars, stvars, herdVars, followVars, plvars, cvars>>
    \/ /\ part = "following" /\ FollowNext
       /\ UNCHANGED <<part, itvars, stvars, herdVars, decisions, plvars, cvars>>
    \/ /\ part = "player" /\ PlayerNext
       /\ UNCHANGED <<part, itvars, stvars, herdVars, decisions, followVars, cvars>>
    \/ /\ part = "containers" /\ ContainersNext
       /\ UNCHANGED <<part, itvars, stvars, herdVars, decisions, followVars, plvars>>

PeopleSpec == PeopleInit /\ [][PeopleNext]_pvars

-----------------------------------------------------------------------------
\* Pruned scores choose what full ones would, only what can be done is chosen, and no
\* task by too many (Decisions).
ChoicesAreSound == part = "decisions" => De!ChoicesAreSound /\ De!OffersAreNotOverrun
=============================================================================
