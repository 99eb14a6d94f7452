------------------------------- MODULE Player -------------------------------
(***************************************************************************)
(* The player's hand: mouse and keys become input events and requests      *)
(* (the SDL backend), a render turns events into selections and popups and *)
(* buttons into requests (InputSystem, UiPopup), and a tick applies edits  *)
(* of the terrain, then the requests (Simulation).  Renders and ticks      *)
(* interleave in any way, as the game loop's clock has it.  The world is   *)
(* a row of columns; who is near which column is given.                    *)
(***************************************************************************)
EXTENDS Queues, Integers, Sequences, FiniteSets, SequencesExt, FiniteSetsExt

CONSTANTS
    Selectable,  \* entities with a transform
    Ai, Ours,    \* who has an AiComponent, and who is of the player's society
    Movers,      \* who follows a path
    Loose,       \* haulable items that nobody holds
    Plans,       \* ui elements of build jobs of the player's society
    Nearest,     \* column |-> those within DISTANCE_THRESHOLD, by distance
    ColumnOf,    \* entity |-> column
    Columns, Top,     \* the loaded blocks
    Views,       \* what slice the viewer may have on top
    SolidAtFirst, \* blocks that are solid at first
    Digs,        \* edits of the terrain by others
    MaxInputs, MaxEvents, MaxCommands

ASSUME PlayerAssumption == IsFiniteSet(Selectable)

VARIABLES
    living, marked,   \* living entities, those with a SelectedComponent
    selected,         \* SelectedEntities::entities
    tiles, last,      \* SelectedTiles: current, and last, none or one
    blocks, changes,  \* solid blocks, and edits waiting for the next tick
    popup,            \* UiPopup: none or one, with its content: none or one
    mouse,            \* MouseState
    events, commands, \* sim_input_events and sim_ui_commands
    paused, deathlist,  \* RunStatus, and EntitiesToKill
    divine, orders,   \* who obeys a divine command, and what the society was told
    jobs,             \* ui elements whose build job the society has
    view,             \* the viewer's topmost slice
    speed, response,  \* RunSpeed, and TickResponse
    inputs            \* how much the player may still do

plvars == <<living, marked, selected, tiles, last, blocks, changes, popup, mouse, events, commands,
            paused, deathlist, divine, orders, jobs, view, speed, response, inputs>>

-----------------------------------------------------------------------------
Loaded == Columns \X (0 .. Top)
Sides == {"left", "right"}

\* WorldColumn, and find_highest_walkable in it
Column(x, top) == [x |-> x, top |-> top]
Walkable(col, solid) ==
    {z \in 1 .. col.top : <<col.x, z>> \in Loaded \ solid /\ <<col.x, z - 1>> \in solid}

\* A range of blocks by two corners.
Between(m, n) == Min({m, n}) .. Max({m, n})
CellsOf(r) == Between(r[1][1], r[2][1]) \X Between(r[1][2], r[2][2])
Moved(r, d) == <<<<r[1][1], r[1][2] + d>>, <<r[2][1], r[2][2] + d>>>>

\* CurrentSelection::update_makeup counts the loaded blocks of each type.
Makeup(r, solid) == [solid |-> Cardinality(CellsOf(r) \cap solid),
                     air |-> Cardinality((CellsOf(r) \cap Loaded) \ solid)]
Selection(r, progress, solid) == [range |-> r, progress |-> progress, makeup |-> Makeup(r, solid)]

\* SelectedTiles::current_selected: only a complete one
IsComplete(sel) == sel # <<>> /\ sel[1].progress = "complete"

\* SelectedTiles::update does nothing when the range was the last one, too.
UpdateTiles(ui, from, to, progress, solid) ==
    LET lo == Walkable(Column(Min({from.x, to.x}), from.top), solid)
        hi == Walkable(Column(Max({from.x, to.x}), from.top), solid)
        r == <<<<Min({from.x, to.x}), Max(lo) - 1>>, <<Max({from.x, to.x}), Max(hi) - 1>>>> IN
    IF lo = {} \/ hi = {} \/ ui.last = <<r, progress>> THEN ui
    ELSE [ui EXCEPT !.last = <<r, progress>>, !.tiles = <<Selection(r, progress, solid)>>]

\* CurrentSelection::modify moves a range by one slice if its slabs are there.
ModifyTiles(sel, d, solid) ==
    LET r == Moved(sel[1].range, d) IN
    IF IsComplete(sel) /\ {r[1], r[2]} \subseteq Loaded THEN <<Selection(r, "complete", solid)>>
    ELSE sel

-----------------------------------------------------------------------------
\* SelectedEntities.  An entity is dead to the storage as soon as it is deleted.
Unselected(ui) == [ui EXCEPT !.selected = <<>>, !.marked = ui.marked \ ToSet(ui.selected)]

\* select_with_comps: only who did not have the component, in any order
SelectAll(ui, es) ==
    LET new == (es \cap living) \ ui.marked IN
    [ui EXCEPT !.selected = ui.selected \o SetToSeq(new), !.marked = ui.marked \cup new]

\* resolve_entity_near_point
EntityNear(x) == Kept(Nearest[x], living)

\* is_right_click_relevant: near the corner of a complete selection
OnSelection(sel, x) ==
    IsComplete(sel) /\ Max({sel[1].range[1][1], sel[1].range[2][1]}) = x

\* UiPopup::open
Opened(ui, ty) == [ui EXCEPT !.popup = <<[ty |-> ty, content |-> <<>>]>>]
Popup(kind, what) == [kind |-> kind, what |-> what]

\* The kinds of event InputSystem handles; solid is what it reads of the world.
LeftSelect(ui, e) ==
    IF e.progress = "ongoing" THEN ui
    ELSE SelectAll(ui, {f \in living : ColumnOf[f] \in Between(e.from.x, e.to.x)})
LeftClick(ui, e) ==
    IF Walkable(e.to, blocks) = {} \/ EntityNear(e.to.x) = <<>> THEN ui
    ELSE SelectAll(ui, {EntityNear(e.to.x)[1]})
RightClick(ui, e) ==
    IF OnSelection(ui.tiles, e.to.x) THEN Opened(ui, Popup("tiles", {}))
    ELSE IF Walkable(e.to, blocks) = {} THEN ui
    ELSE IF EntityNear(e.to.x) = <<>> THEN Opened(ui, Popup("point", {}))
    ELSE Opened(ui, Popup("entity", {EntityNear(e.to.x)[1]}))
Handle(ui, e) ==
    LET fresh == IF e.shift THEN ui ELSE Unselected(ui) IN
    IF e.side = "left"
    THEN IF e.drag THEN LeftSelect(fresh, e) ELSE LeftClick(fresh, e)
    ELSE IF e.drag THEN UpdateTiles(ui, e.from, e.to, e.progress, blocks) ELSE RightClick(ui, e)

\* The state of the ui before any, and after each, of the events
Ui == [selected |-> selected, marked |-> marked, tiles |-> tiles, last |-> last, popup |-> popup]
Handled[n \in 0 .. Len(events)] == IF n = 0 THEN Ui ELSE Handle(Handled[n - 1], events[n])
RunInput == Handled[Len(events)]

-----------------------------------------------------------------------------
\* UiRequest
Req(kind, what) == [kind |-> kind, what |-> what]

\* What State::fetch finds out about the selected and the target.
HaveAi(s) == s # {} /\ s \subseteq Ai \cap living
Controlled(s) == s # {} /\ s \subseteq Ours \cap living
AreHaulable(s) == s # {} /\ s \subseteq Loose \cap living

\* The buttons prepare_popup adds for each kind of popup, and what each requests.
When(offered, requests) == IF offered THEN requests ELSE {}
FreeAbove(sel) ==
    IsComplete(sel)
    /\ \E p \in CellsOf(Moved(sel[1].range, 1)) : p \in Loaded \ blocks /\ p[2] > 0
EntityButtons(s, target, sel) ==
    When(Controlled(s) /\ HaveAi(s) /\ target \cap s = {} /\ target \subseteq Movers \cap living,
         {Req("divine", "follow")})
    \cup When(Controlled(s) /\ s = target /\ \E e \in s : divine[e] # "", {Req("cancel divine", "")})
    \cup When(Controlled(s) /\ Cardinality(s) = 1 /\ s # target /\ AreHaulable(target) /\ FreeAbove(sel),
              {Req("divine", "haul"), Req("order", "haul")})
    \cup When((s \cup target) \cap jobs \cap living # {},
              {Req("cancel jobs", (s \cup target) \cap jobs \cap living)})
PointButtons(s) ==
    When(HaveAi(s) /\ Controlled(s), {Req("divine", "go to")})
    \cup When(AreHaulable(s), {Req("order", "haul")})
TileButtons(s, sel) ==
    When(IsComplete(sel), {Req("order", "break"), Req("order", "build")})
    \cup When(IsComplete(sel) /\ Cardinality(CellsOf(sel[1].range)) = 1
              /\ Cardinality(s) = 1 /\ Controlled(s) /\ HaveAi(s), {Req("divine", "break")})
Prepare(ui, ty) ==
    CASE ty.kind = "entity" -> EntityButtons(ToSet(ui.selected), ty.what, ui.tiles)
      [] ty.kind = "point" -> PointButtons(ToSet(ui.selected))
      [] ty.kind = "tiles" -> TileButtons(ToSet(ui.selected), ui.tiles)

\* as_renderable prepares the content the first time only.
Rendered(ui) ==
    IF ui.popup = <<>> \/ ui.popup[1].content # <<>> THEN ui.popup
    ELSE <<[ui.popup[1] EXCEPT !.content = <<Prepare(ui, ui.popup[1].ty)>>]>>

\* What the buttons of the windows beside the world request.
PanelRequests(ui) ==
    {Req("kill", e) : e \in {f \in living : ui.selected = <<f>>}}
        \cup {Req("modify", d) : d \in {n \in {-1, 1} : ui.tiles # <<>>}}
        \cup {Req("fill", p) : p \in {q \in {<<0, "air">>, <<1, "solid">>} : IsComplete(ui.tiles)}}

-----------------------------------------------------------------------------
PlayerInit ==
    /\ living = Selectable /\ marked = {} /\ selected = <<>> /\ tiles = <<>> /\ last = <<>>
    /\ blocks = SolidAtFirst /\ changes = {} /\ popup = <<>> /\ mouse = [is |-> "unpressed"]
    /\ events = <<>> /\ commands = <<>> /\ paused = FALSE /\ deathlist = <<>>
    /\ divine = [e \in Selectable |-> ""] /\ orders = {} /\ jobs = Plans /\ view = Max(Views)
    /\ speed = 0 /\ response = [exit |-> FALSE, change |-> 0] /\ inputs = MaxInputs

simulated == <<living, marked, selected, tiles, last, blocks, changes, popup, paused, deathlist,
               divine, orders, jobs, speed, response>>
Once == inputs > 0 /\ inputs' = inputs - 1
Act == Once /\ response = [exit |-> FALSE, change |-> 0]
Emit(e) == Len(events) < MaxEvents /\ events' = Append(events, e)
InputEvent(side, drag, from, to, progress, shift) ==
    [side |-> side, drag |-> drag, from |-> from, to |-> to, progress |-> progress, shift |-> shift]

\* Selection::mouse_down
MouseDown(side) ==
    /\ Act /\ mouse.is = "unpressed"
    /\ mouse' = [is |-> "down", side |-> side]
    /\ UNCHANGED <<simulated, events, commands, view>>

\* Selection::mouse_move: the drag starts where the mouse has moved to.  A range whose
\* ends have seen different slices fails find_min_max_walkable's assertion.
MouseMove(side, col, shift) ==
    /\ Act
    /\ \/ /\ mouse = [is |-> "down", side |-> side]
          /\ mouse' = [is |-> "dragging", side |-> side, start |-> col]
          /\ UNCHANGED events
       \/ /\ mouse.is = "dragging" /\ mouse.side = side /\ mouse.start.top = col.top
          /\ Emit(InputEvent(side, TRUE, mouse.start, col, "ongoing", shift))
          /\ UNCHANGED mouse
    /\ UNCHANGED <<simulated, commands, view>>

\* Selection::mouse_up
MouseUp(side, col, shift) ==
    /\ Act /\ mouse.is # "unpressed" /\ mouse.side = side
    /\ \/ mouse.is = "down" /\ Emit(InputEvent(side, FALSE, col, col, "complete", shift))
       \/ /\ mouse.is = "dragging" /\ mouse.start.top = col.top
          /\ Emit(InputEvent(side, TRUE, mouse.start, col, "complete", shift))
    /\ mouse' = [is |-> "unpressed"]
    /\ UNCHANGED <<simulated, commands, view>>

\* SdlBackendInit::handle_key
Keys == {Req("cancel selection", ""), Req("cancel popup", ""), Req("pause", ""),
         Req("speed", 1), Req("speed", -1), Req("exit", "")}
Key(req) ==
    /\ Act /\ Len(commands) < MaxCommands
    /\ commands' = Append(commands, req)
    /\ UNCHANGED <<simulated, mouse, events, view>>
MoveView(top) ==
    /\ Act /\ top # view /\ view' = top
    /\ UNCHANGED <<simulated, mouse, events, commands>>

-----------------------------------------------------------------------------
\* A frame is rendered: the input events, then the windows, and the popup, whose button
\* is pressed, that stays open, or that is closed as it was clicked away.
Showed(ui) ==
    /\ selected' = ui.selected /\ marked' = ui.marked /\ tiles' = ui.tiles /\ last' = ui.last
    /\ events' = <<>>
Queued(req) == Len(commands) < MaxCommands /\ commands' = Append(commands, req)
RenderIdle ==
    LET ui == RunInput IN
    /\ Showed(ui) /\ popup' = Rendered(ui)
    /\ UNCHANGED <<commands, inputs>>
RenderPress ==
    LET ui == RunInput IN
    /\ Once /\ Rendered(ui) # <<>>
    /\ \E req \in Rendered(ui)[1].content[1] : Queued(req)
    /\ Showed(ui) /\ popup' = <<>>
RenderPanel ==
    LET ui == RunInput IN
    /\ Once /\ \E req \in PanelRequests(ui) : Queued(req)
    /\ Showed(ui) /\ popup' = <<>>
Render ==
    /\ RenderIdle \/ RenderPress \/ RenderPanel
    /\ UNCHANGED <<living, blocks, changes, mouse, paused, deathlist, divine, orders, jobs, view,
                   speed, response>>

-----------------------------------------------------------------------------
\* Simulation::process_ui_commands: what each request does to the state of a tick.
Divine(t, what) ==
    [t EXCEPT !.divine = [e \in Selectable |-> IF e \in ToSet(t.selected) \cap Ai \cap living
                                         THEN what ELSE t.divine[e]]]
FillTiles(t, p) ==
    IF ~IsComplete(t.tiles) THEN t
    ELSE [t EXCEPT !.changes = t.changes \cup {<<Moved(t.tiles[1].range, p[1]), p[2]>>}]
CancelSelection(t) ==
    IF t.popup # <<>> THEN [t EXCEPT !.popup = <<>>]
    ELSE [Unselected(t) EXCEPT !.tiles = <<>>]
Process(t, req) ==
    CASE req.kind = "fill" -> FillTiles(t, req.what)
      [] req.kind = "divine" -> Divine(t, req.what)
      [] req.kind = "cancel divine" -> Divine(t, "")
      [] req.kind = "order" -> [t EXCEPT !.orders = t.orders \cup {req.what}]
      [] req.kind = "cancel jobs" -> [t EXCEPT !.jobs = t.jobs \ req.what]
      [] req.kind = "kill" -> [t EXCEPT !.doomed = Append(t.doomed, req.what)]
      [] req.kind = "modify" -> [t EXCEPT !.tiles = ModifyTiles(t.tiles, req.what, t.blocks)]
      [] req.kind = "cancel selection" -> CancelSelection(t)
      [] req.kind = "cancel popup" -> [t EXCEPT !.popup = <<>>]
      [] req.kind = "pause" -> [t EXCEPT !.paused = ~t.paused]
      [] req.kind = "speed" -> [t EXCEPT !.change = req.what]
      [] OTHER -> [t EXCEPT !.exit = TRUE]

\* apply_terrain_updates, one after the other: what is filled and what really changed
Solid(solid, change) ==
    IF change[2] = "air" THEN solid \ CellsOf(change[1]) ELSE solid \cup (CellsOf(change[1]) \cap Loaded)
Edited == FoldLeft(Solid, blocks, SetToSeq(changes))
Differing(solid) == (blocks \ solid) \cup (solid \ blocks)

\* Mutant of OnWorldChanges: only a removed block makes it count again.
OnWorldChangesLess(sel, solid) ==
    IF IsComplete(sel) /\ CellsOf(sel[1].range) \cap (blocks \ solid) # {}
    THEN <<Selection(sel[1].range, "complete", solid)>>
    ELSE sel

\* on_world_changes: a complete selection that a change lies in is counted again.
OnWorldChanges(sel, solid) ==
    IF IsComplete(sel) /\ CellsOf(sel[1].range) \cap Differing(solid) # {}
    THEN <<Selection(sel[1].range, "complete", solid)>>
    ELSE sel

\* The tick applies the edits, processes the requests, runs the systems, which
\* prune the selection unless the game is paused, and deletes who is doomed.
Ticked(solid) ==
    [selected |-> selected, marked |-> marked, tiles |-> OnWorldChanges(tiles, solid),
     popup |-> popup, blocks |-> solid, changes |-> {}, divine |-> divine, orders |-> orders, jobs |-> jobs,
     doomed |-> deathlist, paused |-> paused, exit |-> response.exit, change |-> response.change]
Prune(t) == IF t.paused THEN t.selected ELSE Kept(t.selected, living)
\* UiElementPruneSystem kills the elements whose job is gone.
Dying(t) == ToSet(t.doomed) \cup (IF t.paused THEN {} ELSE (Plans \cap living) \ t.jobs)
Processed[n \in 0 .. Len(commands)] ==
    IF n = 0 THEN Ticked(Edited) ELSE Process(Processed[n - 1], commands[n])
Tick ==
    LET t == Processed[Len(commands)] IN
    /\ commands' = <<>>
    /\ selected' = Prune(t)
    /\ living' = living \ Dying(t) /\ marked' = t.marked \ Dying(t) /\ deathlist' = <<>>
    /\ tiles' = t.tiles /\ popup' = t.popup /\ blocks' = t.blocks /\ changes' = t.changes
    /\ divine' = [e \in Selectable |-> IF e \in living \ Dying(t) THEN t.divine[e] ELSE ""]
    /\ orders' = t.orders /\ jobs' = t.jobs /\ paused' = t.paused
    /\ response' = [exit |-> t.exit, change |-> t.change]
    /\ UNCHANGED <<last, mouse, events, view, speed, inputs>>

\* After the frame's actions the loop looks at the response (Engine::run, try_change).
EndFrame ==
    /\ ~response.exit /\ response.change # 0
    /\ speed' = Max({-2, Min({2, speed + response.change})})
    /\ response' = [exit |-> FALSE, change |-> 0]
    /\ UNCHANGED <<living, marked, selected, tiles, last, blocks, changes, popup, mouse, events,
                   commands, paused, deathlist, divine, orders, jobs, view, inputs>>

\* Others dig, and die, while the game goes on.
Dig(change) ==
    /\ ~paused /\ change \notin changes /\ Once
    /\ changes' = changes \cup {change}
    /\ UNCHANGED <<living, marked, selected, tiles, last, blocks, popup, mouse, events, commands,
                   paused, deathlist, divine, orders, jobs, view, speed, response>>
Die(e) ==
    /\ ~paused /\ e \in living \ ToSet(deathlist) /\ Once
    /\ deathlist' = Append(deathlist, e)
    /\ UNCHANGED <<living, marked, selected, tiles, last, blocks, changes, popup, mouse, events,
                   commands, paused, divine, orders, jobs, view, speed, response>>

PlayerNext ==
    \/ \E side \in Sides : MouseDown(side)
    \/ \E side \in Sides, x \in Columns, shift \in BOOLEAN :
           MouseMove(side, Column(x, view), shift) \/ MouseUp(side, Column(x, view), shift)
    \/ \E req \in Keys : Key(req)
    \/ \E top \in Views : MoveView(top)
    \/ Render
    \/ Tick
    \/ EndFrame
    \/ \E change \in Digs : Dig(change)
    \/ \E e \in Selectable : Die(e)

PlayerSpec == PlayerInit /\ [][PlayerNext]_plvars

-----------------------------------------------------------------------------
\* What the player sees selected is what commands will act on (input/system.rs): the list
\* and the components agree on the living, nobody is listed twice, and a complete
\* selection of tiles shows the blocks that are there, whoever edits them, and
\* whichever way it was made or moved.
SelectionIsCurrent ==
    /\ IsInjective(selected)
    /\ marked = ToSet(selected) \cap living
    /\ IsComplete(tiles) => tiles[1].makeup = Makeup(tiles[1].range, blocks)
=============================================================================
