------------------------------- MODULE Herds -------------------------------
(***************************************************************************)
(* HerdJoiningSystem (interact/herd): every RUN_FREQUENCY ticks the        *)
(* herdable entities are split into the groups that stand near each other. *)
(* Every group of several takes one herd, the singles of a herd leave it   *)
(* after a while, and each herd keeps or chooses a leader.  The run goes   *)
(* group by group, in an order that a tree and hash maps decide; where     *)
(* entities stand is whatever groups of one species there are, and the     *)
(* member nearest to the middle is any member.                             *)
(***************************************************************************)
EXTENDS Integers, FiniteSets, Functions, FiniteSetsExt

CONSTANTS Herdable,        \* the entities that join herds
          SpeciesOf,       \* their species
          Expiry,          \* config's herd_expiry_ticks
          MaxHerd,         \* bound: how many herds are ever allocated
          NoHerd

Herd == [id : Nat, species : {SpeciesOf[e] : e \in Herdable}]

ASSUME HerdsAssumption ==
  /\ Expiry \in Nat
  /\ NoHerd \notin [herd : Herd, ticks : 0 .. Expiry + 1]

RUN_FREQUENCY == 5

VARIABLES flock, herded, herds, next_herd,
          herd_phase,      \* of the run, or "idle" between runs
          subgraphs,       \* those not yet processed
          found,           \* discovered_herds.herds: their members
          mapping,         \* discovered_herds.mapping
          alone            \* history: runs in a row in which one was alone

herdVars == <<flock, herded, herds, next_herd, herd_phase, subgraphs, found, mapping, alone>>

Member == Expiry + 1       \* the "ticks" of MemberOf, which counts none
MemberOf(h) == [herd |-> h, ticks |-> Member]
\* Where the history stops counting: one run after the last that matters.
AloneBound == Expiry \div RUN_FREQUENCY + 3
PendingDeparture(h, t) == [herd |-> h, ticks |-> t]

HerdsInit ==
  /\ flock = Herdable /\ herded = [e \in Herdable |-> NoHerd]
  /\ herds = << >> /\ next_herd = 1
  /\ herd_phase = "idle" /\ subgraphs = {} /\ found = << >> /\ mapping = << >>
  /\ alone = [e \in Herdable |-> 0]

IsIn(e, h) == herded[e] # NoHerd /\ herded[e].herd = h
InMap(m, h) == IF h \in DOMAIN m THEN m[h] ELSE h

\* Died, despawned: the components go with the entity.
Leave(e) ==
  /\ herd_phase = "idle" /\ flock' = flock \ {e}
  /\ herded' = [herded EXCEPT ![e] = NoHerd]
  /\ alone' = [alone EXCEPT ![e] = 0]
  /\ UNCHANGED <<herds, next_herd, herd_phase, subgraphs, found, mapping>>

\* The ways to split S into groups of one species, each by a choice of one of its group
\* for each entity.
Groupings(S) ==
  {{{y \in S : of[y] = of[x]} : x \in S} :
     of \in {f \in [S -> S] : \A x \in S : SpeciesOf[f[x]] = SpeciesOf[x]}}

Many(G) == Cardinality(G) > 1

\* init_rtree, discover_connectivity and collect_subgraphs.
StartJoining ==
  /\ herd_phase = "idle" /\ flock # {} /\ herd_phase' = "join"
  /\ subgraphs' \in Groupings(flock)
  /\ next_herd + Quantify(subgraphs', Many) <= MaxHerd + 1
  /\ alone' = [e \in Herdable |->
       IF {e} \in subgraphs' THEN Min({alone[e] + 1, AloneBound}) ELSE 0]
  /\ found' = << >> /\ mapping' = << >>
  /\ UNCHANGED <<flock, herded, herds, next_herd>>

AddMembers(f, m, h, S) ==
  LET key == InMap(m, h)
  IN [k \in DOMAIN f \cup {key} |->
        (IF k \in DOMAIN f THEN f[k] ELSE {}) \cup IF k = key THEN S ELSE {}]

HerdsOf(G) == {herded[e].herd : e \in {x \in G : herded[x] # NoHerd}}
CountIn(G, h) == Quantify(G, LAMBDA e : IsIn(e, h))

\* The herds most of a group are in, of those no group has taken.
WinningHerds(G) ==
  LET Free == HerdsOf(G) \ DOMAIN found
  IN {h \in Free : \A k \in Free : CountIn(G, k) <= CountIn(G, h)}

NewHerd(G) == [id |-> next_herd, species |-> SpeciesOf[CHOOSE e \in G : TRUE]]

JoinTo(G, h) ==
  LET losing == HerdsOf(G) \ {h}
      lost == [k \in losing \cup DOMAIN mapping |-> IF k \in losing THEN h ELSE mapping[k]]
  IN /\ herded' = [e \in Herdable |-> IF e \in G THEN MemberOf(h) ELSE herded[e]]
     /\ mapping' = lost /\ found' = AddMembers(found, lost, h, G)

JoinMany(G) ==
  /\ herd_phase = "join" /\ G \in subgraphs /\ Many(G) /\ subgraphs' = subgraphs \ {G}
  /\ \/ \E h \in WinningHerds(G) : JoinTo(G, h) /\ next_herd' = next_herd
     \/ WinningHerds(G) = {} /\ JoinTo(G, NewHerd(G)) /\ next_herd' = next_herd + 1
  /\ UNCHANGED <<flock, herds, herd_phase, alone>>

\* A mutant: one whose herd was merged away leaves at once.
DepartingAtOnce(h) ==
  LET to == InMap(mapping, h.herd)
  IN IF h.ticks = Member THEN PendingDeparture(to, Expiry)
     ELSE IF h.ticks <= RUN_FREQUENCY \/ to # h.herd THEN NoHerd
     ELSE PendingDeparture(to, h.ticks - RUN_FREQUENCY)

\* What becomes of the membership of one that is alone.
Departing(h) ==
  LET left == Max({h.ticks - RUN_FREQUENCY, 0})
      to == InMap(mapping, h.herd)
  IN IF h.ticks = Member THEN PendingDeparture(to, Expiry)
     ELSE IF left = 0 THEN NoHerd ELSE PendingDeparture(to, left)

JoinSingle(e) ==
  /\ herd_phase = "join" /\ {e} \in subgraphs /\ \A G \in subgraphs : ~Many(G)
  /\ subgraphs' = subgraphs \ {{e}}
  /\ LET now == IF herded[e] = NoHerd THEN NoHerd ELSE Departing(herded[e])
     IN /\ herded' = [herded EXCEPT ![e] = now]
        /\ found' = IF now = NoHerd THEN found
                    ELSE AddMembers(found, mapping, now.herd, {e})
  /\ UNCHANGED <<flock, herds, next_herd, herd_phase, mapping, alone>>

OldLeaders(h) == {herds[k].leader : k \in {j \in DOMAIN herds : InMap(mapping, j) = h}}
\* Who may lead herd h: one of the old leaders whose herd maps to it, where the
\* last one drained replaces the others, if he is still in it, or any member.
Leaders(h) == LET old == OldLeaders(h)
                  still == {e \in old : IsIn(e, h)}
              IN still \cup IF still = old /\ old # {} THEN {} ELSE found[h]

RegisterAssignedHerds ==
  /\ herd_phase = "join" /\ subgraphs = {} /\ herd_phase' = "idle"
  /\ \E leader \in [DOMAIN found -> Herdable] :
       /\ \A h \in DOMAIN found : leader[h] \in Leaders(h)
       /\ herds' = [h \in DOMAIN found |->
            [leader |-> leader[h], members |-> Cardinality(found[h])]]
  /\ found' = << >> /\ mapping' = << >>
  /\ UNCHANGED <<flock, herded, next_herd, subgraphs, alone>>

HerdsNext ==
  \/ \E e \in flock : Leave(e) \/ JoinSingle(e)
  \/ \E G \in subgraphs : JoinMany(G)
  \/ StartJoining
  \/ RegisterAssignedHerds

HerdsSpec == HerdsInit /\ [][HerdsNext]_herdVars

(* Between runs, a leader who lives is in a herd (validate_leaders panics   *)
(* otherwise), whoever joined, was left alone, quit, died or lost his herd *)
(* to a larger one in any order; a herd that has members has a leader.     *)
LeadersAreHerded ==
  herd_phase = "idle" =>
    \A h \in DOMAIN herds :
      herds[h].leader \in flock => herded[herds[h].leader] # NoHerd

(* A living member leaves its herd when it has been alone for all of the    *)
(* expiry, run after run, and then it does: nobody loses his herd by what  *)
(* becomes of the herd, however often it is merged into others meanwhile.  *)
DepartureTakesItsTime ==
  [][\A e \in flock' : herded[e] # NoHerd =>
       LET expired == alone[e] > 1 /\ (alone[e] - 1) * RUN_FREQUENCY >= Expiry
       IN (herded[e]' = NoHerd) <=> ({e} \in subgraphs \ subgraphs' /\ expired)]_herdVars

\* Leaders are herded, and departures take their time.
HerdsAreKept == []LeadersAreHerded /\ DepartureTakesItsTime
=============================================================================
