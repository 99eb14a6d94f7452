---------------------------- MODULE MCBuildWork -----------------------------
(* Four parts, one in each behaviour: two workers who build one block of a  *)
(* wall; the senses of a human, beside a berry, at two places too far apart *)
(* to sense from one to the other; a body in two columns of blocks; and the *)
(* corners of a range of blocks.                                            *)
EXTENDS BuildWork, Senses, Motion, Positions, TLC

CONSTANTS w1, w2, i1, i2, human, berry, nearby, distant

VARIABLE part

MCClose == {<<nearby, nearby>>, <<distant, distant>>}
MCGround == {<<c, 0>> : c \in 0 .. Wide - 1}

-----------------------------------------------------------------------------
\* A part that is not the behaviour's stays in its initial state.
WorkInit ==
    /\ part \in {"build", "senses", "motion", "positions"}
    /\ BuildInit /\ SensesInit /\ PositionsInit
    /\ MotionInit /\ (part # "motion" => x = 0 /\ z = 0)
OneBuild == part = "build" /\ BuildNext /\ UNCHANGED <<part, sensesvars, motionvars, rangevars>>
OneSense == part = "senses" /\ SensesNext /\ UNCHANGED <<part, bwvars, motionvars, rangevars>>
OneMotion == part = "motion" /\ MotionNext /\ UNCHANGED <<part, bwvars, sensesvars, rangevars>>
OneRange == part = "positions" /\ PositionsNext /\ UNCHANGED <<part, bwvars, sensesvars, motionvars>>

\* The tick is run for ever; a worker that is idle when there is something to do
\* does not stay so for ever, one that walks arrives, and one that builds is woken
\* by its timer.
WorkFairness ==
    /\ WF_bwvars(part = "build" /\ Tick)
    /\ \A e \in Worker :
          /\ SF_bwvars(part = "build" /\ Takes(e))
          /\ SF_bwvars(part = "build" /\ Arrives(e))
          /\ SF_bwvars(part = "build" /\ BuildStep(e))

WorkSpec ==
    /\ WorkInit
    /\ [][OneBuild \/ OneSense \/ OneMotion \/ OneRange]_<<part, bwvars, sensesvars, motionvars,
                                                          rangevars>>
    /\ WorkFairness

-----------------------------------------------------------------------------
\* The block of the wall is built (BuildWork).
BlockIsBuilt == part = "build" => BlockGetsBuilt
=============================================================================
