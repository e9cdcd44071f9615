-------------------------- MODULE AdaptiveHorizon --------------------------
(***************************************************************************)
(* What the rollout promises of the actions the corrected side executes,   *)
(* step by step and without the detector and its queues: the adaptive      *)
(* action horizon of README.md:73.  Actions come from chunks of Horizon    *)
(* actions; a chunk is executed to its end, in order, and only then        *)
(* replaced, except that a drift event replaces it at once, by a recovery  *)
(* chunk that is the only kind of chunk to be guided.                      *)
(***************************************************************************)
EXTENDS Naturals

CONSTANT Horizon  \* the length of a chunk, at least 1

VARIABLES canGuide,  \* guidance is configured
          step,      \* actions executed
          left,      \* actions of the present chunk yet to be executed
          guided,    \* the present chunk is a guided one
          event      \* the latest action was preceded by a drift event

vars == <<canGuide, step, left, guided, event>>

Init ==
  /\ canGuide \in BOOLEAN
  /\ step = 0 /\ left = 0
  /\ guided = FALSE /\ event = FALSE

\* The chunk goes on.
Continue ==
  /\ left > 0
  /\ left' = left - 1
  /\ event' = FALSE
  /\ UNCHANGED guided

\* The chunk has been executed to its end.
Replan ==
  /\ left = 0
  /\ left' = Horizon - 1
  /\ event' = FALSE /\ guided' = FALSE

\* A drift event, at any point of a chunk.
Recover ==
  /\ left' = Horizon - 1
  /\ event' = TRUE /\ guided' = canGuide

Next == (Continue \/ Replan \/ Recover) /\ step' = step + 1 /\ UNCHANGED canGuide

Spec == Init /\ [][Next]_vars
=============================================================================
