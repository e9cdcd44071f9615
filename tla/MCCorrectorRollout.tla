------------------------ MODULE MCCorrectorRollout ------------------------
(* Small instances of the rollout: quiet, over-threshold and hard readings. *)
EXTENDS CorrectorRollout

MCDistances == {-1, 1, 2}
MCGaps == {0}
=============================================================================
