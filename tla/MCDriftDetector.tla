-------------------------- MODULE MCDriftDetector --------------------------
(* Small instances of the detector: readings on both sides of each of the  *)
(* four thresholds (release, alarm, trigger margin, hard margin).          *)
EXTENDS DriftDetector

MCDistances == {-2, 0, 1, 2, 3}
MCGaps == {0, 2}
=============================================================================
