------------------------- MODULE MCGapAnalysisUsage -------------------------
(* GapAnalysisUsage on one row of each scope.                              *)
EXTENDS GapAnalysisUsage

CONSTANTS paid, trial, free

MCScope == [k \in Keys |-> CASE k = paid -> "REDIS" [] k = trial -> "TRIAL"
                             [] OTHER -> "UNLIMITED"]
MCUnits == [k \in Keys |-> IF k = paid THEN 2 ELSE 1]
=============================================================================
