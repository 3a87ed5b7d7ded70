------------------------- MODULE MCExperimentRouter -------------------------
(* Instances of ExperimentRouter for TLC. *)
EXTENDS ExperimentRouter

CONSTANTS e1, e2

\* Together more than there are buckets.
Shares == e1 :> 2 @@ e2 :> 3
=============================================================================
