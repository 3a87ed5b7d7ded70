----------------------------- MODULE Degradation -----------------------------
(***************************************************************************)
(* The load-shedding state machine (degradation/level.go): one atomic word *)
(* that any goroutine may store and every request loads.  Load ratios are  *)
(* percentages.  Nothing in the service calls ReportLoad or SetLevel; the  *)
(* README leaves that to an operator or an alert, so any value may be      *)
(* reported at any time.                                                   *)
(***************************************************************************)
EXTENDS Naturals

CONSTANT Loads    \* the load ratios that may be reported, in percent

ASSUME LoadsAssumption == Loads \subseteq Nat

VARIABLE level

Normal    == 0
Warning   == 1
Critical  == 2
Emergency == 3
Levels    == Normal .. Emergency

\* A mistake: the level is computed from the ratio and not clamped.
LevelByArithmetic(ratio) == IF ratio < 150 THEN Normal ELSE (ratio - 100) \div 50

LevelFor(ratio) ==
    IF ratio >= 300 THEN Emergency
    ELSE IF ratio >= 200 THEN Critical
    ELSE IF ratio >= 150 THEN Warning
    ELSE Normal

ReportLoad(ratio) == level' = LevelFor(ratio)

SetLevel(l) == level' = l

\* The first level at which each tier is blocked.
BlockedFrom == [tier1 |-> Emergency, tier2 |-> Critical, tier3 |-> Warning]

\* A mistake: a tier is still allowed at the level that should block it.
IsTierAllowedOneTooLong(tier) == level <= BlockedFrom[tier]

IsTierAllowed(tier) == level < BlockedFrom[tier]

LevelChange ==
    \/ \E ratio \in Loads : ReportLoad(ratio)
    \/ \E l \in Levels : SetLevel(l)
=============================================================================
