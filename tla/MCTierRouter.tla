---------------------------- MODULE MCTierRouter ----------------------------
(* Instances of TierRouter for TLC. *)
EXTENDS TierRouter

CONSTANTS a, b

MCLists == {<<b>>, <<a, b>>}
MCItems == {a, b}
=============================================================================
