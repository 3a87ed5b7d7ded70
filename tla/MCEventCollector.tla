-------------------------- MODULE MCEventCollector --------------------------
(* The instance of EventCollector, driven by TrafficSimulator, for TLC. *)
EXTENDS TrafficSimulator
=============================================================================
