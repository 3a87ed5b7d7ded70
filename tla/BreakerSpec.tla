---------------------------- MODULE BreakerSpec ----------------------------
(***************************************************************************)
(* What the circuit breaker promises to the rest of the service, without   *)
(* its memory layout: who may call Triton, and who may change the mode.    *)
(*                                                                         *)
(* While the mode is not Closed a call needs a trial offer, and an offer   *)
(* is made only when an open breaker becomes half-open, one per such step. *)
(* So the calls that reach Triton while it is failing are at most as many  *)
(* as the half-open episodes.  Only the outcome of an admitted call opens  *)
(* or closes the breaker.                                                  *)
(***************************************************************************)
EXTENDS Naturals

CONSTANT Callers

VARIABLES mode,    \* "Closed", "Open" or "HalfOpen"
          offers,  \* trial offers made and not yet used
          calls    \* callers that were admitted and have not finished reporting

vars == <<mode, offers, calls>>

Init == mode = "Closed" /\ offers = 0 /\ calls = {}

Admit(c) ==
    /\ mode = "Closed" /\ c \notin calls
    /\ calls' = calls \cup {c}
    /\ UNCHANGED <<mode, offers>>

StartTrial(c) ==
    /\ offers > 0 /\ c \notin calls
    /\ offers' = offers - 1
    /\ calls' = calls \cup {c}
    /\ UNCHANGED mode

Offer ==
    /\ mode = "Open"
    /\ mode' = "HalfOpen"
    /\ offers' = offers + 1
    /\ UNCHANGED calls

\* Two offers may be merged into one: an offer more is never made up.
MergeOffers ==
    /\ offers > 1
    /\ offers' = offers - 1
    /\ UNCHANGED <<mode, calls>>

Trip(c) ==
    /\ c \in calls
    /\ mode' = "Open"
    /\ UNCHANGED <<offers, calls>>

Close(c) ==
    /\ c \in calls /\ mode = "HalfOpen"
    /\ mode' = "Closed"
    /\ UNCHANGED <<offers, calls>>

Finish(c) ==
    /\ c \in calls
    /\ calls' = calls \ {c}
    /\ UNCHANGED <<mode, offers>>

Next ==
    \/ \E c \in Callers : Admit(c) \/ StartTrial(c) \/ Trip(c) \/ Close(c) \/ Finish(c)
    \/ Offer
    \/ MergeOffers

Spec == Init /\ [][Next]_vars
=============================================================================
