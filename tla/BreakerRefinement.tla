-------------------------- MODULE BreakerRefinement --------------------------
(* CircuitBreaker implements BreakerSpec. *)
EXTENDS CircuitBreaker, FiniteSets

ASSUME GoroutinesAssumption == IsFiniteSet(Goroutines)

\* A slot about to be offered counts as an offer from the CAS on.
Offering    == {g \in Goroutines : At(g, "offerProbe")}
OpenOffers  == Cardinality(Offering) + (IF probing THEN 1 ELSE 0)

\* From the moment Rank passed Allow until RecordSuccess or RecordFailure ends.
ActiveCalls == {g \in Goroutines :
                  pc[g] \in {"scoreBatch", "casClosed", "resetFails", "loadState",
                             "addFail", "storeOpen", "readClock", "storeTripped"}}

Abstract == INSTANCE BreakerSpec WITH
                Callers <- Goroutines,
                mode    <- state,
                offers  <- OpenOffers,
                calls   <- ActiveCalls

\* Every step of the breaker is a step of the abstract one or none: no request
\* gets past an open breaker without a slot offered by an Open to HalfOpen
\* swap, each swap pays for one request at most, and nobody but a caller that
\* was let through moves the mode (Allow, tryProbe, RecordSuccess/Failure).
ImplementsBreakerSpec == Abstract!Spec
=============================================================================
