--------------------------- MODULE BreakerHistory ---------------------------
(***************************************************************************)
(* CircuitBreaker with a history variable, to confront it with what a      *)
(* comment says of it.  The history never restricts a step of the breaker. *)
(***************************************************************************)
EXTENDS CircuitBreaker, FiniteSets

CONSTANT ClockMoves  \* FALSE to look at an interval far shorter than ResetTimeout

VARIABLE claimed  \* goroutines whose call to Triton was let in by a probe slot

Moves(g, from, to) == pc[g] = from /\ pc'[g] = to

Claims == {g \in Goroutines : Moves(g, "tryProbe", "scoreBatch")}

HInit == Init /\ claimed = {}

Remember == claimed' = {g \in claimed \cup Claims : pc'[g] = "scoreBatch"}

HNext ==
    \/ \E g \in Goroutines : (Arrive(g) \/ RankStep(g)) /\ Remember
    \/ ((ClockMoves /\ Tick) \/ TritonChanges) /\ UNCHANGED claimed

HSpec == HInit /\ [][HNext]_<<vars, claimed>>

-----------------------------------------------------------------------------

\* breaker.go:47 says of HalfOpen: "only one concurrent probe request is
\* allowed".  At most one call that was let in by a probe slot is at Triton.
OneConcurrentProbe == Cardinality(claimed) <= 1
=============================================================================
