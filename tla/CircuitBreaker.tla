--------------------------- MODULE CircuitBreaker ---------------------------
(***************************************************************************)
(* The lock-free circuit breaker that guards the calls to Triton           *)
(* (circuitbreaker/breaker.go) as its only caller, ProtectedRanker.Rank    *)
(* (triton/ranker.go), drives it: Allow, one batch inference, then         *)
(* RecordSuccess or RecordFailure.                                         *)
(*                                                                         *)
(* Rank runs in one goroutine per HTTP request and the breaker holds no    *)
(* lock, so every atomic load, store, add and compare-and-swap is a step   *)
(* of its own.  Goroutines is a set of request slots: a slot that returned *)
(* is used again by a later request.                                       *)
(*                                                                         *)
(* Two data abstractions, both exact for this code:                        *)
(*   - timestamps are kept as ages and stop growing at ResetTimeout, since *)
(*     the code only asks whether time.Since(...) >= resetTimeout;         *)
(*   - failCount stops growing at Threshold, since the code only asks      *)
(*     whether it is >= threshold.  successCount is never read.            *)
(***************************************************************************)
EXTENDS Naturals

CONSTANTS Goroutines,    \* request slots that may be inside Rank together
          Threshold,     \* failures that trip the breaker (5 in main.go)
          ResetTimeout   \* clock ticks after which an open breaker probes

ASSUME ThresholdAssumption    == Threshold \in Nat \ {0}
ASSUME ResetTimeoutAssumption == ResetTimeout \in Nat \ {0}

VARIABLES
    state,       \* Breaker.state
    failCount,   \* Breaker.failCount, saturated at Threshold
    probing,     \* Breaker.probing: TRUE while an unclaimed probe slot is offered
    trippedAge,  \* time since Breaker.lastTripped, saturated at ResetTimeout
    pc,          \* the next atomic operation of each goroutine
    heldAge,     \* age of the timestamp a goroutine holds in a local variable
    tritonUp     \* does Triton answer a batch in time and with the right count

breaker == <<state, failCount, probing, trippedAge>>
vars    == <<state, failCount, probing, trippedAge, pc, heldAge, tritonUp>>

States == {"Closed", "Open", "HalfOpen"}

Labels == {"idle",
           "allow", "loadTripped", "checkTimeout", "offerProbe", "tryProbe",
           "scoreBatch",
           "casClosed", "resetFails",
           "loadState", "addFail", "storeOpen", "readClock", "storeTripped"}

Older(age) == IF age < ResetTimeout THEN age + 1 ELSE age

\* The goroutine's next atomic operation is the one named by label.
GoTo(g, label) == pc' = [pc EXCEPT ![g] = label]
At(g, label)   == pc[g] = label

\* lastTripped starts as the zero of the Unix clock, long ago.
Init ==
    /\ state = "Closed"
    /\ failCount = 0
    /\ probing = FALSE
    /\ trippedAge = ResetTimeout
    /\ pc = [g \in Goroutines |-> "idle"]
    /\ heldAge = [g \in Goroutines |-> 0]
    /\ tritonUp = TRUE

-----------------------------------------------------------------------------
(* ProtectedRanker.Rank is called by a request *)

Arrive(g) ==
    /\ At(g, "idle")
    /\ GoTo(g, "allow")
    /\ UNCHANGED <<breaker, heldAge, tritonUp>>

(* Breaker.Allow *)

\* A mistake: an open breaker refuses without asking how long it has been open.
AllowNeverProbes(g) ==
    /\ At(g, "allow")
    /\ GoTo(g, CASE state = "Closed"   -> "scoreBatch"
                 [] state = "Open"     -> "idle"
                 [] state = "HalfOpen" -> "tryProbe")
    /\ UNCHANGED <<breaker, heldAge, tritonUp>>

\* A mistake: a half-open breaker lets every request through.
AllowWhenHalfOpen(g) ==
    /\ At(g, "allow")
    /\ GoTo(g, IF state = "Open" THEN "loadTripped" ELSE "scoreBatch")
    /\ UNCHANGED <<breaker, heldAge, tritonUp>>

\* The load of state and the switch over it.
Allow(g) ==
    /\ At(g, "allow")
    /\ \/ state = "Closed"   /\ GoTo(g, "scoreBatch")
       \/ state = "Open"     /\ GoTo(g, "loadTripped")
       \/ state = "HalfOpen" /\ GoTo(g, "tryProbe")
    /\ UNCHANGED <<breaker, heldAge, tritonUp>>

LoadTripped(g) ==
    /\ At(g, "loadTripped")
    /\ heldAge' = [heldAge EXCEPT ![g] = trippedAge]
    /\ GoTo(g, "checkTimeout")
    /\ UNCHANGED <<breaker, tritonUp>>

TimeoutElapsed(g) == heldAge[g] >= ResetTimeout

\* time.Since and the CAS of Open to HalfOpen.  Reading the clock and swapping
\* are one step: the timestamp is local and once old enough stays old enough.
CheckTimeout(g) ==
    /\ At(g, "checkTimeout")
    /\ \/ /\ ~TimeoutElapsed(g)
          /\ GoTo(g, "idle")
          /\ UNCHANGED state
       \/ /\ TimeoutElapsed(g)
          /\ state = "Open"
          /\ state' = "HalfOpen"
          /\ GoTo(g, "offerProbe")
       \/ /\ TimeoutElapsed(g)
          /\ state # "Open"
          /\ GoTo(g, "tryProbe")
          /\ UNCHANGED state
    /\ heldAge' = [heldAge EXCEPT ![g] = 0]
    /\ UNCHANGED <<failCount, probing, trippedAge, tritonUp>>

\* A mistake: the winner of the swap does not offer the probe slot.
OfferNoProbe(g) ==
    /\ At(g, "offerProbe")
    /\ GoTo(g, "tryProbe")
    /\ UNCHANGED <<breaker, heldAge, tritonUp>>

OfferProbe(g) ==
    /\ At(g, "offerProbe")
    /\ probing' = TRUE
    /\ GoTo(g, "tryProbe")
    /\ UNCHANGED <<state, failCount, trippedAge, heldAge, tritonUp>>

\* A mistake: the slot is looked at, not taken.
TryProbeByLoad(g) ==
    /\ At(g, "tryProbe")
    /\ GoTo(g, IF probing THEN "scoreBatch" ELSE "idle")
    /\ UNCHANGED <<breaker, heldAge, tritonUp>>

TryProbe(g) ==
    /\ At(g, "tryProbe")
    /\ probing' = FALSE
    /\ GoTo(g, IF probing THEN "scoreBatch" ELSE "idle")
    /\ UNCHANGED <<state, failCount, trippedAge, heldAge, tritonUp>>

-----------------------------------------------------------------------------
(* Client.ScoreBatch as Rank calls it *)

\* An empty batch returns success before Triton is asked.
ScoreBatch(g) ==
    /\ At(g, "scoreBatch")
    /\ \E emptyBatch \in BOOLEAN :
          GoTo(g, IF emptyBatch \/ tritonUp THEN "casClosed" ELSE "loadState")
    /\ UNCHANGED <<breaker, heldAge, tritonUp>>

-----------------------------------------------------------------------------
(* Breaker.RecordSuccess *)

\* A mistake: success stores Closed whatever the state is.
StoreClosed(g) ==
    /\ At(g, "casClosed")
    /\ state' = "Closed" /\ GoTo(g, "resetFails")
    /\ UNCHANGED <<failCount, probing, trippedAge, heldAge, tritonUp>>

\* A mistake: the operands of the compare-and-swap are exchanged.
CasHalfOpen(g) ==
    /\ At(g, "casClosed")
    /\ IF state = "Closed"
          THEN state' = "HalfOpen" /\ GoTo(g, "resetFails")
          ELSE UNCHANGED state     /\ GoTo(g, "idle")
    /\ UNCHANGED <<failCount, probing, trippedAge, heldAge, tritonUp>>

CasClosed(g) ==
    /\ At(g, "casClosed")
    /\ IF state = "HalfOpen"
          THEN state' = "Closed" /\ GoTo(g, "resetFails")
          ELSE UNCHANGED state   /\ GoTo(g, "idle")
    /\ UNCHANGED <<failCount, probing, trippedAge, heldAge, tritonUp>>

\* A mistake: success takes one failure back instead of all.
TakeFailBack(g) ==
    /\ At(g, "resetFails")
    /\ failCount' = failCount - 1
    /\ GoTo(g, "idle")
    /\ UNCHANGED <<state, probing, trippedAge, heldAge, tritonUp>>

ResetFails(g) ==
    /\ At(g, "resetFails")
    /\ failCount' = 0
    /\ GoTo(g, "idle")
    /\ UNCHANGED <<state, probing, trippedAge, heldAge, tritonUp>>

(* Breaker.RecordFailure *)

LoadState(g) ==
    /\ At(g, "loadState")
    /\ GoTo(g, IF state = "HalfOpen" THEN "storeOpen" ELSE "addFail")
    /\ UNCHANGED <<breaker, heldAge, tritonUp>>

AddFail(g) ==
    /\ At(g, "addFail")
    /\ failCount' = IF failCount < Threshold THEN failCount + 1 ELSE failCount
    /\ GoTo(g, IF failCount' >= Threshold THEN "storeOpen" ELSE "idle")
    /\ UNCHANGED <<state, probing, trippedAge, heldAge, tritonUp>>

StoreOpen(g) ==
    /\ At(g, "storeOpen")
    /\ state' = "Open"
    /\ GoTo(g, "readClock")
    /\ UNCHANGED <<failCount, probing, trippedAge, heldAge, tritonUp>>

ReadClock(g) ==
    /\ At(g, "readClock")
    /\ heldAge' = [heldAge EXCEPT ![g] = 0]
    /\ GoTo(g, "storeTripped")
    /\ UNCHANGED <<breaker, tritonUp>>

StoreTripped(g) ==
    /\ At(g, "storeTripped")
    /\ trippedAge' = heldAge[g]
    /\ heldAge' = [heldAge EXCEPT ![g] = 0]
    /\ GoTo(g, "idle")
    /\ UNCHANGED <<state, failCount, probing, tritonUp>>

-----------------------------------------------------------------------------
(* The environment *)

HoldsTimestamp(g) == pc[g] \in {"checkTimeout", "storeTripped"}

Tick ==
    /\ trippedAge' = Older(trippedAge)
    /\ heldAge' = [g \in Goroutines |->
                      IF HoldsTimestamp(g) THEN Older(heldAge[g]) ELSE 0]
    /\ UNCHANGED <<state, failCount, probing, pc, tritonUp>>

TritonChanges ==
    /\ tritonUp' = ~tritonUp
    /\ UNCHANGED <<breaker, pc, heldAge>>

-----------------------------------------------------------------------------

\* The steps of Rank after it was called.
RankStep(g) ==
    \/ Allow(g) \/ LoadTripped(g) \/ CheckTimeout(g) \/ OfferProbe(g)
    \/ TryProbe(g) \/ ScoreBatch(g) \/ CasClosed(g) \/ ResetFails(g)
    \/ LoadState(g) \/ AddFail(g) \/ StoreOpen(g) \/ ReadClock(g)
    \/ StoreTripped(g)

Next ==
    \/ \E g \in Goroutines : Arrive(g) \/ RankStep(g)
    \/ Tick
    \/ TritonChanges

Spec == Init /\ [][Next]_vars

\* The Go scheduler runs every goroutine and the inference context ends after
\* 80 ms, so a call of Rank that started takes its next step.
FairSpec == Spec /\ \A g \in Goroutines : WF_vars(RankStep(g))

\* A clock that goes on and requests that keep coming, which the code cannot
\* promise and recovery needs.
KeepsComing == WF_vars(Tick) /\ \A g \in Goroutines : WF_vars(Arrive(g))

-----------------------------------------------------------------------------

TypeOK ==
    /\ state \in States
    /\ failCount \in 0 .. Threshold
    /\ probing \in BOOLEAN
    /\ trippedAge \in 0 .. ResetTimeout
    /\ pc \in [Goroutines -> Labels]
    /\ heldAge \in [Goroutines -> 0 .. ResetTimeout]
    /\ tritonUp \in BOOLEAN

\* A goroutine whose next steps take the breaker out of HalfOpen or let
\* another one do so.
CanResolve(g) ==
    \/ pc[g] \in {"offerProbe", "scoreBatch", "casClosed", "loadState", "storeOpen"}
    \/ probing /\ At(g, "tryProbe")

\* The one probe slot is never lost: while the breaker is half-open some
\* goroutine is about to offer the slot, about to claim it, or in a call whose
\* outcome will be recorded.  Without one every later request would be refused
\* for good, because only a probe leaves HalfOpen (Allow and tryProbe).
NoLostProbe == state = "HalfOpen" => \E g \in Goroutines : CanResolve(g)

\* An offered slot is never left behind: somebody who will claim it is already
\* at the CAS of tryProbe, so a slot of one half-open episode cannot wait for a
\* request that arrives in a later one (probing.Store and tryProbe).
OfferIsClaimed == probing => \E g \in Goroutines : At(g, "tryProbe")

\* The compare-and-swaps keep the three-state protocol whatever the outcome
\* recorded and however late: an open breaker is never closed without a
\* half-open phase and a closed one never probes.
LegalTransitions ==
    [][ <<state, state'>> \notin {<<"Open", "Closed">>, <<"Closed", "HalfOpen">>} ]_state

\* A half-open breaker always leaves that state: the probe closes or re-opens
\* it, even when its claimant lost races and late calls report meanwhile.
HalfOpenResolves == state = "HalfOpen" ~> state # "HalfOpen"

\* Once Triton is healthy for good and requests keep coming the breaker closes
\* and stays closed, whatever mixture of late failures and trips went before.
RecoversWithTriton == KeepsComing /\ <>[]tritonUp => <>[](state = "Closed")
=============================================================================
