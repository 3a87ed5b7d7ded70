------------------------ MODULE CircuitBreakerProofs ------------------------
(***************************************************************************)
(* Safety of CircuitBreaker for any finite number of concurrent requests,  *)
(* any threshold and any reset timeout; and that it implements             *)
(* BreakerSpec: initial states map to initial states and every step maps   *)
(* to a step of BreakerSpec or to a stutter.                               *)
(***************************************************************************)
EXTENDS BreakerRefinement, FiniteSetTheorems, TLAPS

-----------------------------------------------------------------------------

\* A new breaker is well typed.
LEMMA InitTypeOK == Init => TypeOK
<1> SUFFICES ASSUME Init PROVE TypeOK
  OBVIOUS
<1>1. probing \in BOOLEAN /\ tritonUp \in BOOLEAN
  BY DEF Init
<1>2. failCount \in 0 .. Threshold /\ trippedAge \in 0 .. ResetTimeout
  BY ThresholdAssumption, ResetTimeoutAssumption DEF Init
<1>3. heldAge \in [Goroutines -> 0 .. ResetTimeout]
  BY ResetTimeoutAssumption DEF Init
<1>4. state \in States /\ pc \in [Goroutines -> Labels]
  BY DEF Init, States, Labels
<1> QED BY <1>1, <1>2, <1>3, <1>4 DEF TypeOK

\* Every step of a goroutine or of the environment keeps the types.
LEMMA StepTypeOK == TypeOK /\ [Next]_vars => TypeOK'
<1> SUFFICES ASSUME TypeOK, [Next]_vars PROVE TypeOK'
  OBVIOUS
<1> USE ThresholdAssumption, ResetTimeoutAssumption DEF TypeOK, Labels, GoTo, At, breaker
<1>1. CASE UNCHANGED vars
  BY <1>1 DEF vars
<1>2. CASE Next
  <2>1. ASSUME NEW g \in Goroutines, Arrive(g) PROVE TypeOK'
    BY <2>1 DEF Arrive
  <2>2. ASSUME NEW g \in Goroutines, Allow(g) PROVE TypeOK'
    BY <2>2 DEF Allow
  <2>3. ASSUME NEW g \in Goroutines, LoadTripped(g) PROVE TypeOK'
    BY <2>3 DEF LoadTripped
  <2>4. ASSUME NEW g \in Goroutines, CheckTimeout(g) PROVE TypeOK'
    BY <2>4 DEF CheckTimeout, States
  <2>5. ASSUME NEW g \in Goroutines, OfferProbe(g) PROVE TypeOK'
    BY <2>5 DEF OfferProbe
  <2>6. ASSUME NEW g \in Goroutines, TryProbe(g) PROVE TypeOK'
    BY <2>6 DEF TryProbe
  <2>7. ASSUME NEW g \in Goroutines, ScoreBatch(g) PROVE TypeOK'
    BY <2>7 DEF ScoreBatch
  <2>8. ASSUME NEW g \in Goroutines, CasClosed(g) PROVE TypeOK'
    BY <2>8 DEF CasClosed, States
  <2>9. ASSUME NEW g \in Goroutines, ResetFails(g) PROVE TypeOK'
    BY <2>9 DEF ResetFails
  <2>10. ASSUME NEW g \in Goroutines, LoadState(g) PROVE TypeOK'
    BY <2>10 DEF LoadState
  <2>11. ASSUME NEW g \in Goroutines, AddFail(g) PROVE TypeOK'
    BY <2>11 DEF AddFail
  <2>12. ASSUME NEW g \in Goroutines, StoreOpen(g) PROVE TypeOK'
    BY <2>12 DEF StoreOpen, States
  <2>13. ASSUME NEW g \in Goroutines, ReadClock(g) PROVE TypeOK'
    BY <2>13 DEF ReadClock
  <2>14. ASSUME NEW g \in Goroutines, StoreTripped(g) PROVE TypeOK'
    BY <2>14 DEF StoreTripped
  <2>15. ASSUME Tick PROVE TypeOK'
    BY <2>15 DEF Tick, Older, HoldsTimestamp
  <2>16. ASSUME TritonChanges PROVE TypeOK'
    BY <2>16 DEF TritonChanges
  <2> QED
    BY <1>2, <2>1, <2>2, <2>3, <2>4, <2>5, <2>6, <2>7, <2>8, <2>9, <2>10,
       <2>11, <2>12, <2>13, <2>14, <2>15, <2>16 DEF Next, RankStep
<1> QED BY <1>1, <1>2

\* The breaker's words and every goroutine's locals keep their types and
\* bounds; in particular the fail count and the ages stay saturated.
THEOREM TypeCorrect == Spec => []TypeOK
<1>1. Init => TypeOK
  BY InitTypeOK
<1>2. TypeOK /\ [Next]_vars => TypeOK'
  BY StepTypeOK
<1> QED BY <1>1, <1>2, PTL DEF Spec

-----------------------------------------------------------------------------

(***************************************************************************)
(* The inductive invariant.  NoLostProbe needs OfferIsClaimed's companion  *)
(* knowledge that a slot, once offered, has a goroutine at the CAS of      *)
(* tryProbe, and the two are preserved together.                           *)
(***************************************************************************)
IInv == TypeOK /\ NoLostProbe /\ OfferIsClaimed

\* A new breaker is closed, with no probe to lose.
LEMMA InitIInv == Init => IInv
<1> SUFFICES ASSUME Init PROVE IInv
  OBVIOUS
<1>1. TypeOK
  BY InitTypeOK
<1>2. NoLostProbe /\ OfferIsClaimed
  BY DEF Init, NoLostProbe, OfferIsClaimed
<1> QED BY <1>1, <1>2 DEF IInv

\* A step of g leaves every other goroutine where it was.
LEMMA StepOfferIsClaimed == IInv /\ [Next]_vars => OfferIsClaimed'
<1> SUFFICES ASSUME IInv, [Next]_vars, probing'
             PROVE  \E h \in Goroutines : pc'[h] = "tryProbe"
  BY DEF OfferIsClaimed, At
<1> USE DEF IInv, TypeOK, OfferIsClaimed, GoTo, At, breaker
<1>1. CASE UNCHANGED vars
  BY <1>1 DEF vars
<1>2. CASE Next
  <2> DEFINE Claimed == \E h \in Goroutines : pc'[h] = "tryProbe"
  <2>1. ASSUME NEW g \in Goroutines, Arrive(g) PROVE Claimed
    BY <2>1 DEF Arrive
  <2>2. ASSUME NEW g \in Goroutines, Allow(g) PROVE Claimed
    BY <2>2 DEF Allow
  <2>3. ASSUME NEW g \in Goroutines, LoadTripped(g) PROVE Claimed
    BY <2>3 DEF LoadTripped
  <2>4. ASSUME NEW g \in Goroutines, CheckTimeout(g) PROVE Claimed
    BY <2>4 DEF CheckTimeout
  <2>5. ASSUME NEW g \in Goroutines, OfferProbe(g) PROVE Claimed
    BY <2>5 DEF OfferProbe
  <2>6. ASSUME NEW g \in Goroutines, TryProbe(g) PROVE Claimed
    BY <2>6 DEF TryProbe
  <2>7. ASSUME NEW g \in Goroutines, ScoreBatch(g) PROVE Claimed
    BY <2>7 DEF ScoreBatch
  <2>8. ASSUME NEW g \in Goroutines, CasClosed(g) PROVE Claimed
    BY <2>8 DEF CasClosed
  <2>9. ASSUME NEW g \in Goroutines, ResetFails(g) PROVE Claimed
    BY <2>9 DEF ResetFails
  <2>10. ASSUME NEW g \in Goroutines, LoadState(g) PROVE Claimed
    BY <2>10 DEF LoadState
  <2>11. ASSUME NEW g \in Goroutines, AddFail(g) PROVE Claimed
    BY <2>11 DEF AddFail
  <2>12. ASSUME NEW g \in Goroutines, StoreOpen(g) PROVE Claimed
    BY <2>12 DEF StoreOpen
  <2>13. ASSUME NEW g \in Goroutines, ReadClock(g) PROVE Claimed
    BY <2>13 DEF ReadClock
  <2>14. ASSUME NEW g \in Goroutines, StoreTripped(g) PROVE Claimed
    BY <2>14 DEF StoreTripped
  <2>15. CASE Tick
    BY <2>15 DEF Tick
  <2>16. CASE TritonChanges
    BY <2>16 DEF TritonChanges
  <2> QED
    BY <1>2, <2>1, <2>2, <2>3, <2>4, <2>5, <2>6, <2>7, <2>8, <2>9, <2>10,
       <2>11, <2>12, <2>13, <2>14, <2>15, <2>16 DEF Next, RankStep
<1> QED BY <1>1, <1>2

\* Whoever leaves the half-open phase or the probe ends it or hands it on.
LEMMA StepNoLostProbe == IInv /\ [Next]_vars => NoLostProbe'
<1> SUFFICES ASSUME IInv, [Next]_vars, state' = "HalfOpen"
             PROVE  \E h \in Goroutines : CanResolve(h)'
  BY DEF NoLostProbe
<1> DEFINE Kept == \E h \in Goroutines : CanResolve(h)'
<1> USE DEF IInv, TypeOK, NoLostProbe, CanResolve, GoTo, At, breaker
<1>1. CASE UNCHANGED vars
  BY <1>1 DEF vars
<1>2. CASE Next
  <2>1. ASSUME NEW g \in Goroutines, Arrive(g) PROVE Kept
    BY <2>1 DEF Arrive
  <2>2. ASSUME NEW g \in Goroutines, Allow(g) PROVE Kept
    BY <2>2 DEF Allow
  <2>3. ASSUME NEW g \in Goroutines, LoadTripped(g) PROVE Kept
    BY <2>3 DEF LoadTripped
  <2>4. ASSUME NEW g \in Goroutines, CheckTimeout(g) PROVE Kept
    BY <2>4 DEF CheckTimeout
  <2>5. ASSUME NEW g \in Goroutines, OfferProbe(g) PROVE Kept
    BY <2>5 DEF OfferProbe
  <2>6. ASSUME NEW g \in Goroutines, TryProbe(g) PROVE Kept
    BY <2>6 DEF TryProbe
  <2>7. ASSUME NEW g \in Goroutines, ScoreBatch(g) PROVE Kept
    BY <2>7 DEF ScoreBatch
  <2>8. ASSUME NEW g \in Goroutines, CasClosed(g) PROVE Kept
    BY <2>8 DEF CasClosed
  <2>9. ASSUME NEW g \in Goroutines, ResetFails(g) PROVE Kept
    BY <2>9 DEF ResetFails
  <2>10. ASSUME NEW g \in Goroutines, LoadState(g) PROVE Kept
    BY <2>10 DEF LoadState
  <2>11. ASSUME NEW g \in Goroutines, AddFail(g) PROVE Kept
    BY <2>11 DEF AddFail
  <2>12. ASSUME NEW g \in Goroutines, StoreOpen(g) PROVE Kept
    BY <2>12 DEF StoreOpen
  <2>13. ASSUME NEW g \in Goroutines, ReadClock(g) PROVE Kept
    BY <2>13 DEF ReadClock
  <2>14. ASSUME NEW g \in Goroutines, StoreTripped(g) PROVE Kept
    BY <2>14 DEF StoreTripped
  <2>15. CASE Tick
    BY <2>15 DEF Tick
  <2>16. CASE TritonChanges
    BY <2>16 DEF TritonChanges
  <2> QED
    BY <1>2, <2>1, <2>2, <2>3, <2>4, <2>5, <2>6, <2>7, <2>8, <2>9, <2>10,
       <2>11, <2>12, <2>13, <2>14, <2>15, <2>16 DEF Next, RankStep
<1> QED BY <1>1, <1>2

\* The inductive invariant in one.
LEMMA StepIInv == IInv /\ [Next]_vars => IInv'
<1> SUFFICES ASSUME IInv, [Next]_vars PROVE IInv'
  OBVIOUS
<1>1. TypeOK'
  BY StepTypeOK DEF IInv
<1>2. NoLostProbe'
  BY StepNoLostProbe
<1>3. OfferIsClaimed'
  BY StepOfferIsClaimed
<1> QED BY <1>1, <1>2, <1>3 DEF IInv

\* The inductive invariant holds always.
LEMMA IInvHolds == Spec => []IInv
<1>1. Init => IInv
  BY InitIInv
<1>2. IInv /\ [Next]_vars => IInv'
  BY StepIInv
<1> QED BY <1>1, <1>2, PTL DEF Spec

\* However many requests race through Allow, tryProbe and the two Record
\* functions, a half-open breaker always has a goroutine that can resolve it.
THEOREM ProbeIsNeverLost == Spec => []NoLostProbe
<1>1. IInv => NoLostProbe
  BY DEF IInv
<1> QED BY <1>1, IInvHolds, PTL

\* A probe slot is never left behind for a request that has not yet arrived.
THEOREM OfferIsAlwaysClaimed == Spec => []OfferIsClaimed
<1>1. IInv => OfferIsClaimed
  BY DEF IInv
<1> QED BY <1>1, IInvHolds, PTL

-----------------------------------------------------------------------------

\* No single step makes an illegal transition.
LEMMA StepLegal ==
    ASSUME Next, state' # state
    PROVE  <<state, state'>> \notin {<<"Open", "Closed">>, <<"Closed", "HalfOpen">>}
<1>1. PICK g \in Goroutines : CheckTimeout(g) \/ CasClosed(g) \/ StoreOpen(g)
  BY DEF Next, RankStep, Arrive, Allow, LoadTripped, OfferProbe, TryProbe,
         ScoreBatch, ResetFails, LoadState, AddFail, ReadClock, StoreTripped,
         Tick, TritonChanges, breaker
<1>2. CASE CheckTimeout(g)
  BY <1>2 DEF CheckTimeout
<1>3. CASE CasClosed(g)
  BY <1>3 DEF CasClosed
<1>4. CASE StoreOpen(g)
  BY <1>4 DEF StoreOpen
<1> QED BY <1>1, <1>2, <1>3, <1>4

\* Whatever races, an open breaker closes only through a half-open phase and a
\* closed one never starts to probe.
THEOREM TransitionsAreLegal == Spec => LegalTransitions
<1>1. [Next]_vars =>
      [<<state, state'>> \notin {<<"Open", "Closed">>, <<"Closed", "HalfOpen">>}]_state
  BY StepLegal DEF vars
<1> QED BY <1>1, PTL DEF Spec, LegalTransitions

-----------------------------------------------------------------------------
(* Refinement of BreakerSpec *)

\* Slots are offered by finitely many goroutines.
LEMMA OfferingIsFinite == IsFiniteSet(Offering) /\ Cardinality(Offering) \in Nat
  BY GoroutinesAssumption, FS_Subset, FS_CardinalityType DEF Offering

\* Steps that neither enter nor leave offerProbe make and use no offer.
LEMMA SameOffers ==
    ASSUME Offering' = Offering, probing' = probing
    PROVE  OpenOffers' = OpenOffers
  BY DEF OpenOffers

\* Entering offerProbe adds an offer.
LEMMA OfferMade ==
    ASSUME NEW g \in Goroutines, g \notin Offering, Offering' = Offering \cup {g},
           probing' = probing
    PROVE  OpenOffers' = OpenOffers + 1
<1>1. Cardinality(Offering \cup {g}) = Cardinality(Offering) + 1
  BY OfferingIsFinite, FS_AddElement
<1>2. Cardinality(Offering') = Cardinality(Offering) + 1
  BY <1>1
<1> QED BY <1>2, OfferingIsFinite DEF OpenOffers

\* Storing TRUE into probing turns the pending offer into the slot; if a slot
\* is there already the two become one.
LEMMA OfferStored ==
    ASSUME TypeOK, NEW g \in Offering, Offering' = Offering \ {g}, probing' = TRUE
    PROVE  /\ ~probing => OpenOffers' = OpenOffers
           /\ probing => OpenOffers > 1 /\ OpenOffers' = OpenOffers - 1
<1>1. Cardinality(Offering \ {g}) = Cardinality(Offering) - 1
  BY OfferingIsFinite, FS_RemoveElement
<1>2. Cardinality(Offering) # 0
  BY OfferingIsFinite, FS_EmptySet
<1>3. Cardinality(Offering') = Cardinality(Offering) - 1
  BY <1>1
<1> QED BY <1>2, <1>3, OfferingIsFinite DEF OpenOffers

\* The swap that takes the slot uses an offer.
LEMMA SlotTaken ==
    ASSUME probing, probing' = FALSE, Offering' = Offering
    PROVE  OpenOffers > 0 /\ OpenOffers' = OpenOffers - 1
  BY OfferingIsFinite DEF OpenOffers

-----------------------------------------------------------------------------

\* A new breaker is a new abstract breaker.
LEMMA InitRefines == Init => Abstract!Init
<1> SUFFICES ASSUME Init PROVE Abstract!Init
  OBVIOUS
<1>1. Offering = {} /\ ActiveCalls = {}
  BY DEF Init, Offering, ActiveCalls, At
<1>2. OpenOffers = 0
  BY <1>1, FS_EmptySet DEF OpenOffers, Init
<1> QED BY <1>1, <1>2 DEF Abstract!Init, Init

\* Every step is a step of BreakerSpec or changes nothing it sees.
LEMMA StepRefines == TypeOK /\ [Next]_vars => [Abstract!Next]_(Abstract!vars)
<1> SUFFICES ASSUME TypeOK, [Next]_vars
             PROVE  Abstract!Next \/ UNCHANGED Abstract!vars
  OBVIOUS
<1> DEFINE Refined == Abstract!Next \/ UNCHANGED Abstract!vars
<1> USE DEF TypeOK, GoTo, At, breaker
<1>0. ASSUME UNCHANGED <<state, probing, Offering, ActiveCalls>> PROVE Refined
  BY <1>0, SameOffers DEF Abstract!vars
<1>1. CASE UNCHANGED vars
  <2>1. UNCHANGED <<state, probing, Offering, ActiveCalls>>
    BY <1>1 DEF vars, Offering, ActiveCalls
  <2> QED BY <2>1, <1>0
<1>2. CASE Next
  <2>1. ASSUME NEW g \in Goroutines, Arrive(g) PROVE Refined
    BY <2>1, <1>0 DEF Arrive, Offering, ActiveCalls
  <2>2. ASSUME NEW g \in Goroutines, Allow(g) PROVE Refined
    <3>1. Offering' = Offering
      BY <2>2 DEF Allow, Offering
    <3>2. CASE state = "Closed"
      <4>1. g \notin ActiveCalls /\ ActiveCalls' = ActiveCalls \cup {g}
        BY <2>2, <3>2 DEF Allow, ActiveCalls
      <4>2. OpenOffers' = OpenOffers /\ state' = state
        BY <2>2, <3>1, SameOffers DEF Allow
      <4> QED BY <3>2, <4>1, <4>2 DEF Abstract!Next, Abstract!Admit
    <3>3. CASE state # "Closed"
      BY <2>2, <3>1, <3>3, <1>0 DEF Allow, ActiveCalls
    <3> QED BY <3>2, <3>3
  <2>3. ASSUME NEW g \in Goroutines, LoadTripped(g) PROVE Refined
    BY <2>3, <1>0 DEF LoadTripped, Offering, ActiveCalls
  <2>4. ASSUME NEW g \in Goroutines, CheckTimeout(g) PROVE Refined
    <3>1. ActiveCalls' = ActiveCalls /\ g \notin Offering
      BY <2>4 DEF CheckTimeout, ActiveCalls, Offering
    <3>2. CASE state' = state
      <4>1. pc'[g] # "offerProbe"
        BY <2>4, <3>2 DEF CheckTimeout
      <4>2. Offering' = Offering
        BY <2>4, <4>1 DEF CheckTimeout, Offering
      <4> QED BY <2>4, <3>1, <3>2, <4>2, <1>0 DEF CheckTimeout
    <3>3. CASE state' # state
      <4>1. state = "Open" /\ state' = "HalfOpen" /\ probing' = probing
        BY <2>4, <3>3 DEF CheckTimeout
      <4>2. Offering' = Offering \cup {g}
        BY <2>4, <3>3 DEF CheckTimeout, Offering
      <4>3. OpenOffers' = OpenOffers + 1
        BY <3>1, <4>1, <4>2, OfferMade
      <4> QED BY <3>1, <4>1, <4>3 DEF Abstract!Next, Abstract!Offer
    <3> QED BY <3>2, <3>3
  <2>5. ASSUME NEW g \in Goroutines, OfferProbe(g) PROVE Refined
    <3>1. ActiveCalls' = ActiveCalls /\ state' = state
      BY <2>5 DEF OfferProbe, ActiveCalls
    <3>2. g \in Offering /\ Offering' = Offering \ {g} /\ probing' = TRUE
      BY <2>5 DEF OfferProbe, Offering
    <3>3. CASE probing
      BY <3>1, <3>2, <3>3, OfferStored DEF Abstract!Next, Abstract!MergeOffers
    <3>4. CASE ~probing
      BY <3>1, <3>2, <3>4, OfferStored DEF Abstract!vars
    <3> QED BY <3>3, <3>4
  <2>6. ASSUME NEW g \in Goroutines, TryProbe(g) PROVE Refined
    <3>1. Offering' = Offering /\ state' = state /\ probing' = FALSE
      BY <2>6 DEF TryProbe, Offering
    <3>2. CASE probing
      <4>1. g \notin ActiveCalls /\ ActiveCalls' = ActiveCalls \cup {g}
        BY <2>6, <3>2 DEF TryProbe, ActiveCalls
      <4> QED BY <3>1, <3>2, <4>1, SlotTaken DEF Abstract!Next, Abstract!StartTrial
    <3>3. CASE ~probing
      <4>1. ActiveCalls' = ActiveCalls
        BY <2>6, <3>3 DEF TryProbe, ActiveCalls
      <4>2. probing' = probing
        BY <3>1, <3>3
      <4> QED BY <3>1, <4>1, <4>2, <1>0
    <3> QED BY <3>2, <3>3
  <2>7. ASSUME NEW g \in Goroutines, ScoreBatch(g) PROVE Refined
    BY <2>7, <1>0 DEF ScoreBatch, Offering, ActiveCalls
  <2>8. ASSUME NEW g \in Goroutines, CasClosed(g) PROVE Refined
    <3>1. g \in ActiveCalls /\ OpenOffers' = OpenOffers
      <4>1. Offering' = Offering /\ probing' = probing
        BY <2>8 DEF CasClosed, Offering
      <4> QED BY <2>8, <4>1, SameOffers DEF CasClosed, ActiveCalls
    <3>2. CASE state = "HalfOpen"
      <4>1. state' = "Closed" /\ ActiveCalls' = ActiveCalls
        BY <2>8, <3>2 DEF CasClosed, ActiveCalls
      <4> QED BY <3>1, <3>2, <4>1 DEF Abstract!Next, Abstract!Close
    <3>3. CASE state # "HalfOpen"
      <4>1. state' = state /\ ActiveCalls' = ActiveCalls \ {g}
        BY <2>8, <3>3 DEF CasClosed, ActiveCalls
      <4> QED BY <3>1, <4>1 DEF Abstract!Next, Abstract!Finish
    <3> QED BY <3>2, <3>3
  <2>9. ASSUME NEW g \in Goroutines, ResetFails(g) PROVE Refined
    <3>1. Offering' = Offering /\ probing' = probing /\ state' = state
      BY <2>9 DEF ResetFails, Offering
    <3>2. g \in ActiveCalls /\ ActiveCalls' = ActiveCalls \ {g}
      BY <2>9 DEF ResetFails, ActiveCalls
    <3> QED BY <3>1, <3>2, SameOffers DEF Abstract!Next, Abstract!Finish
  <2>10. ASSUME NEW g \in Goroutines, LoadState(g) PROVE Refined
    BY <2>10, <1>0 DEF LoadState, Offering, ActiveCalls
  <2>11. ASSUME NEW g \in Goroutines, AddFail(g) PROVE Refined
    <3>1. Offering' = Offering /\ probing' = probing /\ state' = state
      BY <2>11 DEF AddFail, Offering
    <3>2. CASE failCount' >= Threshold
      <4>1. ActiveCalls' = ActiveCalls
        BY <2>11, <3>2 DEF AddFail, ActiveCalls
      <4> QED BY <3>1, <4>1, <1>0
    <3>3. CASE ~(failCount' >= Threshold)
      <4>1. g \in ActiveCalls /\ ActiveCalls' = ActiveCalls \ {g}
        BY <2>11, <3>3 DEF AddFail, ActiveCalls
      <4> QED BY <3>1, <4>1, SameOffers DEF Abstract!Next, Abstract!Finish
    <3> QED BY <3>2, <3>3
  <2>12. ASSUME NEW g \in Goroutines, StoreOpen(g) PROVE Refined
    <3>1. Offering' = Offering /\ probing' = probing /\ state' = "Open"
      BY <2>12 DEF StoreOpen, Offering
    <3>2. g \in ActiveCalls /\ ActiveCalls' = ActiveCalls
      BY <2>12 DEF StoreOpen, ActiveCalls
    <3> QED BY <3>1, <3>2, SameOffers DEF Abstract!Next, Abstract!Trip
  <2>13. ASSUME NEW g \in Goroutines, ReadClock(g) PROVE Refined
    BY <2>13, <1>0 DEF ReadClock, Offering, ActiveCalls
  <2>14. ASSUME NEW g \in Goroutines, StoreTripped(g) PROVE Refined
    <3>1. Offering' = Offering /\ probing' = probing /\ state' = state
      BY <2>14 DEF StoreTripped, Offering
    <3>2. g \in ActiveCalls /\ ActiveCalls' = ActiveCalls \ {g}
      BY <2>14 DEF StoreTripped, ActiveCalls
    <3> QED BY <3>1, <3>2, SameOffers DEF Abstract!Next, Abstract!Finish
  <2>15. CASE Tick
    BY <2>15, <1>0 DEF Tick, Offering, ActiveCalls
  <2>16. CASE TritonChanges
    BY <2>16, <1>0 DEF TritonChanges, Offering, ActiveCalls
  <2> QED
    BY <1>2, <2>1, <2>2, <2>3, <2>4, <2>5, <2>6, <2>7, <2>8, <2>9, <2>10,
       <2>11, <2>12, <2>13, <2>14, <2>15, <2>16 DEF Next, RankStep
<1> QED BY <1>1, <1>2

\* The atomic words of breaker.go implement the trial discipline: no request
\* passes an open breaker except on an offer made by an Open to HalfOpen swap.
THEOREM BreakerImplementsSpec == Spec => ImplementsBreakerSpec
<1>1. Init => Abstract!Init
  BY InitRefines
<1>2. TypeOK /\ [Next]_vars => [Abstract!Next]_(Abstract!vars)
  BY StepRefines
<1> QED BY <1>1, <1>2, TypeCorrect, PTL DEF Spec, Abstract!Spec, ImplementsBreakerSpec
=============================================================================
