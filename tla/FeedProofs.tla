----------------------------- MODULE FeedProofs -----------------------------
(***************************************************************************)
(* Safety of what feeds the system.                                        *)
(*                                                                         *)
(* EventCollector, for any number of handlers and requests and any         *)
(* capacity of the client, and the simulator that drives it: a particular  *)
(* way for requests to arrive, so what holds of the collector holds of the *)
(* two together.                                                           *)
(*                                                                         *)
(* ListWriters, the seeder and the batch processor, for any numbers of     *)
(* items, users and passes and any size of a batch and of a list.          *)
(* It shares no variable with the others.                                  *)
(***************************************************************************)
EXTENDS TrafficSimulator, ListWriters, LoopsProofs, FiniteSetTheorems, TLAPS

-----------------------------------------------------------------------------
(* Cardinalities *)

\* There are no more events than the bound.
LEMMA EventsFinite ==
    ASSUME NEW S, S \subseteq Events
    PROVE  IsFiniteSet(S) /\ Cardinality(S) \in Nat /\ Cardinality(S) <= MaxEvents
<1>1. IsFiniteSet(Events) /\ Cardinality(Events) = MaxEvents
  BY FS_Interval, BoundAssumption DEF Events
<1>2. IsFiniteSet(S) /\ Cardinality(S) <= MaxEvents
  BY <1>1, FS_Subset
<1> QED BY <1>2, FS_CardinalityType

\* One more event in S is one more counted.
Counted(S, e) ==
    /\ Cardinality(S \cup {e}) = Cardinality(S) + 1
    /\ Cardinality(S) \in Nat /\ Cardinality(S \cup {e}) <= MaxEvents

\* An event that joins a set adds one to its size.
LEMMA OneMore ==
    ASSUME NEW S, S \subseteq Events, NEW e \in Events, e \notin S
    PROVE  Counted(S, e)
<1>1. IsFiniteSet(S) /\ Cardinality(S) \in Nat
  BY EventsFinite
<1>2. S \cup {e} \subseteq Events
  OBVIOUS
<1>3. Cardinality(S \cup {e}) <= MaxEvents
  BY <1>2, EventsFinite
<1> QED BY <1>1, <1>3, FS_AddElement DEF Counted

-----------------------------------------------------------------------------
(***************************************************************************)
(* The inductive invariant of the collector.  That an event is given up    *)
(* only once needs to know where it is: with a handler that has not        *)
(* published it and nowhere else, or in the client, to be sent or to be    *)
(* called back for, and not counted yet.                                   *)
(***************************************************************************)

\* No two handlers work on one event, and no event is younger than the newest.
OwnEvents ==
    /\ \A g \in Slots : event[g] \in 0 .. arrived /\ (event[g] = 0 <=> pc[g] = "idle")
    /\ \A g, h \in Slots : event[g] = event[h] /\ event[g] # 0 => g = h

\* What was published, answered or given up has arrived.
NothingInvented == buffer \cup promises \cup topic \cup failed \cup accepted \subseteq 1 .. arrived

\* An event that its handler has yet to publish is nowhere else.
UnpublishedIsNew ==
    \A g \in Slots : pc[g] = "publish" =>
        event[g] \notin buffer \cup promises \cup topic \cup failed \cup accepted

\* Where a published event may be.
Places == topic \cup buffer \cup promises \cup failed

\* An event that was published or answered is in one of the places, also when
\* the process has ended.
PublishedIsKept ==
    /\ accepted \subseteq Places
    /\ \A g \in Slots : pc[g] = "respond" => event[g] \in Places

\* The client calls each callback once.
CalledBackOnce ==
    /\ buffer \cap failed = {} /\ promises \cap failed = {} /\ buffer \cap promises = {}
    /\ produceErrs = Cardinality(failed)

\* A closed client has nothing to send.
ClosedIsEmpty == server = "closed" \/ (~Running /\ ~fatal) => buffer = {}

CollectorInv ==
    /\ TypeOK /\ OwnEvents /\ NothingInvented
    /\ UnpublishedIsNew /\ PublishedIsKept
    /\ CalledBackOnce /\ ClosedIsEmpty

\* A collector that starts has seen no event.
LEMMA InitCollectorInv == Init => CollectorInv
<1> SUFFICES ASSUME Init PROVE CollectorInv
  OBVIOUS
<1> USE DEF Init
<1>1. Cardinality({}) = 0
  BY FS_EmptySet
<1>2. buffer \cup promises = {} /\ Cardinality(buffer \cup promises) <= Capacity
  BY <1>1, CapacityAssumption
<1>3. TypeOK
  <2>1. pc \in [Slots -> {"idle", "publish", "respond"}] /\ event \in [Slots -> Events \cup {0}]
    OBVIOUS
  <2>2. arrived \in 0 .. MaxEvents /\ produceErrs \in 0 .. MaxEvents
    BY BoundAssumption
  <2> QED BY <1>2, <2>1, <2>2 DEF TypeOK
<1>4. OwnEvents /\ NothingInvented /\ UnpublishedIsNew
  BY DEF OwnEvents, NothingInvented, UnpublishedIsNew
<1>5. PublishedIsKept /\ CalledBackOnce /\ ClosedIsEmpty
  BY <1>1 DEF PublishedIsKept, CalledBackOnce, ClosedIsEmpty
<1> QED BY <1>3, <1>4, <1>5 DEF CollectorInv

\* Every step of the collector keeps the inductive invariant.
LEMMA StepCollectorInv == CollectorInv /\ [Next]_vars => CollectorInv'
<1> SUFFICES ASSUME CollectorInv, [Next]_vars PROVE CollectorInv'
  OBVIOUS
<1> USE CapacityAssumption, BoundAssumption
        DEF CollectorInv, TypeOK, client, handler, Events, Running, HasRoom, Places
<1>1. CASE UNCHANGED vars
  BY <1>1 DEF vars, OwnEvents, NothingInvented, UnpublishedIsNew, PublishedIsKept,
     CalledBackOnce, ClosedIsEmpty
<1>2. CASE Next
  <2>1. ASSUME NEW g \in Slots, HandleEvent(g) PROVE CollectorInv'
    <3> USE <2>1 DEF HandleEvent
    <3>1. TypeOK'
      OBVIOUS
    <3>2. OwnEvents'
      BY DEF OwnEvents
    <3>3. NothingInvented'
      BY DEF NothingInvented
    <3>4. UnpublishedIsNew'
      BY DEF UnpublishedIsNew, NothingInvented, OwnEvents
    <3>5. PublishedIsKept'
      BY DEF PublishedIsKept
    <3>6. CalledBackOnce'
      BY DEF CalledBackOnce
    <3>7. ClosedIsEmpty'
      BY DEF ClosedIsEmpty
    <3> QED BY <3>1, <3>2, <3>3, <3>4, <3>5, <3>6, <3>7 DEF CollectorInv
  <2>2. ASSUME NEW g \in Slots, Publish(g) PROVE CollectorInv'
    <3> USE <2>2 DEF Publish
    <3>a. event[g] \in 1 .. arrived /\ event[g] \in Events /\ event[g] \notin buffer \cup promises \cup failed
      BY DEF OwnEvents, UnpublishedIsNew
    <3>b. buffer' \subseteq Events /\ promises' \subseteq Events
      BY <3>a
    <3>c. server' \in {"serving", "draining", "closing"} => Cardinality(buffer' \cup promises') <= Capacity
      <4>1. ASSUME server' \in {"serving", "draining", "closing"}
            PROVE  /\ Cardinality(buffer \cup promises) < Capacity
                   /\ buffer' \cup promises' = (buffer \cup promises) \cup {event[g]}
        BY <4>1
      <4>2. Counted(buffer \cup promises, event[g])
        BY <3>a, OneMore
      <4> QED BY <4>1, <4>2 DEF Counted
    <3>1. TypeOK'
      BY <3>a, <3>b, <3>c
    <3>2. OwnEvents'
      BY DEF OwnEvents
    <3>3. NothingInvented'
      BY <3>a DEF NothingInvented
    <3>4. UnpublishedIsNew'
      BY <3>a DEF UnpublishedIsNew, OwnEvents
    <3>5. PublishedIsKept'
      BY DEF PublishedIsKept, OwnEvents
    <3>6. CalledBackOnce'
      BY <3>a DEF CalledBackOnce
    <3>7. ClosedIsEmpty'
      BY DEF ClosedIsEmpty
    <3> QED BY <3>1, <3>2, <3>3, <3>4, <3>5, <3>6, <3>7 DEF CollectorInv
  <2>3. ASSUME NEW g \in Slots, Respond(g) PROVE CollectorInv'
    <3> USE <2>3 DEF Respond
    <3>a. event[g] \in 1 .. arrived /\ event[g] \in Events
      BY DEF OwnEvents
    <3>1. TypeOK'
      BY <3>a
    <3>2. OwnEvents'
      BY DEF OwnEvents
    <3>3. NothingInvented'
      BY <3>a DEF NothingInvented
    <3>4. UnpublishedIsNew'
      BY <3>a DEF UnpublishedIsNew, OwnEvents
    <3>5. PublishedIsKept'
      BY DEF PublishedIsKept
    <3>6. CalledBackOnce'
      BY DEF CalledBackOnce
    <3>7. ClosedIsEmpty'
      BY DEF ClosedIsEmpty
    <3> QED BY <3>1, <3>2, <3>3, <3>4, <3>5, <3>6, <3>7 DEF CollectorInv
  <2>4. ASSUME NEW e \in Events, Produced(e) PROVE CollectorInv'
    <3> USE <2>4 DEF Produced
    <3>a. /\ Cardinality(buffer' \cup promises') <= Cardinality(buffer \cup promises)
          /\ Cardinality(buffer \cup promises) \in Nat /\ Cardinality(buffer' \cup promises') \in Nat
      <4>1. buffer' \cup promises' \subseteq buffer \cup promises
        OBVIOUS
      <4> QED BY <4>1, EventsFinite, FS_Subset
    <3>1. TypeOK'
      BY <3>a
    <3>2. OwnEvents'
      BY DEF OwnEvents
    <3>3. NothingInvented'
      BY DEF NothingInvented
    <3>4. UnpublishedIsNew'
      BY DEF UnpublishedIsNew
    <3>5. PublishedIsKept'
      BY DEF PublishedIsKept
    <3>6. CalledBackOnce'
      BY DEF CalledBackOnce
    <3>7. ClosedIsEmpty'
      BY DEF ClosedIsEmpty
    <3> QED BY <3>1, <3>2, <3>3, <3>4, <3>5, <3>6, <3>7 DEF CollectorInv
  <2>5. ASSUME NEW e \in Events, ProduceFails(e) PROVE CollectorInv'
    <3> USE <2>5 DEF ProduceFails
    <3>a. /\ Cardinality(buffer' \cup promises') <= Cardinality(buffer \cup promises)
          /\ Cardinality(buffer \cup promises) \in Nat /\ Cardinality(buffer' \cup promises') \in Nat
      <4>1. buffer' \cup promises' \subseteq buffer \cup promises
        OBVIOUS
      <4> QED BY <4>1, EventsFinite, FS_Subset
    <3>1. TypeOK'
      BY <3>a
    <3>2. OwnEvents'
      BY DEF OwnEvents
    <3>3. NothingInvented'
      BY DEF NothingInvented
    <3>4. UnpublishedIsNew'
      BY DEF UnpublishedIsNew
    <3>5. PublishedIsKept'
      BY DEF PublishedIsKept
    <3>6. CalledBackOnce'
      BY DEF CalledBackOnce
    <3>7. ClosedIsEmpty'
      BY DEF ClosedIsEmpty
    <3> QED BY <3>1, <3>2, <3>3, <3>4, <3>5, <3>6, <3>7 DEF CollectorInv
  <2>6. ASSUME NEW e \in Events, Callback(e) PROVE CollectorInv'
    <3> USE <2>6 DEF Callback
    <3>a. /\ Cardinality(buffer' \cup promises') <= Cardinality(buffer \cup promises)
          /\ Cardinality(buffer \cup promises) \in Nat /\ Cardinality(buffer' \cup promises') \in Nat
      <4>1. buffer' \cup promises' \subseteq buffer \cup promises
        OBVIOUS
      <4> QED BY <4>1, EventsFinite, FS_Subset
    <3>b. Counted(failed, e)
      BY OneMore DEF CalledBackOnce
    <3>c. produceErrs' \in 0 .. MaxEvents
      BY <3>b DEF CalledBackOnce, Counted
    <3>1. TypeOK'
      BY <3>a, <3>c
    <3>2. OwnEvents'
      BY DEF OwnEvents
    <3>3. NothingInvented'
      BY DEF NothingInvented
    <3>4. UnpublishedIsNew'
      BY DEF UnpublishedIsNew
    <3>5. PublishedIsKept'
      BY DEF PublishedIsKept
    <3>6. CalledBackOnce'
      BY <3>b DEF CalledBackOnce, Counted
    <3>7. ClosedIsEmpty'
      BY DEF ClosedIsEmpty
    <3> QED BY <3>1, <3>2, <3>3, <3>4, <3>5, <3>6, <3>7 DEF CollectorInv
  <2>7. ASSUME BrokerChanges PROVE CollectorInv'
    <3> USE <2>7 DEF BrokerChanges
    <3>1. TypeOK'
      OBVIOUS
    <3>2. OwnEvents'
      BY DEF OwnEvents
    <3>3. NothingInvented'
      BY DEF NothingInvented
    <3>4. UnpublishedIsNew'
      BY DEF UnpublishedIsNew
    <3>5. PublishedIsKept'
      BY DEF PublishedIsKept
    <3>6. CalledBackOnce'
      BY DEF CalledBackOnce
    <3>7. ClosedIsEmpty'
      BY DEF ClosedIsEmpty
    <3> QED BY <3>1, <3>2, <3>3, <3>4, <3>5, <3>6, <3>7 DEF CollectorInv
  <2>8. ASSUME Signal PROVE CollectorInv'
    <3> USE <2>8 DEF Signal
    <3>1. TypeOK'
      OBVIOUS
    <3>2. OwnEvents'
      BY DEF OwnEvents
    <3>3. NothingInvented'
      BY DEF NothingInvented
    <3>4. UnpublishedIsNew'
      BY DEF UnpublishedIsNew
    <3>5. PublishedIsKept'
      BY DEF PublishedIsKept
    <3>6. CalledBackOnce'
      BY DEF CalledBackOnce
    <3>7. ClosedIsEmpty'
      BY DEF ClosedIsEmpty
    <3> QED BY <3>1, <3>2, <3>3, <3>4, <3>5, <3>6, <3>7 DEF CollectorInv
  <2>9. ASSUME ShutdownReturns PROVE CollectorInv'
    <3> USE <2>9 DEF ShutdownReturns
    <3>1. TypeOK'
      OBVIOUS
    <3>2. OwnEvents'
      BY DEF OwnEvents
    <3>3. NothingInvented'
      BY DEF NothingInvented
    <3>4. UnpublishedIsNew'
      BY DEF UnpublishedIsNew
    <3>5. PublishedIsKept'
      BY DEF PublishedIsKept
    <3>6. CalledBackOnce'
      BY DEF CalledBackOnce
    <3>7. ClosedIsEmpty'
      BY DEF ClosedIsEmpty
    <3> QED BY <3>1, <3>2, <3>3, <3>4, <3>5, <3>6, <3>7 DEF CollectorInv
  <2>10. ASSUME Close PROVE CollectorInv'
    <3> USE <2>10 DEF Close
    <3>a. server' = "closed"
      OBVIOUS
    <3>1. TypeOK'
      BY <3>a
    <3>2. OwnEvents'
      BY DEF OwnEvents
    <3>3. NothingInvented'
      BY DEF NothingInvented
    <3>4. UnpublishedIsNew'
      BY DEF UnpublishedIsNew
    <3>5. PublishedIsKept'
      BY DEF PublishedIsKept
    <3>6. CalledBackOnce'
      BY DEF CalledBackOnce
    <3>7. ClosedIsEmpty'
      BY DEF ClosedIsEmpty
    <3> QED BY <3>1, <3>2, <3>3, <3>4, <3>5, <3>6, <3>7 DEF CollectorInv
  <2>11. ASSUME Exit PROVE CollectorInv'
    <3> USE <2>11 DEF Exit
    <3>a. pc' \in [Slots -> {"idle", "publish", "respond"}] /\ event' \in [Slots -> Events \cup {0}]
      OBVIOUS
    <3>1. TypeOK'
      BY <3>a
    <3>2. OwnEvents'
      BY DEF OwnEvents
    <3>3. NothingInvented'
      BY DEF NothingInvented
    <3>4. UnpublishedIsNew'
      BY DEF UnpublishedIsNew
    <3>5. PublishedIsKept'
      BY DEF PublishedIsKept
    <3>6. CalledBackOnce'
      BY DEF CalledBackOnce
    <3>7. ClosedIsEmpty'
      BY DEF ClosedIsEmpty
    <3> QED BY <3>1, <3>2, <3>3, <3>4, <3>5, <3>6, <3>7 DEF CollectorInv
  <2> QED BY <1>2, <2>1, <2>2, <2>3, <2>4, <2>5, <2>6, <2>7, <2>8, <2>9, <2>10, <2>11 DEF Next
<1> QED BY <1>1, <1>2

\* Every component of the state of the collector keeps its type, and the client
\* never holds more than Capacity records until it is closed.
THEOREM CollectorTypeCorrect == Spec => []TypeOK
<1>1. CollectorInv => TypeOK
  BY DEF CollectorInv
<1> QED BY <1>1, InitCollectorInv, StepCollectorInv, PTL DEF Spec

\* An event that was answered with 202 is in the topic, on its way or given up
\* for as long as the process lives, however the handlers, the callbacks, the
\* deadline of Shutdown and Close fall.
THEOREM NothingIsLostSilently == Spec => []NoSilentLoss
<1>1. CollectorInv => NoSilentLoss
  BY DEF CollectorInv, PublishedIsKept, Places, NoSilentLoss
<1> QED BY <1>1, InitCollectorInv, StepCollectorInv, PTL DEF Spec

\* What is missing from the topic was counted or is still in the client.
LEMMA InvLossesAreCounted == CollectorInv => LossesAreCounted
<1> SUFFICES ASSUME CollectorInv PROVE LossesAreCounted
  OBVIOUS
<1>1. produceErrs = Cardinality(failed)
  BY DEF CollectorInv, CalledBackOnce
<1>2. /\ accepted \ topic \subseteq failed \cup (buffer \cup promises)
      /\ failed \subseteq Events /\ buffer \cup promises \subseteq Events
      /\ failed \cap (buffer \cup promises) = {}
  BY DEF CollectorInv, PublishedIsKept, Places, CalledBackOnce, TypeOK
<1>3. /\ IsFiniteSet(failed) /\ IsFiniteSet(buffer \cup promises)
      /\ Cardinality(failed) \in Nat /\ Cardinality(buffer \cup promises) \in Nat
  BY <1>2, EventsFinite
<1>4. Cardinality(failed \cup (buffer \cup promises)) = Cardinality(failed) + Cardinality(buffer \cup promises)
  <2>1. Cardinality(failed \cap (buffer \cup promises)) = 0
    BY <1>2, FS_EmptySet
  <2>2. Cardinality(failed \cup (buffer \cup promises)) =
            Cardinality(failed) + Cardinality(buffer \cup promises)
                - Cardinality(failed \cap (buffer \cup promises))
    BY <1>3, FS_Union
  <2> QED BY <1>3, <2>1, <2>2
<1>5. Cardinality(accepted \ topic) <= Cardinality(failed \cup (buffer \cup promises))
  <2>1. IsFiniteSet(failed \cup (buffer \cup promises))
    BY <1>2, EventsFinite
  <2> QED BY <1>2, <2>1, FS_Subset
<1>6. ~Running /\ ~fatal => buffer = {}
  BY DEF CollectorInv, ClosedIsEmpty
<1> QED BY <1>1, <1>4, <1>5, <1>6 DEF LossesAreCounted

\* The error counter counts each callback once, and what is missing from the
\* topic beyond it was in the client: after a clean end, given up there with a
\* callback that had still to run.
THEOREM LossesCounted == Spec => []LossesAreCounted
BY InitCollectorInv, StepCollectorInv, InvLossesAreCounted, PTL DEF Spec

-----------------------------------------------------------------------------
(***************************************************************************)
(* The simulator.  Its steps are steps of the collector or leave the       *)
(* collector alone, so CollectorInv carries over.                          *)
(***************************************************************************)

\* Every step of the simulator is one of the collector or none.
LEMMA SimStepIsCollectorStep == [SimNext]_all => [Next]_vars
<1> SUFFICES ASSUME [SimNext]_all PROVE [Next]_vars
  OBVIOUS
<1> USE DEF collector
<1>1. CASE UNCHANGED all
  BY <1>1 DEF all
<1>2. CASE Start \/ Wait
  BY <1>2 DEF Start, Wait
<1>3. ASSUME NEW i \in Indexes, Goroutine(i) PROVE UNCHANGED vars
  BY <1>3 DEF Goroutine, Receive, PostFails, Return
<1>4. ASSUME NEW i \in Indexes, NEW g \in Slots, Post(i, g) PROVE Next
  BY <1>4 DEF Post, Next
<1>5. CASE CollectorStep
  BY <1>5 DEF CollectorStep, Next
<1> QED BY <1>1, <1>2, <1>3, <1>4, <1>5 DEF SimNext

\* The simulator drives the collector the way its specification allows.
THEOREM SimulatorDrivesCollector == SimFairSpec => Spec
<1>1. SimInit => Init
  BY DEF SimInit
<1> QED BY <1>1, SimStepIsCollectorStep, PTL DEF SimFairSpec, Spec

\* A goroutine exists from its start, and waits for an event of its own.
ClientsOK ==
    /\ started \in 0 .. Total
    /\ at \in [Indexes -> {"none", "post", "wait", "return", "done"}]
    /\ request \in [Indexes -> 0 .. arrived]
    /\ \A i \in Indexes : (request[i] # 0 <=> at[i] = "wait") /\ (at[i] = "none" <=> i > started)
    /\ \A i, j \in Indexes : request[i] = request[j] /\ request[i] # 0 => i = j

\* The channel and the WaitGroup count the goroutines under way.
PlacesOK == sem = Cardinality(Held) /\ sem <= Concurrency /\ wg = sem

\* The goroutines that have counted their outcome.
Answered == {i \in Indexes : at[i] \in {"return", "done"}}

\* The answered events that no goroutine waits for.
Unawaited == accepted \ {request[i] : i \in Indexes}

\* Every outcome is counted once, and each one counted as sent has an answered
\* event of its own, which its goroutine no longer waits for.
TallyOK ==
    /\ sent \in Nat /\ failures \in Nat
    /\ sent + failures = Cardinality(Answered)
    /\ sent <= Cardinality(Unawaited)

FinishedOK == finished \in BOOLEAN /\ (finished => started = Total /\ Held = {})

SimInv == CollectorInv /\ ClientsOK /\ PlacesOK /\ TallyOK /\ FinishedOK

\* Each goroutine of the simulator sends an event of its own.
LEMMA IndexesAreEvents == Indexes \subseteq Events
BY TotalAssumption, BoundAssumption DEF Indexes, Events

\* No goroutine was started, and the channel is empty.
LEMMA InitSimInv == SimInit => SimInv
<1> SUFFICES ASSUME SimInit PROVE SimInv
  OBVIOUS
<1> USE DEF SimInit
<1>1. CollectorInv
  BY InitCollectorInv
<1>2. arrived = 0 /\ accepted = {}
  BY DEF Init
<1>3. ClientsOK
  BY <1>2, TotalAssumption, BoundAssumption DEF ClientsOK, Indexes
<1>4. Held = {} /\ Answered = {} /\ Unawaited = {}
  BY <1>2 DEF Held, Answered, Unawaited
<1>5. Cardinality({}) = 0
  BY FS_EmptySet
<1>6. PlacesOK
  BY <1>4, <1>5, ConcurrencyAssumption DEF PlacesOK
<1>7. TallyOK
  BY <1>4, <1>5 DEF TallyOK
<1>8. FinishedOK
  BY DEF FinishedOK
<1> QED BY <1>1, <1>3, <1>6, <1>7, <1>8 DEF SimInv

\* Every step of simulator and collector keeps the inductive invariant.
LEMMA StepSimInv == SimInv /\ [SimNext]_all => SimInv'
<1> SUFFICES ASSUME SimInv, [SimNext]_all PROVE SimInv'
  OBVIOUS
<1> USE TotalAssumption, BoundAssumption, ConcurrencyAssumption DEF ClientsOK, FinishedOK, Goes
<1>1. CollectorInv /\ CollectorInv' /\ ClientsOK /\ PlacesOK /\ TallyOK /\ FinishedOK
  BY SimStepIsCollectorStep, StepCollectorInv DEF SimInv
<1>2. Total \in Nat /\ Indexes \subseteq Nat /\ started \in Nat /\ arrived \in Nat
  BY <1>1 DEF Indexes, CollectorInv, TypeOK
<1>3. Held \subseteq Events /\ Answered \subseteq Events /\ accepted \subseteq Events
  BY <1>1, IndexesAreEvents DEF Held, Answered, CollectorInv, TypeOK
<1>4. /\ IsFiniteSet(Held) /\ Cardinality(Held) \in Nat
      /\ IsFiniteSet(Answered) /\ Cardinality(Answered) \in Nat
      /\ IsFiniteSet(Unawaited) /\ Cardinality(Unawaited) \in Nat
  BY <1>3, EventsFinite DEF Unawaited
<1>5. CASE Start
  <2> USE <1>5 DEF Start
  <2>1. started + 1 \in Indexes /\ at[started + 1] = "none"
    BY <1>1, <1>2 DEF Indexes
  <2>2. UNCHANGED vars
    BY DEF collector
  <2>3. ClientsOK'
    BY <1>1, <1>2, <2>1, <2>2 DEF vars, handler
  <2>4. Held' = Held \cup {started + 1} /\ started + 1 \notin Held
    BY <1>1, <2>1 DEF Held
  <2>5. Cardinality(Held') = Cardinality(Held) + 1
    BY <1>4, <2>4, FS_AddElement
  <2>6. PlacesOK'
    BY <1>1, <1>4, <2>5 DEF PlacesOK
  <2>7. Answered' = Answered /\ Unawaited' = Unawaited
    BY <1>1, <2>1, <2>2 DEF Answered, Unawaited, vars, handler
  <2>8. TallyOK' /\ FinishedOK'
    BY <1>1, <1>2, <2>7 DEF TallyOK
  <2> QED BY <1>1, <2>3, <2>6, <2>8 DEF SimInv
<1>6. CASE Wait
  <2> USE <1>6 DEF Wait
  <2>1. UNCHANGED vars
    BY DEF collector
  <2>2. Held' = Held /\ Answered' = Answered /\ Unawaited' = Unawaited
    BY <2>1 DEF Held, Answered, Unawaited, vars, handler
  <2>3. ClientsOK' /\ PlacesOK' /\ TallyOK'
    BY <1>1, <2>1, <2>2 DEF PlacesOK, TallyOK, vars, handler
  <2>4. Held = {}
    BY <1>1, <1>4, FS_EmptySet DEF PlacesOK
  <2>5. FinishedOK'
    BY <2>2, <2>4
  <2> QED BY <1>1, <2>3, <2>5 DEF SimInv
<1>7. ASSUME NEW i \in Indexes, NEW g \in Slots, Post(i, g) PROVE SimInv'
  <2> USE <1>7 DEF Post
  <2>1. arrived' = arrived + 1 /\ accepted' = accepted /\ accepted \subseteq 1 .. arrived
    BY <1>1 DEF HandleEvent, CollectorInv, NothingInvented
  <2>2. ClientsOK'
    BY <1>1, <1>2, <2>1
  <2>3. Held' = Held /\ Answered' = Answered
    BY <1>1 DEF Held, Answered
  <2>4. request[i] = 0 /\ 0 \notin accepted /\ arrived + 1 \notin accepted
    BY <1>1, <1>2, <2>1
  <2>5. Unawaited' = Unawaited
    BY <1>1, <1>2, <2>1, <2>4 DEF Unawaited
  <2>6. PlacesOK' /\ TallyOK' /\ FinishedOK'
    BY <1>1, <2>3, <2>5 DEF PlacesOK, TallyOK
  <2> QED BY <1>1, <2>2, <2>6 DEF SimInv
<1>8. ASSUME NEW i \in Indexes, Receive(i) PROVE SimInv'
  <2> USE <1>8 DEF Receive
  <2>1. UNCHANGED <<arrived, accepted>>
    BY DEF collector, vars, handler
  <2>2. ClientsOK'
    BY <1>1, <1>2, <2>1
  <2>3. Held' = Held /\ Answered' = Answered \cup {i} /\ i \notin Answered
    BY <1>1 DEF Held, Answered
  <2>4. Unawaited' = Unawaited \cup {request[i]} /\ request[i] \notin Unawaited
    <3>1. 0 \notin accepted /\ request[i] # 0
      BY <1>1 DEF CollectorInv, NothingInvented
    <3> QED BY <1>1, <2>1, <3>1 DEF Unawaited
  <2>5. /\ Cardinality(Answered') = Cardinality(Answered) + 1
        /\ Cardinality(Unawaited') = Cardinality(Unawaited) + 1
    BY <1>4, <2>3, <2>4, FS_AddElement
  <2>6. PlacesOK' /\ TallyOK' /\ FinishedOK'
    BY <1>1, <1>4, <2>3, <2>5 DEF PlacesOK, TallyOK
  <2> QED BY <1>1, <2>2, <2>6 DEF SimInv
<1>9. ASSUME NEW i \in Indexes, PostFails(i) PROVE SimInv'
  <2> USE <1>9 DEF PostFails
  <2>1. UNCHANGED <<arrived, accepted>>
    BY DEF collector, vars, handler
  <2>2. ClientsOK'
    BY <1>1, <1>2, <2>1
  <2>3. Held' = Held /\ Answered' = Answered \cup {i} /\ i \notin Answered
    BY <1>1 DEF Held, Answered
  <2>4. Unawaited \subseteq Unawaited' /\ Unawaited' \subseteq Events
    <3>1. 0 \notin accepted
      BY <1>1 DEF CollectorInv, NothingInvented
    <3> QED BY <1>1, <1>3, <2>1, <3>1 DEF Unawaited
  <2>5. Cardinality(Answered') = Cardinality(Answered) + 1
    BY <1>4, <2>3, FS_AddElement
  <2>6. Cardinality(Unawaited) <= Cardinality(Unawaited') /\ Cardinality(Unawaited') \in Nat
    BY <2>4, EventsFinite, FS_Subset
  <2>7. PlacesOK' /\ TallyOK' /\ FinishedOK'
    BY <1>1, <1>4, <2>3, <2>5, <2>6 DEF PlacesOK, TallyOK
  <2> QED BY <1>1, <2>2, <2>7 DEF SimInv
<1>10. ASSUME NEW i \in Indexes, Return(i) PROVE SimInv'
  <2> USE <1>10 DEF Return
  <2>1. UNCHANGED <<arrived, accepted>>
    BY DEF collector, vars, handler
  <2>2. ClientsOK'
    BY <1>1, <1>2, <2>1
  <2>3. Held' = Held \ {i} /\ i \in Held /\ Answered' = Answered /\ Unawaited' = Unawaited
    BY <1>1, <2>1 DEF Held, Answered, Unawaited
  <2>4. Cardinality(Held') = Cardinality(Held) - 1
    BY <1>4, <2>3, FS_RemoveElement
  <2>5. PlacesOK' /\ TallyOK' /\ FinishedOK'
    BY <1>1, <1>4, <2>3, <2>4 DEF PlacesOK, TallyOK
  <2> QED BY <1>1, <2>2, <2>5 DEF SimInv
<1>11. CASE CollectorStep /\ UNCHANGED simulator
  <2> USE <1>11 DEF simulator
  <2>1. arrived' = arrived /\ accepted \subseteq accepted'
    BY DEF CollectorStep, Publish, Respond, Produced, ProduceFails, BrokerChanges,
           Callback, Signal, ShutdownReturns, Close, Exit, handler
  <2>2. ClientsOK'
    BY <1>1, <2>1
  <2>3. Held' = Held /\ Answered' = Answered
    BY DEF Held, Answered
  <2>4. Unawaited \subseteq Unawaited' /\ Unawaited' \subseteq Events
    BY <1>1, <2>1 DEF Unawaited, CollectorInv, TypeOK
  <2>5. Cardinality(Unawaited) <= Cardinality(Unawaited') /\ Cardinality(Unawaited') \in Nat
    BY <2>4, EventsFinite, FS_Subset
  <2>6. PlacesOK' /\ TallyOK' /\ FinishedOK'
    BY <1>1, <1>4, <2>3, <2>5 DEF PlacesOK, TallyOK
  <2> QED BY <1>1, <2>2, <2>6 DEF SimInv
<1>12. CASE UNCHANGED all
  <2> USE <1>12 DEF all, simulator, collector, vars, handler
  <2>1. Held' = Held /\ Answered' = Answered /\ Unawaited' = Unawaited
    BY DEF Held, Answered, Unawaited
  <2> QED BY <1>1, <2>1 DEF SimInv, PlacesOK, TallyOK
<1> QED
  BY <1>5, <1>6, <1>7, <1>8, <1>9, <1>10, <1>11, <1>12 DEF SimNext, Goroutine

\* The inductive invariant holds always.
LEMMA SimInvariant == SimFairSpec => []SimInv
BY InitSimInv, StepSimInv, PTL DEF SimFairSpec

\* The channel holds a place, and the WaitGroup a count, for exactly the
\* goroutines that are under way, whatever becomes of their requests.
THEOREM SimTypeCorrect == SimFairSpec => []SimTypeOK
<1>1. SimInv => SimTypeOK
  BY DEF SimInv, SimTypeOK, ClientsOK, PlacesOK, CollectorInv
<1> QED BY <1>1, SimInvariant, PTL

\* When main has waited for all goroutines the two numbers it reports add up to
\* TOTAL_EVENTS, and the collector answered at least as many events with 202 as
\* are reported as sent, although clients time out while their handlers go on.
THEOREM ReportIsRight == SimFairSpec => []ReportAddsUp
<1>1. SimInv => ReportAddsUp
  <2> SUFFICES ASSUME SimInv, finished
               PROVE  sent + failures = Total /\ sent <= Cardinality(accepted)
    BY DEF ReportAddsUp
  <2>1. Answered = 1 .. Total
    <3>1. ASSUME NEW i \in Indexes PROVE at[i] \in {"return", "done"}
      BY TotalAssumption DEF SimInv, FinishedOK, Held, ClientsOK, Indexes
    <3> QED BY <3>1 DEF Answered, Indexes
  <2>2. Cardinality(Answered) = Total
    BY <2>1, FS_Interval, TotalAssumption, BoundAssumption
  <2>3. Cardinality(Unawaited) <= Cardinality(accepted) /\ Cardinality(accepted) \in Nat
    BY EventsFinite, FS_Subset DEF Unawaited, SimInv, CollectorInv, TypeOK
  <2>4. Cardinality(Unawaited) \in Nat
    BY EventsFinite DEF Unawaited, SimInv, CollectorInv, TypeOK
  <2> QED BY <2>2, <2>3, <2>4 DEF SimInv, TallyOK
<1> QED BY <1>1, SimInvariant, PTL

-----------------------------------------------------------------------------
(***************************************************************************)
(* ListWriters.                                                            *)
(***************************************************************************)

Items    == ToSet(Catalogue)
Everyone == ToSet(Users)

\* What a pipeline may hold.
Commands == [op : {"map"}, item : Items, offset : Nat]
                \cup [op : {"rec"}, user : Everyone, list : UNION {GenerateUserRecs(u) : u \in Everyone}]

(***************************************************************************)
(* The inductive invariant.  The seeder's part ties the pipeline to the    *)
(* elements it stands for: index - Len(pipe) of them are written, in       *)
(* order, and the pipeline holds the next ones.  The batch processor's     *)
(* part says that a pass has written what is before its batch, and nothing *)
(* else.                                                                   *)
(***************************************************************************)

\* The seeder's items are the first of the catalogue, no one twice.
ItemsAreListed == items \in Seq(Items) /\ IsInjective(items)

\* Elements of the phase whose commands were executed or refused.
Executed == index - Len(pipe)

\* The pipeline holds what the phase put into it last, in order.
PipeIsInOrder ==
    /\ phase = "mappings" => \A n \in 1 .. Len(pipe) :
          /\ Executed + n \in 1 .. Len(items)
          /\ pipe[n].op = "map" /\ pipe[n].item = items[Executed + n]
          /\ pipe[n].offset = Executed + n - 1
    /\ phase = "users" => \A n \in 1 .. Len(pipe) :
          /\ Executed + n \in 1 .. Len(Users)
          /\ pipe[n].op = "rec" /\ pipe[n].user = Users[Executed + n]
          /\ pipe[n].list \in GenerateUserRecs(Users[Executed + n])

\* The elements of the phase.
Elements == IF phase = "mappings" THEN Len(items) ELSE Len(Users)

\* No phase goes on with commands in the pipeline.
PipeIsFlushed ==
    /\ phase \in {"mappings", "popular", "users", "done", "failed"}
    /\ pipe \in Seq(Commands)
    /\ index \in Nat /\ flush \in BOOLEAN /\ cmdErr \in BOOLEAN
    /\ phase \notin {"mappings", "users"} => pipe = <<>> /\ flush = FALSE
    /\ phase = "popular" => index = 0
    /\ flush => pipe # <<>>
    /\ phase \in {"mappings", "users"} =>
          /\ Len(pipe) <= index /\ index <= Elements
          /\ ~flush /\ index = Elements => pipe = <<>>

\* The first n items are mapped to their places, and no other.
Mapped(n) ==
    /\ DOMAIN idMap = {items[m] : m \in 1 .. n}
    /\ \A m \in 1 .. n : idMap[items[m]] = m - 1

\* The mappings are written one after the other, and the next bit position last;
\* not after a refused command.
MappedSoFar ==
    /\ phase = "mappings" => (~cmdErr => Mapped(Executed)) /\ nextBit = Missing
    /\ phase \in {"popular", "users", "done"} => Mapped(Len(items))
    /\ nextBit # Missing => Mapped(Len(items)) /\ nextBit = [by |-> "seed", position |-> Len(items)]

\* The lists that were written before the seeder went on.
ServedSoFar ==
    /\ DOMAIN rec = Everyone
    /\ phase \in {"users", "done"} => popular # Missing
    /\ phase = "users" /\ ~cmdErr => \A n \in 1 .. Executed : rec[Users[n]] # Missing
    /\ phase = "done" => \A u \in Everyone : rec[u] # Missing

\* A list was written by the seeder or by a pass.
ListsAreSound ==
    \A u \in Everyone :
        \/ rec[u] = Missing
        \/ rec[u].by = "seed" /\ rec[u].expires /\ rec[u].list \in GenerateUserRecs(u)
        \/ rec[u].by = "job" /\ rec[u].expires

WrittenBy(u, p) == rec[u].by = "job" /\ rec[u].pass = p

\* The users of a pass, in its order, no one twice.
PassIsSound(p) ==
    /\ job[p] \in {"none", "search", "execute", "done", "failed"}
    /\ users[p] \in Seq(Everyone) /\ IsInjective(users[p])
    /\ first[p] \in Nat \ {0}

\* The lists that are a pass's own are before its batch, and those before its
\* batch have been written since it began.
PassIsInOrder(p) ==
    /\ job[p] = "none" => first[p] = 1
    /\ stale[p] \subseteq ToSet(users[p])
    /\ \A m \in 1 .. Len(users[p]) : m < first[p] => users[p][m] \notin stale[p]
    /\ \A u \in Everyone : WrittenBy(u, p) => \E m \in 1 .. Len(users[p]) : m < first[p] /\ users[p][m] = u
    /\ job[p] = "done" => first[p] > Len(users[p])

\* The part of the invariant that is about the passes.
BatchInv ==
    /\ ListsAreSound
    /\ DOMAIN job = Passes /\ DOMAIN users = Passes /\ DOMAIN first = Passes /\ DOMAIN stale = Passes
    /\ \A p \in Passes : PassIsSound(p) /\ PassIsInOrder(p)

WriterInv ==
    /\ ItemsAreListed /\ PipeIsFlushed /\ PipeIsInOrder /\ MappedSoFar /\ ServedSoFar
    /\ BatchInv

-----------------------------------------------------------------------------

\* Supplements, with names for its parts.
OtherCategories(u) == {CategoryOf[item] : item \in ToSet(items)} \ ToSet(Preferences[u])

Enough(u, categories) ==
    /\ Cardinality(Candidates(u, categories)) >= TopK \/ categories = OtherCategories(u)
    /\ categories # {} => \E c \in categories : Cardinality(Candidates(u, categories \ {c})) < TopK

\* The definition of Supplements in these names.
LEMMA SupplementsAreEnough ==
    \A u : Supplements(u) = IF Cardinality(Preferred(u)) >= TopK THEN {{}}
                            ELSE {categories \in SUBSET OtherCategories(u) : Enough(u, categories)}
BY DEF Supplements, Enough, Candidates, OtherCategories

\* As long as the items are the same, so are the lists they allow.
LEMMA SameRecs ==
    ASSUME items' = items
    PROVE  (\A u : GenerateUserRecs(u)' = GenerateUserRecs(u)) /\ Commands' = Commands
<1>1. \A c : InCategory(c)' = InCategory(c)
  BY DEF InCategory
<1>2. \A u : Preferred(u)' = Preferred(u)
  BY <1>1 DEF Preferred
<1>3. \A u, supplement : Candidates(u, supplement)' = Candidates(u, supplement)
  BY <1>1, <1>2 DEF Candidates
<1>4. \A u : Supplements(u)' = Supplements(u)
  <2>1. \A u : OtherCategories(u)' = OtherCategories(u)
    BY DEF OtherCategories
  <2>2. \A u, categories : Enough(u, categories)' = Enough(u, categories)
    BY <1>3, <2>1 DEF Enough
  <2>3. \A u : Supplements(u)' =
            IF Cardinality(Preferred(u)') >= TopK THEN {{}}
            ELSE {categories \in SUBSET OtherCategories(u)' : Enough(u, categories)'}
    BY DEF Supplements, Enough, Candidates, OtherCategories
  <2> QED BY <1>2, <2>1, <2>2, <2>3, SupplementsAreEnough
<1>5. \A u : GenerateUserRecs(u)' = GenerateUserRecs(u)
  BY <1>3, <1>4 DEF GenerateUserRecs
<1> QED BY <1>5 DEF Commands

\* The users and items in their orders.
LEMMA Orders ==
    /\ Users \in Seq(Everyone) /\ Len(Users) \in Nat /\ DOMAIN Users = 1 .. Len(Users)
    /\ \A n \in 1 .. Len(Users) : Users[n] \in Everyone
    /\ \A u \in Everyone : \E n \in 1 .. Len(Users) : Users[n] = u
    /\ \A m, n \in 1 .. Len(Users) : Users[m] = Users[n] => m = n
<1>1. Users \in Seq(Everyone) /\ Len(Users) \in Nat /\ DOMAIN Users = 1 .. Len(Users)
  BY OrderAssumption, LenProperties DEF Everyone
<1>2. \A u \in Everyone : \E n \in 1 .. Len(Users) : Users[n] = u
  BY <1>1 DEF Everyone, ToSet
<1>3. \A m, n \in 1 .. Len(Users) : Users[m] = Users[n] => m = n
  BY <1>1, OnceAssumption DEF IsInjective
<1> QED BY <1>1, <1>2, <1>3, ElementOfSeq

\* The items in their order.
LEMMA ListedItems ==
    ASSUME ItemsAreListed
    PROVE  /\ Len(items) \in Nat /\ DOMAIN items = 1 .. Len(items)
           /\ \A n \in 1 .. Len(items) : items[n] \in Items
           /\ \A m, n \in 1 .. Len(items) : items[m] = items[n] => m = n
<1>1. Len(items) \in Nat /\ DOMAIN items = 1 .. Len(items)
  BY LenProperties DEF ItemsAreListed
<1> QED BY <1>1, ElementOfSeq DEF ItemsAreListed, IsInjective

\* The smaller of two numbers.
LEMMA MinOfTwo ==
    ASSUME NEW a \in Int, NEW b \in Int
    PROVE  Min({a, b}) = IF a <= b THEN a ELSE b
<1> DEFINE least == IF a <= b THEN a ELSE b
<1>1. least \in {a, b} /\ \A y \in {a, b} : least <= y
  OBVIOUS
<1>2. \A x \in {a, b} : (\A y \in {a, b} : x <= y) => x = least
  OBVIOUS
<1>3. Min({a, b}) \in {a, b} /\ \A y \in {a, b} : Min({a, b}) <= y
  <2>1. \E x \in {a, b} : \A y \in {a, b} : x =< y
    BY <1>1
  <2> QED BY <2>1 DEF Min
<1> QED BY <1>2, <1>3

\* The seeder and the batch processor have written nothing.
LEMMA InitWriterInv == WritersInit => WriterInv
<1> SUFFICES ASSUME WritersInit PROVE WriterInv
  OBVIOUS
<1>1. PICK n \in 0 .. Len(Catalogue) : items = SubSeq(Catalogue, 1, n)
  BY DEF WritersInit
<1>2. /\ phase = "mappings" /\ index = 0 /\ pipe = <<>> /\ flush = FALSE /\ cmdErr = FALSE
      /\ idMap = <<>> /\ nextBit = Missing /\ popular = Missing
      /\ rec = [u \in Everyone |-> Missing]
  BY DEF WritersInit, Everyone
<1>3. ItemsAreListed
  BY <1>1, OrderAssumption, OnceAssumption, PrefixProperties DEF ItemsAreListed, Items
<1>4. PICK empty : empty = <<>>
  OBVIOUS
<1>5. pipe \in Seq(Commands) /\ Len(pipe) = 0 /\ DOMAIN idMap = {}
  <2>1. empty \in Seq(Commands) /\ Len(empty) = 0 /\ DOMAIN empty = 1 .. Len(empty)
    BY <1>4, EmptySeq, LenProperties
  <2> QED BY <1>2, <1>4, <2>1
<1>6. Executed = 0 /\ 1 .. 0 = {}
  <2>1. 1 .. 0 = {}
    OBVIOUS
  <2>2. PICK len : len = Len(pipe)
    OBVIOUS
  <2>3. len = 0
    BY <1>5, <2>2
  <2>4. Executed = index - len
    BY <2>2 DEF Executed
  <2>5. index = 0
    BY <1>2
  <2> QED BY <2>1, <2>3, <2>4, <2>5
<1>7. PipeIsFlushed
  <2>1. Len(items) \in Nat
    BY <1>3, ListedItems
  <2>2. Elements = Len(items)
    BY <1>2 DEF Elements
  <2>3. index \in Nat /\ index <= Elements /\ Len(pipe) <= index
    BY <1>2, <1>5, <2>1, <2>2
  <2> QED BY <1>2, <1>5, <2>3 DEF PipeIsFlushed
<1>8. PipeIsInOrder
  BY <1>2, <1>5, <1>6 DEF PipeIsInOrder
<1>9. MappedSoFar
  BY <1>2, <1>5, <1>6 DEF MappedSoFar, Mapped
<1>10. ServedSoFar
  BY <1>2 DEF ServedSoFar
<1>11. BatchInv
  <2>1. /\ job = [p \in Passes |-> "none"] /\ users = [p \in Passes |-> <<>>]
        /\ first = [p \in Passes |-> 1] /\ stale = [p \in Passes |-> {}]
    BY DEF WritersInit
  <2>2. ListsAreSound /\ \A u \in Everyone, p \in Passes : ~WrittenBy(u, p)
    BY <1>2 DEF ListsAreSound, WrittenBy, Missing
  <2>3. /\ empty \in Seq(Everyone) /\ Len(empty) = 0 /\ DOMAIN empty = {} /\ IsInjective(empty)
    <3>1. empty \in Seq(Everyone) /\ Len(empty) = 0 /\ DOMAIN empty = 1 .. Len(empty)
      BY <1>4, EmptySeq, LenProperties
    <3>2. DOMAIN empty = {}
      BY <3>1
    <3> QED BY <3>1, <3>2 DEF IsInjective
  <2>4. ASSUME NEW p \in Passes PROVE PassIsSound(p) /\ PassIsInOrder(p)
    <3>1. /\ job[p] = "none" /\ users[p] = empty /\ first[p] = 1 /\ stale[p] = {}
      BY <1>4, <2>1
    <3> QED BY <2>2, <2>3, <3>1 DEF PassIsSound, PassIsInOrder
  <2> QED BY <2>1, <2>2, <2>4 DEF BatchInv
<1> QED BY <1>3, <1>7, <1>8, <1>9, <1>10, <1>11 DEF WriterInv

\* The end of a phase is the end of a batch.
LEMMA LastBatchEnds == \A n, len : n = len => BatchEnds(n, len)
BY DEF BatchEnds

\* What the seeder queues stands behind what it queued before.
LEMMA QueueProperties ==
    ASSUME PipeIsFlushed, ItemsAreListed, NEW command \in Commands, Queue(command, Elements),
           phase \in {"mappings", "users"}, ~flush, index < Elements
    PROVE  /\ items' = items /\ phase' = phase /\ idMap' = idMap /\ nextBit' = nextBit
           /\ popular' = popular /\ rec' = rec /\ cmdErr' = cmdErr /\ users' = users /\ job' = job /\ first' = first /\ stale' = stale
           /\ Len(pipe') = Len(pipe) + 1 /\ Len(pipe) \in Nat /\ Executed' = Executed
           /\ index \in Nat /\ index' = index + 1 /\ Executed \in Int /\ Executed + Len(pipe') = index'
           /\ \A n \in 1 .. Len(pipe) : pipe'[n] = pipe[n]
           /\ pipe'[Len(pipe')] = command
           /\ PipeIsFlushed'
<1>1. /\ items' = items /\ phase' = phase /\ idMap' = idMap /\ nextBit' = nextBit
      /\ popular' = popular /\ rec' = rec /\ cmdErr' = cmdErr /\ users' = users /\ job' = job /\ first' = first /\ stale' = stale
      /\ pipe' = Append(pipe, command) /\ index' = index + 1
      /\ flush' = BatchEnds(index + 1, Elements)
  BY DEF Queue, batch
<1>2. pipe \in Seq(Commands) /\ index \in Nat /\ Len(pipe) <= index /\ Elements' = Elements
  BY <1>1 DEF PipeIsFlushed, Elements
<1>3. PICK len \in Nat : len = Len(pipe)
  BY <1>2, LenProperties
<1>4. /\ pipe' \in Seq(Commands) /\ Len(pipe') = len + 1
      /\ \A n \in 1 .. len : pipe'[n] = pipe[n]
      /\ pipe'[len + 1] = command
  BY <1>1, <1>2, <1>3, AppendProperties
<1>5. /\ Executed = index - len /\ Executed' = index' - (len + 1)
  BY <1>3, <1>4 DEF Executed
<1>6. Executed' = Executed /\ Executed + (len + 1) = index' /\ Executed \in Int
  BY <1>1, <1>2, <1>5
<1>7. Elements \in Nat
  BY ListedItems, Orders DEF Elements
<1>8. PipeIsFlushed'
  <2>1. pipe' # <<>>
    <3>1. Len(pipe') # 0
      BY <1>3, <1>4
    <3> QED BY <3>1, EmptySeq
  <2>2. Commands' = Commands
    BY <1>1, SameRecs
  <2>3. /\ index' \in Nat /\ len + 1 <= index' /\ index' <= Elements
    BY <1>1, <1>2, <1>3, <1>7
  <2>4. flush' \in BOOLEAN /\ (index' = Elements => flush')
    BY <1>1, LastBatchEnds DEF BatchEnds
  <2> QED BY <1>1, <1>2, <1>4, <2>1, <2>2, <2>3, <2>4 DEF PipeIsFlushed
<1> QED BY <1>1, <1>2, <1>3, <1>4, <1>6, <1>8

\* The seeder's part of the invariant.
SeederInv == ItemsAreListed /\ PipeIsFlushed /\ PipeIsInOrder /\ MappedSoFar /\ ServedSoFar

\* A mapping is queued: it stands for the next item.
LEMMA SeedMappingKeepsInv ==
    ASSUME SeederInv, SeedMapping
    PROVE  SeederInv' /\ items' = items /\ rec' = rec /\ users' = users /\ job' = job /\ first' = first /\ stale' = stale
<1> DEFINE command == [op |-> "map", item |-> items[index + 1], offset |-> index]
<1>1. ItemsAreListed /\ PipeIsFlushed /\ PipeIsInOrder /\ MappedSoFar /\ ServedSoFar
  BY DEF SeederInv
<1>2. /\ phase = "mappings" /\ ~flush /\ index < Len(items) /\ Queue(command, Elements)
      /\ Elements = Len(items)
  BY DEF SeedMapping, GoesOn, Elements
<1>3. command \in Commands
  <2>1. index \in Nat /\ index + 1 \in 1 .. Len(items)
    BY <1>1, <1>2, ListedItems DEF PipeIsFlushed
  <2>2. items[index + 1] \in Items
    BY <1>1, <2>1, ListedItems
  <2> QED BY <2>1, <2>2 DEF Commands
<1>4. PICK it : it = command
  OBVIOUS
<1> HIDE DEF command
<1>5. /\ items' = items /\ phase' = phase /\ idMap' = idMap /\ nextBit' = nextBit
      /\ popular' = popular /\ rec' = rec /\ cmdErr' = cmdErr /\ users' = users /\ job' = job /\ first' = first /\ stale' = stale
      /\ Len(pipe') = Len(pipe) + 1 /\ Len(pipe) \in Nat /\ Executed' = Executed
      /\ index \in Nat /\ index' = index + 1 /\ Executed \in Int /\ Executed + Len(pipe') = index'
      /\ \A n \in 1 .. Len(pipe) : pipe'[n] = pipe[n]
      /\ pipe'[Len(pipe')] = it
      /\ PipeIsFlushed'
  BY <1>1, <1>2, <1>3, <1>4, QueueProperties
<1>6. PipeIsInOrder'
  <2>1. ASSUME NEW n \in 1 .. Len(pipe')
        PROVE  /\ Executed + n \in 1 .. Len(items)
               /\ pipe'[n].op = "map" /\ pipe'[n].item = items[Executed + n]
               /\ pipe'[n].offset = Executed + n - 1
    <3>1. CASE n \in 1 .. Len(pipe)
      BY <1>1, <1>2, <1>5, <3>1 DEF PipeIsInOrder
    <3>2. CASE n = Len(pipe')
      <4>1. Executed + n = index + 1 /\ Executed + n - 1 = index
        BY <1>5, <3>2
      <4>2. index + 1 \in 1 .. Len(items)
        BY <1>1, <1>2, <1>5, ListedItems
      <4> QED BY <1>4, <1>5, <3>2, <4>1, <4>2 DEF command
    <3> QED BY <1>5, <3>1, <3>2
  <2> QED BY <1>2, <1>5, <2>1 DEF PipeIsInOrder
<1>7. MappedSoFar'
  BY <1>1, <1>5 DEF MappedSoFar, Mapped
<1>8. ServedSoFar' /\ ItemsAreListed'
  BY <1>1, <1>2, <1>5 DEF ServedSoFar, ItemsAreListed
<1> QED BY <1>5, <1>6, <1>7, <1>8 DEF SeederInv

\* A list is queued: it is one of the next user.
LEMMA SeedUserKeepsInv ==
    ASSUME SeederInv, SeedUser
    PROVE  SeederInv' /\ items' = items /\ rec' = rec /\ users' = users /\ job' = job /\ first' = first /\ stale' = stale
<1>1. ItemsAreListed /\ PipeIsFlushed /\ PipeIsInOrder /\ MappedSoFar /\ ServedSoFar
  BY DEF SeederInv
<1>2. PICK recs \in GenerateUserRecs(Users[index + 1]) :
          Queue([op |-> "rec", user |-> Users[index + 1], list |-> recs], Len(Users))
  BY DEF SeedUser
<1> DEFINE command == [op |-> "rec", user |-> Users[index + 1], list |-> recs]
<1>3. /\ phase = "users" /\ ~flush /\ index < Len(Users) /\ Queue(command, Elements)
      /\ Elements = Len(Users)
  BY <1>2 DEF SeedUser, GoesOn, Elements
<1>4. index \in Nat /\ index + 1 \in 1 .. Len(Users) /\ command \in Commands
  <2>1. index \in Nat /\ index + 1 \in 1 .. Len(Users)
    BY <1>1, <1>3, Orders DEF PipeIsFlushed
  <2>2. Users[index + 1] \in Everyone
    BY <2>1, Orders
  <2> QED BY <1>2, <2>1, <2>2 DEF Commands
<1>5. PICK it : it = command
  OBVIOUS
<1> HIDE DEF command
<1>6. /\ items' = items /\ phase' = phase /\ idMap' = idMap /\ nextBit' = nextBit
      /\ popular' = popular /\ rec' = rec /\ cmdErr' = cmdErr /\ users' = users /\ job' = job /\ first' = first /\ stale' = stale
      /\ Len(pipe') = Len(pipe) + 1 /\ Len(pipe) \in Nat /\ Executed' = Executed
      /\ index \in Nat /\ index' = index + 1 /\ Executed \in Int /\ Executed + Len(pipe') = index'
      /\ \A n \in 1 .. Len(pipe) : pipe'[n] = pipe[n]
      /\ pipe'[Len(pipe')] = it
      /\ PipeIsFlushed'
  BY <1>1, <1>3, <1>4, <1>5, QueueProperties
<1>7. PipeIsInOrder'
  <2>1. ASSUME NEW n \in 1 .. Len(pipe')
        PROVE  /\ Executed + n \in 1 .. Len(Users)
               /\ pipe'[n].op = "rec" /\ pipe'[n].user = Users[Executed + n]
               /\ pipe'[n].list \in GenerateUserRecs(Users[Executed + n])
    <3>1. CASE n \in 1 .. Len(pipe)
      BY <1>1, <1>3, <1>6, <3>1 DEF PipeIsInOrder
    <3>2. CASE n = Len(pipe')
      <4>1. Executed + n = index + 1
        BY <1>6, <3>2
      <4>2. pipe'[n] = it
        BY <1>6, <3>2
      <4> QED BY <1>2, <1>4, <1>5, <4>1, <4>2 DEF command
    <3> QED BY <1>6, <3>1, <3>2
  <2>2. \A u : GenerateUserRecs(u)' = GenerateUserRecs(u)
    BY <1>6, SameRecs
  <2> QED BY <1>3, <1>6, <2>1, <2>2 DEF PipeIsInOrder
<1>8. MappedSoFar'
  BY <1>1, <1>3, <1>6 DEF MappedSoFar, Mapped
<1>9. ServedSoFar' /\ ItemsAreListed'
  BY <1>1, <1>6 DEF ServedSoFar, ItemsAreListed
<1> QED BY <1>6, <1>7, <1>8, <1>9 DEF SeederInv

\* The first command of the pipeline is executed.
LEMMA ExecProperties ==
    ASSUME SeederInv, Exec
    PROVE  /\ phase \in {"mappings", "users"} /\ pipe[1] = Head(pipe) /\ 1 \in 1 .. Len(pipe)
           /\ Executed' = Executed + 1 /\ Executed \in Nat /\ PipeIsFlushed' /\ PipeIsInOrder'
           /\ Executed + 1 \in 1 .. Elements
<1>1. ItemsAreListed /\ PipeIsFlushed /\ PipeIsInOrder /\ flush
  BY DEF SeederInv, Exec
<1>2. /\ items' = items /\ phase' = phase /\ index' = index
      /\ pipe' = Tail(pipe) /\ flush' = (Len(pipe) > 1) /\ cmdErr' \in {cmdErr, TRUE}
  BY DEF Exec
<1>3. /\ cmdErr \in BOOLEAN /\ pipe \in Seq(Commands) /\ pipe # <<>> /\ index \in Nat /\ Len(pipe) <= index
      /\ phase \in {"mappings", "users"} /\ index <= Elements
  BY <1>1 DEF PipeIsFlushed
<1>4. PICK len \in Nat \ {0} : len = Len(pipe)
  BY <1>3, EmptySeq
<1>5. /\ pipe' \in Seq(Commands) /\ Len(pipe') = len - 1 /\ Head(pipe) = pipe[1]
      /\ \A n \in 1 .. len - 1 : pipe'[n] = pipe[n + 1]
  <2>1. Head(pipe) = pipe[1]
    BY <1>3
  <2> QED BY <1>2, <1>3, <1>4, <2>1, HeadTailProperties
<1>6. Executed = index - len /\ Executed' = index - (len - 1)
  BY <1>2, <1>4, <1>5 DEF Executed
<1>7. Executed \in Nat /\ Executed' = Executed + 1
  BY <1>3, <1>4, <1>6
<1>8. Elements \in Nat /\ Elements' = Elements
  BY <1>1, <1>2, ListedItems, Orders DEF Elements
<1>9. PipeIsFlushed'
  <2>1. Commands' = Commands
    BY <1>2, SameRecs
  <2>2. flush' <=> len - 1 # 0
    <3>1. flush' <=> len > 1
      BY <1>2, <1>4, Zenon
    <3>2. len > 1 <=> len - 1 # 0
      BY <1>4
    <3> QED BY <3>1, <3>2, Zenon
  <2>3. pipe' = <<>> <=> len - 1 = 0
    BY <1>4, <1>5, EmptySeq
  <2>4. len - 1 <= index
    BY <1>3, <1>4
  <2>5. flush' \in BOOLEAN
    BY <1>2
  <2> QED BY <1>2, <1>3, <1>5, <1>8, <2>1, <2>2, <2>3, <2>4, <2>5 DEF PipeIsFlushed
<1>10. PipeIsInOrder'
  <2>1. ASSUME NEW n \in 1 .. len - 1
        PROVE  n + 1 \in 1 .. len /\ Executed' + n = Executed + (n + 1) /\ pipe'[n] = pipe[n + 1]
    BY <1>4, <1>5, <1>7
  <2>2. \A u : GenerateUserRecs(u)' = GenerateUserRecs(u)
    BY <1>2, SameRecs
  <2>3. ASSUME phase = "mappings", NEW n \in 1 .. len - 1
        PROVE  /\ Executed' + n \in 1 .. Len(items)
               /\ pipe'[n].op = "map" /\ pipe'[n].item = items[Executed' + n]
               /\ pipe'[n].offset = Executed' + n - 1
    <3>1. /\ Executed + (n + 1) \in 1 .. Len(items)
          /\ pipe[n + 1].op = "map" /\ pipe[n + 1].item = items[Executed + (n + 1)]
          /\ pipe[n + 1].offset = Executed + (n + 1) - 1
      BY <1>1, <1>4, <2>1, <2>3 DEF PipeIsInOrder
    <3>2. Executed' + n - 1 = Executed + (n + 1) - 1
      BY <1>4, <1>7
    <3> QED BY <2>1, <3>1, <3>2, Zenon
  <2>4. ASSUME phase = "users", NEW n \in 1 .. len - 1
        PROVE  /\ Executed' + n \in 1 .. Len(Users)
               /\ pipe'[n].op = "rec" /\ pipe'[n].user = Users[Executed' + n]
               /\ pipe'[n].list \in GenerateUserRecs(Users[Executed' + n])
    <3>1. /\ Executed + (n + 1) \in 1 .. Len(Users)
          /\ pipe[n + 1].op = "rec" /\ pipe[n + 1].user = Users[Executed + (n + 1)]
          /\ pipe[n + 1].list \in GenerateUserRecs(Users[Executed + (n + 1)])
      BY <1>1, <1>4, <2>1, <2>4 DEF PipeIsInOrder
    <3> QED BY <2>1, <3>1
  <2> QED BY <1>2, <1>5, <2>2, <2>3, <2>4 DEF PipeIsInOrder
<1>11. Executed + 1 \in 1 .. Elements
  BY <1>3, <1>4, <1>6, <1>7, <1>8
<1> QED BY <1>3, <1>4, <1>5, <1>7, <1>9, <1>10, <1>11

\* The first element that was not written is now, or its command is refused.
LEMMA ExecKeepsInv ==
    ASSUME SeederInv, Exec
    PROVE  /\ SeederInv' /\ items' = items /\ users' = users /\ job' = job /\ first' = first
           /\ \/ rec' = rec /\ stale' = stale
              \/ \E u \in Everyone : \E recs \in GenerateUserRecs(u) :
                    /\ rec' = [rec EXCEPT ![u] = [by |-> "seed", list |-> recs, expires |-> TRUE]]
                    /\ stale' = [p \in Passes |-> stale[p] \ {u}]
<1>1. ItemsAreListed /\ PipeIsFlushed /\ PipeIsInOrder /\ MappedSoFar /\ ServedSoFar
  BY DEF SeederInv
<1>2. /\ phase \in {"mappings", "users"} /\ pipe[1] = Head(pipe) /\ 1 \in 1 .. Len(pipe)
      /\ Executed' = Executed + 1 /\ Executed \in Nat /\ PipeIsFlushed' /\ PipeIsInOrder'
      /\ Executed + 1 \in 1 .. Elements
  BY ExecProperties
<1>3. /\ items' = items /\ phase' = phase /\ index' = index /\ nextBit' = nextBit
      /\ popular' = popular /\ users' = users /\ job' = job /\ first' = first
  BY DEF Exec, batch
<1>4. ItemsAreListed' /\ (cmdErr' = cmdErr \/ cmdErr' = TRUE)
  BY <1>1, <1>3 DEF ItemsAreListed, Exec
<1>50. CASE cmdErr' = TRUE /\ UNCHANGED <<idMap, rec, stale>>
  <2>1. MappedSoFar'
    BY <1>1, <1>3, <1>50 DEF MappedSoFar, Mapped
  <2>2. ServedSoFar'
    BY <1>1, <1>2, <1>3, <1>50 DEF ServedSoFar
  <2> QED BY <1>2, <1>3, <1>4, <1>50, <2>1, <2>2 DEF SeederInv
<1>5. CASE phase = "mappings" /\ ~(cmdErr' = TRUE /\ UNCHANGED <<idMap, rec, stale>>)
  <2>1. PICK k \in Nat : k = Executed
    BY <1>2
  <2>2. /\ k + 1 \in 1 .. Len(items)
        /\ Head(pipe).op = "map" /\ Head(pipe).item = items[k + 1] /\ Head(pipe).offset = k
    <3>1. /\ Executed + 1 \in 1 .. Len(items)
          /\ pipe[1].op = "map" /\ pipe[1].item = items[Executed + 1] /\ pipe[1].offset = Executed + 1 - 1
      BY <1>1, <1>2, <1>5 DEF PipeIsInOrder
    <3>2. Executed + 1 = k + 1 /\ Executed + 1 - 1 = k
      BY <2>1
    <3> QED BY <1>2, <3>1, <3>2, Zenon
  <2>3. /\ idMap' = [item \in DOMAIN idMap \cup {items[k + 1]} |->
                        IF item = items[k + 1] THEN k ELSE idMap[item]]
        /\ rec' = rec /\ stale' = stale /\ cmdErr' = cmdErr
    BY <1>5, <2>2 DEF Exec
  <2>4. ~cmdErr => Mapped(k)
    BY <1>1, <1>5, <2>1 DEF MappedSoFar
  <2>5. ASSUME ~cmdErr PROVE Mapped(k + 1)'
    <3>1. DOMAIN idMap' = {items[m] : m \in 1 .. k + 1}
      <4>1. {items[m] : m \in 1 .. k + 1} = {items[m] : m \in 1 .. k} \cup {items[k + 1]}
        OBVIOUS
      <4> QED BY <2>3, <2>4, <2>5, <4>1 DEF Mapped
    <3>2. ASSUME NEW m \in 1 .. k + 1 PROVE idMap'[items[m]] = m - 1
      <4>1. CASE m = k + 1
        BY <2>3, <4>1
      <4>2. CASE m # k + 1
        <5>1. m \in 1 .. k /\ m \in 1 .. Len(items)
          BY <1>1, <2>1, <2>2, <4>2, ListedItems
        <5>2. items[m] # items[k + 1]
          BY <1>1, <2>1, <2>2, <4>2, <5>1, ListedItems
        <5>3. items[m] \in DOMAIN idMap /\ idMap[items[m]] = m - 1
          BY <2>4, <2>5, <5>1 DEF Mapped
        <5> QED BY <2>3, <5>2, <5>3
      <4> QED BY <4>1, <4>2
    <3> QED BY <1>3, <3>1, <3>2 DEF Mapped
  <2>6. MappedSoFar'
    BY <1>1, <1>2, <1>3, <1>5, <2>1, <2>3, <2>5 DEF MappedSoFar
  <2>7. ServedSoFar'
    BY <1>1, <1>3, <1>5, <2>3 DEF ServedSoFar
  <2> QED BY <1>2, <1>3, <1>4, <2>3, <2>6, <2>7 DEF SeederInv
<1>6. CASE phase = "users" /\ ~(cmdErr' = TRUE /\ UNCHANGED <<idMap, rec, stale>>)
  <2>1. /\ pipe[1].op = "rec" /\ pipe[1].user = Users[Executed + 1]
        /\ pipe[1].list \in GenerateUserRecs(Users[Executed + 1])
        /\ Executed + 1 \in 1 .. Len(Users)
    BY <1>1, <1>2, <1>6 DEF PipeIsInOrder
  <2>20. PICK k \in Nat : k = Executed
    BY <1>2
  <2>21. PICK recs : recs = pipe[1].list
    OBVIOUS
  <2>2. k = Executed /\ recs = pipe[1].list
    BY <2>20, <2>21
  <2>3. /\ rec' = [rec EXCEPT ![Users[k + 1]] = [by |-> "seed", list |-> recs, expires |-> TRUE]]
        /\ idMap' = idMap /\ cmdErr' = cmdErr
        /\ stale' = [p \in Passes |-> stale[p] \ {Users[k + 1]}]
    BY <1>2, <1>6, <2>1, <2>2 DEF Exec
  <2>4. Users[k + 1] \in Everyone /\ recs \in GenerateUserRecs(Users[k + 1])
    BY <2>1, <2>2, Orders
  <2>5. MappedSoFar'
    BY <1>1, <1>3, <1>6, <2>3 DEF MappedSoFar, Mapped
  <2>6. \A u \in Everyone : rec'[u] = IF u = Users[k + 1]
                                      THEN [by |-> "seed", list |-> recs, expires |-> TRUE] ELSE rec[u]
    BY <1>1, <2>3 DEF ServedSoFar
  <2>7. [by |-> "seed", list |-> recs, expires |-> TRUE] # Missing
    BY DEF Missing
  <2>8. ServedSoFar'
    <3>1. DOMAIN rec' = Everyone
      BY <1>1, <2>3 DEF ServedSoFar
    <3>2. ASSUME ~cmdErr, NEW n \in 1 .. k + 1 PROVE rec'[Users[n]] # Missing
      <4>1. n \in 1 .. Len(Users)
        BY <2>1, <2>2, Orders
      <4>2. Users[n] \in Everyone
        BY <4>1, Orders
      <4>3. CASE n = k + 1
        BY <2>6, <2>7, <4>2, <4>3
      <4>4. CASE n # k + 1
        <5>1. n \in 1 .. k
          BY <4>4
        <5>2. rec[Users[n]] # Missing
          BY <1>1, <1>6, <2>2, <3>2, <5>1 DEF ServedSoFar
        <5> QED BY <2>6, <2>7, <4>2, <5>2
      <4> QED BY <4>3, <4>4
    <3> QED BY <1>1, <1>2, <1>3, <1>6, <2>2, <2>3, <3>1, <3>2 DEF ServedSoFar
  <2> QED BY <1>2, <1>3, <1>4, <2>3, <2>4, <2>5, <2>8 DEF SeederInv
<1> QED BY <1>2, <1>5, <1>50, <1>6

\* The phases follow each other, and a failure ends them.
LEMMA PhasesKeepInv ==
    ASSUME SeederInv, SetNextBit \/ SeedPopularItems \/ SeedEnds \/ SeedFails
    PROVE  SeederInv' /\ items' = items /\ rec' = rec /\ users' = users /\ job' = job /\ first' = first /\ stale' = stale
<1>1. ItemsAreListed /\ PipeIsFlushed /\ PipeIsInOrder /\ MappedSoFar /\ ServedSoFar
  BY DEF SeederInv
<1>2. /\ items' = items /\ rec' = rec /\ idMap' = idMap
      /\ users' = users /\ job' = job /\ first' = first /\ stale' = stale
  BY DEF SetNextBit, SeedPopularItems, SeedEnds, SeedFails, batch
<1>3. /\ Len(items) \in Nat /\ Len(Users) \in Nat /\ Commands' = Commands /\ ItemsAreListed'
  BY <1>1, <1>2, ListedItems, Orders, SameRecs DEF ItemsAreListed
<1>4. PICK empty : empty = <<>>
  OBVIOUS
<1>5. empty \in Seq(Commands) /\ Len(empty) = 0 /\ 1 .. 0 = {}
  BY <1>4, EmptySeq
<1>6. CASE SetNextBit
  <2>1. /\ phase = "mappings" /\ ~flush /\ index = Len(items) /\ phase' = "popular" /\ index' = 0
        /\ pipe' = pipe /\ flush' = flush /\ popular' = popular /\ ~cmdErr /\ cmdErr' = cmdErr
        /\ nextBit' = [by |-> "seed", position |-> Len(items)]
    BY <1>6 DEF SetNextBit, GoesOn
  <2>2. pipe = <<>> /\ flush = FALSE
    BY <1>1, <2>1 DEF PipeIsFlushed, Elements
  <2>3. Mapped(Len(items)) /\ Mapped(Len(items))'
    <3>1. Executed = Len(items)
      <4>1. Len(pipe) = 0
        BY <1>4, <1>5, <2>2
      <4>2. PICK none : none = Len(pipe)
        OBVIOUS
      <4>3. Executed = index - none /\ none = 0
        BY <4>1, <4>2, Zenon DEF Executed
      <4> QED BY <1>3, <2>1, <4>3
    <3>2. Mapped(Len(items))
      BY <1>1, <2>1, <3>1 DEF MappedSoFar
    <3> QED BY <1>2, <3>2 DEF Mapped
  <2>4. PipeIsFlushed'
    BY <1>1, <1>3, <2>1, <2>2 DEF PipeIsFlushed
  <2>5. PipeIsInOrder'
    BY <2>1 DEF PipeIsInOrder
  <2>6. MappedSoFar' /\ ServedSoFar'
    BY <1>1, <1>2, <2>1, <2>3 DEF MappedSoFar, ServedSoFar
  <2> QED BY <1>2, <1>3, <2>4, <2>5, <2>6 DEF SeederInv
<1>7. CASE SeedPopularItems
  <2>1. /\ phase = "popular" /\ phase' = "users" /\ index' = index /\ pipe' = pipe /\ flush' = flush
        /\ nextBit' = nextBit /\ cmdErr' = cmdErr
    BY <1>7 DEF SeedPopularItems
  <2>2. popular' # Missing
    <3>1. PICK top : popular' = [by |-> "seed", list |-> top, expires |-> FALSE]
      BY <1>7 DEF SeedPopularItems
    <3> QED BY <3>1 DEF Missing
  <2>3. /\ pipe = <<>> /\ flush = FALSE /\ index = 0 /\ pipe \in Seq(Commands)
        /\ cmdErr \in BOOLEAN
    BY <1>1, <2>1 DEF PipeIsFlushed
  <2>4. Len(pipe) = 0
    BY <1>4, <1>5, <2>3
  <2>5. PipeIsFlushed'
    <3>1. Elements' = Len(Users)
      BY <2>1 DEF Elements
    <3>2. index' \in Nat /\ Len(pipe') = 0 /\ 0 <= index' /\ index' <= Elements'
      BY <1>3, <2>1, <2>3, <2>4, <3>1
    <3> QED BY <1>3, <2>1, <2>3, <3>2 DEF PipeIsFlushed
  <2>6. Executed' = 0
    <3>1. PICK none : none = Len(pipe')
      OBVIOUS
    <3>2. Executed' = index' - none /\ none = 0 /\ index' = 0
      BY <2>1, <2>3, <2>4, <3>1, Zenon DEF Executed
    <3> QED BY <3>2
  <2>7. PipeIsInOrder'
    BY <1>5, <2>1, <2>4 DEF PipeIsInOrder
  <2>8. MappedSoFar'
    BY <1>1, <1>2, <2>1 DEF MappedSoFar, Mapped
  <2>9. ServedSoFar'
    BY <1>1, <1>2, <1>5, <2>1, <2>2, <2>6 DEF ServedSoFar
  <2> QED BY <1>2, <1>3, <2>5, <2>7, <2>8, <2>9 DEF SeederInv
<1>8. CASE SeedEnds
  <2>1. /\ phase = "users" /\ ~flush /\ index = Len(Users) /\ phase' = "done"
        /\ ~cmdErr /\ cmdErr' = cmdErr
        /\ index' = index /\ pipe' = pipe /\ flush' = flush /\ popular' = popular /\ nextBit' = nextBit
    BY <1>8 DEF SeedEnds, GoesOn
  <2>2. pipe = <<>> /\ flush = FALSE
    BY <1>1, <2>1 DEF PipeIsFlushed, Elements
  <2>3. Executed = Len(Users)
    <3>1. Len(pipe) = 0
      BY <1>4, <1>5, <2>2
    <3>2. PICK none : none = Len(pipe)
      OBVIOUS
    <3>3. Executed = index - none /\ none = 0
      BY <3>1, <3>2, Zenon DEF Executed
    <3> QED BY <1>3, <2>1, <3>3
  <2>4. ServedSoFar'
    <3>1. \A n \in 1 .. Len(Users) : rec[Users[n]] # Missing
      BY <1>1, <2>1, <2>3 DEF ServedSoFar
    <3>2. \A u \in Everyone : rec[u] # Missing
      BY <3>1, Orders
    <3> QED BY <1>1, <1>2, <2>1, <3>2 DEF ServedSoFar
  <2>5. PipeIsFlushed' /\ PipeIsInOrder'
    BY <1>1, <1>3, <2>1, <2>2 DEF PipeIsFlushed, PipeIsInOrder
  <2>6. MappedSoFar'
    BY <1>1, <1>2, <2>1 DEF MappedSoFar, Mapped
  <2> QED BY <1>2, <1>3, <2>4, <2>5, <2>6 DEF SeederInv
<1>9. CASE SeedFails
  <2>1. /\ phase' = "failed" /\ flush' = FALSE /\ pipe' = <<>> /\ index' = index /\ cmdErr' = cmdErr
        /\ popular' = popular /\ nextBit' = nextBit
    BY <1>9 DEF SeedFails
  <2>2. PipeIsFlushed'
    BY <1>1, <1>3, <1>4, <1>5, <2>1 DEF PipeIsFlushed
  <2>3. PipeIsInOrder' /\ ServedSoFar'
    BY <1>1, <1>2, <2>1 DEF PipeIsInOrder, ServedSoFar
  <2>4. MappedSoFar'
    BY <1>1, <1>2, <2>1 DEF MappedSoFar, Mapped
  <2> QED BY <1>2, <1>3, <2>2, <2>3, <2>4 DEF SeederInv
<1> QED BY <1>6, <1>7, <1>8, <1>9

-----------------------------------------------------------------------------
(* The batch processor. *)

\* The users of a batch are those from first on.
LEMMA ChunkPlaces ==
    ASSUME NEW p, PassIsSound(p)
    PROVE  /\ \A u \in Chunk(p) : \E m \in 1 .. Len(users[p]) :
                 first[p] <= m /\ m < first[p] + BatchSize /\ users[p][m] = u
           /\ \A m \in 1 .. Len(users[p]) :
                 first[p] <= m /\ m < first[p] + BatchSize => users[p][m] \in Chunk(p)
<1>1. PICK len : len = Len(users[p])
  OBVIOUS
<1>2. /\ users[p] \in Seq(Everyone) /\ len \in Nat /\ first[p] \in Nat /\ first[p] >= 1
      /\ BatchSize \in Nat /\ BatchSize >= 1 /\ \A m \in 1 .. len : users[p][m] \in Everyone
  <2>1. users[p] \in Seq(Everyone) /\ first[p] \in Nat \ {0}
    BY DEF PassIsSound
  <2> QED BY <1>1, <2>1, SizesAssumption, LenProperties, ElementOfSeq
<1>3. PICK last : last = Min({first[p] + BatchSize - 1, len})
  OBVIOUS
<1>4. last = IF first[p] + BatchSize - 1 <= len THEN first[p] + BatchSize - 1 ELSE len
  <2>1. first[p] + BatchSize - 1 \in Int /\ len \in Int
    BY <1>2
  <2> QED BY <1>3, <2>1, MinOfTwo
<1>5. PICK some : some = SubSeq(users[p], first[p], last)
  OBVIOUS
<1>6. /\ Len(some) = IF first[p] <= last THEN last - first[p] + 1 ELSE 0
      /\ DOMAIN some = 1 .. Len(some)
      /\ \A n \in 1 .. last - first[p] + 1 : some[n] = users[p][first[p] + n - 1]
  <2>1. \A n \in first[p] .. last : users[p][n] \in Everyone
    <3>1. \A n \in first[p] .. last : n \in 1 .. len
      BY <1>2, <1>4
    <3> QED BY <1>2, <3>1
  <2>2. last \in Int /\ first[p] \in Int
    BY <1>2, <1>4
  <2> QED BY <1>2, <1>5, <2>1, <2>2, SubSeqProperties, LenProperties
<1>7. Chunk(p) = {some[n] : n \in 1 .. Len(some)}
  BY <1>1, <1>3, <1>5, <1>6 DEF Chunk, ToSet
<1>8. ASSUME NEW u \in Chunk(p)
      PROVE  \E m \in 1 .. len : first[p] <= m /\ m < first[p] + BatchSize /\ users[p][m] = u
  <2>1. PICK n \in 1 .. Len(some) : some[n] = u
    BY <1>7
  <2>2. n \in 1 .. last - first[p] + 1 /\ first[p] <= last /\ n \in Nat
    BY <1>2, <1>4, <1>6, <2>1
  <2>3. users[p][first[p] + n - 1] = u
    BY <1>6, <2>1, <2>2
  <2>4. /\ first[p] + n - 1 \in 1 .. len /\ first[p] <= first[p] + n - 1
        /\ first[p] + n - 1 < first[p] + BatchSize
    BY <1>2, <1>4, <2>2
  <2> QED BY <2>3, <2>4
<1>9. ASSUME NEW m \in 1 .. len, first[p] <= m, m < first[p] + BatchSize
      PROVE  users[p][m] \in Chunk(p)
  <2>1. /\ m - first[p] + 1 \in 1 .. last - first[p] + 1 /\ first[p] <= last
        /\ first[p] + (m - first[p] + 1) - 1 = m
    <3>1. PICK f \in Nat : f = first[p]
      BY <1>2
    <3>2. m \in Nat /\ m <= last /\ last \in Int /\ f <= m
      BY <1>2, <1>4, <1>9, <3>1
    <3>3. m - f + 1 \in 1 .. last - f + 1 /\ f <= last /\ f + (m - f + 1) - 1 = m
      BY <3>2
    <3> QED BY <3>1, <3>3, Zenon
  <2>2. m - first[p] + 1 \in 1 .. Len(some) /\ some[m - first[p] + 1] = users[p][m]
    BY <1>6, <2>1
  <2> QED BY <1>7, <2>2
<1> QED BY <1>1, <1>8, <1>9

\* A list that the seeder writes is one more that is not stale.
LEMMA SeededListKeepsBatchInv ==
    ASSUME BatchInv, DOMAIN rec = Everyone,
           items' = items, users' = users, job' = job, first' = first,
           \/ rec' = rec /\ stale' = stale
           \/ \E u \in Everyone : \E recs \in GenerateUserRecs(u) :
                 /\ rec' = [rec EXCEPT ![u] = [by |-> "seed", list |-> recs, expires |-> TRUE]]
                 /\ stale' = [p \in Passes |-> stale[p] \ {u}]
    PROVE  BatchInv'
<1>1. \A u : GenerateUserRecs(u)' = GenerateUserRecs(u)
  BY SameRecs
<1>2. CASE rec' = rec /\ stale' = stale
  BY <1>1, <1>2 DEF BatchInv, ListsAreSound, PassIsSound, PassIsInOrder, WrittenBy
<1>3. CASE ~(rec' = rec /\ stale' = stale)
  <2>1. PICK u \in Everyone : \E recs \in GenerateUserRecs(u) :
                /\ rec' = [rec EXCEPT ![u] = [by |-> "seed", list |-> recs, expires |-> TRUE]]
                /\ stale' = [p \in Passes |-> stale[p] \ {u}]
    BY <1>3
  <2>2. PICK recs \in GenerateUserRecs(u) :
                /\ rec' = [rec EXCEPT ![u] = [by |-> "seed", list |-> recs, expires |-> TRUE]]
                /\ stale' = [p \in Passes |-> stale[p] \ {u}]
    BY <2>1
  <2>3. PICK new : new = [by |-> "seed", list |-> recs, expires |-> TRUE]
    OBVIOUS
  <2>4. new.by = "seed" /\ new.list = recs /\ new.expires
    BY <2>3
  <2>5. \A v \in Everyone : rec'[v] = IF v = u THEN new ELSE rec[v]
    BY <2>2, <2>3
  <2>6. ListsAreSound'
    BY <1>1, <2>2, <2>4, <2>5 DEF BatchInv, ListsAreSound
  <2>7. \A v \in Everyone, p \in Passes : WrittenBy(v, p)' => WrittenBy(v, p)
    BY <2>4, <2>5 DEF WrittenBy
  <2>8. ASSUME NEW p \in Passes PROVE PassIsSound(p)' /\ PassIsInOrder(p)'
    <3>1. stale'[p] \subseteq stale[p]
      BY <2>2
    <3>2. PassIsSound(p) /\ PassIsInOrder(p)
      BY DEF BatchInv
    <3> QED BY <2>7, <3>1, <3>2 DEF PassIsSound, PassIsInOrder
  <2> QED BY <2>2, <2>6, <2>8 DEF BatchInv
<1> QED BY <1>2, <1>3

\* What the seeder needs of the lists is only that none disappears.
LEMMA ListsKeepSeederInv ==
    ASSUME SeederInv, UNCHANGED <<items, seeder, idMap, nextBit, popular>>,
           DOMAIN rec' = Everyone, \A u \in Everyone : rec[u] # Missing => rec'[u] # Missing
    PROVE  SeederInv'
<1>1. /\ items' = items /\ phase' = phase /\ index' = index /\ pipe' = pipe /\ flush' = flush
      /\ cmdErr' = cmdErr /\ idMap' = idMap /\ nextBit' = nextBit /\ popular' = popular
  BY DEF seeder
<1>2. ItemsAreListed /\ PipeIsFlushed /\ PipeIsInOrder /\ MappedSoFar /\ ServedSoFar
  BY DEF SeederInv
<1>3. Commands' = Commands /\ \A u : GenerateUserRecs(u)' = GenerateUserRecs(u)
  BY <1>1, SameRecs
<1>4. ItemsAreListed' /\ Executed' = Executed /\ Elements' = Elements
  BY <1>1, <1>2 DEF ItemsAreListed, Executed, Elements
<1>5. PipeIsFlushed' /\ PipeIsInOrder'
  BY <1>1, <1>2, <1>3, <1>4 DEF PipeIsFlushed, PipeIsInOrder
<1>6. MappedSoFar'
  BY <1>1, <1>2, <1>4 DEF MappedSoFar, Mapped
<1>7. ServedSoFar'
  <2>1. phase = "users" /\ ~cmdErr =>
            \A n \in 1 .. Executed : Users[n] \in Everyone /\ rec'[Users[n]] # Missing
    <3> SUFFICES ASSUME phase = "users", ~cmdErr, NEW n \in 1 .. Executed
                 PROVE  Users[n] \in Everyone /\ rec'[Users[n]] # Missing
      OBVIOUS
    <3>1. Executed <= Len(Users) /\ Executed \in Int
      <4>1. /\ index \in Nat /\ index <= Len(Users) /\ pipe \in Seq(Commands)
        BY <1>2 DEF PipeIsFlushed, Elements
      <4>2. PICK len \in Nat : len = Len(pipe)
        BY <4>1, LenProperties
      <4>3. Executed = index - len
        BY <4>2 DEF Executed
      <4> QED BY <4>1, <4>3, Orders
    <3>2. Users[n] \in Everyone
      BY <3>1, Orders
    <3>3. rec[Users[n]] # Missing
      BY <1>2 DEF ServedSoFar
    <3> QED BY <3>2, <3>3
  <2> QED BY <1>1, <1>2, <1>4, <2>1 DEF ServedSoFar
<1> QED BY <1>4, <1>5, <1>6, <1>7 DEF SeederInv

\* A pass begins with all its users stale, and a search leaves everything as it is.
LEMMA SearchKeepsInv ==
    ASSUME BatchInv, SeederInv, NEW p \in Passes, StartPass(p) \/ Search(p)
    PROVE  BatchInv' /\ SeederInv'
<1>1. rec' = rec /\ UNCHANGED <<items, seeder, idMap, nextBit, popular, first>>
  BY DEF StartPass, Search
<1>2. SeederInv'
  BY <1>1, ListsKeepSeederInv DEF SeederInv, ServedSoFar
<1>3. ListsAreSound'
  <2>1. \A u : GenerateUserRecs(u)' = GenerateUserRecs(u)
    BY <1>1, SameRecs
  <2> QED BY <1>1, <2>1 DEF BatchInv, ListsAreSound
<1>4. /\ DOMAIN job = Passes /\ DOMAIN users = Passes /\ DOMAIN first = Passes /\ DOMAIN stale = Passes
      /\ \A q \in Passes : PassIsSound(q) /\ PassIsInOrder(q)
  BY DEF BatchInv
<1>5. \A u, q : WrittenBy(u, q)' <=> WrittenBy(u, q)
  BY <1>1 DEF WrittenBy
<1>6. ASSUME NEW q \in Passes, users'[q] = users[q], stale'[q] = stale[q],
             job'[q] = job[q] \/ job'[q] \in {"execute", "failed"}
      PROVE  PassIsSound(q)' /\ PassIsInOrder(q)'
  BY <1>1, <1>4, <1>5, <1>6 DEF PassIsSound, PassIsInOrder
<1>7. CASE StartPass(p)
  <2>1. PICK selected \in Selections :
           /\ users' = [users EXCEPT ![p] = selected] /\ stale' = [stale EXCEPT ![p] = ToSet(selected)]
           /\ job' = [job EXCEPT ![p] = IF selected = <<>> THEN "done" ELSE "search"]
    BY <1>7 DEF StartPass
  <2>2. job[p] = "none"
    BY <1>7 DEF StartPass
  <2>3. /\ selected \in Seq(Everyone) /\ IsInjective(selected)
        /\ selected = <<>> => Len(selected) = 0
    BY SelectionsAssumption, EmptySeq DEF Everyone
  <2>4. PassIsSound(p)' /\ PassIsInOrder(p)'
    <3>1. /\ users'[p] = selected /\ stale'[p] = ToSet(selected) /\ first'[p] = 1
          /\ job'[p] = IF selected = <<>> THEN "done" ELSE "search"
      BY <1>1, <1>4, <2>1, <2>2 DEF PassIsInOrder
    <3>2. \A u \in Everyone : ~WrittenBy(u, p)
      BY <1>4, <2>2 DEF PassIsInOrder
    <3>3. \A m \in 1 .. Len(selected) : ~(m < 1)
      BY <2>3, LenProperties
    <3> QED BY <1>5, <2>3, <3>1, <3>2, <3>3 DEF PassIsSound, PassIsInOrder
  <2>5. ASSUME NEW q \in Passes PROVE PassIsSound(q)' /\ PassIsInOrder(q)'
    <3>1. CASE q = p
      BY <2>4, <3>1
    <3>2. CASE q # p
      BY <1>4, <1>6, <2>1, <3>2
    <3> QED BY <3>1, <3>2
  <2> QED BY <1>1, <1>2, <1>3, <1>4, <2>1, <2>5 DEF BatchInv
<1>8. CASE Search(p)
  <2>1. PICK next \in {"execute", "failed"} : job' = [job EXCEPT ![p] = next]
    BY <1>8 DEF Search
  <2>2. users' = users /\ stale' = stale
    BY <1>8 DEF Search
  <2>3. \A q \in Passes : PassIsSound(q)' /\ PassIsInOrder(q)'
    BY <1>4, <1>6, <2>1, <2>2
  <2> QED BY <1>1, <1>2, <1>3, <1>4, <2>1, <2>2, <2>3 DEF BatchInv
<1> QED BY <1>7, <1>8

\* A transaction writes the batch, and the next one begins where it ends; or the
\* pass fails.
LEMMA ExecuteKeepsInv ==
    ASSUME BatchInv, SeederInv, NEW p \in Passes, Execute(p)
    PROVE  BatchInv' /\ SeederInv'
<1>1. /\ UNCHANGED <<items, seeder, idMap, nextBit, popular, users>>
      /\ job[p] = "execute" /\ DOMAIN rec = Everyone
  BY DEF Execute, SeederInv, ServedSoFar
<1>2. /\ ListsAreSound
      /\ DOMAIN job = Passes /\ DOMAIN users = Passes /\ DOMAIN first = Passes /\ DOMAIN stale = Passes
      /\ \A q \in Passes : PassIsSound(q) /\ PassIsInOrder(q)
  BY DEF BatchInv
<1>3. \A u : GenerateUserRecs(u)' = GenerateUserRecs(u)
  BY <1>1, SameRecs
<1>4. CASE job' = [job EXCEPT ![p] = "failed"] /\ UNCHANGED <<rec, stale, first>>
  <2>1. SeederInv'
    BY <1>1, <1>4, ListsKeepSeederInv
  <2>2. ListsAreSound'
    BY <1>1, <1>2, <1>3, <1>4 DEF ListsAreSound
  <2>3. ASSUME NEW q \in Passes PROVE PassIsSound(q)' /\ PassIsInOrder(q)'
    <3>1. job'[q] = job[q] \/ job'[q] = "failed"
      BY <1>2, <1>4
    <3> QED BY <1>1, <1>2, <1>4, <3>1 DEF PassIsSound, PassIsInOrder, WrittenBy
  <2> QED BY <1>1, <1>2, <1>4, <2>1, <2>2, <2>3 DEF BatchInv
<1>5. CASE /\ Write(p, TRUE) /\ first' = [first EXCEPT ![p] = @ + BatchSize]
           /\ \E next \in {NextBatch(p), "failed"} : job' = [job EXCEPT ![p] = next]
  <2>1. PICK next \in {NextBatch(p), "failed"} : job' = [job EXCEPT ![p] = next]
    BY <1>5
  <2>2. PICK new : new = [by |-> "job", pass |-> p, expires |-> TRUE]
    OBVIOUS
  <2>3. new.by = "job" /\ new.pass = p /\ new.expires /\ new # Missing
    BY <2>2 DEF Missing
  <2>4. /\ DOMAIN rec' = Everyone /\ DOMAIN stale' = Passes
        /\ \A u \in Everyone : rec'[u] = IF u \in Chunk(p) THEN new ELSE rec[u]
        /\ \A q \in Passes : stale'[q] = stale[q] \ Chunk(p)
    BY <1>1, <1>5, <2>2 DEF Write
  <2>5. SeederInv'
    BY <1>1, <2>3, <2>4, ListsKeepSeederInv
  <2>6. ListsAreSound'
    BY <1>2, <1>3, <2>3, <2>4 DEF ListsAreSound
  <2>7. \A u \in Everyone, q \in Passes : WrittenBy(u, q)' => WrittenBy(u, q) \/ (q = p /\ u \in Chunk(p))
    BY <2>3, <2>4 DEF WrittenBy
  <2>8. ASSUME NEW q \in Passes, q # p PROVE PassIsSound(q)' /\ PassIsInOrder(q)'
    <3>1. job'[q] = job[q] /\ first'[q] = first[q] /\ users'[q] = users[q] /\ stale'[q] \subseteq stale[q]
      BY <1>1, <1>2, <1>5, <2>1, <2>4, <2>8
    <3> QED BY <1>2, <2>7, <2>8, <3>1 DEF PassIsSound, PassIsInOrder
  <2>9. PassIsSound(p)' /\ PassIsInOrder(p)'
    <3>1. /\ PassIsSound(p) /\ PassIsInOrder(p) /\ users'[p] = users[p]
          /\ first[p] \in Nat \ {0} /\ BatchSize \in Nat \ {0}
          /\ first'[p] = first[p] + BatchSize /\ job'[p] = next
          /\ stale'[p] = stale[p] \ Chunk(p)
      BY <1>1, <1>2, <1>5, <2>1, <2>4, SizesAssumption DEF PassIsSound
    <3>2. PICK len \in Nat : len = Len(users[p])
      BY <3>1, LenProperties DEF PassIsSound
    <3>3. first'[p] \in Nat \ {0}
      BY <3>1
    <3>4. next \in {"search", "done", "failed"} /\ (next = "done" => first'[p] > len)
      BY <3>1, <3>2 DEF NextBatch
    <3>5. ASSUME NEW m \in 1 .. len, m < first'[p] PROVE users[p][m] \notin stale'[p]
      <4>1. CASE m < first[p]
        BY <3>1, <3>2, <4>1 DEF PassIsInOrder
      <4>2. CASE ~(m < first[p])
        <5>1. users[p][m] \in Chunk(p)
          BY <3>1, <3>2, <3>5, <4>2, ChunkPlaces
        <5> QED BY <3>1, <5>1
      <4> QED BY <4>1, <4>2
    <3>6. ASSUME NEW u \in Everyone, WrittenBy(u, p)'
          PROVE  \E m \in 1 .. len : m < first'[p] /\ users[p][m] = u
      <4>1. CASE WrittenBy(u, p)
        <5>1. PICK m \in 1 .. len : m < first[p] /\ users[p][m] = u
          BY <3>1, <3>2, <4>1 DEF PassIsInOrder
        <5> QED BY <3>1, <3>2, <5>1
      <4>2. CASE ~WrittenBy(u, p)
        <5>1. u \in Chunk(p)
          BY <2>7, <3>6, <4>2
        <5> QED BY <3>1, <3>2, <5>1, ChunkPlaces
      <4> QED BY <4>1, <4>2
    <3>7. PassIsSound(p)'
      BY <3>1, <3>3, <3>4 DEF PassIsSound
    <3>8. stale'[p] \subseteq ToSet(users[p])
      BY <3>1 DEF PassIsInOrder
    <3> QED BY <3>1, <3>2, <3>4, <3>5, <3>6, <3>7, <3>8 DEF PassIsInOrder
  <2>10. \A q \in Passes : PassIsSound(q)' /\ PassIsInOrder(q)'
    BY <2>8, <2>9
  <2> QED BY <1>1, <1>2, <1>5, <2>1, <2>4, <2>5, <2>6, <2>10 DEF BatchInv
<1> QED BY <1>4, <1>5 DEF Execute

-----------------------------------------------------------------------------

\* Every step keeps the invariant.
LEMMA StepWriterInv == WriterInv /\ [WritersNext]_writersVars => WriterInv'
<1> SUFFICES ASSUME WriterInv, [WritersNext]_writersVars PROVE WriterInv'
  OBVIOUS
<1>1. SeederInv /\ BatchInv /\ DOMAIN rec = Everyone
  BY DEF WriterInv, SeederInv, BatchInv, ServedSoFar
<1>2. SeederInv' /\ BatchInv' => WriterInv'
  BY DEF WriterInv, SeederInv, BatchInv
<1>3. CASE SeedMapping
  BY <1>1, <1>2, <1>3, SeedMappingKeepsInv, SeededListKeepsBatchInv
<1>4. CASE SeedUser
  BY <1>1, <1>2, <1>4, SeedUserKeepsInv, SeededListKeepsBatchInv
<1>5. CASE Exec
  BY <1>1, <1>2, <1>5, ExecKeepsInv, SeededListKeepsBatchInv
<1>6. CASE SetNextBit \/ SeedPopularItems \/ SeedEnds \/ SeedFails
  BY <1>1, <1>2, <1>6, PhasesKeepInv, SeededListKeepsBatchInv
<1>7. ASSUME NEW p \in Passes, StartPass(p) \/ Search(p) PROVE WriterInv'
  BY <1>1, <1>2, <1>7, SearchKeepsInv
<1>8. ASSUME NEW p \in Passes, Execute(p) PROVE WriterInv'
  BY <1>1, <1>2, <1>8, ExecuteKeepsInv
<1>9. CASE UNCHANGED writersVars
  <2>1. /\ items' = items /\ users' = users /\ job' = job /\ first' = first /\ rec' = rec /\ stale' = stale
        /\ UNCHANGED <<items, seeder, idMap, nextBit, popular>>
    BY <1>9 DEF writersVars, batch
  <2>2. SeederInv'
    BY <1>1, <2>1, ListsKeepSeederInv
  <2>3. BatchInv'
    BY <1>1, <2>1, SeededListKeepsBatchInv
  <2> QED BY <1>2, <2>2, <2>3
<1> QED BY <1>3, <1>4, <1>5, <1>6, <1>7, <1>8, <1>9 DEF WritersNext, SeedStep, PassStep

\* The invariant holds in every reachable state.
THEOREM WriterInvHolds == WritersSpec => []WriterInv
BY InitWriterInv, StepWriterInv, PTL DEF WritersSpec

\* SeedIsComplete: whatever the number of items and users against the size of a
\* batch, the seeder ends with everything written, and the next bit position it
\* leaves is the first that no item has.
THEOREM SeedLeavesNothingOut == WritersSpec => []SeedIsComplete
<1>1. WriterInv => SeedIsComplete
  <2> SUFFICES ASSUME WriterInv PROVE SeedIsComplete
    OBVIOUS
  <2>1. ItemsAreListed /\ MappedSoFar /\ ServedSoFar
    BY DEF WriterInv
  <2>2. Len(items) \in Nat /\ DOMAIN items = 1 .. Len(items)
    BY <2>1, ListedItems
  <2>3. NextBitIsFree
    <3> SUFFICES ASSUME nextBit # Missing
                 PROVE  {idMap[item] : item \in DOMAIN idMap} = {n - 1 : n \in 1 .. nextBit.position}
      BY DEF NextBitIsFree
    <3>1. Mapped(Len(items)) /\ nextBit.position = Len(items)
      BY <2>1 DEF MappedSoFar
    <3>2. /\ \A item \in DOMAIN idMap : \E n \in 1 .. Len(items) : idMap[item] = n - 1
          /\ \A n \in 1 .. Len(items) : \E item \in DOMAIN idMap : idMap[item] = n - 1
      BY <3>1 DEF Mapped
    <3> QED BY <3>1, <3>2
  <2>4. ASSUME phase = "done"
        PROVE  /\ \A n \in DOMAIN items : items[n] \in DOMAIN idMap /\ idMap[items[n]] = n - 1
               /\ popular # Missing /\ \A u \in DOMAIN rec : rec[u] # Missing
    <3>1. Mapped(Len(items))
      BY <2>1, <2>4 DEF MappedSoFar
    <3>2. \A n \in DOMAIN items : items[n] \in DOMAIN idMap /\ idMap[items[n]] = n - 1
      BY <2>2, <3>1 DEF Mapped
    <3> QED BY <2>1, <2>4, <3>2 DEF ServedSoFar
  <2> QED BY <2>3, <2>4 DEF SeedIsComplete
<1> QED BY <1>1, WriterInvHolds, PTL

\* PassesRenewInOrder: whichever users a pass is given, however it overlaps with
\* others and wherever it breaks off, it renews a list only after those before,
\* a pass that ends well has renewed all of its users, and every list expires.
THEOREM ListsAreRenewedInOrder == WritersSpec => []PassesRenewInOrder
<1>1. WriterInv => PassesRenewInOrder
  <2> SUFFICES ASSUME WriterInv PROVE PassesRenewInOrder
    OBVIOUS
  <2>1. DOMAIN rec = Everyone /\ ListsAreSound
    BY DEF WriterInv, ServedSoFar, BatchInv
  <2>2. \A u \in DOMAIN rec : rec[u] # Missing => rec[u].expires
    BY <2>1 DEF ListsAreSound
  <2>3. ASSUME NEW p \in Passes
        PROVE  /\ \A m, n \in DOMAIN users[p] :
                     m < n /\ rec[users[p][n]].by = "job" /\ rec[users[p][n]].pass = p
                         => users[p][m] \notin stale[p]
               /\ job[p] = "done" => stale[p] = {}
    <3>1. PassIsSound(p) /\ PassIsInOrder(p)
      BY DEF WriterInv, BatchInv
    <3>2. /\ users[p] \in Seq(Everyone) /\ IsInjective(users[p]) /\ Len(users[p]) \in Nat
          /\ DOMAIN users[p] = 1 .. Len(users[p])
          /\ \A n \in 1 .. Len(users[p]) : users[p][n] \in Everyone
      BY <3>1, LenProperties, ElementOfSeq DEF PassIsSound
    <3>3. ASSUME NEW m \in 1 .. Len(users[p]), NEW n \in 1 .. Len(users[p]), m < n,
                 WrittenBy(users[p][n], p)
          PROVE  users[p][m] \notin stale[p]
      <4>1. PICK k \in 1 .. Len(users[p]) : k < first[p] /\ users[p][k] = users[p][n]
        BY <3>1, <3>2, <3>3 DEF PassIsInOrder
      <4>2. k = n
        BY <3>2, <4>1 DEF IsInjective
      <4>3. m < first[p]
        BY <3>1, <3>2, <3>3, <4>1, <4>2 DEF PassIsSound
      <4> QED BY <3>1, <4>3 DEF PassIsInOrder
    <3>4. ASSUME job[p] = "done" PROVE stale[p] = {}
      <4>1. ASSUME NEW u \in stale[p] PROVE FALSE
        <5>1. PICK m \in 1 .. Len(users[p]) : users[p][m] = u
          BY <3>1, <3>2, <4>1 DEF PassIsInOrder, ToSet
        <5>2. m < first[p]
          BY <3>1, <3>2, <3>4 DEF PassIsInOrder, PassIsSound
        <5> QED BY <3>1, <4>1, <5>1, <5>2 DEF PassIsInOrder
      <4> QED BY <4>1
    <3> QED BY <3>2, <3>3, <3>4 DEF WrittenBy
  <2> QED BY <2>2, <2>3 DEF PassesRenewInOrder
<1> QED BY <1>1, WriterInvHolds, PTL

\* A sequence without repetition has as many elements as places.
LEMMA InjectiveSize ==
    ASSUME NEW S, NEW len \in Nat, NEW f \in [1 .. len -> S], IsInjective(f)
    PROVE  /\ IsFiniteSet(ToSet(f)) /\ Cardinality(ToSet(f)) = len
<1>1. f \in [1 .. len -> ToSet(f)] /\ DOMAIN f = 1 .. len
  BY DEF ToSet
<1>2. f \in Injection(1 .. len, ToSet(f))
  BY <1>1 DEF Injection, IsInjective
<1>3. f \in Surjection(1 .. len, ToSet(f))
  <2>1. \A t \in ToSet(f) : \E n \in 1 .. len : f[n] = t
    BY <1>1 DEF ToSet
  <2> QED BY <1>1, <2>1 DEF Surjection
<1>4. IsFiniteSet(1 .. len) /\ Cardinality(1 .. len) = len
  BY FS_Interval
<1>5. /\ IsFiniteSet(ToSet(f))
      /\ Cardinality(ToSet(f)) = Cardinality(1 .. len) <=> f \in Injection(1 .. len, ToSet(f))
  BY <1>3, <1>4, FS_Surjection
<1> QED BY <1>2, <1>4, <1>5

\* What a user's list is cut from are items, and enough of them.
LEMMA CandidatesSuffice ==
    ASSUME ItemsAreListed, NEW u, NEW supplement \in Supplements(u)
    PROVE  /\ IsFiniteSet(Candidates(u, supplement)) /\ Cardinality(Candidates(u, supplement)) \in Nat
           /\ Min({TopK, Cardinality(Candidates(u, supplement))}) = Min({TopK, Len(items)})
           /\ Preferred(u) \subseteq Candidates(u, supplement)
<1>1. Len(items) \in Nat /\ items \in [1 .. Len(items) -> Items] /\ TopK \in Nat
  BY ListedItems, SizesAssumption DEF ItemsAreListed
<1>2. IsFiniteSet(ToSet(items)) /\ Cardinality(ToSet(items)) = Len(items)
  BY <1>1, InjectiveSize DEF ItemsAreListed
<1>3. PICK candidates : candidates = Candidates(u, supplement)
  OBVIOUS
<1>4. candidates \in SUBSET ToSet(items) /\ Preferred(u) \subseteq candidates
  BY <1>3 DEF Candidates, Preferred, InCategory
<1>5. /\ IsFiniteSet(candidates) /\ Cardinality(candidates) \in Nat
      /\ Cardinality(candidates) <= Len(items)
  <2>1. IsFiniteSet(candidates) /\ Cardinality(candidates) <= Cardinality(ToSet(items))
    BY <1>2, <1>4, FS_Subset
  <2> QED BY <1>2, <2>1, FS_CardinalityType
<1>6. Cardinality(candidates) >= TopK \/ Cardinality(candidates) = Len(items)
  <2>1. CASE Cardinality(Preferred(u)) >= TopK
    <3>1. supplement = {}
      BY <2>1, SupplementsAreEnough
    <3>2. candidates = Preferred(u)
      BY <1>3, <3>1 DEF Candidates
    <3> QED BY <2>1, <3>2
  <2>2. CASE ~(Cardinality(Preferred(u)) >= TopK)
    <3>1. Enough(u, supplement)
      BY <2>2, SupplementsAreEnough
    <3>2. CASE supplement = OtherCategories(u)
      <4>1. ASSUME NEW item \in ToSet(items) PROVE item \in candidates
        <5>1. CASE CategoryOf[item] \in ToSet(Preferences[u])
          BY <1>3, <5>1 DEF Candidates, Preferred, InCategory
        <5>2. CASE CategoryOf[item] \notin ToSet(Preferences[u])
          <6>1. CategoryOf[item] \in supplement /\ item \in InCategory(CategoryOf[item])
            BY <3>2, <5>2 DEF OtherCategories, InCategory
          <6> QED BY <1>3, <6>1 DEF Candidates
        <5> QED BY <5>1, <5>2
      <4>2. candidates = ToSet(items)
        BY <1>4, <4>1
      <4> QED BY <1>2, <4>2
    <3>3. CASE supplement # OtherCategories(u)
      BY <1>3, <3>1, <3>3 DEF Enough
    <3> QED BY <3>2, <3>3
  <2> QED BY <2>1, <2>2
<1>7. Min({TopK, Cardinality(candidates)}) = Min({TopK, Len(items)})
  BY <1>1, <1>5, <1>6, MinOfTwo
<1> QED BY <1>3, <1>4, <1>5, <1>7

\* The lists a user may get.
LEMMA GeneratedLists ==
    ASSUME ItemsAreListed, NEW u, NEW recs \in GenerateUserRecs(u)
    PROVE  /\ Len(recs) = Min({TopK, Len(items)}) /\ IsInjective(recs)
           /\ (\A supplement \in Supplements(u) : Cardinality(Candidates(u, supplement)) <= TopK)
                 => Preferred(u) \subseteq ToSet(recs)
<1>1. PICK supplement \in Supplements(u) : recs \in Cuts(Candidates(u, supplement))
  BY DEF GenerateUserRecs
<1>2. PICK candidates : candidates = Candidates(u, supplement)
  OBVIOUS
<1>3. /\ IsFiniteSet(candidates) /\ Cardinality(candidates) \in Nat
      /\ Min({TopK, Cardinality(candidates)}) = Min({TopK, Len(items)})
      /\ Preferred(u) \subseteq candidates
  BY <1>2, CandidatesSuffice
<1>4. PICK k : k = Min({TopK, Cardinality(candidates)})
  OBVIOUS
<1>5. k \in Nat /\ (Cardinality(candidates) <= TopK => k = Cardinality(candidates))
  BY <1>3, <1>4, SizesAssumption, MinOfTwo
<1>6. PICK s \in kSubset(k, candidates) : recs \in SetToSeqs(s)
  BY <1>1, <1>2, <1>4 DEF Cuts
<1>7. s \in SUBSET candidates /\ Cardinality(s) = k
  BY <1>6 DEF kSubset
<1>8. recs \in [1 .. k -> s] /\ \A a, b \in 1 .. k : a # b => recs[a] # recs[b]
  BY <1>6, <1>7 DEF SetToSeqs
<1>9. IsInjective(recs)
  BY <1>8 DEF IsInjective
<1>10. Len(recs) = k
  BY <1>5, <1>8
<1>11. ASSUME Cardinality(candidates) <= TopK PROVE Preferred(u) \subseteq ToSet(recs)
  <2>1. Cardinality(ToSet(recs)) = k /\ k = Cardinality(candidates)
    BY <1>5, <1>8, <1>9, <1>11, InjectiveSize
  <2>2. ToSet(recs) \in SUBSET candidates
    BY <1>7, <1>8 DEF ToSet
  <2>3. ToSet(recs) = candidates
    BY <1>3, <2>1, <2>2, FS_Subset
  <2> QED BY <1>3, <2>3
<1> QED BY <1>2, <1>3, <1>4, <1>9, <1>10, <1>11

\* SeededListsFill: a seeded list is as long as the items allow, and the preferred
\* ones are cut only where a whole category brought more than was needed.
THEOREM ListsAreFilled == WritersSpec => []SeededListsFill
<1>1. WriterInv => SeededListsFill
  <2> SUFFICES ASSUME WriterInv, NEW u \in DOMAIN rec, rec[u].by = "seed"
               PROVE  /\ Len(rec[u].list) = Min({TopK, Len(items)}) /\ IsInjective(rec[u].list)
                      /\ (\A supplement \in Supplements(u) : Cardinality(Candidates(u, supplement)) <= TopK)
                            => Preferred(u) \subseteq ToSet(rec[u].list)
    BY DEF SeededListsFill
  <2>1. ItemsAreListed /\ rec[u].list \in GenerateUserRecs(u)
    <3>1. u \in Everyone /\ ItemsAreListed /\ ListsAreSound
      BY DEF WriterInv, ServedSoFar, BatchInv
    <3> QED BY <3>1 DEF ListsAreSound, Missing
  <2> QED BY <2>1, GeneratedLists
<1> QED BY <1>1, WriterInvHolds, PTL
=============================================================================
