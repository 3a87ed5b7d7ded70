--------------------------- MODULE TrafficSimulator ---------------------------
(***************************************************************************)
(* The traffic simulator (cmd/simulate/main.go) against the event          *)
(* collector: main starts a goroutine per event, held back by a channel    *)
(* used as a semaphore, and waits for all of them; a goroutine posts its   *)
(* event, with a timeout of five seconds, and counts what came back.       *)
(*                                                                         *)
(* A client that timed out is gone, its handler is not: Publish does not   *)
(* look at the request's context.  So more handlers may be under way than  *)
(* the semaphore admits clients.                                           *)
(***************************************************************************)
EXTENDS EventCollector

CONSTANTS Total,       \* TOTAL_EVENTS
          Concurrency  \* CONCURRENCY; with 0 main would wait for ever

ASSUME ConcurrencyAssumption == Concurrency \in Nat \ {0}
ASSUME TotalAssumption       == Total \in 0 .. MaxEvents

VARIABLES
    started,  \* goroutines that main has started
    at,       \* the next step of each goroutine
    request,  \* the event of the collector a goroutine waits for, 0 for none
    sem,      \* elements in the channel
    wg,       \* the counter of the WaitGroup
    sent, failures,
    finished  \* has main passed wg.Wait

simulator == <<started, at, request, sem, wg, sent, failures, finished>>
collector == vars
all       == <<collector, simulator>>

Indexes == 1 .. Total

SimInit ==
    /\ Init
    /\ started = 0 /\ at = [i \in Indexes |-> "none"] /\ request = [i \in Indexes |-> 0]
    /\ sem = 0 /\ wg = 0 /\ sent = 0 /\ failures = 0 /\ finished = FALSE

Goes(i, from, to) == at[i] = from /\ at' = [at EXCEPT ![i] = to]

-----------------------------------------------------------------------------

\* wg.Add(1), then a place in the channel, then the goroutine.
Start ==
    /\ started < Total /\ sem < Concurrency
    /\ wg' = wg + 1 /\ sem' = sem + 1
    /\ started' = started + 1
    /\ at' = [at EXCEPT ![started + 1] = "post"]
    /\ UNCHANGED <<collector, request, sent, failures, finished>>

\* client.Post reaches a handler.
Post(i, g) ==
    /\ Goes(i, "post", "wait")
    /\ HandleEvent(g)
    /\ request' = [request EXCEPT ![i] = arrived']
    /\ UNCHANGED <<started, sem, wg, sent, failures, finished>>

\* The answer with 202 comes back and is counted, under the mutex.
Receive(i) ==
    /\ request[i] \in accepted /\ Goes(i, "wait", "return")
    /\ request' = [request EXCEPT ![i] = 0] /\ sent' = sent + 1
    /\ UNCHANGED <<collector, started, sem, wg, failures, finished>>

\* A mistake: a failure returns before it is counted.
PostFailsUncounted(i) ==
    /\ Goes(i, "post", "return") \/ Goes(i, "wait", "return")
    /\ request' = [request EXCEPT ![i] = 0]
    /\ UNCHANGED <<collector, started, sem, wg, sent, failures, finished>>

\* The timeout, or a connection that is refused or breaks; never mind what the
\* collector made of the request.
PostFails(i) ==
    /\ Goes(i, "post", "return") \/ Goes(i, "wait", "return")
    /\ request' = [request EXCEPT ![i] = 0] /\ failures' = failures + 1
    /\ UNCHANGED <<collector, started, sem, wg, sent, finished>>

\* A mistake: the place in the channel is not given back.
ReturnHolding(i) ==
    /\ Goes(i, "return", "done")
    /\ wg' = wg - 1
    /\ UNCHANGED <<collector, started, request, sem, sent, failures, finished>>

\* The deferred calls: the place in the channel, then wg.Done.
Return(i) ==
    /\ Goes(i, "return", "done")
    /\ sem' = sem - 1 /\ wg' = wg - 1
    /\ UNCHANGED <<collector, started, request, sent, failures, finished>>

Wait ==
    /\ started = Total /\ wg = 0 /\ ~finished
    /\ finished' = TRUE
    /\ UNCHANGED <<collector, started, at, request, sem, wg, sent, failures>>

Goroutine(i) == Receive(i) \/ PostFails(i) \/ Return(i)

\* The collector on its own: everything but the arrival of a request.
CollectorStep ==
    \/ \E g \in Slots : Publish(g) \/ Respond(g)
    \/ \E e \in Events : Produced(e) \/ ProduceFails(e) \/ Callback(e)
    \/ BrokerChanges \/ Signal \/ ShutdownReturns \/ Close \/ Exit

SimNext ==
    \/ Start \/ Wait
    \/ \E i \in Indexes : Goroutine(i) \/ \E g \in Slots : Post(i, g)
    \/ CollectorStep /\ UNCHANGED simulator

\* The timeout makes PostFails happen when nothing else does.
SimFairSpec ==
    /\ SimInit /\ [][SimNext]_all
    /\ WF_all(Start) /\ WF_all(Wait)
    /\ \A i \in Indexes : WF_all(Goroutine(i))
    /\ \A g \in Slots :
          WF_all(Respond(g) /\ UNCHANGED simulator) /\ WF_all(Publish(g) /\ UNCHANGED simulator)
    /\ \A e \in Events :
          WF_all(Produced(e) /\ UNCHANGED simulator) /\ WF_all(Callback(e) /\ UNCHANGED simulator)

-----------------------------------------------------------------------------

\* The channel and the WaitGroup count the goroutines that have not ended.
Held == {i \in Indexes : at[i] \notin {"none", "done"}}

SimTypeOK ==
    /\ TypeOK
    /\ started \in 0 .. Total /\ sem = Cardinality(Held) /\ sem <= Concurrency /\ wg = sem
    /\ \A i \in Indexes : request[i] \in 0 .. arrived /\ (request[i] # 0 <=> at[i] = "wait")

\* What the simulator reports at the end adds up to what it was asked to send,
\* and it reports as sent only what the collector answered with 202; the
\* collector may have taken more, from clients that did not wait for it.
ReportAddsUp ==
    finished => sent + failures = Total /\ sent <= Cardinality(accepted)

\* The simulator ends, whatever becomes of the collector and of Redpanda: no
\* handler that hangs in Publish keeps a place in the channel for ever.
SimulatorEnds == <>finished
=============================================================================
