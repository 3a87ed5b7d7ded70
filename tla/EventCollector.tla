--------------------------- MODULE EventCollector ---------------------------
(***************************************************************************)
(* The event collector: HandleEvent answers 202 as soon as Publish has     *)
(* handed the event to the Kafka client, which produces it later and       *)
(* reports the outcome to a callback that counts errors.  Around it the    *)
(* life of the process (cmd/server/main.go): signal, Shutdown with its     *)
(* deadline, the deferred Close, exit, and log.Fatalf.                     *)
(*                                                                         *)
(* The client (franz-go) is external: it buffers up to Capacity records,   *)
(* blocks Produce when the buffer is full, and fails what is still         *)
(* buffered when it is closed.  It runs the callbacks one by one in a      *)
(* goroutine of its own, for which Close does not wait, and a record keeps *)
(* its place until its callback has run.  Requests that are refused with a *)
(* 4xx change nothing and are left out.                                    *)
(***************************************************************************)
EXTENDS Naturals, FiniteSets

CONSTANTS Slots,      \* handlers that may run together
          Capacity,   \* records the client buffers
          MaxEvents   \* bound on the valid requests of a run

ASSUME CapacityAssumption == Capacity \in Nat \ {0}
ASSUME BoundAssumption    == MaxEvents \in Nat

VARIABLES
    server,       \* "serving", "draining", "closing", "closed" or "exited"
    pc,           \* the next step of each handler
    event,        \* the event each handler works on, 0 for none
    arrived,      \* number of valid requests so far, the newest event
    buffer,       \* records in the client that may still be sent
    promises,     \* records given up whose callback has still to run
    topic,        \* records in user-events
    produceErrs,  \* RedpandaProducer.produceErrs
    brokerUp,     \* does Redpanda take records
    accepted,     \* history: events answered with 202
    failed,       \* history: events whose callback got an error
    fatal         \* history: did log.Fatalf end the process

client  == <<buffer, promises, topic, produceErrs, failed>>
handler == <<pc, event, arrived, accepted>>
vars    == <<server, client, handler, brokerUp, fatal>>

Events == 1 .. MaxEvents
Running == server # "exited"

Init ==
    /\ server = "serving"
    /\ pc = [g \in Slots |-> "idle"] /\ event = [g \in Slots |-> 0]
    /\ arrived = 0
    /\ buffer = {} /\ promises = {} /\ topic = {} /\ produceErrs = 0
    /\ brokerUp = TRUE
    /\ accepted = {} /\ failed = {} /\ fatal = FALSE

-----------------------------------------------------------------------------
(* Handler.HandleEvent *)

\* A valid request gets an event id and goes on to Publish.
HandleEvent(g) ==
    /\ server = "serving" /\ pc[g] = "idle" /\ arrived < MaxEvents
    /\ arrived' = arrived + 1
    /\ event' = [event EXCEPT ![g] = arrived + 1]
    /\ pc' = [pc EXCEPT ![g] = "publish"]
    /\ UNCHANGED <<server, client, accepted, brokerUp, fatal>>

\* A record has a place in the client until its callback has run.
HasRoom == Cardinality(buffer \cup promises) < Capacity

\* A mistake: when the buffer is full the record is dropped, and Publish says
\* nothing because it returns nil anyway.
PublishOrDrop(g) ==
    /\ Running /\ pc[g] = "publish"
    /\ IF server # "closed" /\ HasRoom
          THEN buffer' = buffer \cup {event[g]} ELSE UNCHANGED buffer
    /\ pc' = [pc EXCEPT ![g] = "respond"]
    /\ UNCHANGED <<server, promises, topic, produceErrs, failed, event, arrived, accepted, brokerUp, fatal>>

\* A mistake: a Publish that waits for room is not woken by Close.
PublishNotWoken(g) ==
    /\ Running /\ pc[g] = "publish"
    /\ server # "closed" /\ HasRoom
    /\ buffer' = buffer \cup {event[g]}
    /\ pc' = [pc EXCEPT ![g] = "respond"]
    /\ UNCHANGED <<server, promises, topic, produceErrs, failed, event, arrived, accepted, brokerUp, fatal>>

\* Publish waits for room in the client and returns nil; a closed client gives
\* the record up.
Publish(g) ==
    /\ Running /\ pc[g] = "publish"
    /\ \/ /\ server # "closed" /\ HasRoom
          /\ buffer' = buffer \cup {event[g]} /\ UNCHANGED promises
       \/ /\ server = "closed"
          /\ promises' = promises \cup {event[g]} /\ UNCHANGED buffer
    /\ pc' = [pc EXCEPT ![g] = "respond"]
    /\ UNCHANGED <<server, topic, produceErrs, failed, event, arrived, accepted, brokerUp, fatal>>

Respond(g) ==
    /\ Running /\ pc[g] = "respond"
    /\ accepted' = accepted \cup {event[g]}
    /\ pc' = [pc EXCEPT ![g] = "idle"]
    /\ event' = [event EXCEPT ![g] = 0]
    /\ UNCHANGED <<server, client, arrived, brokerUp, fatal>>

-----------------------------------------------------------------------------
(* The Kafka client and Redpanda *)

Produced(e) ==
    /\ Running /\ brokerUp /\ e \in buffer
    /\ buffer' = buffer \ {e} /\ topic' = topic \cup {e}
    /\ UNCHANGED <<server, promises, produceErrs, failed, handler, brokerUp, fatal>>

\* A record is given up, before or after the broker wrote it.
ProduceFails(e) ==
    /\ Running /\ e \in buffer
    /\ buffer' = buffer \ {e} /\ promises' = promises \cup {e}
    /\ \/ UNCHANGED topic
       \/ brokerUp /\ topic' = topic \cup {e}
    /\ UNCHANGED <<server, produceErrs, failed, handler, brokerUp, fatal>>

\* A mistake: the error is logged but not counted.
CallbackNotCounted(e) ==
    /\ Running /\ e \in promises
    /\ promises' = promises \ {e} /\ failed' = failed \cup {e}
    /\ UNCHANGED <<server, buffer, topic, produceErrs, handler, brokerUp, fatal>>

\* The callback with an error, which counts the event.
Callback(e) ==
    /\ Running /\ e \in promises
    /\ promises' = promises \ {e} /\ failed' = failed \cup {e}
    /\ produceErrs' = produceErrs + 1
    /\ UNCHANGED <<server, buffer, topic, handler, brokerUp, fatal>>

BrokerChanges ==
    /\ brokerUp' = ~brokerUp
    /\ UNCHANGED <<server, client, handler, fatal>>

-----------------------------------------------------------------------------
(* cmd/server/main.go *)

Signal ==
    /\ server = "serving"
    /\ server' = "draining"
    /\ UNCHANGED <<client, handler, brokerUp, fatal>>

\* Shutdown returns when the handlers have returned, or at its deadline.
ShutdownReturns ==
    /\ server = "draining"
    /\ server' = "closing"
    /\ UNCHANGED <<client, handler, brokerUp, fatal>>

\* The deferred RedpandaProducer.Close; the callbacks are not waited for.
Close ==
    /\ server = "closing"
    /\ server' = "closed"
    /\ buffer' = {} /\ promises' = promises \cup buffer
    /\ UNCHANGED <<topic, produceErrs, failed, handler, brokerUp, fatal>>

\* main returns, or a server that fails calls log.Fatalf.  Handlers that still
\* run end without an answer; what is in the client then stays there in the
\* model, as a record of what ended with the process.
Exit ==
    /\ \/ server = "closed" /\ UNCHANGED fatal
       \/ server \in {"serving", "draining"} /\ fatal' = TRUE
    /\ server' = "exited"
    /\ pc' = [g \in Slots |-> "idle"] /\ event' = [g \in Slots |-> 0]
    /\ UNCHANGED <<client, arrived, accepted, brokerUp>>

Next ==
    \/ \E g \in Slots : HandleEvent(g) \/ Publish(g) \/ Respond(g)
    \/ \E e \in Events : Produced(e) \/ ProduceFails(e) \/ Callback(e)
    \/ BrokerChanges \/ Signal \/ ShutdownReturns \/ Close \/ Exit

Spec == Init /\ [][Next]_vars

\* Handlers are scheduled, the client keeps sending while the broker takes
\* records, and runs the callbacks.  Nobody has to send, to signal or to fail.
FairSpec ==
    /\ Spec
    /\ \A g \in Slots : WF_vars(Respond(g)) /\ WF_vars(Publish(g))
    /\ \A e \in Events : WF_vars(Produced(e)) /\ WF_vars(Callback(e))

-----------------------------------------------------------------------------

TypeOK ==
    /\ server \in {"serving", "draining", "closing", "closed", "exited"}
    /\ pc \in [Slots -> {"idle", "publish", "respond"}]
    /\ event \in [Slots -> Events \cup {0}]
    /\ arrived \in 0 .. MaxEvents /\ produceErrs \in 0 .. MaxEvents
    /\ buffer \subseteq Events /\ promises \subseteq Events /\ topic \subseteq Events
    /\ server \in {"serving", "draining", "closing"} => Cardinality(buffer \cup promises) <= Capacity
    /\ accepted \subseteq Events /\ failed \subseteq Events
    /\ brokerUp \in BOOLEAN /\ fatal \in BOOLEAN

\* While the process lives an event that was answered with 202 is in the topic,
\* on its way, or given up with its callback run or still to run; also when its
\* handler outlived the deadline of Shutdown and published into the closed client.
NoSilentLoss == Running => accepted \subseteq topic \cup buffer \cup promises \cup failed

\* The error counter is all an operator sees of the answered events that were
\* lost.  It counts each callback once, and it falls short of the losses by no
\* more than what was in the client: after a clean end these are the callbacks
\* for which Close did not wait, and no record that could still be sent.
LossesAreCounted ==
    /\ produceErrs = Cardinality(failed)
    /\ Cardinality(accepted \ topic) <= produceErrs + Cardinality(buffer \cup promises)
    /\ ~Running /\ ~fatal => buffer = {}

\* A full buffer holds handlers up only while the broker is away: once Redpanda
\* stays up every handler that waits in Publish returns, also those whose client
\* is closed under them.
HandlersReturn ==
    <>[]brokerUp => \A g \in Slots : pc[g] = "publish" ~> pc[g] = "idle"
=============================================================================
