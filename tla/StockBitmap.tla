----------------------------- MODULE StockBitmap -----------------------------
(***************************************************************************)
(* The stock bitmap: inventory events, keyed by item, go through the Flink *)
(* job (StockBitmapUpdater, then DragonflySink, one remote command at a    *)
(* time) into DragonflyDB, where the recommendation API reads them back    *)
(* with two pipelined round trips (stock/bitmap.go).                       *)
(*                                                                         *)
(* The job keeps no checkpoints and starts at the latest offsets, so a     *)
(* restart drops what it had not written and what was published while it   *)
(* was down.  The keyed state bitmapOffset only caches a hash of the key,  *)
(* which is computed again when it is lost.                                *)
(***************************************************************************)
EXTENDS Naturals, Sequences

CONSTANTS
    Items,      \* item ids, the keys of the stream
    Tasks,      \* parallel subtasks of the job (2 by default)
    TaskOf,     \* the subtask keyBy sends an item to
    HashOf,     \* hashCode of the id, masked to a non-negative offset
    SeedOf,     \* the offset the traffic simulator's seed gave the item
    None,       \* no value
    MaxEvents,  \* bound on the inventory events of one item
    MaxCrashes  \* bound on the failures of the job

ASSUME TaskAssumption == TaskOf \in [Items -> Tasks]
ASSUME SlotAssumption == HashOf \in [Items -> Nat] /\ SeedOf \in [Items -> Nat]
ASSUME NoneAssumption == \A i \in Items : None \notin {HashOf[i], SeedOf[i]}
ASSUME BoundAssumption == MaxEvents \in Nat /\ MaxCrashes \in Nat

VARIABLES
    topic,      \* events of each item published and not yet read by the job
    published,  \* number of events of each item so far
    latest,     \* the last event published for each item
    running,    \* is the job running
    crashes,
    commands,   \* SinkCommands a subtask has still to execute
    bitmap,     \* stock:bitmap, 0 where no bit was set
    idMap,      \* stock:id_map:{item}
    reader,     \* one stock check of the recommendation API
    written,    \* history: offsets whose bit was ever set
    lost        \* history: items whose latest event was dropped by a restart

stream == <<topic, published, latest>>
job    == <<running, crashes, commands>>
vars   == <<stream, job, bitmap, idMap, reader, written, lost>>

Offsets == {HashOf[i] : i \in Items} \cup {SeedOf[i] : i \in Items}
Events  == [inStock : BOOLEAN, quantity : {0, 1}]

Verdicts == {"idle", "looking", "included", "excluded"}

Init ==
    /\ topic = [i \in Items |-> <<>>]
    /\ published = [i \in Items |-> 0]
    /\ latest = [i \in Items |-> None]
    /\ running = TRUE /\ crashes = 0
    /\ commands = [t \in Tasks |-> <<>>]
    /\ bitmap = [o \in Offsets |-> 0]
    /\ idMap \in {[i \in Items |-> None], SeedOf}   \* seeded or not
    /\ reader = [item |-> None, offset |-> None, verdict |-> "idle"]
    /\ written = {} /\ lost = {}

-----------------------------------------------------------------------------
(* The stock system publishes *)

Publish(i) ==
    /\ published[i] < MaxEvents
    /\ \E event \in Events :
          /\ topic' = [topic EXCEPT ![i] = Append(@, event)]
          /\ latest' = [latest EXCEPT ![i] = event]
    /\ published' = [published EXCEPT ![i] = @ + 1]
    /\ lost' = lost \ {i}
    /\ UNCHANGED <<job, bitmap, idMap, reader, written>>

-----------------------------------------------------------------------------
(* StockBitmapUpdater *)

ResolveStockStatus(event) == event.inStock /\ event.quantity > 0

BitValue(event) == IF ResolveStockStatus(event) THEN 1 ELSE 0

\* A mistake: the mapping is written before the bit.
MapThenBit(i, event) ==
    << [op |-> "SET",    item |-> i, offset |-> HashOf[i]],
       [op |-> "SETBIT", item |-> i, offset |-> HashOf[i], bit |-> BitValue(event)] >>

BuildCommands(i, event) ==
    << [op |-> "SETBIT", item |-> i, offset |-> HashOf[i], bit |-> BitValue(event)],
       [op |-> "SET",    item |-> i, offset |-> HashOf[i]] >>

\* A mistake: events are taken while the sink is still busy with the last one.
ProcessWithoutWaiting(i) ==
    LET t == TaskOf[i] IN
    /\ running /\ topic[i] # <<>>
    /\ commands' = [commands EXCEPT ![t] = @ \o BuildCommands(i, Head(topic[i]))]
    /\ topic' = [topic EXCEPT ![i] = Tail(@)]
    /\ UNCHANGED <<published, latest, running, crashes, bitmap, idMap, reader, written, lost>>

\* A mistake: the stream is not keyed by item, a later event may overtake.
ProcessNewestFirst(i) ==
    LET t == TaskOf[i]
        n == Len(topic[i]) IN
    /\ running /\ commands[t] = <<>> /\ n > 0
    /\ commands' = [commands EXCEPT ![t] = BuildCommands(i, topic[i][n])]
    /\ topic' = [topic EXCEPT ![i] = SubSeq(@, 1, n - 1)]
    /\ UNCHANGED <<published, latest, running, crashes, bitmap, idMap, reader, written, lost>>

\* A subtask takes the next event of one of its keys once it has executed the
\* commands of the one before.
ProcessElement(i) ==
    LET t == TaskOf[i] IN
    /\ running /\ commands[t] = <<>> /\ topic[i] # <<>>
    /\ commands' = [commands EXCEPT ![t] = BuildCommands(i, Head(topic[i]))]
    /\ topic' = [topic EXCEPT ![i] = Tail(@)]
    /\ UNCHANGED <<published, latest, running, crashes, bitmap, idMap, reader, written, lost>>

(* DragonflySink.invoke *)

Invoke(t) ==
    /\ running /\ commands[t] # <<>>
    /\ LET command == Head(commands[t]) IN
          \/ /\ command.op = "SETBIT"
             /\ bitmap' = [bitmap EXCEPT ![command.offset] = command.bit]
             /\ written' = written \cup {command.offset}
             /\ UNCHANGED idMap
          \/ /\ command.op = "SET"
             /\ idMap' = [idMap EXCEPT ![command.item] = command.offset]
             /\ UNCHANGED <<bitmap, written>>
    /\ commands' = [commands EXCEPT ![t] = Tail(@)]
    /\ UNCHANGED <<stream, running, crashes, reader, lost>>

\* Is the subtask of an item in the middle of an event of that item?
InFlight(i) == commands[TaskOf[i]] # <<>> /\ Head(commands[TaskOf[i]]).item = i

\* A record that does not deserialize, or a command that fails, ends the job.
Crash ==
    /\ running /\ crashes < MaxCrashes
    /\ running' = FALSE /\ crashes' = crashes + 1
    /\ commands' = [t \in Tasks |-> <<>>]
    /\ lost' = lost \cup {i \in Items : InFlight(i)}
    /\ UNCHANGED <<stream, bitmap, idMap, reader, written>>

\* The container restarts and reads from OffsetsInitializer.latest().
Restart ==
    /\ ~running
    /\ running' = TRUE
    /\ topic' = [i \in Items |-> <<>>]
    /\ lost' = lost \cup {i \in Items : topic[i] # <<>>}
    /\ UNCHANGED <<published, latest, crashes, commands, bitmap, idMap, reader, written>>

-----------------------------------------------------------------------------
(* BitmapChecker: FilterOutOfStock for one of its items *)

\* Pipeline 1.  An unknown item, or a lookup that fails, stays included.
LookUpOffset(i) ==
    /\ reader.verdict # "looking"
    /\ \/ /\ idMap[i] # None
          /\ reader' = [item |-> i, offset |-> idMap[i], verdict |-> "looking"]
       \/ reader' = [item |-> i, offset |-> None, verdict |-> "included"]
    /\ UNCHANGED <<stream, job, bitmap, idMap, written, lost>>

\* A mistake: the reader alone is turned round to fit the writer's bit, so an
\* item whose seeded bit nobody wrote counts as out of stock.
IsOutOfStockAtZero(offset) == bitmap[offset] = 0

IsOutOfStock(offset) == bitmap[offset] = 1

\* Pipeline 2.  A GETBIT that fails leaves the item included as well.
GetBit ==
    /\ reader.verdict = "looking"
    /\ \/ reader' = [reader EXCEPT !.verdict = IF IsOutOfStock(reader.offset)
                                               THEN "excluded" ELSE "included"]
       \/ reader' = [reader EXCEPT !.verdict = "included"]
    /\ UNCHANGED <<stream, job, bitmap, idMap, written, lost>>

-----------------------------------------------------------------------------

JobStep ==
    \/ \E i \in Items : ProcessElement(i)
    \/ \E t \in Tasks : Invoke(t)

Next ==
    \/ \E i \in Items : Publish(i) \/ LookUpOffset(i)
    \/ JobStep \/ Crash \/ Restart \/ GetBit

Spec == Init /\ [][Next]_vars

\* Flink keeps processing and the container restarts on failure; nobody has
\* to publish or to ask.
FairSpec ==
    /\ Spec
    /\ \A i \in Items : WF_vars(ProcessElement(i))
    /\ \A t \in Tasks : WF_vars(Invoke(t))
    /\ WF_vars(Restart)

-----------------------------------------------------------------------------

TypeOK ==
    /\ topic \in [Items -> Seq(Events)] /\ published \in [Items -> 0 .. MaxEvents]
    /\ latest \in [Items -> Events \cup {None}]
    /\ running \in BOOLEAN /\ crashes \in 0 .. MaxCrashes
    /\ \A t \in Tasks : Len(commands[t]) <= 2
    /\ bitmap \in [Offsets -> {0, 1}]
    /\ idMap \in [Items -> Offsets \cup {None}]
    /\ reader.verdict \in Verdicts
    /\ written \subseteq Offsets /\ lost \subseteq Items

\* No other item's hash is one of the offsets of the item.
OwnOffsets(i) == \A j \in Items \ {i} : HashOf[j] \notin {HashOf[i], SeedOf[i]}

\* No other item has the same hash; its hash may be a seeded offset.
OwnHash(i) == \A j \in Items \ {i} : HashOf[j] # HashOf[i]

Applied(i) ==
    latest[i] # None =>
        bitmap[HashOf[i]] = BitValue(latest[i]) /\ idMap[i] = HashOf[i]

\* The mapping to the hashed offset becomes visible only after the bit there
\* was set, also when the job dies between the two commands: a reader never
\* follows it to a bit nobody wrote (the order of buildCommands).
MappedBitWasWritten ==
    \A i \in Items : idMap[i] = HashOf[i] /\ idMap[i] # SeedOf[i] => HashOf[i] \in written

\* An item is filtered out only after the job wrote a 1 at the offset that was
\* read, for an event of an item with that hash: no seeded mapping and no failed
\* lookup excludes it, also while its mapping moves from the seeded offset to
\* the hashed one between the reader's two round trips.  Another item's event
\* excludes it only when that item's hash is one of its own offsets.
ExcludedByOwnEvent ==
    reader.verdict = "excluded" =>
        /\ \E j \in Items : published[j] > 0 /\ HashOf[j] = reader.offset
        /\ reader.offset \in written
        /\ OwnOffsets(reader.item) => published[reader.item] > 0

\* The job is done with everything that was published for the item.
Drained(i) ==
    /\ latest[i] # None /\ topic[i] = <<>>
    /\ commands[TaskOf[i]] = <<>> /\ i \notin lost

\* The latest event of every item that no restart dropped is applied in the end.
Converges == \A i \in Items : OwnHash(i) => <>[](i \notin lost => Applied(i))

-----------------------------------------------------------------------------
(* Statements of the documentation *)

\* bitmap.go:15 says "A set bit (1) at that position in stock:bitmap means
\* out-of-stock": with the job done and nothing lost, an item whose latest
\* event says it can be sold is not filtered out.
SetBitMeansOutOfStock ==
    \A i \in Items :
        Drained(i) /\ bitmap[HashOf[i]] = 1 => ~ResolveStockStatus(latest[i])
=============================================================================
