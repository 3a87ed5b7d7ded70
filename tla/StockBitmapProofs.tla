-------------------------- MODULE StockBitmapProofs --------------------------
(***************************************************************************)
(* Safety of StockBitmap for any items, hashes, seeds and subtasks.        *)
(***************************************************************************)
EXTENDS StockBitmap, SequenceTheorems, TLAPS

-----------------------------------------------------------------------------
(***************************************************************************)
(* The inductive invariant: what a subtask has still to execute, where the *)
(* offsets in the store and in the reader come from, and where the latest  *)
(* event of an item is.                                                    *)
(***************************************************************************)

SetCommand(i) == [op |-> "SET", item |-> i, offset |-> HashOf[i]]

SinkCommands ==
    [op : {"SETBIT"}, item : Items, offset : Offsets, bit : {0, 1}]
        \cup [op : {"SET"}, item : Items, offset : Offsets]

\* A subtask has all the commands for an event still to execute, or the last.
WorksOn(t, i, event) ==
    /\ TaskOf[i] = t /\ published[i] > 0
    /\ \/ commands[t] = BuildCommands(i, event)
       \/ commands[t] = << SetCommand(i) >> /\ HashOf[i] \in written

\* A subtask is between events, or in the middle of an event of one of its
\* items; it goes on to the mapping only after it has set the bit.
CommandsOK ==
    /\ commands \in [Tasks -> Seq(SinkCommands)]
    /\ \A t \in Tasks : commands[t] # <<>> =>
          \E i \in Items : \E event \in Events : WorksOn(t, i, event)

\* What is on its way, and what was set, was published.
EventsOnly ==
    /\ \A i \in Items : topic[i] # <<>> => published[i] > 0
    /\ \A o \in written : \E i \in Items : published[i] > 0 /\ HashOf[i] = o
    /\ \A o \in Offsets : bitmap[o] = 1 => o \in written

\* A mapping is the seeded or the hashed one, in the store and at the reader.
MappingsOK ==
    /\ \A i \in Items : idMap[i] \in {None, SeedOf[i], HashOf[i]}
    /\ reader \in [item : Items \cup {None}, offset : Offsets \cup {None}, verdict : Verdicts]
    /\ reader.verdict \in {"looking", "excluded"} =>
          reader.item \in Items /\ reader.offset \in {SeedOf[reader.item], HashOf[reader.item]}

\* The latest event of an item is the last of the topic, or in the hands of the
\* subtask, or applied.
Traced(i) ==
    \/ topic[i] # <<>> /\ topic[i][Len(topic[i])] = latest[i]
    \/ topic[i] = <<>> /\ commands[TaskOf[i]] = BuildCommands(i, latest[i])
    \/ /\ topic[i] = <<>> /\ commands[TaskOf[i]] = << SetCommand(i) >>
       /\ bitmap[HashOf[i]] = BitValue(latest[i])
    \/ topic[i] = <<>> /\ ~InFlight(i) /\ Applied(i)

\* That is so for an item whose hash is its own, unless a restart dropped it.
LatestIsTraced ==
    \A i \in Items : OwnHash(i) /\ i \notin lost /\ latest[i] # None => Traced(i)

JobInv ==
    /\ TypeOK /\ CommandsOK /\ EventsOnly /\ MappingsOK
    /\ MappedBitWasWritten /\ ExcludedByOwnEvent /\ LatestIsTraced

\* With nothing left to do for an item, and nothing dropped, its latest event is
\* applied: the safety half of Converges.
DrainedIsApplied == \A i \in Items : OwnHash(i) /\ Drained(i) => Applied(i)

-----------------------------------------------------------------------------
(* Sequences of commands *)

\* An event becomes the mapping and then the bit of its item.
LEMMA BuildCommandsParts ==
    ASSUME NEW i \in Items, NEW event
    PROVE  /\ BuildCommands(i, event) # <<>> /\ Len(BuildCommands(i, event)) = 2
           /\ Head(BuildCommands(i, event)) =
                 [op |-> "SETBIT", item |-> i, offset |-> HashOf[i], bit |-> BitValue(event)]
           /\ Head(BuildCommands(i, event)).item = i
           /\ Tail(BuildCommands(i, event)) = << SetCommand(i) >>
           /\ BuildCommands(i, event) # << SetCommand(i) >>
BY DEF BuildCommands, SetCommand

\* An event of a mapped item becomes the bit alone.
LEMMA SetCommandParts ==
    ASSUME NEW i \in Items
    PROVE  /\ << SetCommand(i) >> # <<>> /\ Len(<< SetCommand(i) >>) = 1
           /\ Head(<< SetCommand(i) >>) = SetCommand(i) /\ SetCommand(i).item = i
           /\ Tail(<< SetCommand(i) >>) = <<>>
BY DEF SetCommand

\* The event published last is the last of its partition.
LEMMA AppendToTopic ==
    ASSUME NEW s \in Seq(Events), NEW event \in Events
    PROVE  /\ Append(s, event) \in Seq(Events) /\ Append(s, event) # <<>>
           /\ Append(s, event)[Len(Append(s, event))] = event
OBVIOUS

\* The oldest event of a topic is the latest only if it is the only one.
LEMMA TakeFromTopic ==
    ASSUME NEW s \in Seq(Events), s # <<>>
    PROVE  /\ Head(s) \in Events /\ Tail(s) \in Seq(Events)
           /\ Tail(s) = <<>> => Head(s) = s[Len(s)]
           /\ Tail(s) # <<>> => Tail(s)[Len(Tail(s))] = s[Len(s)]
<1>1. Head(s) = s[1] /\ Len(s) \in Nat \ {0}
  OBVIOUS
<1>2. PICK rest \in Seq(Events) : /\ rest = Tail(s) /\ Len(rest) = Len(s) - 1
                                 /\ \A n \in 1 .. Len(rest) : rest[n] = s[n + 1]
  BY HeadTailProperties
<1>3. rest = <<>> => Len(rest) = 0
  OBVIOUS
<1>4. rest # <<>> => Len(rest) \in 1 .. Len(rest)
  OBVIOUS
<1>5. rest = <<>> => Head(s) = s[Len(s)]
  BY <1>1, <1>2, <1>3
<1>6. rest # <<>> => rest[Len(rest)] = s[Len(s)]
  BY <1>1, <1>2, <1>4
<1> QED BY <1>1, <1>2, <1>5, <1>6

\* A bit is 0 or 1.
LEMMA BitValueType == \A event \in Events : BitValue(event) \in {0, 1}
BY DEF BitValue

\* The seeded offset of an item and its hash are offsets.
LEMMA OffsetsOfItems ==
    ASSUME NEW i \in Items
    PROVE  HashOf[i] \in Offsets /\ SeedOf[i] \in Offsets
BY DEF Offsets

\* An event becomes commands of the sink.
LEMMA BuildCommandsType ==
    ASSUME NEW i \in Items, NEW event \in Events
    PROVE  BuildCommands(i, event) \in Seq(SinkCommands)
BY OffsetsOfItems, BitValueType DEF BuildCommands, SinkCommands

-----------------------------------------------------------------------------

\* Nothing was published, and only the seeder wrote.
LEMMA InitJobInv == Init => JobInv
<1> SUFFICES ASSUME Init PROVE JobInv
  OBVIOUS
<1> USE DEF Init
<1>1. idMap \in [Items -> Offsets \cup {None}]
  BY OffsetsOfItems, SlotAssumption
<1>2. /\ topic \in [Items -> Seq(Events)] /\ published \in [Items -> 0 .. MaxEvents]
      /\ bitmap \in [Offsets -> {0, 1}]
  BY BoundAssumption
<1>3. \A t \in Tasks : Len(commands[t]) <= 2
  OBVIOUS
<1>4. TypeOK
  BY <1>1, <1>2, <1>3, BoundAssumption DEF TypeOK, Verdicts
<1>5. CommandsOK /\ EventsOnly /\ MappingsOK
  BY SlotAssumption DEF CommandsOK, EventsOnly, MappingsOK, Verdicts
<1>6. MappedBitWasWritten /\ ExcludedByOwnEvent /\ LatestIsTraced
  BY NoneAssumption DEF MappedBitWasWritten, ExcludedByOwnEvent, LatestIsTraced
<1> QED BY <1>4, <1>5, <1>6 DEF JobInv

\* Every step keeps the inductive invariant.
LEMMA StepJobInv == JobInv /\ [Next]_vars => JobInv'
<1> SUFFICES ASSUME JobInv, [Next]_vars PROVE JobInv'
  OBVIOUS
<1> USE TaskAssumption, SlotAssumption, NoneAssumption, BoundAssumption DEF JobInv, stream, job
<1>1. CASE UNCHANGED vars
  <2> USE <1>1 DEF vars
  <2>1. TypeOK' /\ EventsOnly' /\ MappingsOK' /\ MappedBitWasWritten' /\ ExcludedByOwnEvent'
    BY DEF TypeOK, EventsOnly, MappingsOK, MappedBitWasWritten, ExcludedByOwnEvent
  <2>2. CommandsOK'
    BY DEF CommandsOK, WorksOn
  <2>3. LatestIsTraced'
    BY DEF LatestIsTraced, Traced, Applied, InFlight
  <2> QED BY <2>1, <2>2, <2>3
<1>2. ASSUME NEW i \in Items, Publish(i) PROVE JobInv'
  <2> USE <1>2 DEF Publish
  <2>1. PICK event \in Events : topic' = [topic EXCEPT ![i] = Append(@, event)]
                              /\ latest' = [latest EXCEPT ![i] = event]
    OBVIOUS
  <2>2. topic[i] \in Seq(Events) /\ \A j \in Items : published'[j] >= published[j]
    BY DEF TypeOK
  <2>3. TypeOK'
    BY <2>1, <2>2, AppendToTopic DEF TypeOK
  <2>4. CommandsOK'
    <3>1. \A t \in Tasks, j \in Items, e \in Events : WorksOn(t, j, e) => WorksOn(t, j, e)'
      BY <2>2 DEF WorksOn, TypeOK
    <3> QED BY <3>1 DEF CommandsOK
  <2>5. EventsOnly'
    BY DEF EventsOnly, TypeOK
  <2>6. MappingsOK' /\ MappedBitWasWritten'
    BY DEF MappingsOK, MappedBitWasWritten
  <2>7. ExcludedByOwnEvent'
    BY DEF ExcludedByOwnEvent, MappingsOK, TypeOK
  <2>8. LatestIsTraced'
    <3> SUFFICES ASSUME NEW j \in Items, OwnHash(j), j \notin lost', latest'[j] # None
                 PROVE  Traced(j)'
      BY DEF LatestIsTraced
    <3>1. CASE j = i
      <4>1. topic'[i] = Append(topic[i], event) /\ latest'[i] = event
        BY <2>1 DEF TypeOK
      <4> QED BY <2>2, <3>1, <4>1, AppendToTopic DEF Traced
    <3>2. CASE j # i
      <4>1. topic'[j] = topic[j] /\ latest'[j] = latest[j]
        BY <2>1, <3>2 DEF TypeOK
      <4>2. Traced(j)
        BY <3>2, <4>1 DEF LatestIsTraced
      <4> QED BY <4>1, <4>2 DEF Traced, Applied, InFlight
    <3> QED BY <3>1, <3>2
  <2> QED BY <2>3, <2>4, <2>5, <2>6, <2>7, <2>8
<1>3. ASSUME NEW i \in Items, ProcessElement(i) PROVE JobInv'
  <2> USE <1>3 DEF ProcessElement
  <2>0. topic[i] \in Seq(Events) /\ topic[i] # <<>> /\ published[i] > 0
    BY DEF EventsOnly, TypeOK
  <2>1. PICK event \in Events : event = Head(topic[i])
    BY <2>0, TakeFromTopic
  <2> DEFINE next == BuildCommands(i, event)
  <2>2. next # <<>> /\ Len(next) = 2 /\ Head(next).item = i /\ next \in Seq(SinkCommands)
    BY <2>1, BuildCommandsParts, BuildCommandsType
  <2>3. TaskOf[i] \in Tasks /\ commands[TaskOf[i]] = <<>>
    OBVIOUS
  <2>4. /\ topic' = [topic EXCEPT ![i] = Tail(topic[i])] /\ topic'[i] = Tail(topic[i])
        /\ commands' = [commands EXCEPT ![TaskOf[i]] = next] /\ commands'[TaskOf[i]] = next
    BY <2>1, <2>3 DEF CommandsOK, TypeOK
  <2> HIDE DEF next
  <2>5. TypeOK'
    <3>1. topic' \in [Items -> Seq(Events)]
      BY <2>0, <2>4, TakeFromTopic DEF TypeOK
    <3>2. \A t \in Tasks : commands'[t] = IF t = TaskOf[i] THEN next ELSE commands[t]
      BY <2>4 DEF CommandsOK
    <3>3. ASSUME NEW t \in Tasks PROVE Len(commands'[t]) <= 2
      <4>1. CASE t = TaskOf[i]
        <5>1. commands'[t] = next
          BY <3>2, <4>1
        <5>2. Len(next) <= 2
          BY <2>2
        <5> QED BY <5>1, <5>2
      <4>2. CASE t # TaskOf[i]
        BY <3>2, <4>2 DEF TypeOK
      <4> QED BY <4>1, <4>2
    <3> QED BY <3>1, <3>3 DEF TypeOK
  <2>6. CommandsOK'
    <3>1. commands' \in [Tasks -> Seq(SinkCommands)]
      BY <2>2, <2>4 DEF CommandsOK
    <3>2. \A t \in Tasks : t # TaskOf[i] => commands'[t] = commands[t]
      BY <2>4 DEF CommandsOK
    <3>3. WorksOn(TaskOf[i], i, event)'
      BY <2>0, <2>4 DEF next, WorksOn
    <3>4. \A t \in Tasks, j \in Items, e \in Events :
             t # TaskOf[i] /\ WorksOn(t, j, e) => WorksOn(t, j, e)'
      BY <3>2 DEF WorksOn
    <3> QED BY <2>1, <3>1, <3>2, <3>3, <3>4 DEF CommandsOK
  <2>7. EventsOnly'
    BY <2>4 DEF EventsOnly, TypeOK
  <2>8. MappingsOK' /\ MappedBitWasWritten' /\ ExcludedByOwnEvent'
    BY DEF MappingsOK, MappedBitWasWritten, ExcludedByOwnEvent
  <2>9. LatestIsTraced'
    <3> SUFFICES ASSUME NEW j \in Items, OwnHash(j), j \notin lost', latest'[j] # None
                 PROVE  Traced(j)'
      BY DEF LatestIsTraced
    <3>1. Traced(j) /\ latest'[j] = latest[j]
      BY DEF LatestIsTraced
    <3>2. CASE j = i
      <4>1. topic[i][Len(topic[i])] = latest[i]
        BY <2>0, <3>1, <3>2 DEF Traced
      <4>2. CASE Tail(topic[i]) = <<>>
        <5>1. event = latest[i]
          BY <2>0, <2>1, <4>1, <4>2, TakeFromTopic
        <5> QED BY <2>4, <3>1, <3>2, <4>2, <5>1 DEF Traced, next
      <4>3. CASE Tail(topic[i]) # <<>>
        BY <2>0, <2>4, <3>1, <3>2, <4>1, <4>3, TakeFromTopic DEF Traced
      <4> QED BY <4>2, <4>3
    <3>3. CASE j # i
      <4>1. topic'[j] = topic[j]
        BY <2>4, <3>3 DEF TypeOK
      <4>2. CASE TaskOf[j] = TaskOf[i]
        <5>1. ~InFlight(j)'
          BY <2>2, <2>4, <3>3, <4>2 DEF InFlight
        <5>2. topic[j] # <<>> \/ Applied(j)
          BY <2>3, <3>1, <4>2, BuildCommandsParts, SetCommandParts DEF Traced
        <5> QED BY <3>1, <4>1, <5>1, <5>2 DEF Traced, Applied
      <4>3. CASE TaskOf[j] # TaskOf[i]
        <5>1. commands'[TaskOf[j]] = commands[TaskOf[j]]
          BY <2>4, <4>3 DEF CommandsOK
        <5> QED BY <3>1, <4>1, <5>1 DEF Traced, Applied, InFlight
      <4> QED BY <4>2, <4>3
    <3> QED BY <3>2, <3>3
  <2> QED BY <2>5, <2>6, <2>7, <2>8, <2>9
<1>4. ASSUME NEW t \in Tasks, Invoke(t) PROVE JobInv'
  <2> USE <1>4 DEF Invoke
  <2>1. PICK j \in Items, event \in Events :
           /\ TaskOf[j] = t /\ published[j] > 0
           /\ \/ commands[t] = BuildCommands(j, event)
              \/ commands[t] = << SetCommand(j) >> /\ HashOf[j] \in written
    BY DEF CommandsOK, WorksOn
  <2>2. HashOf[j] \in Offsets /\ HashOf[j] \in Nat /\ BitValue(event) \in {0, 1}
    BY OffsetsOfItems, BitValueType
  <2>3. CASE commands[t] = BuildCommands(j, event)
    <3>1. Head(commands[t]) = [op |-> "SETBIT", item |-> j, offset |-> HashOf[j], bit |-> BitValue(event)]
      BY <2>3, BuildCommandsParts
    <3>2. /\ bitmap' = [bitmap EXCEPT ![HashOf[j]] = BitValue(event)]
          /\ written' = written \cup {HashOf[j]} /\ idMap' = idMap
      BY <3>1
    <3>3. commands' = [commands EXCEPT ![t] = << SetCommand(j) >>]
      BY <2>3, BuildCommandsParts
    <3>4. << SetCommand(j) >> \in Seq(SinkCommands) /\ Len(<< SetCommand(j) >>) = 1
      BY <2>2 DEF SetCommand, SinkCommands
    <3> HIDE DEF Invoke
    <3>5. /\ UNCHANGED <<topic, published, latest, running, crashes, reader, lost>>
      BY DEF Invoke
    <3>6. TypeOK'
      <4>1. \A u \in Tasks : Len(commands'[u]) <= 2
        BY <3>3, <3>4 DEF TypeOK, CommandsOK
      <4> QED BY <2>2, <3>2, <3>5, <4>1 DEF TypeOK
    <3>7. CommandsOK'
      <4>1. commands' \in [Tasks -> Seq(SinkCommands)]
        BY <3>3, <3>4 DEF CommandsOK
      <4>2. \A u \in Tasks : u # t => commands'[u] = commands[u]
        BY <3>3 DEF CommandsOK
      <4>3. WorksOn(t, j, event)'
        BY <2>1, <3>2, <3>3, <3>5 DEF CommandsOK, WorksOn
      <4>4. \A u \in Tasks, i \in Items, e \in Events : u # t /\ WorksOn(u, i, e) => WorksOn(u, i, e)'
        BY <3>2, <3>5, <4>2 DEF WorksOn
      <4> QED BY <4>1, <4>2, <4>3, <4>4 DEF CommandsOK
    <3>8. EventsOnly'
      BY <2>1, <2>2, <3>2, <3>5 DEF EventsOnly, TypeOK
    <3>9. MappingsOK' /\ MappedBitWasWritten' /\ ExcludedByOwnEvent'
      BY <3>2, <3>5 DEF MappingsOK, MappedBitWasWritten, ExcludedByOwnEvent
    <3>10. LatestIsTraced'
      <4> SUFFICES ASSUME NEW i \in Items, OwnHash(i), i \notin lost', latest'[i] # None
                   PROVE  Traced(i)'
        BY DEF LatestIsTraced
      <4>1. Traced(i) /\ topic'[i] = topic[i] /\ latest'[i] = latest[i]
        BY <3>5 DEF LatestIsTraced
      <4>2. CASE topic[i] # <<>>
        BY <4>1, <4>2 DEF Traced
      <4>3. CASE topic[i] = <<>> /\ i = j
        <5>1. InFlight(i) /\ commands[t] # << SetCommand(i) >>
          BY <2>1, <2>3, <3>1, <4>3, BuildCommandsParts DEF InFlight
        <5>2. commands[t] = BuildCommands(i, latest[i])
          BY <2>1, <4>1, <4>3, <5>1 DEF Traced
        <5>3. BitValue(event) = BitValue(latest[i])
          BY <2>3, <4>3, <5>2 DEF BuildCommands
        <5>4. commands'[t] = << SetCommand(i) >> /\ bitmap'[HashOf[i]] = BitValue(latest[i])
          BY <2>2, <3>2, <3>3, <4>3, <5>3 DEF CommandsOK, TypeOK
        <5> QED BY <2>1, <4>1, <4>3, <5>4 DEF Traced
      <4>4. CASE topic[i] = <<>> /\ i # j
        <5>1. HashOf[i] # HashOf[j] /\ bitmap'[HashOf[i]] = bitmap[HashOf[i]] /\ idMap' = idMap
          BY <2>2, <3>2, <4>4, OffsetsOfItems DEF OwnHash, TypeOK
        <5>2. CASE TaskOf[i] = t
          <6>1. commands'[t] = << SetCommand(j) >> /\ ~InFlight(i)'
            BY <3>3, <4>4, <5>2 DEF InFlight, CommandsOK, SetCommand
          <6>2. commands[t] # BuildCommands(i, latest[i]) /\ commands[t] # << SetCommand(i) >>
            BY <3>1, <4>4 DEF BuildCommands, SetCommand
          <6> QED BY <4>1, <4>4, <5>1, <5>2, <6>1, <6>2 DEF Traced, Applied
        <5>3. CASE TaskOf[i] # t
          <6>1. commands'[TaskOf[i]] = commands[TaskOf[i]]
            BY <3>3, <5>3 DEF CommandsOK
          <6> QED BY <4>1, <5>1, <6>1 DEF Traced, Applied, InFlight
        <5> QED BY <5>2, <5>3
      <4> QED BY <4>2, <4>3, <4>4
    <3> QED BY <3>6, <3>7, <3>8, <3>9, <3>10
  <2>4. CASE commands[t] = << SetCommand(j) >> /\ HashOf[j] \in written
    <3>1. Head(commands[t]) = SetCommand(j) /\ Tail(commands[t]) = <<>>
      BY <2>4, SetCommandParts
    <3>2. idMap' = [idMap EXCEPT ![j] = HashOf[j]] /\ bitmap' = bitmap /\ written' = written
      BY <3>1 DEF SetCommand
    <3>3. commands' = [commands EXCEPT ![t] = <<>>]
      BY <3>1
    <3> HIDE DEF Invoke
    <3>5. /\ UNCHANGED <<topic, published, latest, running, crashes, reader, lost>>
      BY DEF Invoke
    <3>6. TypeOK'
      <4>1. \A u \in Tasks : Len(commands'[u]) <= 2
        BY <3>3 DEF TypeOK, CommandsOK
      <4> QED BY <2>2, <3>2, <3>5, <4>1 DEF TypeOK
    <3>7. CommandsOK'
      <4>1. commands' \in [Tasks -> Seq(SinkCommands)]
        BY <3>3 DEF CommandsOK
      <4>2. \A u \in Tasks : u # t => commands'[u] = commands[u]
        BY <3>3 DEF CommandsOK
      <4>3. commands'[t] = <<>>
        BY <3>3 DEF CommandsOK
      <4>4. \A u \in Tasks, i \in Items, e \in Events : u # t /\ WorksOn(u, i, e) => WorksOn(u, i, e)'
        BY <3>2, <3>5, <4>2 DEF WorksOn
      <4> QED BY <4>1, <4>2, <4>3, <4>4 DEF CommandsOK
    <3>8. EventsOnly' /\ ExcludedByOwnEvent'
      BY <3>2, <3>5 DEF EventsOnly, ExcludedByOwnEvent
    <3>9. MappingsOK' /\ MappedBitWasWritten'
      BY <2>4, <3>2, <3>5 DEF MappingsOK, MappedBitWasWritten, TypeOK
    <3>10. LatestIsTraced'
      <4> SUFFICES ASSUME NEW i \in Items, OwnHash(i), i \notin lost', latest'[i] # None
                   PROVE  Traced(i)'
        BY DEF LatestIsTraced
      <4>1. Traced(i) /\ topic'[i] = topic[i] /\ latest'[i] = latest[i] /\ bitmap' = bitmap
        BY <3>2, <3>5 DEF LatestIsTraced
      <4>2. CASE topic[i] # <<>>
        BY <4>1, <4>2 DEF Traced
      <4>3. CASE topic[i] = <<>> /\ i = j
        <5>1. InFlight(i)
          BY <2>1, <2>4, <4>3, SetCommandParts DEF InFlight
        <5>2. commands[t] # BuildCommands(i, latest[i])
          BY <2>4, <4>3, BuildCommandsParts
        <5>3. bitmap[HashOf[i]] = BitValue(latest[i])
          BY <2>1, <4>1, <4>3, <5>1, <5>2 DEF Traced
        <5>4. commands'[t] = <<>> /\ idMap'[i] = HashOf[i]
          BY <3>2, <3>3, <4>3 DEF CommandsOK, TypeOK
        <5> QED BY <2>1, <4>1, <4>3, <5>3, <5>4 DEF Traced, Applied, InFlight
      <4>4. CASE topic[i] = <<>> /\ i # j
        <5>1. idMap'[i] = idMap[i]
          BY <3>2, <4>4 DEF TypeOK
        <5>2. CASE TaskOf[i] = t
          <6>1. ~InFlight(i)'
            BY <3>3, <5>2 DEF InFlight, CommandsOK
          <6>2. commands[t] # BuildCommands(i, latest[i]) /\ commands[t] # << SetCommand(i) >>
            BY <3>1, <4>4 DEF BuildCommands, SetCommand
          <6> QED BY <4>1, <4>4, <5>1, <5>2, <6>1, <6>2 DEF Traced, Applied
        <5>3. CASE TaskOf[i] # t
          <6>1. commands'[TaskOf[i]] = commands[TaskOf[i]]
            BY <3>3, <5>3 DEF CommandsOK
          <6> QED BY <4>1, <5>1, <6>1 DEF Traced, Applied, InFlight
        <5> QED BY <5>2, <5>3
      <4> QED BY <4>2, <4>3, <4>4
    <3> QED BY <3>6, <3>7, <3>8, <3>9, <3>10
  <2> QED BY <2>1, <2>3, <2>4
<1>5. CASE Crash
  <2> USE <1>5 DEF Crash
  <2>1. \A t \in Tasks : commands'[t] = <<>> /\ Len(commands'[t]) <= 2
    OBVIOUS
  <2>2. TypeOK'
    <3>1. crashes' \in 0 .. MaxCrashes /\ lost' \subseteq Items
      BY DEF TypeOK
    <3> QED BY <2>1, <3>1 DEF TypeOK
  <2>3. CommandsOK'
    BY <2>1 DEF CommandsOK
  <2>4. EventsOnly' /\ MappingsOK' /\ MappedBitWasWritten' /\ ExcludedByOwnEvent'
    BY DEF EventsOnly, MappingsOK, MappedBitWasWritten, ExcludedByOwnEvent
  <2>5. LatestIsTraced'
    <3> SUFFICES ASSUME NEW i \in Items, OwnHash(i), i \notin lost', latest'[i] # None
                 PROVE  Traced(i)'
      BY DEF LatestIsTraced
    <3>1. Traced(i) /\ ~InFlight(i) /\ latest[i] \in Events
      BY DEF LatestIsTraced, TypeOK
    <3>2. commands[TaskOf[i]] \notin {BuildCommands(i, latest[i]), << SetCommand(i) >>}
      <4>1. BuildCommands(i, latest[i]) # <<>> /\ Head(BuildCommands(i, latest[i])).item = i
        BY BuildCommandsParts
      <4>2. << SetCommand(i) >> # <<>> /\ Head(<< SetCommand(i) >>).item = i
        BY SetCommandParts
      <4> QED BY <3>1, <4>1, <4>2 DEF InFlight
    <3>3. ~InFlight(i)'
      BY <2>1 DEF InFlight
    <3>4. topic[i] # <<>> \/ Applied(i)
      BY <3>1, <3>2 DEF Traced
    <3> QED BY <3>1, <3>3, <3>4 DEF Traced, Applied
  <2> QED BY <2>2, <2>3, <2>4, <2>5
<1>6. CASE Restart
  <2> USE <1>6 DEF Restart
  <2>1. TypeOK'
    BY DEF TypeOK
  <2>2. CommandsOK'
    BY DEF CommandsOK, WorksOn
  <2>3. EventsOnly' /\ MappingsOK' /\ MappedBitWasWritten' /\ ExcludedByOwnEvent'
    BY DEF EventsOnly, MappingsOK, MappedBitWasWritten, ExcludedByOwnEvent
  <2>4. LatestIsTraced'
    BY DEF LatestIsTraced, Traced, Applied, InFlight
  <2> QED BY <2>1, <2>2, <2>3, <2>4
<1>7. ASSUME NEW i \in Items, LookUpOffset(i) PROVE JobInv'
  <2> USE <1>7 DEF LookUpOffset
  <2>1. TypeOK'
    BY DEF TypeOK, Verdicts
  <2>2. CommandsOK'
    BY DEF CommandsOK, WorksOn
  <2>3. EventsOnly' /\ MappedBitWasWritten' /\ ExcludedByOwnEvent'
    BY DEF EventsOnly, MappedBitWasWritten, ExcludedByOwnEvent
  <2>4. MappingsOK'
    BY DEF MappingsOK, TypeOK, Verdicts
  <2>5. LatestIsTraced'
    BY DEF LatestIsTraced, Traced, Applied, InFlight
  <2> QED BY <2>1, <2>2, <2>3, <2>4, <2>5
<1>8. CASE GetBit
  <2> USE <1>8 DEF GetBit
  <2>1. TypeOK'
    BY DEF TypeOK, MappingsOK, Verdicts
  <2>2. CommandsOK'
    BY DEF CommandsOK, WorksOn
  <2>3. EventsOnly' /\ MappedBitWasWritten'
    BY DEF EventsOnly, MappedBitWasWritten
  <2>4. MappingsOK'
    BY DEF MappingsOK, Verdicts
  <2>5. ExcludedByOwnEvent'
    <3> SUFFICES ASSUME reader'.verdict = "excluded" PROVE ExcludedByOwnEvent'
      BY DEF ExcludedByOwnEvent
    <3>1. /\ reader'.item = reader.item /\ reader'.offset = reader.offset
          /\ reader.item \in Items /\ reader.offset \in {SeedOf[reader.item], HashOf[reader.item]}
          /\ bitmap[reader.offset] = 1
      BY DEF MappingsOK, IsOutOfStock
    <3>2. reader.offset \in written
      BY <3>1, OffsetsOfItems DEF EventsOnly
    <3>3. PICK j \in Items : published[j] > 0 /\ HashOf[j] = reader.offset
      BY <3>2 DEF EventsOnly
    <3>4. OwnOffsets(reader.item) => published[reader.item] > 0
      BY <3>1, <3>3 DEF OwnOffsets
    <3> QED BY <3>1, <3>2, <3>3, <3>4 DEF ExcludedByOwnEvent, OwnOffsets
  <2>6. LatestIsTraced'
    BY DEF LatestIsTraced, Traced, Applied, InFlight
  <2> QED BY <2>1, <2>2, <2>3, <2>4, <2>5, <2>6
<1> QED
  BY <1>1, <1>2, <1>3, <1>4, <1>5, <1>6, <1>7, <1>8 DEF Next, JobStep

\* The inductive invariant holds always.
LEMMA JobInvariant == Spec => []JobInv
BY InitJobInv, StepJobInv, PTL DEF Spec

-----------------------------------------------------------------------------

\* The streams, the store and the reader keep their types, and a subtask never
\* holds more than the two commands of one event.
THEOREM TypeCorrect == Spec => []TypeOK
<1>1. JobInv => TypeOK
  BY DEF JobInv
<1> QED BY <1>1, JobInvariant, PTL

\* The order of buildCommands is enough: wherever the job dies, a mapping that
\* leads to a hashed offset leads to a bit the job has written.
THEOREM MappingFollowsBit == Spec => []MappedBitWasWritten
<1>1. JobInv => MappedBitWasWritten
  BY DEF JobInv
<1> QED BY <1>1, JobInvariant, PTL

\* Between the reader's two round trips the job may change the bit, the mapping
\* or both, and may restart; an exclusion is still the work of an event whose
\* hash is the offset read, of the item itself unless hashes collide.
THEOREM ExclusionsAreOwn == Spec => []ExcludedByOwnEvent
<1>1. JobInv => ExcludedByOwnEvent
  BY DEF JobInv
<1> QED BY <1>1, JobInvariant, PTL

\* What the job is done with is in the store: for an item whose hash is its own
\* no interleaving with the other items of its subtask, and no crash that did
\* not drop the event, leaves an older bit or mapping behind.
THEOREM DrainedItemsAreApplied == Spec => []DrainedIsApplied
<1>1. JobInv => DrainedIsApplied
  <2> SUFFICES ASSUME JobInv, NEW i \in Items, OwnHash(i), Drained(i) PROVE Applied(i)
    BY DEF DrainedIsApplied
  <2>1. Traced(i) /\ topic[i] = <<>> /\ commands[TaskOf[i]] = <<>>
    BY DEF JobInv, LatestIsTraced, Drained
  <2> QED BY <2>1, BuildCommandsParts, SetCommandParts DEF Traced
<1> QED BY <1>1, JobInvariant, PTL

=============================================================================
