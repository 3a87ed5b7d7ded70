----------------------------- MODULE ClickWindow -----------------------------
(***************************************************************************)
(* The click branch of the Flink job: user events are counted per user     *)
(* over sliding windows in event time (ClickWindowFunction) and the count  *)
(* of the window that fired last stands in feat:user:{id}:clicks_1h.       *)
(*                                                                         *)
(* A window fires when the watermark passes its end.  The watermark is the *)
(* least of those of the source's subtasks, as many as the job's           *)
(* parallelism, and that of a subtask is as far behind the partition it    *)
(* reads that is the furthest back as events may be out of order.  Without *)
(* withIdleness a partition that has no events holds it back, and so does  *)
(* a subtask that has no partition.  An event that comes after its window  *)
(* fired is not counted there.  A restart forgets windows and watermarks   *)
(* and skips to the latest offsets.  What the two commands of the sink and *)
(* the time to live of a key mean is told apart in SessionStream; here a   *)
(* key is written at once and stays.                                       *)
(***************************************************************************)
EXTENDS Integers, FiniteSets, FiniteSetsExt, Sequences, SequencesExt

CONSTANTS
    Users,
    Partitions,  \* numbers
    PartitionOf, \* the partition of a user
    MaxParallelism, \* bound on FLINK_PARALLELISM
    Slide,       \* 1 minute
    Slides,      \* slides in a window: 60
    OutOfOrder,  \* the bound on lateness: 5 s
    Kinds,       \* what may be published, [user, time, click]
    MaxEvents,   \* bound on the events published
    MaxBacklog,  \* bound on the events of a partition that wait for the job
    MaxCrashes   \* bound on the failures of the job

ASSUME PartitionAssumption == Partitions \subseteq Nat /\ PartitionOf \in [Users -> Partitions]
ASSUME ParallelismAssumption == MaxParallelism \in Nat \ {0}
ASSUME WindowAssumption == Slide \in Nat \ {0} /\ Slides \in Nat \ {0} /\ OutOfOrder \in Nat
ASSUME KindsAssumption == Kinds \subseteq [user : Users, time : Nat, click : BOOLEAN]
ASSUME BoundAssumption == MaxEvents \in Nat /\ MaxBacklog \in Nat /\ MaxCrashes \in Nat

VARIABLES
    topic,     \* events of a partition that the job has not read
    published, \* all events, an event is [id, user, time, click]
    parallelism, \* env.parallelism
    running, crashes,
    newest,    \* per partition the greatest event time read, or Never
    mark,      \* per subtask of the source the watermark it last emitted, or Never
    panes,     \* per window and user the events it holds, by window end
    clicks,    \* feat:user:{id}:clicks_1h, [end, count], or Absent
    missed,    \* history: events the job skipped, read before it failed, or dropped as late
               \* when they were further behind than OutOfOrder
    written    \* history: users whose key was written since the job last started

kafka == <<topic, published>>
job   == <<running, crashes, newest, mark, panes>>
vars  == <<kafka, parallelism, job, clicks, missed, written>>

Never  == -1 - OutOfOrder - 1   \* before any watermark
Absent == [end |-> Never, count |-> 0]

Size == Slide * Slides
Ends == {Slide * n : n \in 1 .. (Max({kind.time : kind \in Kinds}) \div Slide) + Slides}

\* SlidingEventTimeWindows: the windows an event belongs to, by their ends.
WindowsOf(time) == {end \in Ends : end - Size <= time /\ time < end}

\* The subtasks of the source, to which the partitions are dealt out in turn.
Sources == 0 .. parallelism - 1
SplitsOf(s) == {p \in Partitions : p % parallelism = s}

Watermark == Min({mark[s] : s \in Sources})

\* A window is over when the watermark reached the last time in it.
Over(end) == end - 1 <= Watermark

NoPanes == [end \in Ends |-> [u \in Users |-> {}]]

Init ==
    /\ topic = [p \in Partitions |-> <<>>] /\ published = {}
    /\ parallelism \in 1 .. MaxParallelism
    /\ running = TRUE /\ crashes = 0
    /\ newest = [p \in Partitions |-> Never] /\ mark = [s \in Sources |-> Never]
    /\ panes = NoPanes
    /\ clicks = [u \in Users |-> Absent] /\ missed = {} /\ written = {}

Unread == UNION {ToSet(topic[p]) : p \in Partitions}

\* Timers of the watermark that are still to fire, with the user.
Due == {d \in Ends \X Users : Over(d[1]) /\ panes[d[1]][d[2]] # {}}

-----------------------------------------------------------------------------

\* Events may be published out of the order of their timestamps.
Publish(kind) ==
    LET p       == PartitionOf[kind.user]
        earlier == {e \in published : e.user = kind.user}
        event   == [id |-> Cardinality(earlier), user |-> kind.user,
                    time |-> kind.time, click |-> kind.click] IN
    /\ Cardinality(published) < MaxEvents /\ Len(topic[p]) < MaxBacklog
    /\ published' = published \cup {event}
    /\ topic' = [topic EXCEPT ![p] = Append(@, event)]
    /\ UNCHANGED <<parallelism, job, clicks, missed, written>>

\* The source reads an event and the window operator puts it into the windows
\* that are not over; timers that are due fire before.
ProcessElement(p) ==
    /\ running /\ topic[p] # <<>> /\ Due = {}
    /\ LET event == Head(topic[p])
           late  == {end \in WindowsOf(event.time) : Over(end)} IN
       /\ newest' = [newest EXCEPT ![p] = Max({@, event.time})]
       /\ panes' = [end \in Ends |->
                       IF end \in WindowsOf(event.time) \ late
                       THEN [panes[end] EXCEPT ![event.user] = @ \cup {event}]
                       ELSE panes[end]]
       /\ missed' = IF late = {} \/ event.time + OutOfOrder >= newest[p]
                    THEN missed ELSE missed \cup {event}
    /\ topic' = [topic EXCEPT ![p] = Tail(@)]
    /\ UNCHANGED <<published, parallelism, running, crashes, mark, clicks, written>>

\* A mistake: a partition without events does not hold the watermark back.
EmitOfSome(s) ==
    LET some == {p \in SplitsOf(s) : newest[p] # Never} IN
    /\ running /\ some # {}
    /\ mark' = [mark EXCEPT ![s] = Min({newest[p] : p \in some}) - OutOfOrder - 1]
    /\ UNCHANGED <<kafka, parallelism, running, crashes, newest, panes, clicks, missed, written>>

\* A mistake: the watermark follows the newest event, which is not out of order.
EmitNewest(s) ==
    /\ running /\ SplitsOf(s) # {} /\ \A p \in SplitsOf(s) : newest[p] # Never
    /\ mark' = [mark EXCEPT ![s] = Min({newest[p] : p \in SplitsOf(s)})]
    /\ UNCHANGED <<kafka, parallelism, running, crashes, newest, panes, clicks, missed, written>>

\* forBoundedOutOfOrderness of each partition, emitted every now and then.
EmitWatermark(s) ==
    /\ running /\ SplitsOf(s) # {} /\ \A p \in SplitsOf(s) : newest[p] # Never
    /\ mark' = [mark EXCEPT ![s] = Min({newest[p] : p \in SplitsOf(s)}) - OutOfOrder - 1]
    /\ UNCHANGED <<kafka, parallelism, running, crashes, newest, panes, clicks, missed, written>>

(* ClickWindowFunction *)

\* A mistake: views are counted as well.
ClickCountOfAll(events) == Cardinality(events)

ClickCount(events) == Cardinality({e \in events : e.click})

\* A mistake: the windows fire in any order.
ProcessAnyWindow(u) ==
    \E end \in Ends :
        /\ running /\ <<end, u>> \in Due
        /\ clicks' = [clicks EXCEPT ![u] = [end |-> end, count |-> ClickCount(panes[end][u])]]
        /\ panes' = [panes EXCEPT ![end][u] = {}]
        /\ written' = written \cup {u}
        /\ UNCHANGED <<kafka, parallelism, running, crashes, newest, mark, missed>>

\* A mistake: a window without a click is not written, and the count stays.
ProcessClicks(u) ==
    \E end \in Ends :
        /\ running /\ <<end, u>> \in Due /\ ClickCount(panes[end][u]) > 0
        /\ \A other \in Ends : <<other, u>> \in Due => end <= other
        /\ clicks' = [clicks EXCEPT ![u] = [end |-> end, count |-> ClickCount(panes[end][u])]]
        /\ panes' = [panes EXCEPT ![end][u] = {}]
        /\ written' = written \cup {u}
        /\ UNCHANGED <<kafka, parallelism, running, crashes, newest, mark, missed>>

\* The windows of a user fire in the order of their ends; one without an event
\* does not fire.
Process(u) ==
    \E end \in Ends :
        /\ running /\ <<end, u>> \in Due
        /\ \A other \in Ends : <<other, u>> \in Due => end <= other
        /\ clicks' = [clicks EXCEPT ![u] = [end |-> end, count |-> ClickCount(panes[end][u])]]
        /\ panes' = [panes EXCEPT ![end][u] = {}]
        /\ written' = written \cup {u}
        /\ UNCHANGED <<kafka, parallelism, running, crashes, newest, mark, missed>>

-----------------------------------------------------------------------------

Crash ==
    /\ running /\ crashes < MaxCrashes
    /\ running' = FALSE /\ crashes' = crashes + 1
    /\ missed' = missed \cup (published \ Unread)
    /\ panes' = NoPanes
    /\ newest' = [p \in Partitions |-> Never] /\ mark' = [s \in Sources |-> Never]
    /\ written' = {}
    /\ UNCHANGED <<kafka, parallelism, clicks>>

Restart ==
    /\ ~running
    /\ running' = TRUE
    /\ missed' = missed \cup Unread
    /\ topic' = [p \in Partitions |-> <<>>]
    /\ UNCHANGED <<published, parallelism, crashes, newest, mark, panes, clicks, written>>

JobStep ==
    \/ \E p \in Partitions : ProcessElement(p)
    \/ \E s \in Sources : EmitWatermark(s)
    \/ \E u \in Users : Process(u)

Next ==
    \/ \E kind \in Kinds : Publish(kind)
    \/ JobStep \/ Crash \/ Restart

Spec == Init /\ [][Next]_vars

\* The job reads, emits watermarks and fires, and the container restarts.
FairSpec ==
    /\ Spec /\ WF_vars(Restart)
    /\ \A p \in Partitions : WF_vars(ProcessElement(p))
    /\ \A s \in 0 .. MaxParallelism - 1 : WF_vars(EmitWatermark(s))
    /\ \A u \in Users : WF_vars(Process(u))

-----------------------------------------------------------------------------

TypeOK ==
    /\ \A p \in Partitions : Len(topic[p]) <= Cardinality(published)
    /\ Cardinality(published) <= MaxEvents /\ crashes \in 0 .. MaxCrashes
    /\ \A s \in Sources : mark[s] = Never \/ SplitsOf(s) # {}
    /\ \A s \in Sources : \A p \in SplitsOf(s) :
          mark[s] = Never \/ mark[s] <= newest[p] - OutOfOrder - 1
    /\ \A end \in Ends, u \in Users : panes[end][u] \subseteq published
    /\ clicks \in [Users -> {Absent} \cup [end : Ends, count : 0 .. MaxEvents]]

\* The clicks of a user in the window, whatever became of them.
Clicked(u, end) ==
    {e \in published : e.user = u /\ e.click /\ end - Size <= e.time /\ e.time < end}

\* Every subtask of the source reads some partition, and all its partitions
\* are past the window and the bound on lateness.
AllPast(end) ==
    /\ \A s \in Sources : SplitsOf(s) # {}
    /\ \A p \in Partitions : newest[p] - OutOfOrder >= end

\* A count never exceeds the clicks of its window, and once the window is over
\* and fired it equals them but for events that a restart lost and those that
\* were both late and out of bounds: what a partition delivers no further
\* behind its newest event than OutOfOrder is counted, however the partitions
\* run ahead of each other and whenever watermarks are emitted.  No count is
\* written while some subtask of the source has no partition, or a partition of
\* any user has not passed the window.
CountsWindow ==
    \A u \in Users : clicks[u] # Absent =>
        LET end == clicks[u].end
            all == Clicked(u, end) IN
        /\ clicks[u].count <= Cardinality(all)
        /\ Over(end) /\ panes[end][u] = {} =>
              clicks[u].count >= Cardinality(all \ (missed \cup Unread))
        /\ u \in written => AllPast(end)

\* The count moves forward: an older window never overwrites a newer one.  Only
\* the first window of a user that fires after a restart may, for the watermark
\* starts anew.
WindowsGoForward ==
    [][\A u \in Users :
          u \in written => clicks[u].end <= clicks'[u].end]_vars

\* A window with events that every partition has left behind, no subtask of the
\* source being without one, is written in the end, or lost with a restart: a
\* user's last windows do not wait for more events of that user.
Passed(u) == \E end \in Ends : panes[end][u] # {} /\ AllPast(end)

WindowsFire == \A u \in Users : Passed(u) ~> ~Passed(u)
=============================================================================
