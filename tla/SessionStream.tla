---------------------------- MODULE SessionStream ----------------------------
(***************************************************************************)
(* The session branch of the Flink job: user events, in topic partitions   *)
(* keyed by user, are keyed again by session (SessionProcessor) and        *)
(* written by DragonflySink with two commands, ZADD and EXPIRE, to a       *)
(* sorted set that lives for a while after the last EXPIRE.                *)
(*                                                                         *)
(* event.go gives a record an RFC 3339 string as its timestamp, UserEvent  *)
(* declares a Long: a record of the event collector (text) does not        *)
(* deserialize and ends the job.  The job keeps no checkpoints and starts  *)
(* again at the latest offsets.                                            *)
(***************************************************************************)
EXTENDS Naturals, FiniteSets, Sequences

CONSTANTS
    Sessions,     \* session ids, one of them the empty string of events without one
    Partitions,   \* partitions of the user-events topic
    PartitionsOf, \* the partitions with events of a session
    Tasks,        \* parallel subtasks (2 by default)
    TaskOf,       \* the subtask keyBy sends a session to
    TTL,          \* SESSION_TTL_SECONDS, in ticks
    MaxEvents,    \* bound on the records published
    MaxCrashes    \* bound on the failures that no record causes

ASSUME RoutingAssumption ==
    /\ PartitionsOf \in [Sessions -> SUBSET Partitions]
    /\ TaskOf \in [Sessions -> Tasks]
ASSUME TTLAssumption == TTL \in Nat \ {0}
ASSUME BoundAssumption == MaxEvents \in Nat /\ MaxCrashes \in Nat

Ids == 1 .. MaxEvents  \* event ids, in the order of their timestamps

VARIABLES
    topic,    \* records of a partition that the job has not read
    count,    \* records published so far
    state,    \* of the job: "running", "failed" or, through a record, "poisoned"
    crashes,
    pending,  \* per subtask the event whose commands are under way
    last,     \* ValueState lastEventTime, 0 for null
    members,  \* the sorted set of a session; the id of an event is its score
    ttl,      \* its time to live: ticks left, Unlimited without an expiry
    idle,     \* history: ticks since the last ZADD, up to TTL
    cut       \* history: the last ZADD was not followed by its EXPIRE, the job died

kafka == <<topic, count>>
job   == <<state, crashes, pending, last>>
store == <<members, ttl, idle>>
vars  == <<kafka, job, store, cut>>

Unlimited == TTL + 1
Nothing   == [step |-> "none"]

Init ==
    /\ topic = [p \in Partitions |-> <<>>] /\ count = 0
    /\ state = "running" /\ crashes = 0
    /\ pending = [t \in Tasks |-> Nothing] /\ last = [s \in Sessions |-> 0]
    /\ members = [s \in Sessions |-> {}] /\ ttl = [s \in Sessions |-> Unlimited]
    /\ idle = [s \in Sessions |-> TTL] /\ cut = {}

\* Is the subtask of a session between the two commands for it?
Between(s) ==
    LET now == pending[TaskOf[s]] IN now.step = "expire" /\ now.session = s

-----------------------------------------------------------------------------

\* The event collector publishes records with text, other producers without.
Publish(s, p, text) ==
    /\ count < MaxEvents /\ p \in PartitionsOf[s]
    /\ count' = count + 1
    /\ topic' = [topic EXCEPT ![p] = Append(@, [session |-> s, id |-> count', text |-> text])]
    /\ UNCHANGED <<job, store, cut>>

\* A mistake: a failed job leaves commands for the next one.
FailKeepingPending(how) ==
    /\ state' = how
    /\ pending' = pending
    /\ last' = [s \in Sessions |-> 0]
    /\ cut' = cut \cup {s \in Sessions : Between(s)}

\* The job dies: what its subtasks had in hand is gone.
Fail(how) ==
    /\ state' = how
    /\ pending' = [t \in Tasks |-> Nothing]
    /\ last' = [s \in Sessions |-> 0]
    /\ cut' = cut \cup {s \in Sessions : Between(s)}

(* JsonDeserializationSchema.deserialize *)

\* A text timestamp is no Long: Jackson throws, and the task with it.
Deserialize(p) ==
    /\ state = "running" /\ topic[p] # <<>> /\ Head(topic[p]).text
    /\ Fail("poisoned")
    /\ UNCHANGED <<kafka, crashes, store>>

(* SessionProcessor.processElement *)

ProcessElement(p) ==
    /\ state = "running" /\ topic[p] # <<>> /\ ~Head(topic[p]).text
    /\ LET event == Head(topic[p])
           t     == TaskOf[event.session] IN
       /\ pending[t] = Nothing
       /\ last' = [last EXCEPT ![event.session] = event.id]
       /\ pending' = [pending EXCEPT ![t] =
                        [step |-> "zadd", session |-> event.session, id |-> event.id]]
    /\ topic' = [topic EXCEPT ![p] = Tail(@)]
    /\ UNCHANGED <<count, state, crashes, store, cut>>

(* DragonflySink.invoke *)

\* A mistake: the expiry is set when the key is new, and never renewed.
ZAddExpiringOnce(t) ==
    /\ pending[t].step = "zadd"
    /\ LET s == pending[t].session IN
       /\ members' = [members EXCEPT ![s] = @ \cup {pending[t].id}]
       /\ idle' = [idle EXCEPT ![s] = 0]
       /\ cut' = cut \ {s}
       /\ pending' = [pending EXCEPT ![t] =
                        IF members[s] = {} THEN [@ EXCEPT !.step = "expire"] ELSE Nothing]
    /\ UNCHANGED <<kafka, state, crashes, last, ttl>>

\* A mistake: no expiry at all.
ZAddAlone(t) ==
    /\ pending[t].step = "zadd"
    /\ LET s == pending[t].session IN
       /\ members' = [members EXCEPT ![s] = @ \cup {pending[t].id}]
       /\ idle' = [idle EXCEPT ![s] = 0]
       /\ cut' = cut \ {s}
    /\ pending' = [pending EXCEPT ![t] = Nothing]
    /\ UNCHANGED <<kafka, state, crashes, last, ttl>>

ZAdd(t) ==
    /\ pending[t].step = "zadd"
    /\ LET s == pending[t].session IN
       /\ members' = [members EXCEPT ![s] = @ \cup {pending[t].id}]
       /\ idle' = [idle EXCEPT ![s] = 0]
       /\ cut' = cut \ {s}
    /\ pending' = [pending EXCEPT ![t].step = "expire"]
    /\ UNCHANGED <<kafka, state, crashes, last, ttl>>

\* EXPIRE on a key that is gone does nothing.
Expire(t) ==
    /\ pending[t].step = "expire"
    /\ LET s == pending[t].session IN
       ttl' = IF members[s] = {} THEN ttl ELSE [ttl EXCEPT ![s] = TTL]
    /\ pending' = [pending EXCEPT ![t] = Nothing]
    /\ UNCHANGED <<kafka, state, crashes, last, members, idle, cut>>

-----------------------------------------------------------------------------
(* Failures and time *)

\* A command or a machine fails, at any point.
Crash ==
    /\ state = "running" /\ crashes < MaxCrashes
    /\ Fail("failed") /\ crashes' = crashes + 1
    /\ UNCHANGED <<kafka, store>>

\* A mistake: the job starts where it stopped, without stepping over a record.
RestartAtRecord ==
    /\ state # "running"
    /\ state' = "running"
    /\ UNCHANGED <<kafka, crashes, pending, last, store, cut>>

\* restart: on-failure, and OffsetsInitializer.latest().
Restart ==
    /\ state # "running"
    /\ state' = "running"
    /\ topic' = [p \in Partitions |-> <<>>]
    /\ UNCHANGED <<count, crashes, pending, last, store, cut>>

\* DragonflyDB drops a key when its time is up.
Tick ==
    LET due(s) == ttl[s] = 1 IN
    /\ members' = [s \in Sessions |-> IF due(s) THEN {} ELSE members[s]]
    /\ ttl' = [s \in Sessions |-> IF due(s) \/ ttl[s] = Unlimited THEN Unlimited ELSE ttl[s] - 1]
    /\ idle' = [s \in Sessions |-> IF idle[s] < TTL THEN idle[s] + 1 ELSE TTL]
    /\ UNCHANGED <<kafka, job, cut>>

JobStep ==
    \/ \E p \in Partitions : Deserialize(p) \/ ProcessElement(p)
    \/ \E t \in Tasks : ZAdd(t) \/ Expire(t)

Next ==
    \/ \E s \in Sessions, p \in Partitions, text \in BOOLEAN : Publish(s, p, text)
    \/ JobStep \/ Crash \/ Restart \/ Tick

Spec == Init /\ [][Next]_vars

\* The job works on and the container restarts.
FairSpec ==
    /\ Spec /\ WF_vars(Restart)
    /\ \A p \in Partitions : WF_vars(Deserialize(p)) /\ WF_vars(ProcessElement(p))
    /\ \A t \in Tasks : WF_vars(ZAdd(t)) /\ WF_vars(Expire(t))

-----------------------------------------------------------------------------

TypeOK ==
    /\ \A p \in Partitions : Len(topic[p]) <= count
    /\ count \in 0 .. MaxEvents /\ crashes \in 0 .. MaxCrashes
    /\ state \in {"running", "failed", "poisoned"}
    /\ \A t \in Tasks : pending[t] # Nothing =>
          state = "running" /\ pending[t].id \in Ids /\ TaskOf[pending[t].session] = t
    /\ last \in [Sessions -> Ids \cup {0}] /\ members \in [Sessions -> SUBSET Ids]
    /\ ttl \in [Sessions -> 1 .. Unlimited] /\ idle \in [Sessions -> 0 .. TTL]
    /\ cut \subseteq Sessions

\* A session without an expiry stays for ever.  There is one only while
\* its subtask is about to send EXPIRE, or when the job died at that point and
\* the session has had no event since.  README.md has it that session keys have
\* no expiry (1242, 1530, 1559, 1609); SessionProcessor.kt:29 gives them 1800 s.
UnlimitedIsExplained ==
    \A s \in Sessions : members[s] # {} /\ ttl[s] = Unlimited => Between(s) \/ s \in cut

\* "Sessions have a 30-minute TTL from the last event" (SessionProcessor.kt:21)
\* as far as the code keeps it: a session that is dropped was idle for that
\* long, unless its old time ran out between the ZADD and the EXPIRE of a new
\* event, or the job died between the two and the old time went on.
DroppedWhenIdle ==
    [][\A s \in Sessions :
          members[s] # {} /\ members'[s] = {} => idle'[s] = TTL \/ Between(s) \/ s \in cut]_vars

\* A record that ends the job is stepped over by the restart: it ends it once,
\* and the job runs on when nobody publishes another one.
RunsOn == <>[](state = "running")

-----------------------------------------------------------------------------
(* Statements of the documentation *)

\* UserEvent.kt:8 says that UserEvent "Mirrors the Go Event struct from
\* shared/go/event/event.go": no record of a Go producer ends the job.
MirrorsEvent == state # "poisoned"
=============================================================================
