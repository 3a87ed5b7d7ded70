---------------------------- MODULE SessionProofs ----------------------------
(***************************************************************************)
(* Safety of the two modules about sessions: SessionStream, which writes   *)
(* them, for any sessions, partitions and subtasks, any routing of events  *)
(* to them and any time to live; and Reranking, which reads them and puts  *)
(* a page in order, for lists of any length and any scores.                *)
(* The modules share no variable.                                          *)
(***************************************************************************)
EXTENDS SessionStream, Reranking, SequenceTheorems, FiniteSetTheorems, TLAPS

-----------------------------------------------------------------------------
(***************************************************************************)
(* The inductive invariant.                                                *)
(***************************************************************************)

Records == [session : Sessions, id : Ids, text : BOOLEAN]
Work    == [step : {"zadd", "expire"}, session : Sessions, id : Ids]

\* Records are well formed, and a subtask works on events of its own sessions.
WellFormed ==
    /\ topic \in [Partitions -> Seq(Records)]
    /\ pending \in [Tasks -> Work \cup {Nothing}]

\* The time a session was idle and the time it has left add up to its TTL, from
\* the EXPIRE of its last event on.
TimeAddsUp ==
    \A s \in Sessions :
        members[s] # {} => Between(s) \/ s \in cut \/ idle[s] + ttl[s] >= TTL

SessionInv == TypeOK /\ WellFormed /\ UnlimitedIsExplained /\ TimeAddsUp

\* Reading the head of a partition leaves records, no more than before.
LEMMA TakeRecord ==
    ASSUME NEW s \in Seq(Records), s # <<>>
    PROVE  Head(s) \in Records /\ Tail(s) \in Seq(Records) /\ Len(Tail(s)) <= Len(s) /\ Len(s) \in Nat
BY HeadTailProperties, LenProperties

\* Publishing appends one record.
LEMMA AppendRecord ==
    ASSUME NEW s \in Seq(Records), NEW r \in Records
    PROVE  Append(s, r) \in Seq(Records) /\ Len(Append(s, r)) = Len(s) + 1 /\ Len(s) \in Nat
OBVIOUS

\* A task at work on an event knows its session and its id.
LEMMA WorkIsSomething == \A w \in Work : w # Nothing /\ w.session \in Sessions /\ w.id \in Ids
BY DEF Work, Nothing

-----------------------------------------------------------------------------

\* Nothing was published, and no key exists.
LEMMA InitSessionInv == Init => SessionInv
<1> SUFFICES ASSUME Init PROVE SessionInv
  OBVIOUS
<1> USE BoundAssumption, TTLAssumption DEF Init
<1>1. WellFormed
  BY DEF WellFormed
<1>2. /\ last \in [Sessions -> Ids \cup {0}] /\ members \in [Sessions -> SUBSET Ids]
      /\ ttl \in [Sessions -> 1 .. Unlimited] /\ idle \in [Sessions -> 0 .. TTL]
  BY DEF Unlimited
<1>3. \A p \in Partitions : Len(topic[p]) <= count
  OBVIOUS
<1>4. TypeOK
  BY <1>2, <1>3 DEF TypeOK
<1>5. UnlimitedIsExplained /\ TimeAddsUp
  BY DEF UnlimitedIsExplained, TimeAddsUp
<1> QED BY <1>1, <1>4, <1>5 DEF SessionInv

\* What a failure leaves behind, whichever way the job dies.
LEMMA FailTypes ==
    ASSUME TypeOK, WellFormed, NEW how \in {"failed", "poisoned"}, Fail(how),
           UNCHANGED <<kafka, store>>, crashes' \in 0 .. MaxCrashes
    PROVE  TypeOK' /\ WellFormed'
<1> USE DEF Fail, kafka, store
<1>1. \A t \in Tasks : pending'[t] = Nothing
  OBVIOUS
<1>2. WellFormed'
  BY DEF WellFormed
<1>3. last' \in [Sessions -> Ids \cup {0}] /\ cut' \subseteq Sessions
  BY DEF TypeOK
<1> QED BY <1>1, <1>2, <1>3 DEF TypeOK

\* Every step keeps the types and the shape of the keys.
LEMMA StepTypes == TypeOK /\ WellFormed /\ [Next]_vars => TypeOK' /\ WellFormed'
<1> SUFFICES ASSUME TypeOK, WellFormed, [Next]_vars PROVE TypeOK' /\ WellFormed'
  OBVIOUS
<1> USE RoutingAssumption, TTLAssumption, BoundAssumption DEF kafka, job, store
<1>1. CASE UNCHANGED vars
  BY <1>1 DEF vars, TypeOK, WellFormed
<1>2. ASSUME NEW s \in Sessions, NEW p \in Partitions, NEW text \in BOOLEAN, Publish(s, p, text)
      PROVE  TypeOK' /\ WellFormed'
  <2> DEFINE record == [session |-> s, id |-> count + 1, text |-> text]
  <2> USE <1>2 DEF Publish
  <2>1. count' = count + 1 /\ count' \in Ids /\ topic[p] \in Seq(Records)
    BY DEF Ids, TypeOK, WellFormed
  <2>2. record \in Records /\ topic' = [topic EXCEPT ![p] = Append(@, record)]
    BY <2>1 DEF Records
  <2>3. Append(topic[p], record) \in Seq(Records) /\ Len(Append(topic[p], record)) = Len(topic[p]) + 1
    BY <2>1, <2>2, AppendRecord
  <2> HIDE DEF record
  <2>4. WellFormed'
    BY <2>2, <2>3 DEF WellFormed
  <2>5. ASSUME NEW q \in Partitions PROVE Len(topic'[q]) <= count'
    <3>1. Len(topic[q]) \in Nat /\ count \in Nat /\ Len(topic[q]) <= count
      BY LenProperties DEF TypeOK, WellFormed
    <3>2. topic'[q] = IF q = p THEN Append(topic[p], record) ELSE topic[q]
      BY <2>2 DEF WellFormed
    <3>3. CASE q = p
      <4>1. Len(topic'[q]) = Len(topic[q]) + 1
        BY <2>3, <3>2, <3>3
      <4> QED BY <2>1, <3>1, <4>1
    <3>4. CASE q # p
      <4>1. topic'[q] = topic[q]
        BY <3>2, <3>4
      <4> QED BY <2>1, <3>1, <4>1
    <3> QED BY <3>3, <3>4
  <2>6. TypeOK'
    BY <2>1, <2>5 DEF TypeOK, Ids
  <2> QED BY <2>4, <2>6
<1>3. ASSUME NEW p \in Partitions, Deserialize(p) PROVE TypeOK' /\ WellFormed'
  BY <1>3, FailTypes DEF Deserialize, TypeOK
<1>4. ASSUME NEW p \in Partitions, ProcessElement(p) PROVE TypeOK' /\ WellFormed'
  <2> USE <1>4 DEF ProcessElement
  <2>1. topic[p] \in Seq(Records) /\ topic[p] # <<>>
    BY DEF WellFormed
  <2>2. PICK event \in Records : event = Head(topic[p])
    BY <2>1, TakeRecord
  <2> DEFINE t    == TaskOf[event.session]
             work == [step |-> "zadd", session |-> event.session, id |-> event.id]
  <2>3. event.session \in Sessions /\ event.id \in Ids /\ t \in Tasks /\ work \in Work
    BY DEF Records, Work
  <2>4. /\ last' = [last EXCEPT ![event.session] = event.id]
        /\ pending' = [pending EXCEPT ![t] = work]
        /\ topic' = [topic EXCEPT ![p] = Tail(topic[p])]
        /\ state = "running"
        /\ UNCHANGED <<count, state, crashes, store, cut>>
    BY <2>2
  <2> HIDE <1>4 DEF ProcessElement
  <2>5. WellFormed'
    BY <2>1, <2>3, <2>4, TakeRecord DEF WellFormed
  <2>6. ASSUME NEW q \in Partitions PROVE Len(topic'[q]) <= count'
    <3>1. topic'[q] = IF q = p THEN Tail(topic[p]) ELSE topic[q]
      BY <2>4 DEF WellFormed
    <3>2. Len(topic'[q]) <= Len(topic[q]) /\ Len(topic[q]) \in Nat /\ Len(topic'[q]) \in Nat
      <4>1. CASE q = p
        BY <2>1, <3>1, <4>1, TakeRecord, LenProperties
      <4>2. CASE q # p
        BY <3>1, <4>2, LenProperties DEF WellFormed
      <4> QED BY <4>1, <4>2
    <3> QED BY <2>4, <3>2 DEF TypeOK
  <2>7. ASSUME NEW u \in Tasks, pending'[u] # Nothing
        PROVE  pending'[u].id \in Ids /\ TaskOf[pending'[u].session] = u
    <3>1. CASE u = t
      BY <2>3, <2>4, <3>1 DEF WellFormed
    <3>2. CASE u # t
      BY <2>4, <2>7, <3>2 DEF WellFormed, TypeOK
    <3> QED BY <3>1, <3>2
  <2>8. last' \in [Sessions -> Ids \cup {0}]
    BY <2>3, <2>4 DEF TypeOK
  <2>9. TypeOK'
    BY <2>4, <2>6, <2>7, <2>8 DEF TypeOK
  <2> QED BY <2>5, <2>9
<1>5. ASSUME NEW t \in Tasks, ZAdd(t) PROVE TypeOK' /\ WellFormed'
  <2> DEFINE work == pending[t]
             s    == work.session
  <2> USE <1>5 DEF ZAdd
  <2>1. work \in Work /\ work # Nothing /\ s \in Sessions /\ work.id \in Ids /\ state = "running" /\ TaskOf[s] = t
    BY WorkIsSomething DEF WellFormed, Nothing, TypeOK
  <2>2. [work EXCEPT !.step = "expire"] \in Work /\ pending'[t] = [work EXCEPT !.step = "expire"]
    BY <2>1 DEF Work, WellFormed
  <2>3. WellFormed'
    BY <2>2 DEF WellFormed
  <2>4. pending'[t].id = work.id /\ pending'[t].session = s
    BY <2>1, <2>2 DEF Work
  <2>5. ASSUME NEW u \in Tasks, pending'[u] # Nothing
        PROVE  pending'[u].id \in Ids /\ TaskOf[pending'[u].session] = u
    <3>1. CASE u = t
      BY <2>1, <2>4, <3>1
    <3>2. CASE u # t
      BY <2>5, <3>2 DEF WellFormed, TypeOK
    <3> QED BY <3>1, <3>2
  <2>6. members' \in [Sessions -> SUBSET Ids] /\ idle' \in [Sessions -> 0 .. TTL] /\ cut' \subseteq Sessions
    BY <2>1 DEF TypeOK
  <2>7. TypeOK'
    BY <2>1, <2>5, <2>6 DEF TypeOK
  <2> QED BY <2>3, <2>7
<1>6. ASSUME NEW t \in Tasks, Expire(t) PROVE TypeOK' /\ WellFormed'
  <2> USE <1>6 DEF Expire
  <2>1. WellFormed'
    BY DEF WellFormed
  <2>2. ttl' \in [Sessions -> 1 .. Unlimited]
    <3>1. TTL \in 1 .. Unlimited
      BY DEF Unlimited
    <3> QED BY <3>1 DEF TypeOK
  <2>3. \A u \in Tasks : pending'[u] # Nothing => u # t /\ pending'[u] = pending[u]
    BY DEF WellFormed
  <2>4. TypeOK'
    BY <2>2, <2>3 DEF TypeOK
  <2> QED BY <2>1, <2>4
<1>7. CASE Crash
  BY <1>7, FailTypes DEF Crash, TypeOK
<1>8. CASE Restart
  <2> USE <1>8 DEF Restart
  <2>1. WellFormed'
    BY DEF WellFormed
  <2>2. \A p \in Partitions : Len(topic'[p]) <= count'
    BY DEF TypeOK
  <2>3. \A t \in Tasks : pending[t] = Nothing
    BY DEF TypeOK
  <2> QED BY <2>1, <2>2, <2>3 DEF TypeOK
<1>9. CASE Tick
  <2> USE <1>9 DEF Tick
  <2>1. members' \in [Sessions -> SUBSET Ids]
    BY DEF TypeOK
  <2>2. ttl' \in [Sessions -> 1 .. Unlimited] /\ idle' \in [Sessions -> 0 .. TTL]
    BY DEF TypeOK, Unlimited
  <2>3. TypeOK'
    BY <2>1, <2>2 DEF TypeOK
  <2> QED BY <2>3 DEF WellFormed
<1> QED
  BY <1>1, <1>2, <1>3, <1>4, <1>5, <1>6, <1>7, <1>8, <1>9 DEF Next, JobStep

-----------------------------------------------------------------------------

\* Explained(s) is what both UnlimitedIsExplained and TimeAddsUp say of s.
Explained(s) ==
    members[s] # {} => Between(s) \/ s \in cut \/ (ttl[s] # Unlimited /\ idle[s] + ttl[s] >= TTL)

\* Every step keeps the inductive invariant.
LEMMA StepSessionInv == SessionInv /\ [Next]_vars => SessionInv'
<1> SUFFICES ASSUME SessionInv, [Next]_vars PROVE SessionInv'
  OBVIOUS
<1>1. TypeOK /\ WellFormed /\ TypeOK' /\ WellFormed'
  BY StepTypes DEF SessionInv
<1> SUFFICES ASSUME NEW s \in Sessions, members'[s] # {} PROVE Explained(s)'
  BY <1>1 DEF SessionInv, UnlimitedIsExplained, TimeAddsUp, Explained
<1>2. Explained(s)
  BY DEF SessionInv, UnlimitedIsExplained, TimeAddsUp, Explained
<1>3. ttl[s] \in 1 .. Unlimited /\ idle[s] \in 0 .. TTL /\ TaskOf[s] \in Tasks
  BY <1>1, RoutingAssumption DEF TypeOK
<1> USE TTLAssumption DEF Explained, kafka, job, store
<1>4. CASE UNCHANGED vars
  BY <1>2, <1>4 DEF vars, Between
<1>5. ASSUME NEW r \in Sessions, NEW p \in Partitions, NEW text \in BOOLEAN, Publish(r, p, text)
      PROVE  Explained(s)'
  BY <1>2, <1>5 DEF Publish, Between
<1>6. ASSUME NEW how, Fail(how), UNCHANGED store PROVE Explained(s)'
  BY <1>2, <1>6 DEF Fail
<1>7. ASSUME NEW p \in Partitions, ProcessElement(p) PROVE Explained(s)'
  <2> DEFINE t == TaskOf[Head(topic[p]).session]
  <2>1. pending[t] = Nothing /\ UNCHANGED <<members, ttl, idle, cut>>
    BY <1>7 DEF ProcessElement
  <2>2. \A u \in Tasks : u # t => pending'[u] = pending[u]
    BY <1>1, <1>7 DEF ProcessElement, WellFormed
  <2>3. ~Between(s) \/ Between(s)'
    BY <1>3, <2>1, <2>2 DEF Between, Nothing
  <2> QED BY <1>2, <2>1, <2>3
<1>8. ASSUME NEW t \in Tasks, ZAdd(t) PROVE Explained(s)'
  <2> USE <1>8 DEF ZAdd
  <2>1. /\ pending[t] \in Work /\ TaskOf[pending[t].session] = t
        /\ pending'[t] = [pending[t] EXCEPT !.step = "expire"]
    BY <1>1, WorkIsSomething DEF WellFormed, Nothing, TypeOK
  <2>2. CASE s = pending[t].session
    BY <2>1, <2>2 DEF Between, Work
  <2>3. CASE s # pending[t].session
    <3>1. members'[s] = members[s] /\ idle'[s] = idle[s] /\ (s \in cut => s \in cut')
      BY <2>3 DEF TypeOK
    <3>2. ~Between(s) \/ Between(s)'
      BY <1>3, <2>3 DEF Between
    <3> QED BY <1>2, <3>1, <3>2
  <2> QED BY <2>2, <2>3
<1>9. ASSUME NEW t \in Tasks, Expire(t) PROVE Explained(s)'
  <2> USE <1>9 DEF Expire
  <2>1. CASE s = pending[t].session
    BY <1>1, <1>3, <2>1 DEF TypeOK, Unlimited
  <2>2. CASE s # pending[t].session
    <3>1. ttl'[s] = ttl[s]
      BY <1>1, <2>2 DEF TypeOK
    <3>2. ~Between(s) \/ Between(s)'
      BY <1>3, <2>2 DEF Between
    <3> QED BY <1>2, <3>1, <3>2
  <2> QED BY <2>1, <2>2
<1>10. CASE Restart
  BY <1>2, <1>10 DEF Restart, Between
<1>11. CASE Tick
  <2> USE <1>11 DEF Tick
  <2>1. members[s] # {} /\ ttl[s] # 1
    OBVIOUS
  <2>2. ttl'[s] = (IF ttl[s] = Unlimited THEN Unlimited ELSE ttl[s] - 1)
    BY <2>1
  <2>3. idle'[s] = (IF idle[s] < TTL THEN idle[s] + 1 ELSE TTL)
    OBVIOUS
  <2>4. Between(s)' <=> Between(s)
    BY DEF Between
  <2> HIDE <1>11 DEF Tick
  <2>5. cut' = cut
    BY <1>11 DEF Tick
  <2> QED BY <1>2, <1>3, <2>1, <2>2, <2>3, <2>4, <2>5 DEF Unlimited
<1> QED
  BY <1>4, <1>5, <1>6, <1>7, <1>8, <1>9, <1>10, <1>11 DEF Next, JobStep, Deserialize, Crash

\* The inductive invariant holds always.
LEMMA SessionInvariant == Spec => []SessionInv
BY InitSessionInv, StepSessionInv, PTL DEF Spec

-----------------------------------------------------------------------------

\* Partitions, subtasks and sorted sets keep their types; a subtask only ever
\* works for its own sessions, and only while the job runs.
THEOREM TypeCorrect == Spec => []TypeOK
<1>1. SessionInv => TypeOK
  BY DEF SessionInv
<1> QED BY <1>1, SessionInvariant, PTL

\* The only way to a session that stays for ever is a job that dies between
\* ZADD and EXPIRE of the session's last event.
THEOREM UnlimitedOnlyWhenCut == Spec => []UnlimitedIsExplained
<1>1. SessionInv => UnlimitedIsExplained
  BY DEF SessionInv
<1> QED BY <1>1, SessionInvariant, PTL

\* A session that DragonflyDB drops was idle for its whole TTL, unless its last
\* ZADD has not, or never, had its EXPIRE.
THEOREM DroppedOnlyWhenIdle == Spec => DroppedWhenIdle
<1> DEFINE Dropped(s) == members[s] # {} /\ members'[s] = {} => idle'[s] = TTL \/ Between(s) \/ s \in cut
<1>1. SessionInv /\ [Next]_vars => [\A s \in Sessions : Dropped(s)]_vars
  <2> SUFFICES ASSUME SessionInv, Next, NEW s \in Sessions, members[s] # {}, members'[s] = {}
               PROVE  idle'[s] = TTL \/ Between(s) \/ s \in cut
    OBVIOUS
  <2>1. ttl[s] \in 1 .. Unlimited /\ idle[s] \in 0 .. TTL /\ members \in [Sessions -> SUBSET Ids]
    BY DEF SessionInv, TypeOK
  <2>2. CASE UNCHANGED members
    BY <2>2
  <2>3. ASSUME NEW t \in Tasks, ZAdd(t) PROVE FALSE
    BY <2>1, <2>3 DEF ZAdd
  <2>4. CASE Tick
    <3>1. ttl[s] = 1 /\ idle'[s] = (IF idle[s] < TTL THEN idle[s] + 1 ELSE TTL)
      BY <2>4 DEF Tick
    <3>2. Between(s) \/ s \in cut \/ idle[s] + 1 >= TTL
      BY <3>1 DEF SessionInv, TimeAddsUp
    <3> QED BY <2>1, <3>1, <3>2, TTLAssumption
  <2> QED
    BY <2>2, <2>3, <2>4
       DEF Next, JobStep, Publish, Deserialize, ProcessElement, Expire, Crash, Restart, job, store
<1> QED BY <1>1, SessionInvariant, PTL DEF Spec, DroppedWhenIdle

-----------------------------------------------------------------------------
(***************************************************************************)
(* Reranking: entries and their order.                                     *)
(***************************************************************************)

Entries == [item : Items, score : Int]

\* Entry p comes before entry q.
Before(entries, p, q) == p # q /\ Leads(entries, p, q)

\* A permutation of the places that puts the entries in order.
Sorts(order, entries) ==
    /\ order \in [1 .. Len(entries) -> 1 .. Len(entries)]
    /\ \A a, b \in 1 .. Len(entries) : a < b => Before(entries, order[a], order[b])

-----------------------------------------------------------------------------
(***************************************************************************)
(* The inductive invariant.  While it sorts, every place of ranked holds   *)
(* the entry of given that order names: a permutation, which the loops     *)
(* change in step with the list.                                           *)
(***************************************************************************)

\* The lists are lists of entries.
Shapes ==
    /\ pc \in {"done", "extract", "rerank", "rank", "outer", "inner", "reply"}
    /\ list \in Seq(Entries) /\ ranked \in Seq(Entries) /\ given \in Seq(Entries)
    /\ i \in Nat /\ j \in Nat

\* The candidates with their penalties, as Rerank sorts them.
Penalised == [n \in DOMAIN list |-> [list[n] EXCEPT !.score = @ + Penalty(list[n].item)]]

\* What the ranker is asked to order comes from Rerank or from the filter.
ListIsRanked == pc = "rank" => ranked = list \/ ranked = StableSort(Penalised)

\* The first i - 1 entries are in order.
OuterOrder(order) ==
    /\ order \in [1 .. Len(given) -> 1 .. Len(given)]
    /\ \A n \in 1 .. Len(given) : ranked[n] = given[order[n]]
    /\ \A n \in i .. Len(given) : order[n] = n
    /\ \A n \in 1 .. Len(given) : n < i => order[n] < i
    /\ \A a, b \in 1 .. Len(given) : a < b /\ b < i => Before(given, order[a], order[b])

\* The first i are, but for the hole at j + 1 where key belongs, or before.
InnerOrder(order) ==
    /\ i <= Len(given) /\ j < i /\ key = given[i]
    /\ order \in [1 .. Len(given) -> 1 .. Len(given)]
    /\ order[j + 1] = i
    /\ \A n \in 1 .. Len(given) : n # j + 1 => ranked[n] = given[order[n]]
    /\ \A n \in 1 .. Len(given) : n > i => order[n] = n
    /\ \A n \in 1 .. Len(given) : n <= i /\ n # j + 1 => order[n] < i
    /\ \A a, b \in 1 .. Len(given) :
          a < b /\ b <= i /\ a # j + 1 /\ b # j + 1 => Before(given, order[a], order[b])
    /\ \A n \in 1 .. Len(given) : j + 1 < n /\ n <= i => given[order[n]].score < key.score

\* The orders that are tried.
Orders == [1 .. Len(given) -> 1 .. Len(given)]

\* Between the loops there is an order that explains the list.
Sorting ==
    /\ pc \notin {"outer", "inner", "reply"} => given = <<>> /\ i = 2
    /\ pc \in {"outer", "inner"} =>
          /\ Len(ranked) = Len(given) /\ i >= 2 /\ (i <= Len(given) + 1 \/ i = 2)
    /\ pc = "outer" => \E order \in Orders : OuterOrder(order)
    /\ pc = "inner" => \E order \in Orders : InnerOrder(order)

RankingInv == Shapes /\ ListIsRanked /\ Sorting /\ RankedStably

-----------------------------------------------------------------------------
(* The order of entries, and what a stable sort does to a list. *)

\* Of two entries one comes first, and an entry before one that comes first does.
LEMMA BeforeIsAnOrder ==
    ASSUME NEW entries \in Seq(Entries)
    PROVE  LET N == Len(entries) IN
           /\ N \in Nat /\ DOMAIN entries = 1 .. N
           /\ \A p \in 1 .. N : Leads(entries, p, p)
           /\ \A p, q \in 1 .. N : Leads(entries, p, q) <=> p = q \/ Before(entries, p, q)
           /\ \A p, q \in 1 .. N : p # q => (Before(entries, p, q) <=> ~ Before(entries, q, p))
           /\ \A p, q, r \in 1 .. N :
                 Leads(entries, p, q) /\ Leads(entries, q, r) => Leads(entries, p, r)
<1>1. Len(entries) \in Nat /\ DOMAIN entries = 1 .. Len(entries)
  BY LenProperties
<1>2. \A p \in 1 .. Len(entries) : p \in Int /\ entries[p].score \in Int
  <2>1. ASSUME NEW p \in 1 .. Len(entries) PROVE p \in Int /\ entries[p].score \in Int
    <3>1. entries[p] \in Entries
      BY ElementOfSeq
    <3> QED BY <1>1, <3>1 DEF Entries
  <2> QED BY <2>1
<1>3. \A p \in 1 .. Len(entries) : Leads(entries, p, p)
  BY <1>2 DEF Leads
<1>4. \A p, q \in 1 .. Len(entries) :
         p # q => (Before(entries, p, q) <=> ~ Before(entries, q, p))
  BY <1>2 DEF Before, Leads
<1>5. \A p, q, r \in 1 .. Len(entries) :
         Leads(entries, p, q) /\ Leads(entries, q, r) => Leads(entries, p, r)
  BY <1>2 DEF Leads
<1> QED BY <1>1, <1>3, <1>4, <1>5 DEF Before

\* The place of an entry is the number of those that do not come after it.
Leaders(entries, q) == {p \in DOMAIN entries : Leads(entries, p, q)}
Place(entries, q)   == Cardinality(Leaders(entries, q))

AtPlace(entries, n) == CHOOSE q \in DOMAIN entries : Place(entries, q) = n

\* The entry at a place of the sorted list.
LEMMA StableSortByPlace ==
    ASSUME NEW entries \in Seq(Entries)
    PROVE  StableSort(entries) = [n \in 1 .. Len(entries) |-> entries[AtPlace(entries, n)]]
<1>1. StableSort(entries) = [n \in DOMAIN entries |-> entries[AtPlace(entries, n)]]
  BY DEF StableSort, Place, Leaders, AtPlace
<1> QED BY <1>1, LenProperties

\* Places are places of the list, and an entry that comes before another has
\* the smaller one.
LEMMA PlacesRise ==
    ASSUME NEW entries \in Seq(Entries)
    PROVE  /\ \A q \in 1 .. Len(entries) : Place(entries, q) \in 1 .. Len(entries)
           /\ \A p, q \in 1 .. Len(entries) :
                 Before(entries, p, q) => Place(entries, p) < Place(entries, q)
<1> DEFINE N == Len(entries)
<1>1. N \in Nat /\ DOMAIN entries = 1 .. N
  BY BeforeIsAnOrder
<1>2. IsFiniteSet(1 .. N) /\ Cardinality(1 .. N) = N
  BY <1>1, FS_Interval
<1>3. ASSUME NEW q \in 1 .. N
      PROVE  /\ Leaders(entries, q) \in SUBSET (1 .. N) /\ q \in Leaders(entries, q)
             /\ IsFiniteSet(Leaders(entries, q)) /\ Place(entries, q) \in 1 .. N
  <2>1. Leaders(entries, q) \in SUBSET (1 .. N) /\ q \in Leaders(entries, q)
    BY <1>1, BeforeIsAnOrder DEF Leaders
  <2>2. /\ IsFiniteSet(Leaders(entries, q)) /\ Cardinality(Leaders(entries, q)) \in Nat
        /\ Cardinality(Leaders(entries, q)) <= N
    BY <1>2, <2>1, FS_Subset, FS_CardinalityType
  <2>3. Cardinality(Leaders(entries, q)) # 0
    BY <2>1, <2>2, FS_EmptySet
  <2> QED BY <1>1, <2>1, <2>2, <2>3 DEF Place
<1>4. ASSUME NEW p \in 1 .. N, NEW q \in 1 .. N, Before(entries, p, q)
      PROVE  Place(entries, p) < Place(entries, q)
  <2>1. Leads(entries, p, q) /\ p # q /\ ~ Leads(entries, q, p)
    BY <1>4, BeforeIsAnOrder DEF Before
  <2>2. Leaders(entries, p) \in SUBSET Leaders(entries, q)
    BY <1>1, <2>1, BeforeIsAnOrder DEF Leaders
  <2>3. Leaders(entries, p) # Leaders(entries, q)
    BY <1>3, <2>1 DEF Leaders
  <2>4. /\ Cardinality(Leaders(entries, p)) <= Cardinality(Leaders(entries, q))
        /\ Cardinality(Leaders(entries, p)) # Cardinality(Leaders(entries, q))
    BY <1>3, <2>2, <2>3, FS_Subset
  <2>5. Place(entries, p) \in Int /\ Place(entries, q) \in Int
    BY <1>3
  <2> QED BY <2>4, <2>5 DEF Place
<1> QED BY <1>3, <1>4

\* No place twice, so there is an entry for each place.
LEMMA EveryPlaceIsTaken ==
    ASSUME NEW entries \in Seq(Entries)
    PROVE  /\ \A p, q \in 1 .. Len(entries) : Place(entries, p) = Place(entries, q) => p = q
           /\ \A n \in 1 .. Len(entries) : \E q \in 1 .. Len(entries) : Place(entries, q) = n
<1> DEFINE N == Len(entries)
           place == [q \in 1 .. N |-> Place(entries, q)]
<1>1. N \in Nat /\ IsFiniteSet(1 .. N)
  BY BeforeIsAnOrder, FS_Interval
<1>2. ASSUME NEW p \in 1 .. N, NEW q \in 1 .. N, p # q PROVE Place(entries, p) # Place(entries, q)
  <2>1. Place(entries, p) \in Int /\ Place(entries, q) \in Int
    BY PlacesRise
  <2>2. Before(entries, p, q) \/ Before(entries, q, p)
    BY <1>2, BeforeIsAnOrder
  <2>3. Place(entries, p) < Place(entries, q) \/ Place(entries, q) < Place(entries, p)
    BY <2>2, PlacesRise
  <2> QED BY <2>1, <2>3
<1>3. place \in [1 .. N -> 1 .. N]
  BY PlacesRise
<1>4. place \in Injection(1 .. N, 1 .. N)
  BY <1>2, <1>3 DEF Injection, IsInjective
<1>5. place \in Surjection(1 .. N, 1 .. N)
  <2> HIDE DEF place, N
  <2> QED BY <1>1, <1>4, FS_Injection
<1>6. \A n \in 1 .. N : \E q \in 1 .. N : place[q] = n
  BY <1>5, Zenon DEF Surjection
<1> QED BY <1>2, <1>6

\* StableSort gives the entries in their order.
LEMMA StableSortSorts ==
    ASSUME NEW entries \in Seq(Entries)
    PROVE  \E order : /\ Sorts(order, entries)
                      /\ \A q \in 1 .. Len(entries) : \E n \in 1 .. Len(entries) : order[n] = q
                      /\ StableSort(entries) = [n \in 1 .. Len(entries) |-> entries[order[n]]]
<1> DEFINE N == Len(entries)
           order == [n \in 1 .. N |-> AtPlace(entries, n)]
<1>1. DOMAIN entries = 1 .. N
  BY BeforeIsAnOrder
<1>2. ASSUME NEW n \in 1 .. N PROVE order[n] \in 1 .. N /\ Place(entries, order[n]) = n
  <2>1. \E q \in 1 .. N : Place(entries, q) = n
    BY EveryPlaceIsTaken
  <2>2. AtPlace(entries, n) \in 1 .. N /\ Place(entries, AtPlace(entries, n)) = n
    BY <1>1, <2>1 DEF AtPlace
  <2> QED BY <2>2
<1>3. order \in [1 .. N -> 1 .. N]
  BY <1>2
<1>4. StableSort(entries) = [n \in 1 .. N |-> entries[order[n]]]
  BY <1>1, StableSortByPlace
<1> HIDE DEF order
<1>5. ASSUME NEW a \in 1 .. N, NEW b \in 1 .. N, a < b PROVE Before(entries, order[a], order[b])
  <2>1. order[a] \in 1 .. N /\ order[b] \in 1 .. N /\ a \in Int /\ b \in Int
    BY <1>2
  <2>2. order[a] # order[b]
    BY <1>2, <1>5, <2>1
  <2>3. ~ Before(entries, order[b], order[a])
    <3>1. Before(entries, order[b], order[a]) => Place(entries, order[b]) < Place(entries, order[a])
      BY <2>1, PlacesRise
    <3> QED BY <1>2, <1>5, <2>1, <3>1
  <2> QED BY <2>1, <2>2, <2>3, BeforeIsAnOrder
<1>6. ASSUME NEW q \in 1 .. N PROVE \E n \in 1 .. N : order[n] = q
  <2>1. Place(entries, q) \in 1 .. N
    BY PlacesRise
  <2>2. order[Place(entries, q)] \in 1 .. N /\ Place(entries, order[Place(entries, q)]) = Place(entries, q)
    BY <1>2, <2>1
  <2>3. order[Place(entries, q)] = q
    BY <2>2, EveryPlaceIsTaken
  <2> QED BY <2>1, <2>3
<1> QED BY <1>3, <1>4, <1>5, <1>6 DEF Sorts

\* A list is put in order in one way only.
LEMMA SortedIsStableSort ==
    ASSUME NEW entries \in Seq(Entries), NEW order, Sorts(order, entries)
    PROVE  StableSort(entries) = [n \in 1 .. Len(entries) |-> entries[order[n]]]
<1> DEFINE N == Len(entries)
<1>1. N \in Nat /\ DOMAIN entries = 1 .. N /\ order \in [1 .. N -> 1 .. N]
  BY BeforeIsAnOrder DEF Sorts
<1>2. \A a, b \in 1 .. N : a < b => order[a] # order[b]
  BY DEF Sorts, Before
<1>3. order \in Injection(1 .. N, 1 .. N)
  <2>1. ASSUME NEW a \in 1 .. N, NEW b \in 1 .. N, order[a] = order[b] PROVE a = b
    <3>1. ~(a < b) /\ ~(b < a)
      BY <1>2, <2>1
    <3> QED BY <3>1
  <2> QED BY <1>1, <2>1 DEF Injection, IsInjective
<1>4. order \in Surjection(1 .. N, 1 .. N)
  <2>1. IsFiniteSet(1 .. N)
    BY <1>1, FS_Interval
  <2> QED BY <1>3, <2>1, FS_Injection
<1>5. \A q \in 1 .. N : \E n \in 1 .. N : order[n] = q
  BY <1>4 DEF Surjection
<1>6. ASSUME NEW n \in 1 .. N PROVE Place(entries, order[n]) = n
  <2> DEFINE front == [m \in 1 .. n |-> order[m]]
             led   == Leaders(entries, order[n])
  <2>1. n \in Nat /\ \A m \in 1 .. n : m \in 1 .. N /\ m <= n
    BY <1>1
  <2>2. ASSUME NEW m \in 1 .. N PROVE order[m] \in led <=> m <= n
    <3>1. order[m] \in 1 .. N /\ order[n] \in 1 .. N
      BY <1>1
    <3>2. order[m] \in led <=> Leads(entries, order[m], order[n])
      BY <1>1, <3>1 DEF Leaders
    <3>3. m <= n => Leads(entries, order[m], order[n])
      <4>1. m = n => Leads(entries, order[m], order[n])
        BY <3>1, BeforeIsAnOrder
      <4>2. m < n => Leads(entries, order[m], order[n])
        BY DEF Sorts, Before
      <4> QED BY <4>1, <4>2
    <3>4. n < m => ~ Leads(entries, order[m], order[n])
      <4>1. ASSUME n < m PROVE ~ Leads(entries, order[m], order[n])
        <5>1. Before(entries, order[n], order[m])
          BY <4>1 DEF Sorts
        <5>2. order[n] # order[m]
          BY <5>1 DEF Before
        <5>3. ~ Before(entries, order[m], order[n])
          BY <3>1, <5>1, <5>2, BeforeIsAnOrder
        <5> QED BY <3>1, <5>2, <5>3, BeforeIsAnOrder
      <4> QED BY <4>1
    <3> QED BY <3>2, <3>3, <3>4
  <2>3. led \subseteq 1 .. N
    BY <1>1 DEF Leaders
  <2>4. front \in [1 .. n -> led]
    BY <2>1, <2>2
  <2>5. \A a, b \in 1 .. n : front[a] = front[b] => a = b
    BY <1>3, <2>1 DEF Injection, IsInjective
  <2>6. \A q \in led : \E m \in 1 .. n : front[m] = q
    <3>1. ASSUME NEW q \in led PROVE \E m \in 1 .. n : front[m] = q
      <4>1. PICK m \in 1 .. N : order[m] = q
        BY <1>5, <2>3
      <4>2. m <= n
        BY <2>2, <4>1
      <4>3. m \in 1 .. n
        BY <4>2
      <4> QED BY <4>1, <4>3
    <3> QED BY <3>1
  <2>7. front \in Injection(1 .. n, led) /\ front \in Surjection(1 .. n, led)
    <3>1. DOMAIN front = 1 .. n
      OBVIOUS
    <3> HIDE DEF front, led
    <3> QED BY <2>4, <2>5, <2>6, <3>1 DEF Injection, Surjection, IsInjective
  <2>8. ExistsBijection(1 .. n, led)
    <3> HIDE DEF front, led
    <3> QED BY <2>7 DEF ExistsBijection, Bijection
  <2>9. IsFiniteSet(1 .. n) /\ Cardinality(1 .. n) = n
    BY <2>1, FS_Interval
  <2>10. Cardinality(led) = n
    <3> HIDE DEF led
    <3> QED BY <2>8, <2>9, FS_Bijection
  <2> QED BY <2>10 DEF Place
<1>7. ASSUME NEW n \in 1 .. N
      PROVE  AtPlace(entries, n) = order[n]
  <2>1. order[n] \in 1 .. N /\ Place(entries, order[n]) = n
    BY <1>1, <1>6
  <2>2. \A q \in 1 .. N : Place(entries, q) = n => q = order[n]
    BY <2>1, EveryPlaceIsTaken
  <2> QED BY <1>1, <2>1, <2>2 DEF AtPlace
<1> QED BY <1>1, <1>7, StableSortByPlace

-----------------------------------------------------------------------------

\* A function on the first n numbers is a sequence.
LEMMA FunctionIsSeq ==
    ASSUME NEW S, NEW n \in Nat, NEW f \in [1 .. n -> S]
    PROVE  f \in Seq(S) /\ Len(f) = n /\ DOMAIN f = 1 .. n
OBVIOUS

\* The penalties leave the list as long as it is, with the same items.
LEMMA PenalisedList ==
    ASSUME list \in Seq(Entries)
    PROVE  /\ Penalised \in Seq(Entries) /\ Len(Penalised) = Len(list)
           /\ \A n \in 1 .. Len(list) :
                 /\ Penalised[n].item = list[n].item
                 /\ Penalised[n].score = list[n].score + Penalty(list[n].item)
<1>1. Len(list) \in Nat /\ DOMAIN list = 1 .. Len(list)
  BY LenProperties
<1>2. ASSUME NEW n \in 1 .. Len(list)
      PROVE  /\ [list[n] EXCEPT !.score = @ + Penalty(list[n].item)] \in Entries
             /\ Penalised[n].item = list[n].item
             /\ Penalised[n].score = list[n].score + Penalty(list[n].item)
  <2>1. list[n] \in Entries
    BY ElementOfSeq
  <2>2. Penalty(list[n].item) \in Int
    BY DEF Penalty, ClickedPenalty, ViewedPenalty
  <2>3. Penalised[n] = [list[n] EXCEPT !.score = @ + Penalty(list[n].item)]
    BY <1>1 DEF Penalised
  <2>4. /\ list[n].score \in Int
        /\ [list[n] EXCEPT !.score = list[n].score + Penalty(list[n].item)]
              = [item |-> list[n].item, score |-> list[n].score + Penalty(list[n].item)]
    BY <2>1 DEF Entries
  <2> QED BY <2>1, <2>2, <2>3, <2>4 DEF Entries
<1>3. Penalised \in [1 .. Len(list) -> Entries]
  BY <1>1, <1>2 DEF Penalised
<1> QED BY <1>1, <1>2, <1>3, FunctionIsSeq

\* What is sorted keeps its length.
LEMMA StableSortIsList ==
    ASSUME NEW entries \in Seq(Entries)
    PROVE  StableSort(entries) \in Seq(Entries) /\ Len(StableSort(entries)) = Len(entries)
<1>1. PICK order : /\ Sorts(order, entries)
                   /\ StableSort(entries) = [n \in 1 .. Len(entries) |-> entries[order[n]]]
  BY StableSortSorts
<1>2. Len(entries) \in Nat /\ order \in [1 .. Len(entries) -> 1 .. Len(entries)]
  BY <1>1, LenProperties DEF Sorts
<1>3. \A n \in 1 .. Len(entries) : entries[order[n]] \in Entries
  BY <1>2, ElementOfSeq
<1>4. StableSort(entries) \in [1 .. Len(entries) -> Entries]
  BY <1>1, <1>3
<1> QED BY <1>2, <1>4, FunctionIsSeq

-----------------------------------------------------------------------------

\* No request is under way.
LEMMA InitRankingInv == RankingInit => RankingInv
<1> SUFFICES ASSUME RankingInit PROVE RankingInv
  OBVIOUS
<1> USE DEF RankingInit
<1>1. PICK empty : empty = <<>>
  OBVIOUS
<1>2. empty \in Seq(Entries)
  BY <1>1, EmptySeq
<1>3. Shapes
  BY <1>1, <1>2 DEF Shapes
<1>4. ListIsRanked /\ Sorting /\ RankedStably
  BY DEF ListIsRanked, Sorting, RankedStably
<1> QED BY <1>3, <1>4 DEF RankingInv

\* The model's scores start the sort, or nobody asked it.
LEMMA RankKeepsInv ==
    ASSUME RankingInv, Rank
    PROVE  RankingInv'
<1>1. Shapes /\ ListIsRanked /\ Sorting /\ RankedStably
  BY DEF RankingInv
<1>2. pc = "rank" /\ list' = list /\ i' = i /\ j' = j /\ key' = key
  BY DEF Rank
<1>3. given = <<>> /\ i = 2
  BY <1>1, <1>2 DEF Sorting
<1>4. CASE pc' = "reply" /\ UNCHANGED <<ranked, given>>
  <2>1. Shapes'
    BY <1>1, <1>2, <1>4 DEF Shapes
  <2>2. ListIsRanked' /\ Sorting' /\ RankedStably'
    BY <1>3, <1>4 DEF ListIsRanked, Sorting, RankedStably
  <2> QED BY <2>1, <2>2 DEF RankingInv
<1>5. ASSUME NEW scores \in [DOMAIN ranked -> TritonScores], ScoreBatch(scores), pc' = "outer"
      PROVE  RankingInv'
  <2>1. PICK N \in Nat : N = Len(ranked) /\ DOMAIN ranked = 1 .. N
    BY <1>1, LenProperties DEF Shapes
  <2>2. /\ ranked' = [n \in 1 .. N |-> [ranked[n] EXCEPT !.score = scores[n]]]
        /\ given' = ranked'
    BY <1>5, <2>1 DEF ScoreBatch
  <2>3. ASSUME NEW n \in 1 .. N PROVE [ranked[n] EXCEPT !.score = scores[n]] \in Entries
    <3>1. ranked[n] \in Entries
      BY <1>1, <2>1, ElementOfSeq DEF Shapes
    <3>2. scores[n] \in Int
      BY <1>5, <2>1, ScoresAssumption
    <3> QED BY <3>1, <3>2 DEF Entries
  <2>4. ranked' \in [1 .. N -> Entries]
    BY <2>2, <2>3
  <2>5. ranked' \in Seq(Entries) /\ Len(ranked') = N
    BY <2>4, FunctionIsSeq
  <2>6. Shapes'
    BY <1>1, <1>2, <1>5, <2>2, <2>5 DEF Shapes
  <2>7. Len(given') = N
    BY <2>2, <2>5
  <2> DEFINE same == [n \in 1 .. N |-> n]
  <2>8. /\ same \in [1 .. N -> 1 .. N] /\ \A n \in 1 .. N : same[n] = n
    OBVIOUS
  <2>9. PICK order : order = same
    OBVIOUS
  <2>10. OuterOrder(order)'
    <3> HIDE DEF same
    <3> QED BY <1>2, <1>3, <2>2, <2>7, <2>8, <2>9 DEF OuterOrder
  <2>11. order \in Orders'
    <3> HIDE DEF same
    <3> QED BY <2>7, <2>8, <2>9 DEF Orders
  <2>12. Sorting'
    BY <1>2, <1>3, <1>5, <2>5, <2>7, <2>10, <2>11 DEF Sorting
  <2>13. ListIsRanked' /\ RankedStably'
    BY <1>5 DEF ListIsRanked, RankedStably
  <2> QED BY <2>6, <2>12, <2>13 DEF RankingInv
<1> QED BY <1>4, <1>5 DEF Rank

\* The next entry is taken out, or all are in order.
LEMMA OuterKeepsInv ==
    ASSUME RankingInv, Outer
    PROVE  RankingInv'
<1>1. Shapes /\ ListIsRanked /\ Sorting /\ RankedStably
  BY DEF RankingInv
<1>2. pc = "outer" /\ list' = list /\ ranked' = ranked /\ given' = given /\ i' = i
  BY DEF Outer
<1>3. PICK N \in Nat : N = Len(given) /\ N = Len(ranked)
  BY <1>1, <1>2, LenProperties DEF Shapes, Sorting
<1>4. PICK order \in Orders : OuterOrder(order)
  BY <1>1, <1>2 DEF Sorting
<1>5. /\ order \in [1 .. N -> 1 .. N]
      /\ \A n \in 1 .. N : ranked[n] = given[order[n]]
      /\ \A n \in i .. N : order[n] = n
      /\ \A n \in 1 .. N : n < i => order[n] < i
      /\ \A a, b \in 1 .. N : a < b /\ b < i => Before(given, order[a], order[b])
  BY <1>3, <1>4, Zenon DEF OuterOrder
<1>6. i \in Nat /\ i >= 2
  BY <1>1, <1>2 DEF Shapes, Sorting
<1>7. CASE i <= Len(ranked)
  <2>1. key' = ranked[i] /\ j' = i - 1 /\ pc' = "inner"
    BY <1>7 DEF Outer
  <2>2. i \in 1 .. N /\ i <= N
    BY <1>3, <1>6, <1>7
  <2>3. j' \in Nat /\ j' < i /\ j' + 1 = i
    BY <1>6, <2>1
  <2>4. order[i] = i
    BY <1>5, <1>6, <2>2
  <2>5. key' = given[i]
    BY <1>5, <2>1, <2>2, <2>4
  <2>6. \A n \in 1 .. N : n > i => order[n] = n
    BY <1>5, <1>6
  <2>7. \A n \in 1 .. N : n <= i /\ n # i => order[n] < i
    BY <1>5, <1>6
  <2>8. \A a, b \in 1 .. N : a < b /\ b <= i /\ a # i /\ b # i => Before(given, order[a], order[b])
    BY <1>5, <1>6
  <2>9. \A n \in 1 .. N : ~(i < n /\ n <= i)
    BY <1>6
  <2>10. InnerOrder(order)'
    BY <1>2, <1>3, <1>5, <2>2, <2>3, <2>4, <2>5, <2>6, <2>7, <2>8, <2>9 DEF InnerOrder
  <2>11. Shapes' /\ ListIsRanked' /\ RankedStably'
    BY <1>1, <1>2, <2>1, <2>3 DEF Shapes, ListIsRanked, RankedStably
  <2>12. Sorting'
    BY <1>1, <1>2, <1>4, <2>1, <2>10 DEF Sorting, Orders
  <2> QED BY <2>11, <2>12 DEF RankingInv
<1>8. CASE ~(i <= Len(ranked))
  <2>1. pc' = "reply" /\ key' = key /\ j' = j
    BY <1>8 DEF Outer
  <2>2. \A n \in 1 .. N : n < i
    BY <1>3, <1>6, <1>8
  <2>3. Sorts(order, given)
    BY <1>3, <1>5, <2>2 DEF Sorts
  <2>4. StableSort(given) = [n \in 1 .. N |-> given[order[n]]]
    BY <1>1, <1>3, <2>3, SortedIsStableSort DEF Shapes
  <2>5. ranked = [n \in 1 .. N |-> ranked[n]]
    BY <1>1, <1>3, LenProperties DEF Shapes
  <2>6. ranked = StableSort(given)
    BY <1>5, <2>4, <2>5
  <2>7. RankedStably'
    BY <1>2, <2>6 DEF RankedStably
  <2>8. Shapes' /\ ListIsRanked' /\ Sorting'
    BY <1>1, <1>2, <2>1 DEF Shapes, ListIsRanked, Sorting
  <2> QED BY <2>7, <2>8 DEF RankingInv
<1> QED BY <1>7, <1>8

\* The entries that score less move up, and the one taken out fills the hole.
LEMMA InnerKeepsInv ==
    ASSUME RankingInv, Inner
    PROVE  RankingInv'
<1>1. Shapes /\ ListIsRanked /\ Sorting /\ RankedStably
  BY DEF RankingInv
<1>2. pc = "inner" /\ list' = list /\ given' = given /\ key' = key
  BY DEF Inner
<1>3. PICK N \in Nat : N = Len(given) /\ N = Len(ranked)
  BY <1>1, <1>2, LenProperties DEF Shapes, Sorting
<1>4. PICK order \in Orders : InnerOrder(order)
  BY <1>1, <1>2 DEF Sorting
<1>5. /\ i <= N /\ j < i /\ key = given[i]
      /\ order \in [1 .. N -> 1 .. N]
      /\ order[j + 1] = i
      /\ \A n \in 1 .. N : n # j + 1 => ranked[n] = given[order[n]]
      /\ \A n \in 1 .. N : n > i => order[n] = n
      /\ \A n \in 1 .. N : n <= i /\ n # j + 1 => order[n] < i
      /\ \A a, b \in 1 .. N :
            a < b /\ b <= i /\ a # j + 1 /\ b # j + 1 => Before(given, order[a], order[b])
      /\ \A n \in 1 .. N : j + 1 < n /\ n <= i => given[order[n]].score < key.score
  BY <1>3, <1>4 DEF InnerOrder
<1>6. /\ i \in Nat /\ i >= 2 /\ i \in 1 .. N /\ j \in Nat /\ j + 1 \in 1 .. N /\ j + 1 <= i
      /\ ranked \in Seq(Entries) /\ given \in Seq(Entries)
      /\ \A n \in 1 .. N : ranked[n] \in Entries /\ given[n] \in Entries
  <2>1. /\ i \in Nat /\ i >= 2 /\ j \in Nat /\ ranked \in Seq(Entries) /\ given \in Seq(Entries)
    BY <1>1, <1>2 DEF Shapes, Sorting
  <2>2. \A n \in 1 .. N : ranked[n] \in Entries /\ given[n] \in Entries
    BY <1>3, <2>1, ElementOfSeq
  <2>3. i <= N /\ j < i
    BY <1>5, Zenon
  <2>4. i \in 1 .. N /\ j + 1 \in 1 .. N /\ j + 1 <= i
    BY <2>1, <2>3
  <2> QED BY <2>1, <2>2, <2>4, Zenon
<1>7. key \in Entries /\ \A n \in 1 .. N : given[n].score \in Int
  BY <1>5, <1>6 DEF Entries
<1>8. CASE j >= 1 /\ ranked[j].score < key.score
  <2>1. ranked' = [ranked EXCEPT ![j + 1] = ranked[j]] /\ j' = j - 1 /\ i' = i /\ pc' = pc
    BY <1>8 DEF Inner
  <2>2. j \in 1 .. N /\ j' \in Nat /\ j' + 1 = j /\ j' < i /\ j # j + 1 /\ j < i
    BY <1>5, <1>6, <1>8, <2>1
  <2>3. /\ ranked' \in Seq(Entries) /\ Len(ranked') = N
        /\ \A n \in 1 .. N : ranked'[n] = IF n = j + 1 THEN ranked[j] ELSE ranked[n]
    BY <1>3, <1>6, <2>1, <2>2, ExceptSeq
  <2> DEFINE swapped == [order EXCEPT ![j + 1] = order[j], ![j] = i]
  <2>4. PICK next : next = swapped
    OBVIOUS
  <2>5. /\ next \in [1 .. N -> 1 .. N] /\ next[j] = i /\ next[j + 1] = order[j]
        /\ \A n \in 1 .. N : n # j /\ n # j + 1 => next[n] = order[n]
    BY <1>5, <1>6, <2>2, <2>4
  <2> HIDE DEF swapped
  <2>6. ranked[j] = given[order[j]]
    BY <1>5, <2>2
  <2>7. \A n \in 1 .. N : n # j => ranked'[n] = given[next[n]]
    <3>1. ASSUME NEW n \in 1 .. N, n # j PROVE ranked'[n] = given[next[n]]
      <4>1. CASE n = j + 1
        BY <1>6, <2>3, <2>5, <2>6, <4>1
      <4>2. CASE n # j + 1
        BY <1>5, <2>3, <2>5, <3>1, <4>2
      <4> QED BY <4>1, <4>2
    <3> QED BY <3>1
  <2>8. \A n \in 1 .. N : n > i => next[n] = n
    <3>1. ASSUME NEW n \in 1 .. N, n > i PROVE next[n] = n
      <4>1. n # j /\ n # j + 1
        BY <1>6, <2>2, <3>1
      <4>2. order[n] = n
        BY <1>5, <3>1
      <4> QED BY <2>5, <4>1, <4>2
    <3> QED BY <3>1
  <2>9. \A n \in 1 .. N : n <= i /\ n # j => next[n] < i
    <3>1. order[j] < i
      <4>1. j \in 1 .. N /\ j <= i /\ j # j + 1
        BY <1>6, <2>2
      <4> QED BY <1>5, <4>1
    <3>2. ASSUME NEW n \in 1 .. N, n <= i, n # j PROVE next[n] < i
      BY <1>5, <2>5, <3>1, <3>2
    <3> QED BY <3>2
  <2>10. ASSUME NEW a \in 1 .. N, NEW b \in 1 .. N, a < b, b <= i, a # j, b # j
         PROVE  Before(given, next[a], next[b])
    <3>1. CASE a = j + 1
      <4>1. j < b /\ b # j + 1
        BY <1>6, <2>10, <3>1
      <4>2. Before(given, order[j], order[b])
        BY <1>5, <2>2, <2>10, <4>1
      <4> QED BY <2>5, <2>10, <3>1, <4>1, <4>2
    <3>2. CASE b = j + 1
      <4>1. a < j /\ a # j + 1
        BY <1>6, <2>10, <3>2
      <4>2. j <= i
        BY <1>6, <2>2
      <4>3. Before(given, order[a], order[j])
        BY <1>5, <2>2, <4>1, <4>2
      <4> QED BY <2>5, <2>10, <3>2, <4>1, <4>3
    <3>3. CASE a # j + 1 /\ b # j + 1
      BY <1>5, <2>5, <2>10, <3>3
    <3> QED BY <3>1, <3>2, <3>3
  <2>11. \A n \in 1 .. N : j < n /\ n <= i => given[next[n]].score < key.score
    <3>1. ASSUME NEW n \in 1 .. N, j < n, n <= i PROVE given[next[n]].score < key.score
      <4>1. CASE n = j + 1
        BY <1>8, <2>5, <2>6, <4>1
      <4>2. CASE n # j + 1
        <5>1. j + 1 < n /\ n # j
          BY <1>6, <3>1, <4>2
        <5> QED BY <1>5, <2>5, <3>1, <4>2, <5>1
      <4> QED BY <4>1, <4>2
    <3> QED BY <3>1
  <2>12. InnerOrder(next)'
    <3>1. /\ i' <= Len(given)' /\ j' < i' /\ key' = given'[i'] /\ next[j' + 1] = i'
      BY <1>2, <1>3, <1>5, <2>1, <2>2, <2>5
    <3> QED BY <1>2, <1>3, <2>1, <2>2, <2>5, <2>7, <2>8, <2>9, <2>10, <2>11, <3>1 DEF InnerOrder
  <2>13. Shapes' /\ ListIsRanked' /\ RankedStably'
    BY <1>1, <1>2, <2>1, <2>2, <2>3 DEF Shapes, ListIsRanked, RankedStably
  <2>14. next \in Orders'
    BY <1>2, <1>3, <2>5 DEF Orders
  <2>15. Sorting'
    BY <1>1, <1>2, <1>3, <2>1, <2>3, <2>12, <2>14 DEF Sorting
  <2> QED BY <2>13, <2>15 DEF RankingInv
<1>9. CASE ~(j >= 1 /\ ranked[j].score < key.score)
  <2>1. ranked' = [ranked EXCEPT ![j + 1] = key] /\ i' = i + 1 /\ pc' = "outer" /\ j' = j
    BY <1>9 DEF Inner
  <2>2. /\ ranked' \in Seq(Entries) /\ Len(ranked') = N
        /\ \A n \in 1 .. N : ranked'[n] = IF n = j + 1 THEN key ELSE ranked[n]
    BY <1>3, <1>6, <1>7, <2>1, ExceptSeq
  <2>3. \A n \in 1 .. N : ranked'[n] = given[order[n]]
    <3>1. ASSUME NEW n \in 1 .. N PROVE ranked'[n] = given[order[n]]
      <4>1. CASE n = j + 1
        BY <1>5, <2>2, <4>1
      <4>2. CASE n # j + 1
        BY <1>5, <2>2, <4>2
      <4> QED BY <4>1, <4>2
    <3> QED BY <3>1
  <2>4. \A n \in i + 1 .. N : order[n] = n
    BY <1>5, <1>6
  <2>5. \A n \in 1 .. N : n < i + 1 => order[n] < i + 1
    <3>1. ASSUME NEW n \in 1 .. N, n < i + 1 PROVE order[n] < i + 1
      <4>1. CASE n = j + 1
        BY <1>5, <1>6, <4>1
      <4>2. CASE n # j + 1
        <5>1. order[n] < i /\ order[n] \in Int
          BY <1>5, <1>6, <3>1, <4>2
        <5> QED BY <1>6, <5>1
      <4> QED BY <4>1, <4>2
    <3> QED BY <3>1
  <2>6. ASSUME NEW a \in 1 .. N, a < j + 1
        PROVE  Before(given, order[a], i)
    <3>1. /\ a # j + 1 /\ a <= i /\ j \in 1 .. N /\ j # j + 1 /\ j <= i /\ a <= j
      BY <1>6, <2>6
    <3>2. order[a] < i /\ order[a] \in 1 .. N /\ order[j] \in 1 .. N /\ order[j] < i
      BY <1>5, <3>1
    <3>3. ranked[j] = given[order[j]]
      BY <1>5, <3>1
    <3>4. given[order[j]].score >= key.score
      <4>1. j >= 1
        BY <3>1
      <4>2. ~(given[order[j]].score < key.score)
        BY <1>9, <3>3, <4>1
      <4>3. given[order[j]].score \in Int /\ key.score \in Int
        BY <1>7, <3>2 DEF Entries
      <4> QED BY <4>2, <4>3
    <3>5. given[order[a]].score >= given[order[j]].score
      <4>1. CASE a = j
        BY <1>7, <3>2, <4>1
      <4>2. CASE a # j
        <5>1. Before(given, order[a], order[j])
          BY <1>5, <3>1, <4>2
        <5> QED BY <1>7, <3>2, <5>1 DEF Before, Leads
      <4> QED BY <4>1, <4>2
    <3>6. given[order[a]].score >= given[i].score
      <4>1. /\ given[order[a]].score \in Int /\ given[order[j]].score \in Int
            /\ given[i].score \in Int /\ key.score = given[i].score
        BY <1>5, <1>6, <1>7, <3>2
      <4> QED BY <3>4, <3>5, <4>1
    <3> QED BY <1>6, <1>7, <3>2, <3>6 DEF Before, Leads
  <2>7. ASSUME NEW b \in 1 .. N, j + 1 < b, b <= i
        PROVE  Before(given, i, order[b])
    <3>1. order[b] < i /\ given[order[b]].score < given[i].score
      BY <1>5, <1>6, <2>7
    <3> QED BY <1>5, <1>6, <1>7, <3>1 DEF Before, Leads
  <2>8. ASSUME NEW a \in 1 .. N, NEW b \in 1 .. N, a < b, b < i + 1
        PROVE  Before(given, order[a], order[b])
    <3>1. b <= i
      BY <1>6, <2>8
    <3>2. CASE a = j + 1
      BY <1>5, <2>7, <2>8, <3>1, <3>2
    <3>3. CASE b = j + 1
      BY <1>5, <2>6, <2>8, <3>3
    <3>4. CASE a # j + 1 /\ b # j + 1
      BY <1>5, <2>8, <3>1, <3>4
    <3> QED BY <3>2, <3>3, <3>4
  <2>9. OuterOrder(order)'
    BY <1>2, <1>3, <1>5, <2>1, <2>3, <2>4, <2>5, <2>8 DEF OuterOrder
  <2>10. Shapes' /\ ListIsRanked' /\ RankedStably'
    BY <1>1, <1>2, <1>6, <2>1, <2>2 DEF Shapes, ListIsRanked, RankedStably
  <2>11. i' >= 2 /\ i' <= N + 1
    BY <1>6, <2>1
  <2>12. order \in Orders'
    BY <1>2, <1>4 DEF Orders
  <2>13. Sorting'
    BY <1>2, <1>3, <2>1, <2>2, <2>9, <2>11, <2>12 DEF Sorting
  <2> QED BY <2>10, <2>13 DEF RankingInv
<1> QED BY <1>8, <1>9

\* Every step keeps the invariant.
LEMMA StepRankingInv == RankingInv /\ [RankingNext]_rankingVars => RankingInv'
<1> SUFFICES ASSUME RankingInv, [RankingNext]_rankingVars PROVE RankingInv'
  OBVIOUS
<1>1. Shapes /\ ListIsRanked /\ Sorting /\ RankedStably
  BY DEF RankingInv
<1>2. CASE UNCHANGED rankingVars
  <2> USE <1>2 DEF rankingVars, sorting
  <2>1. Shapes' /\ RankedStably'
    BY <1>1 DEF Shapes, RankedStably
  <2>2. ListIsRanked'
    BY <1>1 DEF ListIsRanked, Penalised, Penalty
  <2>3. Orders' = Orders /\ \A order : OuterOrder(order)' = OuterOrder(order)
    BY DEF Orders, OuterOrder
  <2>4. \A order : InnerOrder(order)' = InnerOrder(order)
    BY DEF InnerOrder
  <2>5. Sorting'
    BY <1>1, <2>3, <2>4 DEF Sorting
  <2> QED BY <2>1, <2>2, <2>5 DEF RankingInv
<1>3. CASE Request
  <2>1. /\ pc = "done" /\ list' \in Lists /\ ranked' = list' /\ pc' \in {"extract", "rank"}
        /\ given' = given /\ i' = i /\ j' = j
    BY <1>3 DEF Request, sorting
  <2>2. list' \in Seq(Entries)
    BY <2>1, ListsAssumption DEF Entries
  <2>3. Shapes'
    BY <1>1, <2>1, <2>2 DEF Shapes
  <2>4. ListIsRanked' /\ Sorting' /\ RankedStably'
    BY <1>1, <2>1 DEF ListIsRanked, Sorting, RankedStably
  <2> QED BY <2>3, <2>4 DEF RankingInv
<1>4. CASE SessionEvent
  <2>1. /\ pc \in {"done", "extract"} /\ pc' = pc /\ list' = list /\ ranked' = ranked
        /\ given' = given /\ i' = i /\ j' = j
    BY <1>4 DEF SessionEvent, sorting
  <2>2. Shapes' /\ ListIsRanked' /\ Sorting' /\ RankedStably'
    BY <1>1, <2>1 DEF Shapes, ListIsRanked, Sorting, RankedStably
  <2> QED BY <2>2 DEF RankingInv
<1>5. CASE Extract
  <2>1. /\ pc = "extract" /\ pc' = "rerank" /\ list' = list /\ ranked' = ranked
        /\ given' = given /\ i' = i /\ j' = j
    BY <1>5 DEF Extract, sorting
  <2>2. Shapes' /\ ListIsRanked' /\ Sorting' /\ RankedStably'
    BY <1>1, <2>1 DEF Shapes, ListIsRanked, Sorting, RankedStably
  <2> QED BY <2>2 DEF RankingInv
<1>6. CASE Rerank
  <2>1. /\ pc = "rerank" /\ pc' = "rank" /\ list' = list /\ features' = features
        /\ ranked' = StableSort(Penalised) /\ given' = given /\ i' = i /\ j' = j
    BY <1>6 DEF Rerank, sorting, Penalised
  <2>2. ranked' \in Seq(Entries)
    BY <1>1, <2>1, PenalisedList, StableSortIsList DEF Shapes
  <2>3. Shapes'
    BY <1>1, <2>1, <2>2 DEF Shapes
  <2>4. Penalised' = Penalised
    BY <2>1 DEF Penalised, Penalty
  <2>5. ListIsRanked' /\ Sorting' /\ RankedStably'
    BY <1>1, <2>1, <2>4 DEF ListIsRanked, Sorting, RankedStably
  <2> QED BY <2>3, <2>5 DEF RankingInv
<1>7. CASE Rank
  BY <1>7, RankKeepsInv
<1>8. CASE Outer
  BY <1>8, OuterKeepsInv
<1>9. CASE Inner
  BY <1>9, InnerKeepsInv
<1>10. CASE Reply
  <2>1. /\ pc' = "done" /\ list' = <<>> /\ ranked' = <<>> /\ given' = <<>> /\ i' = 2 /\ j' = 1
    BY <1>10 DEF Reply
  <2>2. PICK empty : empty = <<>>
    OBVIOUS
  <2>3. empty \in Seq(Entries)
    BY <2>2, EmptySeq
  <2>4. Shapes'
    BY <2>1, <2>2, <2>3 DEF Shapes
  <2>5. ListIsRanked' /\ Sorting' /\ RankedStably'
    BY <2>1 DEF ListIsRanked, Sorting, RankedStably
  <2> QED BY <2>4, <2>5 DEF RankingInv
<1> QED BY <1>2, <1>3, <1>4, <1>5, <1>6, <1>7, <1>8, <1>9, <1>10 DEF RankingNext, RequestStep

\* The invariant holds in every reachable state.
THEOREM RankingInvHolds == RankingSpec => []RankingInv
BY InitRankingInv, StepRankingInv, PTL DEF RankingSpec

\* The insertion sort of sortByScoreDesc is stable: for a list of any length
\* and any scores it ends with the order of a stable sort by score.
THEOREM InsertionSortIsStable == RankingSpec => []RankedStably
<1>1. RankingInv => RankedStably
  BY DEF RankingInv
<1> QED BY <1>1, RankingInvHolds, PTL

\* Rerank never puts an item of the session before one that led it and has no
\* event, for any candidates, penalties of theirs and events read.
THEOREM FreshItemsKeepTheirLead == RankingSpec => []FreshKeepsLead
<1>1. ASSUME RankingInv, pc = "rank",
             NEW p \in DOMAIN list, NEW q \in DOMAIN list, p < q, list[p].score >= list[q].score,
             list[p].item \notin features.clicked \cup features.viewed
      PROVE  \E m, n \in DOMAIN ranked :
                m < n /\ ranked[m].item = list[p].item /\ ranked[n].item = list[q].item
  <2>1. list \in Seq(Entries) /\ (ranked = list \/ ranked = StableSort(Penalised))
    BY <1>1 DEF RankingInv, Shapes, ListIsRanked
  <2>2. CASE ranked = list
    BY <1>1, <2>2
  <2>3. CASE ranked = StableSort(Penalised)
    <3>1. PICK entries : entries = Penalised
      OBVIOUS
    <3>2. /\ entries \in Seq(Entries) /\ Len(entries) = Len(list)
          /\ \A n \in 1 .. Len(list) :
                /\ entries[n].item = list[n].item
                /\ entries[n].score = list[n].score + Penalty(list[n].item)
      BY <2>1, <3>1, PenalisedList
    <3>3. PICK order : /\ Sorts(order, entries)
                       /\ \A r \in 1 .. Len(entries) : \E n \in 1 .. Len(entries) : order[n] = r
                       /\ StableSort(entries) = [n \in 1 .. Len(entries) |-> entries[order[n]]]
      BY <3>2, StableSortSorts
    <3>4. DOMAIN list = 1 .. Len(list)
      BY <2>1, LenProperties
    <3>5. Before(entries, p, q)
      <4>1. list[p].score \in Int /\ list[q].score \in Int
        <5>1. list[p] \in Entries /\ list[q] \in Entries
          BY <2>1, <3>4, ElementOfSeq
        <5> QED BY <5>1 DEF Entries
      <4>2. Penalty(list[p].item) = 0
        BY <1>1 DEF Penalty
      <4>3. Penalty(list[q].item) \in Int /\ Penalty(list[q].item) <= 0
        BY DEF Penalty, ClickedPenalty, ViewedPenalty
      <4>4. entries[p].score = list[p].score /\ entries[q].score <= list[q].score
            /\ entries[q].score \in Int
        BY <3>2, <3>4, <4>1, <4>2, <4>3
      <4>5. entries[p].score >= entries[q].score
        BY <1>1, <4>1, <4>4
      <4> QED BY <1>1, <3>4, <4>1, <4>4, <4>5 DEF Before, Leads
    <3>6. PICK m \in 1 .. Len(entries), n \in 1 .. Len(entries) : order[m] = p /\ order[n] = q
      BY <3>2, <3>3, <3>4
    <3>7. m < n
      <4>1. p # q
        BY <3>5 DEF Before
      <4>2. ~ Before(entries, q, p)
        BY <3>2, <3>4, <3>5, <4>1, BeforeIsAnOrder
      <4>3. ~(n < m)
        BY <3>3, <3>6, <4>2 DEF Sorts
      <4>4. m # n
        BY <3>6, <4>1
      <4> QED BY <4>3, <4>4
    <3>8. ranked = [l \in 1 .. Len(entries) |-> entries[order[l]]]
      BY <2>3, <3>1, <3>3
    <3>9. /\ m \in DOMAIN ranked /\ n \in DOMAIN ranked
          /\ ranked[m] = entries[p] /\ ranked[n] = entries[q]
      BY <3>6, <3>8
    <3> QED BY <3>2, <3>4, <3>7, <3>9
  <2> QED BY <2>1, <2>2, <2>3
<1>2. RankingInv => FreshKeepsLead
  BY <1>1 DEF FreshKeepsLead
<1> QED BY <1>2, RankingInvHolds, PTL

=============================================================================
