-------------------------- MODULE ClickWindowProofs --------------------------
(***************************************************************************)
(* Proofs that ClickWindow has the safety properties its run checks, for   *)
(* any users, partitions, parallelism, windows and lateness.               *)
(*                                                                         *)
(* A count is compared with the clicks of its window long after the pane   *)
(* it was taken from is gone.  The invariant keeps what that pane was      *)
(* worth: a set of clicks as large as the count (CountStandsFor), and that *)
(* a pane holds all that was read of its window until it fires             *)
(* (PanesAreComplete).  That windows fire in order needs that the last one *)
(* to fire since the job started is over and none before it holds an event *)
(* (FiredInOrder); that none is over before all partitions passed it, that *)
(* the watermark of a subtask lags behind all it reads (MarksLag).         *)
(***************************************************************************)
EXTENDS ClickWindow, LoopsProofs, FiniteSetTheorems

Events == [id : Nat, user : Users, time : Nat, click : BOOLEAN]

\* Types, more of them than TypeOK states.
Shapes ==
    /\ published \subseteq Events /\ IsFiniteSet(published)
    /\ topic \in [Partitions -> Seq(published)]
    /\ parallelism \in 1 .. MaxParallelism /\ written \subseteq Users
    /\ running \in BOOLEAN /\ crashes \in 0 .. MaxCrashes
    /\ newest \in [Partitions -> Int] /\ mark \in [Sources -> Int]
    /\ panes \in [Ends -> [Users -> SUBSET published]]
    /\ clicks \in [Users -> {Absent} \cup [end : Ends, count : 0 .. MaxEvents]]

\* A watermark was emitted for events that were read, and lags behind them.
MarksLag ==
    /\ \A p \in Partitions : newest[p] >= Never /\ (newest[p] = Never \/ newest[p] >= 0)
    /\ \A s \in Sources : mark[s] >= Never /\ (mark[s] = Never \/ SplitsOf(s) # {})
    /\ \A s \in Sources : \A p \in SplitsOf(s) :
          mark[s] = Never \/ mark[s] <= newest[p] - OutOfOrder - 1

\* The ids of a user's events are the numbers below their number.
NumberOf(u) == Cardinality({e \in published : e.user = u})
IdsAreFresh == \A e \in published : e.id < NumberOf(e.user)

TopicIsPublished ==
    /\ Cardinality(published) <= MaxEvents
    /\ \A p \in Partitions : Len(topic[p]) <= Cardinality(published)

\* All events of a window, read or not.
InWindow(u, end) == {e \in published : e.user = u /\ end \in WindowsOf(e.time)}

PanesAreOwn == \A end \in Ends, u \in Users : panes[end][u] \subseteq InWindow(u, end)

\* Until it has fired, a pane holds what was read of its window.
Complete(end, u) == InWindow(u, end) \ (missed \cup Unread) \subseteq panes[end][u]
PanesAreComplete ==
    \A end \in Ends, u \in Users : (Over(end) /\ panes[end][u] = {}) \/ Complete(end, u)

\* The clicks that were counted.
StandsFor(u, counted) ==
    /\ counted \subseteq Clicked(u, clicks[u].end)
    /\ clicks[u].count = Cardinality(counted)
    /\ Over(clicks[u].end) /\ panes[clicks[u].end][u] = {} =>
          Clicked(u, clicks[u].end) \ (missed \cup Unread) \subseteq counted

CountStandsFor ==
    \A u \in Users : clicks[u] # Absent => \E counted \in SUBSET published : StandsFor(u, counted)

\* Since the job started.
FiredInOrder ==
    \A u \in written :
        /\ clicks[u].end \in Ends /\ Over(clicks[u].end)
        /\ \A end \in Ends : panes[end][u] # {} => clicks[u].end <= end

WindowInv ==
    /\ Shapes /\ MarksLag /\ IdsAreFresh /\ TopicIsPublished
    /\ PanesAreOwn /\ PanesAreComplete /\ CountStandsFor /\ FiredInOrder

-----------------------------------------------------------------------------
(***************************************************************************)
(* The operators of the model.                                             *)
(***************************************************************************)

\* Max of two numbers, as the source reads an event.
LEMMA MaxOfTwo ==
    ASSUME NEW a \in Int, NEW b \in Int
    PROVE  Max({a, b}) \in {a, b} /\ a <= Max({a, b}) /\ b <= Max({a, b})
<1>1. \E x \in {a, b} : \A y \in {a, b} : x >= y
  OBVIOUS
<1>2. Max({a, b}) \in {a, b} /\ \A y \in {a, b} : Max({a, b}) >= y
  BY <1>1 DEF Max
<1> QED BY <1>2

\* Numbers that are bounded from below have a least one.
LEMMA LeastOfBounded ==
    ASSUME NEW S \in SUBSET Int, S # {}, NEW low \in Int, \A x \in S : low <= x
    PROVE  Min(S) \in S /\ \A x \in S : Min(S) <= x
<1> DEFINE T == {n \in Nat : low + n \in S}
<1>1. PICK s \in S : s \in Int /\ low <= s
  OBVIOUS
<1>2. s - low \in Nat /\ low + (s - low) = s
  BY <1>1
<1>3. s - low \in T
  BY <1>2
<1>4. PICK least \in T : \A n \in T : least <= n
  <2>1. T \subseteq Nat /\ T # {}
    BY <1>3
  <2> HIDE DEF T
  <2> QED BY <2>1, LeastNumber
<1>5. ASSUME NEW x \in S PROVE low + least <= x
  <2>1. x \in Int /\ x - low \in Nat /\ low + (x - low) = x
    BY <1>5
  <2>2. x - low \in T
    BY <2>1
  <2>3. least <= x - low /\ least \in Nat
    BY <2>2, <1>4
  <2> QED BY <2>1, <2>3
<1>6. \E x \in S : \A y \in S : x =< y
  BY <1>4, <1>5
<1> QED BY <1>6 DEF Min

\* The least of the watermarks m of the source's subtasks.
LeastOf(m) == Min({m[s] : s \in Sources})

\* There is one, and it is that of some subtask.
LEMMA LeastOfMarks ==
    ASSUME parallelism \in Nat \ {0}, NEW m \in [Sources -> Int], \A s \in Sources : Never <= m[s]
    PROVE  /\ LeastOf(m) \in Int
           /\ \A s \in Sources : LeastOf(m) <= m[s]
           /\ \E s \in Sources : LeastOf(m) = m[s]
<1> DEFINE S == {m[s] : s \in Sources}
<1>1. 0 \in Sources
  BY DEF Sources
<1>2. S \in SUBSET Int /\ S # {} /\ Never \in Int
  <2> HIDE DEF Sources
  <2> QED BY <1>1, WindowAssumption DEF Never
<1>3. \A x \in S : Never <= x
  OBVIOUS
<1>4. Min(S) \in S /\ \A x \in S : Min(S) <= x
  <2> HIDE DEF S
  <2> QED BY <1>2, <1>3, LeastOfBounded
<1> QED BY <1>2, <1>4 DEF LeastOf

\* Each partition is read by a subtask.
LEMMA PartitionsAreRead ==
    ASSUME parallelism \in Nat \ {0}, NEW p \in Partitions
    PROVE  p % parallelism \in Sources /\ p \in SplitsOf(p % parallelism)
<1>1. p \in Nat
  BY PartitionAssumption
<1>2. p % parallelism \in 0 .. parallelism - 1
  BY <1>1
<1> QED BY <1>2 DEF Sources, SplitsOf

\* Windows end at positive numbers.
LEMMA EndsArePositive == Ends \subseteq Nat \ {0} /\ Size \in Nat /\ Never \in Int /\ Never < 0
<1> USE WindowAssumption
<1>1. Size \in Nat
  BY DEF Size
<1>2. ASSUME NEW n \in Nat \ {0} PROVE Slide * n \in Nat \ {0}
  <2>1. Slide * n >= 1
    OBVIOUS
  <2> QED BY <2>1
<1>3. ASSUME NEW end \in Ends PROVE end \in Nat \ {0}
  <2>1. PICK n \in 1 .. (Max({kind.time : kind \in Kinds}) \div Slide) + Slides : end = Slide * n
    BY DEF Ends
  <2>2. n \in Nat \ {0}
    OBVIOUS
  <2> QED BY <2>1, <2>2, <1>2
<1> QED BY <1>1, <1>3 DEF Never

\* A partition with one more event.
LEMMA AppendEvent ==
    ASSUME NEW A, NEW s \in Seq(A), NEW e
    PROVE  /\ Append(s, e) \in Seq(A \cup {e}) /\ Len(Append(s, e)) = Len(s) + 1
           /\ ToSet(s) \subseteq ToSet(Append(s, e)) /\ e \in ToSet(Append(s, e))
<1>1. s \in Seq(A \cup {e}) /\ Len(s) \in Nat /\ DOMAIN s = 1 .. Len(s)
  OBVIOUS
<1>2. PICK more : more = Append(s, e)
  OBVIOUS
<1>3. more \in Seq(A \cup {e}) /\ Len(more) = Len(s) + 1 /\ DOMAIN more = 1 .. Len(more)
  BY <1>1, <1>2
<1>4. more[Len(s) + 1] = e /\ \A i \in 1 .. Len(s) : more[i] = s[i]
  BY <1>1, <1>2
<1>5. \A i \in 1 .. Len(s) : i \in 1 .. Len(more)
  BY <1>1, <1>3
<1>6. Len(s) + 1 \in 1 .. Len(more)
  BY <1>1, <1>3
<1>7. ToSet(s) \subseteq ToSet(more) /\ e \in ToSet(more)
  BY <1>1, <1>3, <1>4, <1>5, <1>6, Zenon DEF ToSet
<1> QED BY <1>2, <1>3, <1>7

\* A partition whose first event was read.
LEMMA TakeEvent ==
    ASSUME NEW A, NEW s \in Seq(A), s # <<>>
    PROVE  /\ Head(s) \in A /\ Tail(s) \in Seq(A) /\ Len(Tail(s)) <= Len(s)
           /\ ToSet(s) \subseteq ToSet(Tail(s)) \cup {Head(s)}
<1>1. PICK rest : rest = Tail(s)
  OBVIOUS
<1>2. /\ rest \in Seq(A) /\ Len(s) \in Nat /\ Len(rest) = Len(s) - 1
      /\ DOMAIN s = 1 .. Len(s) /\ DOMAIN rest = 1 .. Len(rest)
  BY <1>1, HeadTailProperties, LenProperties
<1>3. Head(s) = s[1] /\ Head(s) \in A
  BY HeadTailProperties
<1>4. \A i \in 1 .. Len(rest) : rest[i] = s[i + 1]
  BY <1>1, HeadTailProperties
<1>5. ASSUME NEW i \in 1 .. Len(s), i # 1 PROVE i - 1 \in 1 .. Len(rest) /\ s[i] = rest[i - 1]
  <2>1. i - 1 \in 1 .. Len(rest) /\ i - 1 + 1 = i
    BY <1>2, <1>5
  <2>2. rest[i - 1] = s[i - 1 + 1]
    BY <1>4, <2>1, Zenon
  <2> QED BY <2>1, <2>2
<1>6. ToSet(s) \subseteq ToSet(rest) \cup {Head(s)}
  <2>1. ASSUME NEW i \in 1 .. Len(s) PROVE s[i] \in ToSet(rest) \cup {Head(s)}
    BY <1>2, <1>3, <1>5, Zenon DEF ToSet
  <2> QED BY <2>1, <1>2, Zenon DEF ToSet
<1>7. Len(rest) <= Len(s)
  BY <1>2
<1> QED BY <1>1, <1>2, <1>3, <1>6, <1>7

\* Events of one slice are events of a larger one.
LEMMA MoreEvents ==
    ASSUME NEW A, NEW B, A \subseteq B, NEW s \in Seq(A)
    PROVE  s \in Seq(B)
OBVIOUS

\* What waits in some partition.
LEMMA UnreadEvents == \A e : e \in Unread <=> \E p \in Partitions : e \in ToSet(topic[p])
BY Zenon DEF Unread

\* The watermark is that of the subtask that is the furthest back.
LEMMA WatermarkIsLeast ==
    ASSUME Shapes, MarksLag
    PROVE  /\ Watermark \in Int /\ \A s \in Sources : Watermark <= mark[s]
           /\ \E s \in Sources : Watermark = mark[s]
<1>1. mark \in [Sources -> Int] /\ \A s \in Sources : Never <= mark[s]
  BY EndsArePositive DEF Shapes, MarksLag
<1>2. Watermark = LeastOf(mark)
  BY DEF Watermark, LeastOf
<1>3. parallelism \in Nat \ {0}
  BY ParallelismAssumption DEF Shapes
<1> QED BY <1>1, <1>2, <1>3, LeastOfMarks

\* A window that is over stays so while no watermark goes back.
LEMMA OverStays ==
    ASSUME Shapes, MarksLag, Shapes', MarksLag', parallelism' = parallelism,
           \A s \in Sources : mark[s] <= mark'[s]
    PROVE  \A end \in Ends : Over(end) => Over(end)'
<1>1. /\ Watermark \in Int /\ \A s \in Sources : Watermark <= mark[s]
  BY WatermarkIsLeast
<1>2. Sources' = Sources /\ parallelism \in Nat \ {0}
  BY ParallelismAssumption DEF Sources, Shapes
<1>3. /\ mark' \in [Sources -> Int] /\ mark \in [Sources -> Int]
      /\ \A s \in Sources : Never <= mark'[s]
  BY <1>2, EndsArePositive DEF Shapes, MarksLag
<1>4. Watermark' = LeastOf(mark')
  BY <1>2 DEF Watermark, LeastOf
<1>5. Watermark' \in Int /\ \E s \in Sources : Watermark' = mark'[s]
  BY <1>2, <1>3, <1>4, LeastOfMarks
<1>6. Watermark <= Watermark'
  <2>1. PICK s \in Sources : Watermark' = mark'[s]
    BY <1>5
  <2>2. Watermark <= mark[s] /\ mark[s] <= mark'[s] /\ mark[s] \in Int /\ mark'[s] \in Int
    BY <1>1, <1>3
  <2> QED BY <1>1, <2>1, <2>2
<1> QED BY <1>1, <1>5, <1>6, EndsArePositive DEF Over

\* A window that is over was left behind by all partitions, and no subtask of
\* the source is without one.
LEMMA OverIsPast ==
    ASSUME Shapes, MarksLag, NEW end \in Ends, Over(end)
    PROVE  AllPast(end)
<1>1. Watermark \in Int /\ parallelism \in Nat \ {0} /\ OutOfOrder \in Nat
  BY WatermarkIsLeast, WindowAssumption, ParallelismAssumption DEF Shapes
<1>2. end \in Nat /\ end > 0 /\ Never < 0 /\ Never \in Int
  BY EndsArePositive
<1>3. ASSUME NEW s \in Sources PROVE mark[s] \in Int /\ end - 1 <= mark[s] /\ mark[s] # Never
  <2>1. mark[s] \in Int /\ Watermark <= mark[s]
    BY WatermarkIsLeast DEF Shapes
  <2> QED BY <1>1, <1>2, <2>1 DEF Over
<1>4. \A s \in Sources : SplitsOf(s) # {}
  BY <1>3 DEF MarksLag
<1>5. ASSUME NEW p \in Partitions PROVE newest[p] - OutOfOrder >= end
  <2>1. PICK s \in Sources : p \in SplitsOf(s)
    BY <1>1, PartitionsAreRead
  <2>2. mark[s] <= newest[p] - OutOfOrder - 1 /\ newest[p] \in Int
    BY <1>3, <2>1 DEF MarksLag, Shapes
  <2> QED BY <1>1, <1>2, <1>3, <2>2
<1> QED BY <1>4, <1>5 DEF AllPast

\* A window that is over ended before its events are in bounds anywhere.
LEMMA OverIsLate ==
    ASSUME Shapes, MarksLag, NEW p \in Partitions, NEW end \in Ends, Over(end), NEW time \in Nat, time < end
    PROVE  time + OutOfOrder < newest[p]
<1>1. newest[p] \in Int /\ newest[p] - OutOfOrder >= end
  BY OverIsPast DEF AllPast, Shapes
<1>2. end \in Nat /\ OutOfOrder \in Nat
  BY EndsArePositive, WindowAssumption
<1> QED BY <1>1, <1>2

-----------------------------------------------------------------------------
(***************************************************************************)
(* Every step keeps the invariant.                                         *)
(***************************************************************************)

\* Nothing is published, read or counted.
LEMMA InitWindowInv == Init => WindowInv
<1> SUFFICES ASSUME Init PROVE WindowInv
  OBVIOUS
<1> USE EndsArePositive, BoundAssumption, WindowAssumption DEF Init
<1>1. /\ published = {} /\ IsFiniteSet(published) /\ Cardinality(published) = 0
      /\ crashes = 0 /\ running = TRUE /\ \A u \in Users : clicks[u] = Absent
      /\ written = {} /\ parallelism \in 1 .. MaxParallelism
  BY FS_EmptySet
<1>2. /\ newest = [p \in Partitions |-> Never] /\ mark = [s \in Sources |-> Never]
      /\ panes = [end \in Ends |-> [u \in Users |-> {}]]
  BY DEF NoPanes
<1>3. topic \in [Partitions -> Seq(published)] /\ \A p \in Partitions : Len(topic[p]) = 0
  <2>1. PICK empty : empty = <<>>
    OBVIOUS
  <2>2. empty \in Seq({}) /\ Len(empty) = 0
    BY <2>1, EmptySeq
  <2> QED BY <1>1, <2>1, <2>2
<1>4. Shapes
  BY <1>1, <1>2, <1>3 DEF Shapes
<1>5. MarksLag
  BY <1>2 DEF MarksLag
<1>6. IdsAreFresh /\ TopicIsPublished
  BY <1>1, <1>3 DEF IdsAreFresh, TopicIsPublished
<1>7. PanesAreOwn /\ PanesAreComplete
  BY <1>1, <1>2 DEF PanesAreOwn, PanesAreComplete, Complete, InWindow
<1>8. CountStandsFor
  BY <1>1, Zenon DEF CountStandsFor
<1>9. FiredInOrder
  BY <1>1 DEF FiredInOrder
<1> QED BY <1>4, <1>5, <1>6, <1>7, <1>8, <1>9 DEF WindowInv

\* One more event is among those that wait.
LEMMA PublishKeepsInv ==
    ASSUME WindowInv, NEW kind \in Kinds, Publish(kind)
    PROVE  WindowInv'
<1> DEFINE p == PartitionOf[kind.user]
           earlier == {e \in published : e.user = kind.user}
           event == [id |-> Cardinality(earlier), user |-> kind.user,
                     time |-> kind.time, click |-> kind.click]
<1>1. /\ Shapes /\ MarksLag /\ IdsAreFresh /\ TopicIsPublished
      /\ PanesAreOwn /\ PanesAreComplete /\ CountStandsFor /\ FiredInOrder
  BY DEF WindowInv
<1>2. /\ Cardinality(published) < MaxEvents
      /\ published' = published \cup {event} /\ topic' = [topic EXCEPT ![p] = Append(@, event)]
      /\ running' = running /\ crashes' = crashes /\ newest' = newest /\ mark' = mark
      /\ panes' = panes /\ clicks' = clicks /\ missed' = missed /\ written' = written
      /\ parallelism' = parallelism /\ Sources' = Sources /\ \A s : SplitsOf(s)' = SplitsOf(s)
  BY DEF Publish, job, Sources, SplitsOf
<1>3. kind.user \in Users /\ kind.time \in Nat /\ kind.click \in BOOLEAN /\ p \in Partitions
  BY KindsAssumption, PartitionAssumption
<1>4. IsFiniteSet(published) /\ published \subseteq Events
  BY <1>1 DEF Shapes
<1>5. IsFiniteSet(earlier) /\ Cardinality(earlier) \in Nat /\ Cardinality(earlier) = NumberOf(kind.user)
  BY <1>4, FS_Subset, FS_CardinalityType DEF NumberOf
<1>6. event \in Events /\ event.user = kind.user /\ event.id = NumberOf(kind.user)
  BY <1>3, <1>5 DEF Events
<1>7. event \notin published
  <2>1. event \in published => event.id < NumberOf(event.user)
    BY <1>1 DEF IdsAreFresh
  <2> QED BY <1>5, <1>6, <2>1
<1> HIDE DEF event, p
<1>8. /\ IsFiniteSet(published') /\ Cardinality(published) \in Nat
      /\ Cardinality(published') = Cardinality(published) + 1
  BY <1>2, <1>4, <1>7, FS_AddElement, FS_CardinalityType
<1>9. topic[p] \in Seq(published) /\ topic \in [Partitions -> Seq(published)]
  BY <1>1, <1>3 DEF Shapes
<1>10. Append(topic[p], event) \in Seq(published') /\ Len(Append(topic[p], event)) = Len(topic[p]) + 1
  BY <1>2, <1>9, AppendEvent
<1>11. topic' \in [Partitions -> Seq(published')]
  <2>1. topic \in [Partitions -> Seq(published')]
    BY <1>2, <1>9, MoreEvents
  <2> QED BY <1>2, <1>10, <2>1
<1>12. Shapes'
  <2>1. published' \subseteq Events /\ published \subseteq published'
    BY <1>2, <1>4, <1>6
  <2>2. panes' \in [Ends -> [Users -> SUBSET published']]
    BY <1>1, <1>2, <2>1 DEF Shapes
  <2> QED BY <1>1, <1>2, <1>8, <1>11, <2>1, <2>2 DEF Shapes
<1>13. MarksLag'
  BY <1>1, <1>2 DEF MarksLag
<1>14. IdsAreFresh'
  <2>1. ASSUME NEW u \in Users
        PROVE  /\ NumberOf(u) \in Nat
               /\ NumberOf(u)' = IF u = kind.user THEN NumberOf(u) + 1 ELSE NumberOf(u)
    <3> DEFINE before == {e \in published : e.user = u}
    <3>1. IsFiniteSet(before) /\ Cardinality(before) \in Nat
      BY <1>4, FS_Subset, FS_CardinalityType
    <3>2. CASE u = kind.user
      <4>1. {e \in published' : e.user = u} = before \cup {event} /\ event \notin before
        BY <1>2, <1>6, <1>7, <3>2
      <4> HIDE DEF before
      <4>2. Cardinality(before \cup {event}) = Cardinality(before) + 1
        BY <3>1, <4>1, FS_AddElement
      <4> USE DEF before
      <4> QED BY <3>1, <3>2, <4>1, <4>2 DEF NumberOf
    <3>3. CASE u # kind.user
      <4>1. {e \in published' : e.user = u} = before
        BY <1>2, <1>6, <3>3
      <4> QED BY <3>1, <3>3, <4>1 DEF NumberOf
    <3> QED BY <3>2, <3>3
  <2>2. ASSUME NEW e \in published' PROVE e.id < NumberOf(e.user)'
    <3>1. CASE e \in published
      <4>1. e.user \in Users /\ e.id \in Nat /\ e.id < NumberOf(e.user)
        BY <1>1, <1>4, <3>1 DEF IdsAreFresh, Events
      <4>2. /\ NumberOf(e.user) \in Nat
            /\ \/ NumberOf(e.user)' = NumberOf(e.user) + 1
               \/ NumberOf(e.user)' = NumberOf(e.user)
        BY <2>1, <4>1
      <4> QED BY <4>1, <4>2
    <3>2. CASE e = event
      <4>1. NumberOf(kind.user) \in Nat /\ NumberOf(kind.user)' = NumberOf(kind.user) + 1
        BY <2>1, <1>3
      <4>2. e.id = NumberOf(kind.user) /\ e.user = kind.user
        BY <1>6, <3>2
      <4>3. e.id < NumberOf(kind.user)'
        BY <4>1, <4>2
      <4> QED BY <4>2, <4>3
    <3> QED BY <1>2, <3>1, <3>2
  <2> QED BY <2>2 DEF IdsAreFresh
<1>15. TopicIsPublished'
  <2>1. ASSUME NEW q \in Partitions PROVE Len(topic'[q]) <= Cardinality(published')
    <3>1. Len(topic[q]) \in Nat /\ Len(topic[q]) <= Cardinality(published)
      BY <1>1, <1>9, LenProperties DEF TopicIsPublished
    <3>2. topic'[q] = IF q = p THEN Append(topic[p], event) ELSE topic[q]
      BY <1>2, <1>9
    <3>3. Len(topic'[q]) = Len(topic[q]) + 1 \/ Len(topic'[q]) = Len(topic[q])
      BY <1>10, <3>2
    <3> QED BY <1>8, <3>1, <3>3
  <2>2. Cardinality(published') <= MaxEvents
    BY <1>2, <1>8, BoundAssumption
  <2> QED BY <2>1, <2>2 DEF TopicIsPublished
<1>16. Unread \subseteq Unread' /\ event \in Unread'
  <2>1. event \in ToSet(topic'[p]) /\ ToSet(topic[p]) \subseteq ToSet(topic'[p])
    <3>1. topic'[p] = Append(topic[p], event)
      BY <1>2, <1>3, <1>9
    <3> QED BY <1>9, <3>1, AppendEvent
  <2>2. ASSUME NEW q \in Partitions PROVE ToSet(topic[q]) \subseteq ToSet(topic'[q])
    <3>1. q = p \/ topic'[q] = topic[q]
      BY <1>2, <1>9
    <3> QED BY <2>1, <3>1
  <2> QED BY <1>3, <2>1, <2>2, Zenon DEF Unread
<1>17. Watermark' = Watermark
  BY <1>2 DEF Watermark, Sources
<1>18. /\ PanesAreOwn' /\ PanesAreComplete'
  <2>1. ASSUME NEW end \in Ends, NEW u \in Users
        PROVE  InWindow(u, end) \subseteq InWindow(u, end)'
               /\ InWindow(u, end)' \subseteq InWindow(u, end) \cup {event}
    BY <1>2 DEF InWindow
  <2>2. PanesAreOwn'
    BY <1>1, <1>2, <2>1 DEF PanesAreOwn
  <2>3. ASSUME NEW end \in Ends, NEW u \in Users, Complete(end, u) PROVE Complete(end, u)'
    BY <1>2, <1>16, <2>1, <2>3 DEF Complete
  <2> QED BY <1>1, <1>2, <1>17, <2>2, <2>3 DEF PanesAreComplete, Over
<1>19. CountStandsFor'
  <2> SUFFICES ASSUME NEW u \in Users, clicks'[u] # Absent
               PROVE  \E counted \in SUBSET published' : StandsFor(u, counted)'
    BY DEF CountStandsFor
  <2>1. PICK counted \in SUBSET published : StandsFor(u, counted)
    BY <1>1, <1>2 DEF CountStandsFor
  <2>2. /\ Clicked(u, clicks[u].end) \subseteq Clicked(u, clicks[u].end)'
        /\ Clicked(u, clicks[u].end)' \subseteq Clicked(u, clicks[u].end) \cup {event}
    BY <1>2 DEF Clicked
  <2>3. StandsFor(u, counted)'
    BY <1>2, <1>16, <1>17, <2>1, <2>2 DEF StandsFor, Over
  <2> QED BY <1>2, <2>3
<1>20. FiredInOrder'
  BY <1>1, <1>2, <1>17 DEF FiredInOrder, Over, Shapes
<1> QED BY <1>12, <1>13, <1>14, <1>15, <1>18, <1>19, <1>20 DEF WindowInv

\* What a partition's next event e, read by the job, changes.
Reads(p, e) ==
    /\ e \in published /\ Unread \subseteq Unread' \cup {e}
    /\ topic' \in [Partitions -> Seq(published)]
    /\ \A q \in Partitions : Len(topic'[q]) <= Len(topic[q])
    /\ newest' \in [Partitions -> Int]
    /\ \A q \in Partitions : newest[q] <= newest'[q]
    /\ \A q \in Partitions : newest'[q] = newest[q] \/ newest'[q] >= 0
    /\ panes' \in [Ends -> [Users -> SUBSET published]]
    /\ \A end \in Ends, u \in Users :
          panes'[end][u] = IF u = e.user /\ end \in WindowsOf(e.time) /\ ~Over(end)
                           THEN panes[end][u] \cup {e} ELSE panes[end][u]
    /\ missed \subseteq missed'
    /\ \A end \in WindowsOf(e.time) : Over(end) => e \in missed'

\* An event that comes after a window of its fired was dropped.
LEMMA ReadingAnEvent ==
    ASSUME Shapes, MarksLag, NEW p \in Partitions, ProcessElement(p)
    PROVE  \E e \in published : Reads(p, e)
<1> DEFINE event == Head(topic[p])
           late  == {end \in WindowsOf(event.time) : Over(end)}
<1>1. /\ topic[p] # <<>> /\ topic' = [topic EXCEPT ![p] = Tail(@)]
      /\ newest' = [newest EXCEPT ![p] = Max({@, event.time})]
      /\ panes' = [end \in Ends |->
                      IF end \in WindowsOf(event.time) \ late
                      THEN [panes[end] EXCEPT ![event.user] = @ \cup {event}]
                      ELSE panes[end]]
      /\ missed' = IF late = {} \/ event.time + OutOfOrder >= newest[p]
                   THEN missed ELSE missed \cup {event}
  BY DEF ProcessElement
<1>2. topic \in [Partitions -> Seq(published)] /\ topic[p] \in Seq(published)
  BY DEF Shapes
<1>3. /\ event \in published /\ Tail(topic[p]) \in Seq(published)
      /\ Len(Tail(topic[p])) <= Len(topic[p])
      /\ ToSet(topic[p]) \subseteq ToSet(Tail(topic[p])) \cup {event}
  BY <1>1, <1>2, TakeEvent
<1> HIDE DEF event
<1>4. event \in published /\ event.user \in Users /\ event.time \in Nat
  BY <1>3 DEF Shapes, Events
<1>5. /\ \A q \in Partitions : topic'[q] = IF q = p THEN Tail(topic[p]) ELSE topic[q]
      /\ topic' \in [Partitions -> Seq(published)]
  BY <1>1, <1>2, <1>3
<1>6. \A q \in Partitions : Len(topic'[q]) <= Len(topic[q])
  <2>1. \A q \in Partitions : Len(topic[q]) \in Nat
    BY <1>2, LenProperties
  <2>2. ASSUME NEW q \in Partitions PROVE Len(topic'[q]) <= Len(topic[q])
    <3>1. CASE q = p
      BY <1>3, <1>5, <3>1
    <3>2. CASE q # p
      <4>1. topic'[q] = topic[q]
        BY <1>5, <3>2
      <4> QED BY <2>1, <4>1
    <3> QED BY <3>1, <3>2
  <2> QED BY <2>2
<1>7. Unread \subseteq Unread' \cup {event}
  <2>1. ASSUME NEW q \in Partitions PROVE ToSet(topic[q]) \subseteq ToSet(topic'[q]) \cup {event}
    <3>1. CASE q = p
      BY <1>3, <1>5, <3>1
    <3>2. CASE q # p
      BY <1>5, <3>2
    <3> QED BY <3>1, <3>2
  <2> QED BY <2>1, Zenon DEF Unread
<1>8. /\ newest' \in [Partitions -> Int] /\ \A q \in Partitions : newest[q] <= newest'[q]
      /\ \A q \in Partitions : newest'[q] = newest[q] \/ newest'[q] >= 0
  <2>1. newest \in [Partitions -> Int] /\ newest[p] \in Int /\ event.time \in Int
    BY <1>4 DEF Shapes
  <2>2. PICK top : top = Max({newest[p], event.time})
    OBVIOUS
  <2>3. top \in {newest[p], event.time} /\ newest[p] <= top /\ event.time <= top
    BY <2>1, <2>2, MaxOfTwo
  <2>4. newest' = [newest EXCEPT ![p] = top]
    BY <1>1, <2>2
  <2> QED BY <1>4, <2>1, <2>3, <2>4
<1>9. ASSUME NEW end \in Ends, NEW u \in Users
      PROVE  panes'[end][u] = IF u = event.user /\ end \in WindowsOf(event.time) /\ ~Over(end)
                              THEN panes[end][u] \cup {event} ELSE panes[end][u]
  <2>1. panes \in [Ends -> [Users -> SUBSET published]] /\ panes[end] \in [Users -> SUBSET published]
    BY DEF Shapes
  <2>2. end \in WindowsOf(event.time) \ late <=> end \in WindowsOf(event.time) /\ ~Over(end)
    OBVIOUS
  <2> HIDE DEF late
  <2>3. panes'[end] = IF end \in WindowsOf(event.time) \ late
                      THEN [panes[end] EXCEPT ![event.user] = @ \cup {event}] ELSE panes[end]
    BY <1>1
  <2>4. CASE end \in WindowsOf(event.time) \ late
    <3>1. panes'[end] = [panes[end] EXCEPT ![event.user] = @ \cup {event}]
      BY <2>3, <2>4
    <3>2. panes'[end][u] = IF u = event.user THEN panes[end][u] \cup {event} ELSE panes[end][u]
      BY <2>1, <3>1
    <3> QED BY <2>2, <2>4, <3>2, Zenon
  <2>5. CASE ~(end \in WindowsOf(event.time) \ late)
    BY <2>2, <2>3, <2>5, Zenon
  <2> QED BY <2>4, <2>5
<1>10. panes' \in [Ends -> [Users -> SUBSET published]]
  <2>1. panes \in [Ends -> [Users -> SUBSET published]]
    BY DEF Shapes
  <2>2. ASSUME NEW end \in Ends
        PROVE  [panes[end] EXCEPT ![event.user] = @ \cup {event}] \in [Users -> SUBSET published]
    <3>1. panes[end] \in [Users -> SUBSET published]
      BY <2>1
    <3> QED BY <1>4, <3>1
  <2> HIDE DEF late
  <2> QED BY <1>1, <2>1, <2>2
<1>11. missed \subseteq missed'
  <2> HIDE DEF late
  <2> QED BY <1>1
<1>12. ASSUME NEW end \in WindowsOf(event.time), Over(end) PROVE event \in missed'
  <2>1. end \in Ends /\ event.time < end
    BY DEF WindowsOf
  <2>2. event.time + OutOfOrder < newest[p]
    BY <1>4, <1>12, <2>1, OverIsLate
  <2>3. late # {}
    BY <1>12
  <2>4. ~(event.time + OutOfOrder >= newest[p])
    BY <1>4, <2>2, WindowAssumption DEF Shapes
  <2> HIDE DEF late
  <2> QED BY <1>1, <2>3, <2>4
<1> QED BY <1>4, <1>5, <1>6, <1>7, <1>8, <1>9, <1>10, <1>11, <1>12 DEF Reads

\* An event is put into the windows it belongs to that are not over.
LEMMA ReadingKeepsInv ==
    ASSUME WindowInv, NEW p \in Partitions, ProcessElement(p)
    PROVE  WindowInv'
<1>1. /\ Shapes /\ MarksLag /\ IdsAreFresh /\ TopicIsPublished
      /\ PanesAreOwn /\ PanesAreComplete /\ CountStandsFor /\ FiredInOrder
  BY DEF WindowInv
<1>2. PICK e \in published : Reads(p, e)
  BY <1>1, ReadingAnEvent
<1>3. /\ published' = published /\ running' = running /\ crashes' = crashes /\ mark' = mark
      /\ clicks' = clicks /\ written' = written /\ Due = {}
      /\ parallelism' = parallelism /\ Sources' = Sources /\ \A s : SplitsOf(s)' = SplitsOf(s)
  BY DEF ProcessElement, Sources, SplitsOf
<1>4. Watermark' = Watermark /\ Watermark \in Int
  BY <1>1, <1>3, WatermarkIsLeast DEF Watermark
<1>5. ASSUME NEW end \in Ends, NEW u \in Users
      PROVE  /\ Over(end)' = Over(end)
             /\ Over(end) => panes[end][u] = {} /\ panes'[end][u] = {}
             /\ panes[end][u] \subseteq panes'[end][u]
             /\ panes'[end][u] \subseteq panes[end][u] \cup (InWindow(u, end) \cap {e})
             /\ ~Over(end) => InWindow(u, end) \cap {e} \subseteq panes'[end][u]
             /\ panes'[end][u] = {} => panes[end][u] = {}
  <2>1. panes'[end][u] = IF u = e.user /\ end \in WindowsOf(e.time) /\ ~Over(end)
                         THEN panes[end][u] \cup {e} ELSE panes[end][u]
    BY <1>2 DEF Reads
  <2>2. Over(end)' = Over(end)
    BY <1>4 DEF Over
  <2>3. Over(end) => panes[end][u] = {}
    <3>1. Over(end) /\ panes[end][u] # {} => <<end, u>> \in Due
      BY DEF Due
    <3> QED BY <1>3, <3>1
  <2>4. e \in InWindow(u, end) <=> u = e.user /\ end \in WindowsOf(e.time)
    BY <1>2 DEF InWindow
  <2> QED BY <2>1, <2>2, <2>3, <2>4
<1>6. Shapes'
  BY <1>1, <1>2, <1>3 DEF Shapes, Reads
<1>7. MarksLag'
  <2>1. ASSUME NEW q \in Partitions
        PROVE  /\ newest[q] \in Int /\ newest'[q] \in Int /\ newest[q] <= newest'[q]
               /\ newest'[q] >= Never /\ (newest'[q] = Never \/ newest'[q] >= 0)
    <3>1. /\ newest[q] \in Int /\ newest'[q] \in Int /\ newest[q] <= newest'[q]
          /\ newest'[q] = newest[q] \/ newest'[q] >= 0
      BY <1>1, <1>2 DEF Shapes, Reads
    <3>2. newest[q] >= Never /\ (newest[q] = Never \/ newest[q] >= 0)
      BY <1>1 DEF MarksLag
    <3> QED BY <3>1, <3>2, EndsArePositive
  <2>2. ASSUME NEW s \in Sources, NEW q \in SplitsOf(s)
        PROVE  mark'[s] = Never \/ mark'[s] <= newest'[q] - OutOfOrder - 1
    <3>1. q \in Partitions
      BY DEF SplitsOf
    <3>2. mark[s] \in Int /\ OutOfOrder \in Nat /\ mark'[s] = mark[s]
      BY <1>1, <1>3, WindowAssumption DEF Shapes
    <3>3. mark[s] = Never \/ mark[s] <= newest[q] - OutOfOrder - 1
      BY <1>1 DEF MarksLag
    <3> QED BY <2>1, <3>1, <3>2, <3>3
  <2> QED BY <1>1, <1>3, <2>1, <2>2 DEF MarksLag
<1>8. IdsAreFresh'
  BY <1>1, <1>3 DEF IdsAreFresh, NumberOf
<1>9. TopicIsPublished'
  <2>1. ASSUME NEW q \in Partitions PROVE Len(topic'[q]) <= Cardinality(published)
    <3>1. Len(topic[q]) \in Nat /\ Len(topic'[q]) \in Nat /\ Len(topic'[q]) <= Len(topic[q])
      BY <1>1, <1>2, LenProperties DEF Shapes, Reads
    <3>2. Cardinality(published) \in Nat /\ Len(topic[q]) <= Cardinality(published)
      BY <1>1, FS_CardinalityType DEF Shapes, TopicIsPublished
    <3> QED BY <3>1, <3>2
  <2> QED BY <1>1, <1>3, <2>1 DEF TopicIsPublished
<1>10. \A end \in Ends, u \in Users : InWindow(u, end)' = InWindow(u, end)
  BY <1>3 DEF InWindow
<1>11. PanesAreOwn'
  BY <1>1, <1>5, <1>10 DEF PanesAreOwn
<1>12. missed \cup Unread \subseteq missed' \cup Unread' \cup {e}
  BY <1>2 DEF Reads
<1>13. PanesAreComplete'
  <2> SUFFICES ASSUME NEW end \in Ends, NEW u \in Users, ~Over(end)
               PROVE  Complete(end, u)'
    BY <1>5 DEF PanesAreComplete
  <2>1. Complete(end, u)
    BY <1>1 DEF PanesAreComplete
  <2> QED BY <1>5, <1>10, <1>12, <2>1 DEF Complete
<1>14. CountStandsFor'
  <2> SUFFICES ASSUME NEW u \in Users, clicks'[u] # Absent
               PROVE  \E counted \in SUBSET published' : StandsFor(u, counted)'
    BY DEF CountStandsFor
  <2> DEFINE end == clicks[u].end
  <2>1. PICK counted \in SUBSET published : StandsFor(u, counted)
    BY <1>1, <1>3 DEF CountStandsFor
  <2>2. end \in Ends /\ clicks'[u].end = end
    BY <1>1, <1>3 DEF Shapes
  <2>3. Clicked(u, end)' = Clicked(u, end)
    BY <1>3 DEF Clicked
  <2>4. ASSUME Over(end), e \in Clicked(u, end) PROVE e \in missed'
    <3>1. end \in WindowsOf(e.time)
      BY <2>2, <2>4 DEF Clicked, WindowsOf
    <3> QED BY <1>2, <2>4, <3>1 DEF Reads
  <2>5. Over(end)' /\ panes'[end][u] = {} =>
           Clicked(u, end) \ (missed' \cup Unread') \subseteq counted
    <3> SUFFICES ASSUME Over(end)', panes'[end][u] = {}
                 PROVE  Clicked(u, end) \ (missed' \cup Unread') \subseteq counted
      OBVIOUS
    <3>1. Over(end) /\ panes[end][u] = {}
      BY <1>5, <2>2
    <3>2. Clicked(u, end) \ (missed \cup Unread) \subseteq counted
      BY <2>1, <3>1 DEF StandsFor
    <3> QED BY <1>12, <2>4, <3>1, <3>2
  <2>6. StandsFor(u, counted)'
    BY <1>3, <2>1, <2>2, <2>3, <2>5 DEF StandsFor
  <2> QED BY <1>3, <2>6
<1>15. FiredInOrder'
  <2> SUFFICES ASSUME NEW u \in written
               PROVE  /\ clicks[u].end \in Ends /\ Over(clicks[u].end)'
                      /\ \A end \in Ends : panes'[end][u] # {} => clicks[u].end <= end
    BY <1>3 DEF FiredInOrder
  <2>1. u \in Users /\ clicks[u].end \in Ends /\ Over(clicks[u].end)
    BY <1>1 DEF FiredInOrder, Shapes
  <2>2. ASSUME NEW end \in Ends, panes'[end][u] # {} PROVE clicks[u].end <= end
    <3>1. ~Over(end)
      BY <1>5, <2>1, <2>2
    <3>2. clicks[u].end \in Int /\ end \in Int /\ Watermark \in Int
      <4>1. \A n \in Ends : n \in Int
        BY EndsArePositive
      <4> QED BY <1>4, <2>1, <4>1, Zenon
    <3> QED BY <2>1, <3>1, <3>2 DEF Over
  <2>3. Over(clicks[u].end)'
    <3>1. Over(clicks[u].end)' <=> clicks[u].end - 1 <= Watermark'
      BY <1>3 DEF Over
    <3> QED BY <1>4, <2>1, <3>1 DEF Over
  <2> QED BY <2>1, <2>2, <2>3
<1> QED BY <1>6, <1>7, <1>8, <1>9, <1>11, <1>13, <1>14, <1>15 DEF WindowInv

\* The partition of a subtask that is the furthest back.
LEMMA LeastOfSplits ==
    ASSUME Shapes, MarksLag, NEW s \in Sources, SplitsOf(s) # {}
    PROVE  \E p \in SplitsOf(s) :
              /\ Min({newest[q] : q \in SplitsOf(s)}) = newest[p]
              /\ \A q \in SplitsOf(s) : newest[p] <= newest[q]
<1> DEFINE S == {newest[q] : q \in SplitsOf(s)}
<1>1. \A q \in SplitsOf(s) : newest[q] \in Int /\ Never <= newest[q]
  <2>1. \A q \in SplitsOf(s) : q \in Partitions
    BY DEF SplitsOf
  <2> QED BY <2>1, EndsArePositive DEF Shapes, MarksLag
<1>2. S \in SUBSET Int /\ S # {} /\ Never \in Int /\ \A x \in S : Never <= x
  BY <1>1, EndsArePositive
<1>3. Min(S) \in S /\ \A x \in S : Min(S) <= x
  <2> HIDE DEF S
  <2> QED BY <1>2, LeastOfBounded
<1> QED BY <1>3

\* A watermark moves forward, and more windows are over.
LEMMA EmitKeepsInv ==
    ASSUME WindowInv, NEW s \in Sources, EmitWatermark(s)
    PROVE  WindowInv'
<1>1. /\ Shapes /\ MarksLag /\ IdsAreFresh /\ TopicIsPublished
      /\ PanesAreOwn /\ PanesAreComplete /\ CountStandsFor /\ FiredInOrder
  BY DEF WindowInv
<1>2. /\ topic' = topic /\ published' = published /\ running' = running /\ crashes' = crashes
      /\ newest' = newest /\ panes' = panes /\ clicks' = clicks /\ missed' = missed
      /\ written' = written /\ parallelism' = parallelism
      /\ Sources' = Sources /\ \A t : SplitsOf(t)' = SplitsOf(t)
      /\ SplitsOf(s) # {} /\ \A p \in SplitsOf(s) : newest[p] # Never
      /\ mark' = [mark EXCEPT ![s] = Min({newest[p] : p \in SplitsOf(s)}) - OutOfOrder - 1]
  BY DEF EmitWatermark, kafka, Sources, SplitsOf
<1>20. PICK least \in SplitsOf(s) :
          /\ Min({newest[q] : q \in SplitsOf(s)}) = newest[least]
          /\ \A q \in SplitsOf(s) : newest[least] <= newest[q]
  BY <1>1, <1>2, LeastOfSplits
<1>21. /\ \A t \in Sources : \A q \in SplitsOf(t) : q \in Partitions /\ newest[q] \in Int
       /\ OutOfOrder \in Nat /\ newest[least] >= 0
  <2>1. \A t : \A q \in SplitsOf(t) : q \in Partitions
    BY DEF SplitsOf
  <2> QED BY <1>1, <1>2, <2>1, WindowAssumption DEF Shapes, MarksLag
<1>22. mark' = [mark EXCEPT ![s] = newest[least] - OutOfOrder - 1]
  BY <1>2, <1>20
<1>3. Shapes'
  <2>1. newest[least] - OutOfOrder - 1 \in Int
    BY <1>21
  <2>2. mark' \in [Sources' -> Int]
    BY <1>1, <1>2, <1>22, <2>1 DEF Shapes
  <2> QED BY <1>1, <1>2, <2>2 DEF Shapes
<1>4. ASSUME NEW t \in Sources
      PROVE  /\ mark[t] <= mark'[t] /\ mark'[t] >= Never
             /\ mark'[t] = Never \/ SplitsOf(t) # {}
             /\ \A q \in SplitsOf(t) : mark'[t] = Never \/ mark'[t] <= newest[q] - OutOfOrder - 1
  <2>1. /\ mark[t] \in Int /\ mark[t] >= Never /\ Never \in Int
        /\ mark[t] = Never \/ SplitsOf(t) # {}
        /\ \A q \in SplitsOf(t) : mark[t] = Never \/ mark[t] <= newest[q] - OutOfOrder - 1
    BY <1>1, EndsArePositive DEF Shapes, MarksLag
  <2>2. CASE t = s
    <3>1. mark'[t] = newest[least] - OutOfOrder - 1
      BY <1>1, <1>22, <2>2 DEF Shapes
    <3>2. mark[t] <= newest[least] - OutOfOrder - 1
      BY <1>20, <1>21, <2>1, <2>2 DEF Never
    <3>3. \A q \in SplitsOf(t) : newest[q] \in Int /\ newest[least] <= newest[q] /\ newest[least] \in Int
      BY <1>20, <1>21, <2>2
    <3>4. mark[t] <= mark'[t] /\ mark'[t] >= Never
      BY <1>21, <2>1, <3>1, <3>2 DEF Never
    <3>5. ASSUME NEW q \in SplitsOf(t) PROVE mark'[t] <= newest[q] - OutOfOrder - 1
      BY <1>21, <3>1, <3>3
    <3> QED BY <1>2, <2>2, <3>4, <3>5
  <2>3. CASE t # s
    <3>1. mark'[t] = mark[t]
      BY <1>22, <2>3, <1>1 DEF Shapes
    <3> QED BY <2>1, <3>1
  <2> QED BY <2>2, <2>3
<1>5. MarksLag'
  BY <1>1, <1>2, <1>4 DEF MarksLag
<1>6. \A end \in Ends : Over(end) => Over(end)'
  BY <1>1, <1>2, <1>3, <1>4, <1>5, OverStays
<1>7. /\ Unread' = Unread
      /\ \A end \in Ends, u \in Users : InWindow(u, end)' = InWindow(u, end)
  BY <1>2 DEF Unread, InWindow
<1>8. IdsAreFresh' /\ TopicIsPublished' /\ PanesAreOwn'
  BY <1>1, <1>2, <1>7 DEF IdsAreFresh, NumberOf, TopicIsPublished, PanesAreOwn
<1>9. PanesAreComplete'
  <2>1. ASSUME NEW end \in Ends, NEW u \in Users, Complete(end, u) PROVE Complete(end, u)'
    BY <1>2, <1>7, <2>1 DEF Complete
  <2> QED BY <1>1, <1>2, <1>6, <2>1 DEF PanesAreComplete
<1>10. CountStandsFor'
  <2> SUFFICES ASSUME NEW u \in Users, clicks'[u] # Absent
               PROVE  \E counted \in SUBSET published' : StandsFor(u, counted)'
    BY DEF CountStandsFor
  <2> DEFINE end == clicks[u].end
  <2>1. PICK counted \in SUBSET published : StandsFor(u, counted)
    BY <1>1, <1>2 DEF CountStandsFor
  <2>2. end \in Ends /\ clicks'[u].end = end /\ Clicked(u, end)' = Clicked(u, end)
    BY <1>1, <1>2 DEF Shapes, Clicked
  <2>3. ASSUME panes[end][u] = {} PROVE Clicked(u, end) \ (missed \cup Unread) \subseteq counted
    <3>1. CASE Over(end)
      BY <2>1, <2>3, <3>1 DEF StandsFor
    <3>2. CASE ~Over(end)
      <4>1. Complete(end, u)
        BY <1>1, <2>2, <3>2 DEF PanesAreComplete
      <4>2. Clicked(u, end) \subseteq InWindow(u, end)
        BY <2>2 DEF Clicked, InWindow, WindowsOf
      <4> QED BY <2>3, <4>1, <4>2 DEF Complete
    <3> QED BY <3>1, <3>2
  <2>4. StandsFor(u, counted)'
    BY <1>2, <1>7, <2>1, <2>2, <2>3 DEF StandsFor
  <2> QED BY <1>2, <2>4
<1>11. FiredInOrder'
  BY <1>1, <1>2, <1>6 DEF FiredInOrder
<1> QED BY <1>3, <1>5, <1>8, <1>9, <1>10, <1>11 DEF WindowInv

\* The window of a user that fires is the first that is over, and it is counted.
LEMMA ProcessKeepsInv ==
    ASSUME WindowInv, NEW u \in Users, Process(u)
    PROVE  WindowInv' /\ \A v \in Users : v \in written => clicks[v].end <= clicks'[v].end
<1>1. /\ Shapes /\ MarksLag /\ IdsAreFresh /\ TopicIsPublished
      /\ PanesAreOwn /\ PanesAreComplete /\ CountStandsFor /\ FiredInOrder
  BY DEF WindowInv
<1>2. PICK end \in Ends :
        /\ <<end, u>> \in Due /\ \A other \in Ends : <<other, u>> \in Due => end <= other
        /\ clicks' = [clicks EXCEPT ![u] = [end |-> end, count |-> ClickCount(panes[end][u])]]
        /\ panes' = [panes EXCEPT ![end][u] = {}]
  BY DEF Process
<1>3. /\ topic' = topic /\ published' = published /\ running' = running /\ crashes' = crashes
      /\ newest' = newest /\ mark' = mark /\ missed' = missed /\ written' = written \cup {u}
      /\ parallelism' = parallelism /\ Sources' = Sources /\ \A s : SplitsOf(s)' = SplitsOf(s)
  BY DEF Process, kafka, Sources, SplitsOf
<1>4. Over(end) /\ panes[end][u] # {}
  BY <1>2 DEF Due
<1>5. /\ panes \in [Ends -> [Users -> SUBSET published]]
      /\ panes' \in [Ends -> [Users -> SUBSET published]]
      /\ \A n \in Ends, v \in Users :
            panes'[n][v] = IF n = end /\ v = u THEN {} ELSE panes[n][v]
  <2>1. panes \in [Ends -> [Users -> SUBSET published]]
    BY <1>1 DEF Shapes
  <2> QED BY <1>2, <2>1
<1> DEFINE counted == {e \in panes[end][u] : e.click}
<1>6. counted \in SUBSET published /\ IsFiniteSet(counted) /\ Cardinality(counted) \in 0 .. MaxEvents
  <2>1. panes[end][u] \subseteq published
    BY <1>5
  <2>2. counted \in SUBSET published /\ IsFiniteSet(published)
    BY <1>1, <2>1 DEF Shapes
  <2> HIDE DEF counted
  <2>3. /\ IsFiniteSet(counted) /\ Cardinality(counted) \in Nat
        /\ Cardinality(counted) <= Cardinality(published) /\ Cardinality(published) \in Nat
    BY <2>2, FS_Subset, FS_CardinalityType
  <2>4. Cardinality(published) <= MaxEvents
    BY <1>1 DEF TopicIsPublished
  <2> QED BY <2>2, <2>3, <2>4, BoundAssumption
<1>7. /\ clicks \in [Users -> {Absent} \cup [end : Ends, count : 0 .. MaxEvents]]
      /\ clicks' = [clicks EXCEPT ![u] = [end |-> end, count |-> Cardinality(counted)]]
  BY <1>1, <1>2 DEF Shapes, ClickCount
<1> HIDE DEF counted
<1>8. Shapes'
  <2>1. [end |-> end, count |-> Cardinality(counted)] \in [end : Ends, count : 0 .. MaxEvents]
    BY <1>6
  <2>2. clicks' \in [Users -> {Absent} \cup [end : Ends, count : 0 .. MaxEvents]]
    BY <1>7, <2>1
  <2> QED BY <1>1, <1>3, <1>5, <2>2 DEF Shapes
<1>9. MarksLag' /\ IdsAreFresh' /\ TopicIsPublished'
  BY <1>1, <1>3 DEF MarksLag, IdsAreFresh, NumberOf, TopicIsPublished
<1>10. /\ Watermark' = Watermark /\ Unread' = Unread
       /\ \A n \in Ends, v \in Users : InWindow(v, n)' = InWindow(v, n)
  BY <1>3 DEF Watermark, Sources, Unread, InWindow
<1>11. Watermark \in Int
  BY <1>1, WatermarkIsLeast
<1>12. PanesAreOwn'
  <2>1. \A n \in Ends, v \in Users : panes'[n][v] \subseteq panes[n][v]
    BY <1>5
  <2> QED BY <1>1, <1>10, <2>1 DEF PanesAreOwn
<1>13. PanesAreComplete'
  <2> SUFFICES ASSUME NEW n \in Ends, NEW v \in Users
               PROVE  (Over(n)' /\ panes'[n][v] = {}) \/ Complete(n, v)'
    BY DEF PanesAreComplete
  <2>1. Over(n)' = Over(n)
    BY <1>10 DEF Over
  <2>2. CASE n = end /\ v = u
    BY <1>4, <1>5, <2>1, <2>2
  <2>3. CASE ~(n = end /\ v = u)
    <3>1. panes'[n][v] = panes[n][v]
      BY <1>5, <2>3
    <3> QED BY <1>1, <1>3, <1>10, <2>1, <3>1 DEF PanesAreComplete, Complete
  <2> QED BY <2>2, <2>3
<1>14. CountStandsFor'
  <2> SUFFICES ASSUME NEW v \in Users, clicks'[v] # Absent
               PROVE  \E some \in SUBSET published' : StandsFor(v, some)'
    BY DEF CountStandsFor
  <2>1. CASE v = u
    <3>1. clicks'[v].end = end /\ clicks'[v].count = Cardinality(counted)
      BY <1>7, <2>1
    <3>2. \A e \in InWindow(u, end) : e.user = u /\ end - Size <= e.time /\ e.time < end
      BY DEF InWindow, WindowsOf
    <3>3. panes[end][u] \subseteq InWindow(u, end) /\ InWindow(u, end) \subseteq published
      BY <1>1 DEF PanesAreOwn, InWindow
    <3>4. counted \subseteq Clicked(u, end)
      BY <3>2, <3>3 DEF Clicked, counted
    <3>5. Complete(end, u)
      BY <1>1, <1>4 DEF PanesAreComplete
    <3>6. Clicked(u, end) \subseteq InWindow(u, end) /\ \A e \in Clicked(u, end) : e.click
      BY DEF Clicked, InWindow, WindowsOf
    <3>7. Clicked(u, end) \ (missed \cup Unread) \subseteq counted
      BY <3>5, <3>6 DEF Complete, counted
    <3>8. Clicked(u, end)' = Clicked(u, end)
      BY <1>3 DEF Clicked
    <3>9. PICK some : some = counted
      OBVIOUS
    <3>10. StandsFor(v, some)'
      BY <1>3, <1>10, <2>1, <3>1, <3>4, <3>7, <3>8, <3>9 DEF StandsFor
    <3> QED BY <1>3, <1>6, <3>9, <3>10
  <2>2. CASE v # u
    <3>1. clicks'[v] = clicks[v]
      BY <1>7, <2>2
    <3>2. PICK some \in SUBSET published : StandsFor(v, some)
      BY <1>1, <3>1 DEF CountStandsFor
    <3>3. clicks[v].end \in Ends
      BY <1>7, <3>1
    <3>4. panes'[clicks[v].end][v] = panes[clicks[v].end][v]
      BY <1>5, <2>2, <3>3
    <3>5. Clicked(v, clicks[v].end)' = Clicked(v, clicks[v].end)
      BY <1>3, <3>1 DEF Clicked
    <3>6. Over(clicks[v].end)' = Over(clicks[v].end)
      BY <1>10, <3>1 DEF Over
    <3>7. StandsFor(v, some)'
      BY <1>3, <1>10, <3>1, <3>2, <3>4, <3>5, <3>6 DEF StandsFor
    <3> QED BY <1>3, <3>2, <3>7
  <2> QED BY <2>1, <2>2
<1>15. \A n \in Ends : n \in Int
  BY EndsArePositive
<1>16. FiredInOrder'
  <2> SUFFICES ASSUME NEW v \in written'
               PROVE  /\ clicks'[v].end \in Ends /\ Over(clicks[v].end)'
                      /\ \A n \in Ends : panes'[n][v] # {} => clicks'[v].end <= n
    BY DEF FiredInOrder
  <2>0. v \in Users /\ (v # u => v \in written)
    BY <1>1, <1>3 DEF Shapes
  <2>1. CASE v = u
    <3>1. clicks'[v].end = end
      BY <1>7, <2>1
    <3>2. ASSUME NEW n \in Ends, panes'[n][v] # {} PROVE end <= n
      <4>1. n # end /\ panes[n][u] # {}
        BY <1>5, <2>1, <3>2
      <4>2. CASE Over(n)
        <5>1. <<n, u>> \in Due
          BY <4>1, <4>2 DEF Due
        <5> QED BY <1>2, <5>1
      <4>3. CASE ~Over(n)
        <5>1. n \in Int /\ end \in Int
          BY <1>15, Zenon
        <5> QED BY <1>4, <1>11, <4>3, <5>1 DEF Over
      <4> QED BY <4>2, <4>3
    <3> QED BY <1>4, <1>10, <3>1, <3>2 DEF Over
  <2>2. CASE v # u
    <3>1. clicks'[v] = clicks[v] /\ \A n \in Ends : panes'[n][v] = panes[n][v]
      BY <1>5, <1>7, <2>0, <2>2
    <3> QED BY <1>1, <1>10, <2>0, <2>2, <3>1 DEF FiredInOrder, Over
  <2> QED BY <2>1, <2>2
<1>17. ASSUME NEW v \in Users, v \in written PROVE clicks[v].end <= clicks'[v].end
  <2>1. CASE v = u
    <3>1. clicks'[v].end = end
      BY <1>7, <2>1
    <3> QED BY <1>1, <1>4, <1>17, <2>1, <3>1 DEF FiredInOrder
  <2>2. CASE v # u
    <3>1. clicks'[v].end = clicks[v].end
      BY <1>7, <2>2
    <3>2. clicks[v].end \in Ends \cup {Never}
      BY <1>7 DEF Absent
    <3>3. clicks[v].end \in Int
      BY <1>15, <3>2, EndsArePositive, Zenon
    <3> QED BY <3>1, <3>3
  <2> QED BY <2>1, <2>2
<1>18. WindowInv'
  BY <1>8, <1>9, <1>12, <1>13, <1>14, <1>16 DEF WindowInv
<1> QED BY <1>17, <1>18

\* What was read and not counted is lost with the job.
LEMMA CrashKeepsInv ==
    ASSUME WindowInv, Crash
    PROVE  WindowInv'
<1>1. /\ Shapes /\ MarksLag /\ IdsAreFresh /\ TopicIsPublished
      /\ PanesAreOwn /\ PanesAreComplete /\ CountStandsFor /\ FiredInOrder
  BY DEF WindowInv
<1>2. /\ topic' = topic /\ published' = published /\ running' = FALSE
      /\ crashes < MaxCrashes /\ crashes' = crashes + 1
      /\ newest' = [p \in Partitions |-> Never] /\ mark' = [s \in Sources |-> Never]
      /\ parallelism' = parallelism /\ Sources' = Sources /\ written' = {}
      /\ panes' = [end \in Ends |-> [u \in Users |-> {}]]
      /\ clicks' = clicks /\ missed' = missed \cup (published \ Unread)
  BY DEF Crash, kafka, NoPanes, Sources
<1>3. crashes' \in 0 .. MaxCrashes
  <2>1. crashes \in 0 .. MaxCrashes
    BY <1>1 DEF Shapes
  <2> QED BY <1>2, <2>1, BoundAssumption
<1>4. Shapes'
  <2>1. newest' \in [Partitions -> Int] /\ mark' \in [Sources' -> Int]
    BY <1>2, EndsArePositive
  <2> QED BY <1>1, <1>2, <1>3, <2>1 DEF Shapes
<1>5. MarksLag'
  BY <1>2, EndsArePositive DEF MarksLag
<1>6. IdsAreFresh' /\ TopicIsPublished' /\ Unread' = Unread
  BY <1>1, <1>2 DEF IdsAreFresh, NumberOf, TopicIsPublished, Unread
<1>7. published \subseteq missed' \cup Unread'
  BY <1>2, <1>6
<1>8. PanesAreOwn'
  BY <1>2 DEF PanesAreOwn
<1>9. PanesAreComplete'
  <2>1. \A end \in Ends, u \in Users : InWindow(u, end)' \subseteq published
    BY <1>2 DEF InWindow
  <2> QED BY <1>7, <2>1 DEF PanesAreComplete, Complete
<1>10. CountStandsFor'
  <2> SUFFICES ASSUME NEW u \in Users, clicks'[u] # Absent
               PROVE  \E counted \in SUBSET published' : StandsFor(u, counted)'
    BY DEF CountStandsFor
  <2>1. PICK counted \in SUBSET published : StandsFor(u, counted)
    BY <1>1, <1>2 DEF CountStandsFor
  <2>2. /\ Clicked(u, clicks[u].end)' = Clicked(u, clicks[u].end)
        /\ Clicked(u, clicks[u].end) \subseteq published
    BY <1>2 DEF Clicked
  <2>3. StandsFor(u, counted)'
    BY <1>2, <1>7, <2>1, <2>2 DEF StandsFor
  <2> QED BY <1>2, <2>3
<1>11. FiredInOrder'
  BY <1>2 DEF FiredInOrder
<1> QED BY <1>3, <1>4, <1>5, <1>6, <1>8, <1>9, <1>10, <1>11 DEF WindowInv

\* What was not read is skipped.
LEMMA RestartKeepsInv ==
    ASSUME WindowInv, Restart
    PROVE  WindowInv'
<1>1. /\ Shapes /\ MarksLag /\ IdsAreFresh /\ TopicIsPublished
      /\ PanesAreOwn /\ PanesAreComplete /\ CountStandsFor /\ FiredInOrder
  BY DEF WindowInv
<1>2. /\ topic' = [p \in Partitions |-> <<>>] /\ published' = published /\ running' = TRUE
      /\ crashes' = crashes /\ newest' = newest /\ mark' = mark /\ panes' = panes
      /\ clicks' = clicks /\ missed' = missed \cup Unread /\ written' = written
      /\ parallelism' = parallelism /\ Sources' = Sources /\ \A s : SplitsOf(s)' = SplitsOf(s)
  BY DEF Restart, Sources, SplitsOf
<1>3. /\ topic' \in [Partitions -> Seq(published)]
      /\ \A p \in Partitions : Len(topic'[p]) = 0
  <2>1. PICK empty : empty = <<>>
    OBVIOUS
  <2>2. empty \in Seq(published) /\ Len(empty) = 0
    BY <2>1, EmptySeq
  <2> QED BY <1>2, <2>1, <2>2
<1>4. Shapes' /\ MarksLag' /\ IdsAreFresh'
  BY <1>1, <1>2, <1>3 DEF Shapes, MarksLag, IdsAreFresh, NumberOf
<1>5. TopicIsPublished'
  <2>1. Cardinality(published) \in Nat
    BY <1>1, FS_CardinalityType DEF Shapes
  <2> QED BY <1>1, <1>2, <1>3, <2>1 DEF TopicIsPublished
<1>6. /\ Watermark' = Watermark /\ missed \cup Unread \subseteq missed' \cup Unread'
      /\ \A end \in Ends, u \in Users : InWindow(u, end)' = InWindow(u, end)
  BY <1>2 DEF Watermark, Sources, InWindow
<1>7. PanesAreOwn' /\ FiredInOrder'
  BY <1>1, <1>2, <1>6 DEF PanesAreOwn, FiredInOrder, Over
<1>8. PanesAreComplete'
  <2>1. ASSUME NEW end \in Ends, NEW u \in Users, Complete(end, u) PROVE Complete(end, u)'
    BY <1>2, <1>6, <2>1 DEF Complete
  <2> QED BY <1>1, <1>2, <1>6, <2>1 DEF PanesAreComplete, Over
<1>9. CountStandsFor'
  <2> SUFFICES ASSUME NEW u \in Users, clicks'[u] # Absent
               PROVE  \E counted \in SUBSET published' : StandsFor(u, counted)'
    BY DEF CountStandsFor
  <2>1. PICK counted \in SUBSET published : StandsFor(u, counted)
    BY <1>1, <1>2 DEF CountStandsFor
  <2>2. Clicked(u, clicks[u].end)' = Clicked(u, clicks[u].end)
    BY <1>2 DEF Clicked
  <2>3. StandsFor(u, counted)'
    BY <1>2, <1>6, <2>1, <2>2 DEF StandsFor, Over
  <2> QED BY <1>2, <2>3
<1> QED BY <1>4, <1>5, <1>7, <1>8, <1>9 DEF WindowInv

\* Every step keeps the invariant, and none takes back a count that was written
\* since the job started.
LEMMA StepWindowInv ==
    WindowInv /\ [Next]_vars =>
        WindowInv' /\ \A u \in Users : u \in written => clicks[u].end <= clicks'[u].end
<1> SUFFICES ASSUME WindowInv, [Next]_vars
             PROVE  WindowInv' /\ \A u \in Users : u \in written => clicks[u].end <= clicks'[u].end
  OBVIOUS
<1>1. \A u \in Users : clicks[u].end <= clicks[u].end
  <2>1. ASSUME NEW u \in Users PROVE clicks[u].end \in Int
    <3>1. clicks[u].end \in Ends \cup {Never}
      BY DEF WindowInv, Shapes, Absent
    <3>2. \A n \in Ends : n \in Int
      BY EndsArePositive
    <3> QED BY <3>1, <3>2, EndsArePositive, Zenon
  <2> QED BY <2>1
<1>2. CASE UNCHANGED vars
  <2>1. WindowInv'
    <3> USE <1>2 DEF vars, kafka, job
    <3>1. /\ Shapes /\ MarksLag /\ IdsAreFresh /\ TopicIsPublished
          /\ PanesAreOwn /\ PanesAreComplete /\ CountStandsFor /\ FiredInOrder
      BY DEF WindowInv
    <3>2. Shapes' /\ MarksLag' /\ IdsAreFresh' /\ TopicIsPublished'
      BY <3>1 DEF Shapes, MarksLag, Sources, SplitsOf, IdsAreFresh, NumberOf, TopicIsPublished
    <3>3. /\ Watermark' = Watermark /\ Unread' = Unread
          /\ \A end \in Ends, u \in Users : InWindow(u, end)' = InWindow(u, end)
      BY DEF Watermark, Sources, Unread, InWindow
    <3>4. PanesAreOwn' /\ PanesAreComplete' /\ FiredInOrder'
      BY <3>1, <3>3 DEF PanesAreOwn, PanesAreComplete, Complete, FiredInOrder, Over
    <3>5. CountStandsFor'
      <4>1. ASSUME NEW u \in Users, NEW counted \in SUBSET published, StandsFor(u, counted)
            PROVE  StandsFor(u, counted)'
        BY <3>3, <4>1 DEF StandsFor, Clicked, Over
      <4> QED BY <3>1, <4>1 DEF CountStandsFor
    <3> QED BY <3>2, <3>4, <3>5 DEF WindowInv
  <2> QED BY <1>1, <1>2, <2>1 DEF vars
<1>3. ASSUME NEW kind \in Kinds, Publish(kind) PROVE WindowInv' /\ clicks' = clicks
  BY <1>3, PublishKeepsInv DEF Publish
<1>4. ASSUME NEW p \in Partitions, ProcessElement(p) PROVE WindowInv' /\ clicks' = clicks
  BY <1>4, ReadingKeepsInv DEF ProcessElement
<1>5. ASSUME NEW s \in Sources, EmitWatermark(s) PROVE WindowInv' /\ clicks' = clicks
  BY <1>5, EmitKeepsInv DEF EmitWatermark
<1>6. ASSUME NEW u \in Users, Process(u)
      PROVE  WindowInv' /\ \A v \in Users : v \in written => clicks[v].end <= clicks'[v].end
  BY <1>6, ProcessKeepsInv
<1>7. ASSUME Crash PROVE WindowInv' /\ clicks' = clicks
  BY <1>7, CrashKeepsInv DEF Crash
<1>8. ASSUME Restart PROVE WindowInv' /\ clicks' = clicks
  BY <1>8, RestartKeepsInv DEF Restart
<1> QED BY <1>1, <1>2, <1>3, <1>4, <1>5, <1>6, <1>7, <1>8 DEF Next, JobStep

-----------------------------------------------------------------------------
(***************************************************************************)
(* The theorems.                                                           *)
(***************************************************************************)

\* The invariant holds in every reachable state.
THEOREM InvHolds == Spec => []WindowInv
BY InitWindowInv, StepWindowInv, PTL DEF Spec

\* TypeOK of the job's run: what waits was published, no more than the bounds
\* allow; a watermark is never ahead of what was read; a window holds published
\* events only.
THEOREM TypeCorrect == Spec => []TypeOK
<1>1. WindowInv => TypeOK
  BY DEF WindowInv, Shapes, MarksLag, TopicIsPublished, TypeOK
<1> QED BY <1>1, InvHolds, PTL

\* ClickWindowFunction counts what its window held: never more than the clicks
\* of the window, and no fewer once it is over than those no restart lost and
\* no bound on lateness excluded; and none is written before each subtask of the
\* source has a partition and each partition has passed the window, for any
\* partitions, parallelism, windows and lateness.
THEOREM CountsTheWindow == Spec => []CountsWindow
<1>1. ASSUME WindowInv, NEW u \in Users, clicks[u] # Absent
      PROVE  LET end == clicks[u].end
                 all == Clicked(u, end) IN
             /\ clicks[u].count <= Cardinality(all)
             /\ Over(end) /\ panes[end][u] = {} =>
                   clicks[u].count >= Cardinality(all \ (missed \cup Unread))
             /\ u \in written => AllPast(end)
  <2>1. PICK counted \in SUBSET published : StandsFor(u, counted)
    BY <1>1 DEF WindowInv, CountStandsFor
  <2> DEFINE end == clicks[u].end
             all == Clicked(u, end)
             sure == all \ (missed \cup Unread)
  <2>2. IsFiniteSet(all) /\ IsFiniteSet(counted) /\ counted \subseteq all
    <3>1. IsFiniteSet(published) /\ all \in SUBSET published
      BY <1>1 DEF WindowInv, Shapes, Clicked
    <3>2. counted \subseteq all
      BY <2>1 DEF StandsFor
    <3> HIDE DEF all
    <3> QED BY <3>1, <3>2, FS_Subset
  <2>3. clicks[u].count = Cardinality(counted)
    BY <2>1 DEF StandsFor
  <2>4. Cardinality(counted) <= Cardinality(all)
    <3> HIDE DEF all
    <3> QED BY <2>2, FS_Subset
  <2>5. ASSUME Over(end), panes[end][u] = {} PROVE Cardinality(counted) >= Cardinality(sure)
    <3>1. sure \in SUBSET counted
      BY <2>1, <2>5 DEF StandsFor
    <3> HIDE DEF sure
    <3>2. Cardinality(sure) <= Cardinality(counted) /\ IsFiniteSet(sure)
      BY <2>2, <3>1, FS_Subset
    <3>3. Cardinality(sure) \in Nat /\ Cardinality(counted) \in Nat
      BY <2>2, <3>2, FS_CardinalityType
    <3> QED BY <3>2, <3>3
  <2>6. ASSUME u \in written PROVE AllPast(end)
    BY <1>1, <2>6, OverIsPast DEF WindowInv, FiredInOrder
  <2> QED BY <2>3, <2>4, <2>5, <2>6
<1>2. WindowInv => CountsWindow
  BY <1>1 DEF CountsWindow
<1> QED BY <1>2, InvHolds, PTL

\* The windows of a user fire in the order of their ends between two restarts:
\* the sink overwrites a newer count with an older one at most with the first
\* that it writes after a restart.
THEOREM CountsGoForward == Spec => WindowsGoForward
<1>1. WindowInv /\ [Next]_vars =>
          [\A u \in Users : u \in written => clicks[u].end <= clicks'[u].end]_vars
  BY StepWindowInv
<1> QED BY <1>1, InvHolds, PTL DEF Spec, WindowsGoForward

=============================================================================
