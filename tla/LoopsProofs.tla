----------------------------- MODULE LoopsProofs -----------------------------
(***************************************************************************)
(* What the loops of Loops compute, for every slice.  The library proves   *)
(* induction over the naturals for an operator; it is stated here for a    *)
(* set, from the fact that < is well-founded.                              *)
(***************************************************************************)
EXTENDS Loops, SequencesExt, SequenceTheorems, WellFoundedInduction, TLAPS

Less == {p \in Nat \X Nat : p[1] < p[2]}

\* There is no endless descent in the naturals.
LEMMA LessIsWellFounded == IsWellFoundedOn(Less, Nat)
<1>1. OpToRel(<, Nat) = Less
  BY DEF OpToRel, Less
<1> QED
  BY <1>1, NatLessThanWellFounded

\* A set that holds 0 and with each number of 0 .. N - 1 the next one holds
\* them all up to N.
LEMMA UpTo ==
  ASSUME NEW N \in Nat, NEW S, 0 \in S,
         \A n \in Nat : n < N /\ n \in S => n + 1 \in S
  PROVE  0 .. N \subseteq S
<1> DEFINE Out == (0 .. N) \ S
<1>1. SUFFICES ASSUME Out # {} PROVE FALSE
  OBVIOUS
<1>2. PICK x \in Out : \A y \in Out : ~ (<<y, x>> \in Less)
  <2>1. Out \subseteq Nat /\ Out # {}
    BY <1>1
  <2> HIDE DEF Out
  <2> QED
    BY <2>1, LessIsWellFounded, WFMin
<1>3. x # 0 /\ x - 1 \in Nat /\ x - 1 < N /\ x - 1 + 1 = x
  BY <1>2
<1>4. x - 1 \in Out
  BY <1>2, <1>3
<1>5. <<x - 1, x>> \in Less
  BY <1>3 DEF Less
<1> QED
  BY <1>2, <1>4, <1>5

\* The values that the accumulator of a loop takes in N turns.
LoopValues(Acc, start, N, step) ==
  {f \in [0 .. N -> Acc] :
      f[0] = start /\ \A n \in 1 .. N : f[n] = step[<<f[n - 1], n>>]}

\* Whatever the loop does in a turn, it has a value after each.
LEMMA LoopHasValues ==
  ASSUME NEW Acc, NEW start \in Acc, NEW N \in Nat,
         NEW step \in [Acc \X (1 .. N) -> Acc]
  PROVE  LoopValues(Acc, start, N, step) # {}
<1> DEFINE Good(f, m) == f[0] = start /\ \A n \in 1 .. m : f[n] = step[<<f[n - 1], n>>]
           Done == {m \in 0 .. N : \E f \in [0 .. m -> Acc] : Good(f, m)}
<1>1. 0 \in Done
  <2> DEFINE f == [n \in 0 .. 0 |-> start]
  <2>1. f \in [0 .. 0 -> Acc] /\ f[0] = start /\ 1 .. 0 = {}
    OBVIOUS
  <2>2. Good(f, 0) /\ 0 \in 0 .. N
    <3> HIDE DEF f
    <3> QED
      BY <2>1
  <2> HIDE DEF f, Good
  <2> QED
    BY <2>1, <2>2
<1>2. ASSUME NEW m \in Nat, m < N, m \in Done PROVE m + 1 \in Done
  <2>1. PICK f \in [0 .. m -> Acc] : Good(f, m)
    BY <1>2
  <2> DEFINE g == [n \in 0 .. m + 1 |-> IF n = m + 1 THEN step[<<f[m], m + 1>>] ELSE f[n]]
  <2>2. f[m] \in Acc /\ m + 1 \in 1 .. N
    BY <1>2, <2>1
  <2>3. step[<<f[m], m + 1>>] \in Acc
    BY <2>2
  <2>4. g \in [0 .. m + 1 -> Acc]
    <3>1. ASSUME NEW n \in 0 .. m + 1 PROVE g[n] \in Acc
      BY <2>1, <2>3
    <3> QED
      BY <3>1
  <2>5. g[0] = start
    BY <2>1, <1>2
  <2>6. ASSUME NEW n \in 1 .. m + 1 PROVE g[n] = step[<<g[n - 1], n>>]
    <3>1. g[n - 1] = f[n - 1]
      BY <1>2
    <3>2. CASE n = m + 1
      BY <1>2, <3>1, <3>2
    <3>3. CASE n # m + 1
      <4>1. n \in 1 .. m /\ g[n] = f[n]
        BY <3>3, <1>2
      <4> QED
        BY <2>1, <3>1, <4>1
    <3> QED
      BY <3>2, <3>3
  <2>7. m + 1 \in 0 .. N
    BY <1>2
  <2> HIDE DEF g
  <2> QED
    BY <2>4, <2>5, <2>6, <2>7
<1>3. 0 .. N \subseteq Done
  <2> HIDE DEF Done
  <2> QED
    BY <1>1, <1>2, UpTo
<1> QED
  BY <1>3 DEF LoopValues

-----------------------------------------------------------------------------

\* What the turns of the appending loop make of the new slice.
KeptInTurns(S, list, keep, kept) ==
  /\ kept \in [0 .. Len(list) -> Seq(S)]
  /\ kept[0] = <<>>
  /\ \A n \in 1 .. Len(list) :
        kept[n] = IF list[n] \in keep THEN Append(kept[n - 1], list[n]) ELSE kept[n - 1]

\* The loop of Filter appends an element that is kept and nothing else.
LEMMA KeptTurns ==
  ASSUME NEW S, NEW list \in Seq(S), NEW keep
  PROVE  KeptInTurns(S, list, keep, Kept(list, keep))
<1> PICK N \in Nat : N = Len(list)
  OBVIOUS
<1> PICK kept : kept = Kept(list, keep)
  OBVIOUS
<1> DEFINE Turn(before, n) == IF list[n] \in keep THEN Append(before, list[n]) ELSE before
           Turns(f) == [n \in 0 .. N |-> IF n = 0 THEN <<>> ELSE Turn(f[n - 1], n)]
<1>1. ASSUME NEW before \in Seq(S), NEW n \in 1 .. N PROVE Turn(before, n) \in Seq(S)
  <2>1. list[n] \in S
    OBVIOUS
  <2> QED
    BY <2>1
<1>2. kept = CHOOSE f : f = Turns(f)
  BY DEF Kept
<1> HIDE DEF Turn
<1>3. PICK step \in [Seq(S) \X (1 .. N) -> Seq(S)] :
         \A before \in Seq(S), n \in 1 .. N : step[<<before, n>>] = Turn(before, n)
  <2> DEFINE step == [p \in Seq(S) \X (1 .. N) |-> Turn(p[1], p[2])]
  <2>1. step \in [Seq(S) \X (1 .. N) -> Seq(S)]
    BY <1>1
  <2>2. \A before \in Seq(S), n \in 1 .. N : step[<<before, n>>] = Turn(before, n)
    OBVIOUS
  <2> HIDE DEF step
  <2> QED
    BY <2>1, <2>2
<1>4. PICK empty \in Seq(S) : empty = <<>>
  BY EmptySeq
<1>5. PICK f \in [0 .. N -> Seq(S)] :
         f[0] = empty /\ \A n \in 1 .. N : f[n] = step[<<f[n - 1], n>>]
  <2>1. LoopValues(Seq(S), empty, N, step) # {}
    BY <1>4, LoopHasValues
  <2> QED
    BY <2>1 DEF LoopValues
<1>6. ASSUME NEW n \in 1 .. N PROVE f[n] = Turn(f[n - 1], n)
  <2>1. n - 1 \in 0 .. N
    OBVIOUS
  <2>2. f[n - 1] \in Seq(S)
    BY <2>1
  <2> QED
    BY <2>2, <1>3, <1>5
<1>7. f = Turns(f)
  <2>1. ASSUME NEW n \in 0 .. N PROVE f[n] = IF n = 0 THEN <<>> ELSE Turn(f[n - 1], n)
    BY <1>4, <1>5, <1>6
  <2> QED
    BY <2>1
<1>8. kept = Turns(kept)
  <2> HIDE DEF Turns
  <2> QED
    BY <1>2, <1>7
<1>9. /\ kept[0] = <<>>
      /\ \A n \in 1 .. N : kept[n] = Turn(kept[n - 1], n)
  <2>1. \A n \in 0 .. N : kept[n] = IF n = 0 THEN <<>> ELSE Turn(kept[n - 1], n)
    BY <1>8
  <2> QED
    BY <2>1
<1>10. ASSUME NEW n \in 0 .. N PROVE kept[n] \in Seq(S)
  <2> DEFINE T == {m \in 0 .. N : kept[m] \in Seq(S)}
  <2>1. 0 \in T
    <3>1. kept[0] \in Seq(S) /\ 0 \in 0 .. N
      BY <1>4, <1>9
    <3> QED
      BY <3>1
  <2>2. ASSUME NEW m \in Nat, m < N, m \in T PROVE m + 1 \in T
    <3>1. m + 1 \in 1 .. N /\ m + 1 - 1 = m /\ kept[m] \in Seq(S)
      BY <2>2
    <3>2. kept[m + 1] = Turn(kept[m], m + 1)
      BY <3>1, <1>9
    <3> QED
      BY <3>1, <3>2, <1>1
  <2>3. 0 .. N \subseteq T
    <3> HIDE DEF T
    <3> QED
      BY <2>1, <2>2, UpTo
  <2> QED
    BY <2>3
<1>11. kept \in [0 .. N -> Seq(S)]
  <2>1. kept = [n \in 0 .. N |-> kept[n]]
    BY <1>8
  <2> QED
    BY <2>1, <1>10
<1> QED
  BY <1>9, <1>11 DEF Turn, KeptInTurns

\* What a turn of Filter does to the elements of the new slice.
LEMMA AppendOne ==
  ASSUME NEW S, NEW before \in Seq(S), NEW x \in S
  PROVE  /\ Append(before, x) \in Seq(S) /\ Len(Append(before, x)) = Len(before) + 1
         /\ ToSet(Append(before, x)) = ToSet(before) \cup {x}
         /\ IsInjective(before) /\ x \notin ToSet(before) => IsInjective(Append(before, x))
<1> PICK after : after = Append(before, x)
  OBVIOUS
<1>1. /\ after \in Seq(S) /\ Len(after) = Len(before) + 1
      /\ after[Len(before) + 1] = x
      /\ \A i \in 1 .. Len(before) : after[i] = before[i]
  BY AppendProperties
<1>2. DOMAIN after = 1 .. Len(before) + 1 /\ DOMAIN before = 1 .. Len(before) /\ Len(before) \in Nat
  BY <1>1
<1>3. ToSet(after) = ToSet(before) \cup {x}
  <2>1. ASSUME NEW y \in ToSet(after) PROVE y \in ToSet(before) \cup {x}
    <3>1. PICK i \in 1 .. Len(before) + 1 : y = after[i]
      BY <1>2 DEF ToSet
    <3>2. CASE i = Len(before) + 1
      BY <3>1, <3>2, <1>1
    <3>3. CASE i # Len(before) + 1
      <4>1. i \in 1 .. Len(before)
        BY <3>3, <1>2
      <4> QED
        BY <4>1, <3>1, <1>1, <1>2 DEF ToSet
    <3> QED
      BY <3>2, <3>3
  <2>2. x \in ToSet(after)
    BY <1>1, <1>2 DEF ToSet
  <2>3. ToSet(before) \subseteq ToSet(after)
    BY <1>1, <1>2 DEF ToSet
  <2> QED
    BY <2>1, <2>2, <2>3
<1>4. ASSUME IsInjective(before), x \notin ToSet(before) PROVE IsInjective(after)
  <2>1. SUFFICES ASSUME NEW i \in 1 .. Len(before) + 1, NEW j \in 1 .. Len(before) + 1,
                        after[i] = after[j]
                 PROVE  i = j
    BY <1>2 DEF IsInjective
  <2>2. \A k \in 1 .. Len(before) : after[k] # x
    BY <1>1, <1>2, <1>4 DEF ToSet
  <2>3. i = Len(before) + 1 \/ i \in 1 .. Len(before)
    BY <1>2
  <2>4. j = Len(before) + 1 \/ j \in 1 .. Len(before)
    BY <1>2
  <2> QED
    BY <1>1, <1>2, <1>4, <2>1, <2>2, <2>3, <2>4 DEF IsInjective
<1> QED
  BY <1>1, <1>3, <1>4

\* Filter returns the elements that are kept, no longer list than it was given
\* and no element twice that was not there twice.
LEMMA FilterProperties ==
  ASSUME NEW S, NEW list \in Seq(S), NEW keep
  PROVE  /\ Filter(list, keep) \in Seq(S) /\ Len(Filter(list, keep)) <= Len(list)
         /\ ToSet(Filter(list, keep)) = ToSet(list) \cap keep
         /\ IsInjective(list) => IsInjective(Filter(list, keep))
<1>1. PICK N \in Nat : N = Len(list)
  OBVIOUS
<1>2. PICK kept : kept = Kept(list, keep) /\ KeptInTurns(S, list, keep, kept)
  BY KeptTurns
<1>3. /\ kept \in [0 .. N -> Seq(S)]
      /\ kept[0] = <<>>
      /\ \A n \in 1 .. N :
            kept[n] = IF list[n] \in keep THEN Append(kept[n - 1], list[n]) ELSE kept[n - 1]
  BY <1>1, <1>2 DEF KeptInTurns
<1> DEFINE Seen(n) == {list[i] : i \in 1 .. n}
           Right(n) == /\ Len(kept[n]) <= n
                       /\ ToSet(kept[n]) = Seen(n) \cap keep
                       /\ IsInjective(list) => IsInjective(kept[n])
           T == {n \in 0 .. N : Right(n)}
<1>4. 0 \in T
  <2>1. PICK empty : empty = <<>> /\ empty \in Seq(S) /\ Len(empty) = 0
    BY EmptySeq
  <2>2. kept[0] = empty /\ DOMAIN empty = 1 .. 0 /\ 1 .. 0 = {}
    BY <2>1, <1>3
  <2>3. ToSet(empty) = {} /\ IsInjective(empty) /\ Seen(0) = {}
    BY <2>2 DEF ToSet, IsInjective
  <2> QED
    BY <2>1, <2>2, <2>3
<1>5. ASSUME NEW n \in Nat, n < N, n \in T PROVE n + 1 \in T
  <2>1. /\ n + 1 \in 1 .. N /\ n \in 0 .. N /\ n + 1 \in 0 .. N /\ n + 1 - 1 = n
        /\ list[n + 1] \in S /\ kept[n] \in Seq(S) /\ Right(n)
    <3>1. /\ n + 1 \in 1 .. N /\ n \in 0 .. N /\ n + 1 \in 0 .. N /\ n + 1 - 1 = n
          /\ Right(n)
      BY <1>5
    <3>2. kept[n] \in Seq(S)
      BY <3>1, <1>3
    <3>3. list[n + 1] \in S
      BY <3>1, <1>1
    <3> QED
      BY <3>1, <3>2, <3>3
  <2>2. PICK x \in S : x = list[n + 1]
    BY <2>1
  <2>3. kept[n + 1] = IF x \in keep THEN Append(kept[n], x) ELSE kept[n]
    BY <1>3, <2>1, <2>2
  <2>4. Seen(n + 1) = Seen(n) \cup {x}
    <3>1. 1 .. n + 1 = (1 .. n) \cup {n + 1}
      OBVIOUS
    <3> QED
      BY <2>2, <3>1
  <2>5. IsInjective(list) => x \notin Seen(n)
    <3>1. 1 .. N = DOMAIN list
      BY <1>1
    <3>2. \A i \in 1 .. n : i \in 1 .. N /\ i # n + 1
      BY <2>1
    <3> QED
      BY <2>1, <2>2, <3>1, <3>2 DEF IsInjective
  <2>6. PICK before, after : before \in Seq(S) /\ before = kept[n] /\ after = kept[n + 1]
    BY <2>1
  <2> HIDE DEF Seen
  <2>7. CASE x \in keep
    <3>1. /\ after \in Seq(S) /\ Len(after) = Len(before) + 1
          /\ ToSet(after) = ToSet(before) \cup {x}
          /\ IsInjective(before) /\ x \notin ToSet(before) => IsInjective(after)
      <4>1. after = Append(before, x)
        BY <2>3, <2>6, <2>7
      <4> QED
        BY <2>6, <4>1, AppendOne
    <3>2. Len(after) <= n + 1
      BY <2>1, <2>6, <3>1
    <3>3. ToSet(after) = Seen(n + 1) \cap keep
      BY <2>1, <2>4, <2>6, <2>7, <3>1
    <3>4. IsInjective(list) => IsInjective(after)
      BY <2>1, <2>5, <2>6, <3>1
    <3> QED
      BY <2>1, <2>6, <3>2, <3>3, <3>4
  <2>8. CASE x \notin keep
    <3>1. after = before
      BY <2>3, <2>6, <2>8
    <3>2. Len(after) <= n + 1
      BY <2>1, <2>6, <3>1
    <3> QED
      BY <2>1, <2>4, <2>6, <2>8, <3>1, <3>2
  <2> QED
    BY <2>7, <2>8
<1>6. N \in T
  <2>1. 0 .. N \subseteq T
    <3> HIDE DEF T
    <3> QED
      BY <1>4, <1>5, UpTo
  <2>2. N \in 0 .. N
    OBVIOUS
  <2> HIDE DEF T
  <2> QED
    BY <2>1, <2>2
<1>7. Filter(list, keep) = kept[N] /\ kept[N] \in Seq(S)
  BY <1>1, <1>2, <1>3 DEF Filter
<1>8. Seen(N) = ToSet(list)
  BY <1>1 DEF ToSet
<1> QED
  BY <1>1, <1>6, <1>7, <1>8

-----------------------------------------------------------------------------

\* What the turns of the adding loop make of the sum.
SumInTurns(list, weight, sum) ==
  /\ sum \in [0 .. Len(list) -> Nat]
  /\ sum[0] = 0
  /\ \A n \in 1 .. Len(list) : sum[n] = sum[n - 1] + weight[list[n]]

\* The loop of RunningSum adds the weight of an element in its turn.
LEMMA SumTurns ==
  ASSUME NEW S, NEW list \in Seq(S), NEW weight \in [S -> Nat]
  PROVE  SumInTurns(list, weight, RunningSum(list, weight))
<1> PICK N \in Nat : N = Len(list)
  OBVIOUS
<1> PICK sum : sum = RunningSum(list, weight)
  OBVIOUS
<1> DEFINE Turns(f) == [n \in 0 .. N |-> IF n = 0 THEN 0 ELSE f[n - 1] + weight[list[n]]]
<1>1. PICK w \in [1 .. N -> Nat] : \A n \in 1 .. N : w[n] = weight[list[n]]
  <2> DEFINE w == [n \in 1 .. N |-> weight[list[n]]]
  <2>1. \A n \in 1 .. N : w[n] = weight[list[n]] /\ w[n] \in Nat
    OBVIOUS
  <2>2. w \in [1 .. N -> Nat]
    BY <2>1
  <2> HIDE DEF w
  <2> QED
    BY <2>1, <2>2
<1>2. PICK step \in [Nat \X (1 .. N) -> Nat] :
         \A before \in Nat, n \in 1 .. N : step[<<before, n>>] = before + w[n]
  <2> DEFINE step == [p \in Nat \X (1 .. N) |-> p[1] + w[p[2]]]
  <2>1. ASSUME NEW p \in Nat \X (1 .. N) PROVE p[1] + w[p[2]] \in Nat
    <3>1. p[1] \in Nat /\ w[p[2]] \in Nat
      BY <1>1
    <3> QED
      BY <3>1
  <2>2. step \in [Nat \X (1 .. N) -> Nat]
    BY <2>1
  <2>3. \A before \in Nat, n \in 1 .. N : step[<<before, n>>] = before + w[n]
    OBVIOUS
  <2> HIDE DEF step
  <2> QED
    BY <2>2, <2>3
<1>3. PICK f \in [0 .. N -> Nat] :
         f[0] = 0 /\ \A n \in 1 .. N : f[n] = step[<<f[n - 1], n>>]
  <2>1. LoopValues(Nat, 0, N, step) # {}
    BY LoopHasValues
  <2> QED
    BY <2>1 DEF LoopValues
<1>4. f = Turns(f)
  <2>1. ASSUME NEW n \in 1 .. N PROVE f[n] = f[n - 1] + weight[list[n]]
    <3>1. n - 1 \in 0 .. N
      OBVIOUS
    <3>2. f[n - 1] \in Nat
      BY <3>1
    <3>3. f[n] = step[<<f[n - 1], n>>] /\ w[n] = weight[list[n]]
      BY <1>1, <1>3
    <3>4. step[<<f[n - 1], n>>] = f[n - 1] + w[n]
      BY <3>2, <1>2
    <3> QED
      BY <3>3, <3>4
  <2>2. ASSUME NEW n \in 0 .. N PROVE f[n] = IF n = 0 THEN 0 ELSE f[n - 1] + weight[list[n]]
    BY <1>3, <2>1
  <2> QED
    BY <2>2
<1>5. sum = CHOOSE h : h = Turns(h)
  BY DEF RunningSum
<1>6. sum = Turns(sum)
  <2> HIDE DEF Turns
  <2> QED
    BY <1>4, <1>5
<1>7. sum[0] = 0 /\ \A n \in 1 .. N : sum[n] = sum[n - 1] + weight[list[n]]
  <2>1. \A n \in 0 .. N : sum[n] = IF n = 0 THEN 0 ELSE sum[n - 1] + weight[list[n]]
    BY <1>6
  <2> QED
    BY <2>1
<1>8. ASSUME NEW n \in 0 .. N PROVE sum[n] \in Nat
  <2> DEFINE T == {m \in 0 .. N : sum[m] \in Nat}
  <2>1. 0 \in T
    BY <1>7
  <2>2. ASSUME NEW m \in Nat, m < N, m \in T PROVE m + 1 \in T
    <3>1. m + 1 \in 1 .. N /\ m + 1 \in 0 .. N /\ m + 1 - 1 = m /\ sum[m] \in Nat
      BY <2>2
    <3>2. sum[m + 1] = sum[m] + w[m + 1] /\ w[m + 1] \in Nat
      BY <3>1, <1>1, <1>7
    <3> QED
      BY <3>1, <3>2
  <2>3. 0 .. N \subseteq T
    <3> HIDE DEF T
    <3> QED
      BY <2>1, <2>2, UpTo
  <2> QED
    BY <2>3
<1>9. sum \in [0 .. N -> Nat]
  <2>1. sum = [n \in 0 .. N |-> sum[n]]
    BY <1>6
  <2> QED
    BY <2>1, <1>8
<1> QED
  BY <1>7, <1>9 DEF SumInTurns

\* A running sum never falls.
LEMMA SumsRise ==
  ASSUME NEW N \in Nat, NEW sum \in [0 .. N -> Nat],
         \A n \in 1 .. N : sum[n - 1] <= sum[n]
  PROVE  \A m, n \in 0 .. N : m <= n => sum[m] <= sum[n]
<1>1. SUFFICES ASSUME NEW m \in 0 .. N, NEW n \in 0 .. N, m <= n PROVE sum[m] <= sum[n]
  OBVIOUS
<1> DEFINE T == {k \in 0 .. N : m <= k => sum[m] <= sum[k]}
<1>2. 0 \in T
  OBVIOUS
<1>3. ASSUME NEW k \in Nat, k < N, k \in T PROVE k + 1 \in T
  <2>1. k + 1 \in 1 .. N /\ k + 1 - 1 = k /\ k \in 0 .. N /\ k + 1 \in 0 .. N
    BY <1>3
  <2>2. sum[k] <= sum[k + 1] /\ sum[k] \in Nat /\ sum[k + 1] \in Nat /\ sum[m] \in Nat
    BY <2>1
  <2>3. CASE m = k + 1
    BY <2>1, <2>2, <2>3
  <2>4. CASE m # k + 1
    <3>1. m <= k + 1 => sum[m] <= sum[k]
      BY <1>3, <2>4
    <3> QED
      BY <2>1, <2>2, <3>1
  <2> QED
    BY <2>3, <2>4
<1>4. 0 .. N \subseteq T
  <2> HIDE DEF T
  <2> QED
    BY <1>2, <1>3, UpTo
<1> QED
  BY <1>1, <1>4

\* A set of numbers that is not empty has a least one.
LEMMA LeastNumber ==
  ASSUME NEW T, T \subseteq Nat, T # {}
  PROVE  \E least \in T : \A n \in T : least <= n
<1>1. PICK least \in T : \A n \in T : ~ (<<n, least>> \in Less)
  BY LessIsWellFounded, WFMin
<1>2. ASSUME NEW n \in T PROVE least <= n
  <2>1. n < least => <<n, least>> \in Less
    BY DEF Less
  <2> QED
    BY <1>1, <2>1
<1> QED
  BY <1>2

-----------------------------------------------------------------------------

\* The head of a slice, list[:n], holds nothing else and nothing twice.
LEMMA PrefixProperties ==
  ASSUME NEW S, NEW list \in Seq(S), NEW n \in 0 .. Len(list)
  PROVE  /\ SubSeq(list, 1, n) \in Seq(S) /\ Len(SubSeq(list, 1, n)) = n
         /\ ToSet(SubSeq(list, 1, n)) \subseteq ToSet(list)
         /\ IsInjective(list) => IsInjective(SubSeq(list, 1, n))
         /\ n = Len(list) => ToSet(SubSeq(list, 1, n)) = ToSet(list)
<1>1. PICK front : front = SubSeq(list, 1, n)
  OBVIOUS
<1>2. n \in Nat /\ n <= Len(list) /\ DOMAIN list = 1 .. Len(list) /\ \A i \in 1 .. n : list[i] \in S
  OBVIOUS
<1>3. front \in Seq(S) /\ Len(front) = n /\ \A i \in 1 .. n : front[i] = list[i]
  <2>1. /\ front \in Seq(S)
        /\ Len(front) = IF 1 <= n THEN n - 1 + 1 ELSE 0
        /\ \A i \in 1 .. n - 1 + 1 : front[i] = list[1 + i - 1]
    BY <1>1, <1>2, SubSeqProperties
  <2> QED
    BY <1>2, <2>1
<1>4. DOMAIN front = 1 .. n /\ 1 .. n \subseteq 1 .. Len(list)
  BY <1>2, <1>3
<1>5. ToSet(front) \subseteq ToSet(list)
  BY <1>2, <1>3, <1>4 DEF ToSet
<1>6. IsInjective(list) => IsInjective(front)
  BY <1>2, <1>3, <1>4 DEF IsInjective
<1>7. n = Len(list) => ToSet(front) = ToSet(list)
  BY <1>2, <1>3, <1>4 DEF ToSet
<1> QED
  BY <1>1, <1>3, <1>5, <1>6, <1>7
=============================================================================
