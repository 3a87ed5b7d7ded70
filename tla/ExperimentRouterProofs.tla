----------------------- MODULE ExperimentRouterProofs -----------------------
(***************************************************************************)
(* Proofs that ExperimentRouter has the safety properties its run checks,  *)
(* for any number of goroutines and experiments.                           *)
(*                                                                         *)
(* That one goroutine reads the store at a time is the write lock's doing  *)
(* (LockOK); that it is needed, ~Fresh, holds on because nobody without    *)
(* the lock can fetch.  That the shares are honoured is a fact about       *)
(* Assign alone, of every list without a repetition: the users of an       *)
(* experiment are the buckets between two running sums.                    *)
(***************************************************************************)
EXTENDS ExperimentRouter, LoopsProofs, FiniteSetTheorems

Holding(g) == pc[g] \in {"recheck", "smembers", "mget", "unlock"}

\* The write lock is held from Lock to Unlock and at no other time.
LockOK == \A g \in Goroutines : Holding(g) <=> lockHolder = g

RouterInv == TypeOK /\ LockOK /\ OneFetchPerExpiry

-----------------------------------------------------------------------------
(* The lists of experiments *)

\* Lists holds the sequences of experiments that name none twice.
LEMMA ListsProperties ==
  ASSUME NEW list
  PROVE  list \in Lists <=> /\ list \in Seq(Ids) /\ Len(list) <= Cardinality(Ids)
                            /\ IsInjective(list)
<1>1. Cardinality(Ids) \in Nat
  BY IdsAssumption, FS_CardinalityType
<1>2. ASSUME list \in Lists
      PROVE  list \in Seq(Ids) /\ Len(list) <= Cardinality(Ids) /\ IsInjective(list)
  <2>1. PICK m \in 0 .. Cardinality(Ids) : list \in [1 .. m -> Ids]
    BY <1>2 DEF Lists, SeqOf
  <2>2. list \in Seq(Ids) /\ Len(list) = m
    BY <2>1, <1>1
  <2> QED
    BY <2>1, <2>2, <1>1, <1>2 DEF Lists
<1>3. ASSUME list \in Seq(Ids), Len(list) <= Cardinality(Ids), IsInjective(list)
      PROVE  list \in Lists
  <2>1. Len(list) \in 0 .. Cardinality(Ids) /\ list \in [1 .. Len(list) -> Ids]
    BY <1>1, <1>3
  <2>2. list \in SeqOf(Ids, Cardinality(Ids))
    BY <2>1 DEF SeqOf
  <2> QED
    BY <1>3, <2>2 DEF Lists
<1> QED
  BY <1>2, <1>3

\* The empty list is one of them.
LEMMA EmptyList == <<>> \in Lists
<1>1. Cardinality(Ids) \in Nat
  BY IdsAssumption, FS_CardinalityType
<1>2. PICK empty : empty = <<>> /\ empty \in Seq(Ids) /\ Len(empty) = 0
  BY EmptySeq
<1>3. IsInjective(empty)
  <2>1. DOMAIN empty = {}
    BY <1>2
  <2> QED
    BY <2>1 DEF IsInjective
<1>4. Len(empty) <= Cardinality(Ids)
  BY <1>1, <1>2
<1>5. empty \in Lists
  BY <1>2, <1>3, <1>4, ListsProperties
<1> QED
  BY <1>2, <1>5

\* What MGet makes of the ids is one of them.
LEMMA FilteredList ==
  ASSUME NEW list \in Lists, NEW keep
  PROVE  Filter(list, keep) \in Lists
<1>1. list \in Seq(Ids) /\ Len(list) <= Cardinality(Ids) /\ IsInjective(list)
  BY ListsProperties
<1>2. /\ Filter(list, keep) \in Seq(Ids) /\ Len(Filter(list, keep)) <= Len(list)
      /\ IsInjective(Filter(list, keep))
  BY <1>1, FilterProperties
<1>3. Cardinality(Ids) \in Nat /\ Len(list) \in Nat /\ Len(Filter(list, keep)) \in Nat
  BY <1>1, <1>2, IdsAssumption, FS_CardinalityType
<1>4. Len(Filter(list, keep)) <= Cardinality(Ids)
  BY <1>1, <1>2, <1>3
<1> QED
  BY <1>2, <1>4, ListsProperties

-----------------------------------------------------------------------------
(* The invariant *)

\* Nobody has called yet.
LEMMA InvInit == Init => RouterInv
<1> SUFFICES ASSUME Init PROVE RouterInv
  OBVIOUS
<1>1. TypeOK
  <2>1. pc \in [Goroutines -> Steps]
    BY DEF Init, Steps
  <2>2. ids \in [Goroutines -> Lists]
    BY EmptyList DEF Init
  <2>3. result \in [Goroutines -> Lists \cup {None, Failed}]
    BY DEF Init
  <2>4. cacheAge \in 0 .. CacheTTL
    BY TTLAssumption DEF Init
  <2> QED
    BY <2>1, <2>2, <2>3, <2>4 DEF Init, TypeOK
<1>2. LockOK /\ OneFetchPerExpiry
  BY NoneAssumption DEF Init, LockOK, Holding, OneFetchPerExpiry, Fetching
<1> QED
  BY <1>1, <1>2 DEF RouterInv

\* A step of one goroutine, in what it does to the others: it moves one
\* program counter, one result and one list of ids.
OneMoves(g) ==
    \E step \in Steps, list \in Lists, value \in Lists \cup {None, Failed} :
        /\ pc' = [pc EXCEPT ![g] = step]
        /\ ids' = [ids EXCEPT ![g] = list]
        /\ result' = [result EXCEPT ![g] = value]

\* Every step of a goroutine is of that form and leaves the store alone; only
\* the goroutine that holds the lock writes the cache or gives the lock back.
LEMMA MoveProperties ==
  ASSUME TypeOK, NEW g \in Goroutines, Call(g) \/ CallStep(g)
  PROVE  /\ OneMoves(g) /\ UNCHANGED store
         /\ cached' \in Lists \cup {None} /\ cacheAge' \in 0 .. CacheTTL
         /\ lockHolder' \in Goroutines \cup {None}
<1> USE DEF TypeOK, OneMoves, At, GoTo, Steps, store, router
<1>0. /\ pc[g] \in Steps /\ ids[g] \in Lists /\ result[g] \in Lists \cup {None, Failed}
      /\ ids = [ids EXCEPT ![g] = ids[g]]
      /\ result = [result EXCEPT ![g] = result[g]]
      /\ 0 \in 0 .. CacheTTL
  BY TTLAssumption
<1>1. CASE Call(g)
  <2>1. pc' = [pc EXCEPT ![g] = "rlock"] /\ ids' = ids /\ result' = [result EXCEPT ![g] = None]
    BY <1>1 DEF Call
  <2>2. OneMoves(g)
    BY <1>0, <2>1
  <2> QED
    BY <1>1, <2>2 DEF Call
<1>2. CASE CheckUnderRLock(g)
  <2>1. PICK step \in {"idle", "lock"}, value \in Lists \cup {None, Failed} :
           /\ pc' = [pc EXCEPT ![g] = step] /\ ids' = ids
           /\ result' = [result EXCEPT ![g] = value]
    BY <1>0, <1>2 DEF CheckUnderRLock
  <2>2. OneMoves(g)
    BY <1>0, <2>1
  <2> QED
    BY <1>2, <2>2 DEF CheckUnderRLock
<1>3. CASE Lock(g)
  <2>1. pc' = [pc EXCEPT ![g] = "recheck"] /\ ids' = ids /\ result' = result
    BY <1>3 DEF Lock
  <2>2. OneMoves(g)
    BY <1>0, <2>1
  <2> QED
    BY <1>3, <2>2 DEF Lock
<1>4. CASE Recheck(g)
  <2>1. PICK step \in {"unlock", "smembers"}, value \in Lists \cup {None, Failed} :
           /\ pc' = [pc EXCEPT ![g] = step] /\ ids' = ids
           /\ result' = [result EXCEPT ![g] = value]
    BY <1>0, <1>4 DEF Recheck
  <2>2. OneMoves(g)
    BY <1>0, <2>1
  <2> QED
    BY <1>4, <2>2 DEF Recheck
<1>5. ASSUME FetchFails(g)
      PROVE  OneMoves(g) /\ cached' = cached /\ cacheAge' = cacheAge
  <2>1. PICK value \in Lists \cup {None, Failed} :
           /\ pc' = [pc EXCEPT ![g] = "unlock"] /\ ids' = ids
           /\ result' = [result EXCEPT ![g] = value]
    BY <1>5 DEF FetchFails
  <2>2. OneMoves(g)
    BY <1>0, <2>1
  <2> QED
    BY <1>5, <2>2 DEF FetchFails
<1>6. ASSUME NEW list \in Lists, Fetched(g, list), UNCHANGED ids
      PROVE  OneMoves(g) /\ cached' \in Lists /\ cacheAge' \in 0 .. CacheTTL
  <2>1. /\ pc' = [pc EXCEPT ![g] = "unlock"] /\ ids' = ids
        /\ result' = [result EXCEPT ![g] = list]
    BY <1>6 DEF Fetched
  <2>2. OneMoves(g)
    BY <1>0, <1>6, <2>1
  <2> QED
    BY <1>0, <1>6, <2>2 DEF Fetched
<1>7. CASE SMembers(g)
  <2>1. CASE FetchFails(g)
    BY <1>5, <1>7, <2>1 DEF SMembers
  <2>2. CASE Fetched(g, <<>>) /\ UNCHANGED ids
    BY <1>6, <1>7, <2>2, EmptyList DEF SMembers
  <2>3. CASE /\ ids' = [ids EXCEPT ![g] = members]
             /\ pc' = [pc EXCEPT ![g] = "mget"]
             /\ UNCHANGED <<cached, cacheAge, result>>
    <3>1. OneMoves(g)
      BY <1>0, <2>3
    <3> QED
      BY <1>7, <2>3, <3>1 DEF SMembers
  <2> QED
    BY <1>7, <2>1, <2>2, <2>3 DEF SMembers
<1>8. CASE MGet(g)
  <2>1. CASE FetchFails(g)
    BY <1>5, <1>8, <2>1 DEF MGet
  <2>2. CASE Fetched(g, Filter(ids[g], configs)) /\ UNCHANGED ids
    <3>1. Filter(ids[g], configs) \in Lists
      BY <1>0, FilteredList
    <3> QED
      BY <1>6, <1>8, <2>2, <3>1 DEF MGet
  <2> QED
    BY <1>8, <2>1, <2>2 DEF MGet
<1>9. CASE Unlock(g)
  <2>1. pc' = [pc EXCEPT ![g] = "idle"] /\ ids' = [ids EXCEPT ![g] = <<>>] /\ result' = result
    BY <1>9 DEF Unlock
  <2>2. OneMoves(g)
    BY <1>0, <2>1, EmptyList
  <2> QED
    BY <1>9, <2>2 DEF Unlock
<1> QED
  BY <1>1, <1>2, <1>3, <1>4, <1>7, <1>8, <1>9 DEF CallStep

\* A step of a goroutine, in what it does to the lock and to the cache.
LockMove(g) ==
    \/ /\ ~Holding(g) /\ pc'[g] \notin {"recheck", "smembers", "mget", "unlock"}
       /\ UNCHANGED <<cached, cacheAge, lockHolder>>
    \/ /\ ~Holding(g) /\ pc'[g] = "recheck" /\ lockHolder = None /\ lockHolder' = g
       /\ UNCHANGED <<cached, cacheAge>>
    \/ Holding(g) /\ pc'[g] = "unlock" /\ lockHolder' = lockHolder
    \/ /\ Holding(g) /\ pc'[g] \in {"smembers", "mget"}
       /\ pc'[g] = "smembers" => ~Fresh
       /\ pc'[g] = "mget" => pc[g] = "smembers"
       /\ UNCHANGED <<cached, cacheAge, lockHolder>>
    \/ /\ Holding(g) /\ pc'[g] = "idle" /\ lockHolder' = None
       /\ UNCHANGED <<cached, cacheAge>>

\* The cache is written under the lock, and the store asked after a check.
LEMMA LockSteps ==
  ASSUME TypeOK, NEW g \in Goroutines, Call(g) \/ CallStep(g)
  PROVE  LockMove(g)
<1> USE DEF TypeOK, At, GoTo, Holding, LockMove, router
<1>1. CASE Call(g)
  BY <1>1 DEF Call
<1>2. CASE CheckUnderRLock(g)
  BY <1>2 DEF CheckUnderRLock
<1>3. CASE Lock(g)
  BY <1>3 DEF Lock
<1>4. CASE Recheck(g)
  BY <1>4 DEF Recheck
<1>5. CASE SMembers(g)
  BY <1>5 DEF SMembers, FetchFails, Fetched
<1>6. CASE MGet(g)
  BY <1>6 DEF MGet, FetchFails, Fetched
<1>7. CASE Unlock(g)
  BY <1>7 DEF Unlock
<1> QED
  BY <1>1, <1>2, <1>3, <1>4, <1>5, <1>6, <1>7 DEF CallStep

\* Every step keeps the invariant.
LEMMA InvStep == RouterInv /\ [Next]_vars => RouterInv'
<1> SUFFICES ASSUME RouterInv, [Next]_vars PROVE RouterInv'
  OBVIOUS
<1>1. TypeOK /\ LockOK /\ OneFetchPerExpiry
  BY DEF RouterInv
<1>2. ASSUME NEW g \in Goroutines, Call(g) \/ CallStep(g) PROVE RouterInv'
  <2>1. /\ OneMoves(g) /\ UNCHANGED store
        /\ cached' \in Lists \cup {None} /\ cacheAge' \in 0 .. CacheTTL
        /\ lockHolder' \in Goroutines \cup {None}
    BY <1>1, <1>2, MoveProperties
  <2>2. PICK step \in Steps, list \in Lists, value \in Lists \cup {None, Failed} :
           /\ pc' = [pc EXCEPT ![g] = step]
           /\ ids' = [ids EXCEPT ![g] = list]
           /\ result' = [result EXCEPT ![g] = value]
    BY <2>1 DEF OneMoves
  <2>3. TypeOK'
    BY <1>1, <2>1, <2>2 DEF TypeOK, store
  <2>4. pc'[g] = step /\ \A h \in Goroutines \ {g} : pc'[h] = pc[h]
    BY <1>1, <2>2 DEF TypeOK
  <2>5. g # None
    BY NoneAssumption
  <2>6. LockMove(g)
    BY <1>1, <1>2, LockSteps
  <2>7. LockOK'
    <3>1. SUFFICES ASSUME NEW h \in Goroutines PROVE (Holding(h) <=> lockHolder = h)'
      BY DEF LockOK
    <3>2. (Holding(h) <=> lockHolder = h) /\ (Holding(g) <=> lockHolder = g)
      BY <1>1 DEF LockOK
    <3>3. CASE h = g
      BY <2>5, <2>6, <3>2, <3>3 DEF LockMove, Holding
    <3>4. CASE h # g
      <4>1. (Holding(h))' <=> Holding(h)
        BY <2>4, <3>4 DEF Holding
      <4>2. h # None
        BY NoneAssumption
      <4>3. (lockHolder' = h) <=> (lockHolder = h)
        BY <2>5, <2>6, <3>2, <3>4, <4>2 DEF LockMove
      <4> QED
        BY <3>2, <4>1, <4>3
    <3> QED
      BY <3>3, <3>4
  <2>8. ASSUME NEW h \in Goroutines, Fetching(h)' PROVE lockHolder' = h /\ ~Fresh'
    <3>1. lockHolder' = h
      BY <2>7, <2>8 DEF LockOK, Holding, Fetching
    <3>2. CASE h = g
      <4>1. pc'[g] \in {"smembers", "mget"}
        BY <2>8, <3>2 DEF Fetching
      <4>2. /\ pc'[g] = "smembers" => ~Fresh
            /\ pc'[g] = "mget" => pc[g] = "smembers"
            /\ UNCHANGED <<cached, cacheAge, lockHolder>>
        BY <2>6, <4>1 DEF LockMove
      <4>3. pc[g] = "smembers" => ~Fresh
        BY <1>1 DEF OneFetchPerExpiry, Fetching
      <4> QED
        BY <3>1, <4>1, <4>2, <4>3 DEF Fresh
    <3>3. CASE h # g
      <4>1. Fetching(h)
        BY <2>4, <2>8, <3>3 DEF Fetching
      <4>2. lockHolder = h /\ ~Fresh
        BY <1>1, <4>1 DEF OneFetchPerExpiry
      <4>3. ~Holding(g)
        BY <1>1, <3>3, <4>2 DEF LockOK
      <4> QED
        BY <2>6, <3>1, <4>2, <4>3 DEF LockMove, Fresh
    <3> QED
      BY <3>2, <3>3
  <2> QED
    BY <2>3, <2>7, <2>8 DEF RouterInv, OneFetchPerExpiry
<1>3. ASSUME Tick \/ Edit \/ StoreChanges \/ UNCHANGED vars PROVE RouterInv'
  <2>1. UNCHANGED <<cached, lockHolder, pc, ids, result>> /\ (cacheAge' = cacheAge \/ Tick)
    BY <1>3 DEF Tick, Edit, StoreChanges, vars, router
  <2>2. members' \in Lists /\ configs' \subseteq Ids /\ storeUp' \in BOOLEAN
    BY <1>1, <1>3 DEF Tick, Edit, StoreChanges, vars, store, TypeOK
  <2>3. cacheAge' \in 0 .. CacheTTL /\ cacheAge' >= cacheAge
    <3>1. cacheAge \in 0 .. CacheTTL /\ CacheTTL \in Nat
      BY <1>1, TTLAssumption DEF TypeOK
    <3>2. CASE cacheAge' = cacheAge
      BY <3>1, <3>2
    <3>3. CASE Tick
      BY <3>1, <3>3 DEF Tick, Older
    <3> QED
      BY <2>1, <3>2, <3>3
  <2>4. TypeOK'
    BY <1>1, <2>1, <2>2, <2>3 DEF TypeOK
  <2>5. LockOK'
    BY <1>1, <2>1 DEF LockOK, Holding
  <2>6. ~Fresh => ~Fresh'
    <3>1. cacheAge \in Nat /\ cacheAge' \in Nat /\ CacheTTL \in Nat
      BY <1>1, <2>3, TTLAssumption DEF TypeOK
    <3> QED
      BY <2>1, <2>3, <3>1 DEF Fresh
  <2>7. OneFetchPerExpiry'
    BY <1>1, <2>1, <2>6 DEF OneFetchPerExpiry, Fetching
  <2> QED
    BY <2>4, <2>5, <2>7 DEF RouterInv
<1> QED
  BY <1>2, <1>3 DEF Next

\* The invariant holds always.
THEOREM InvHolds == Spec => []RouterInv
<1> QED
  BY InvInit, InvStep, PTL DEF Spec

\* The cache only ever holds a list of experiments without a repetition, so
\* does every result but the error, and the lock is nobody's or a caller's.
THEOREM TypeCorrect == Spec => []TypeOK
<1>1. RouterInv => TypeOK
  BY DEF RouterInv
<1> QED
  BY <1>1, InvHolds, PTL

\* The second check of loadExperiments keeps those who waited for the lock
\* from reading the store again, however many they are.
THEOREM FetchedOnce == Spec => []OneFetchPerExpiry
<1>1. RouterInv => OneFetchPerExpiry
  BY DEF RouterInv
<1> QED
  BY <1>1, InvHolds, PTL

\* A failed fetch is answered with the stale list, and never refreshes it.
THEOREM StaleAnswersOutages == Spec => StaleBeatsError
<1> DEFINE ErrorOnly(g) == result'[g] = Failed /\ result[g] # Failed => cached = None
           Refreshed == Fresh' /\ ~Fresh => storeUp
<1>1. RouterInv /\ [Next]_vars => [(\A g \in Goroutines : ErrorOnly(g)) /\ Refreshed]_vars
  <2> SUFFICES ASSUME RouterInv, Next
               PROVE  (\A g \in Goroutines : ErrorOnly(g)) /\ Refreshed
    OBVIOUS
  <2>1. TypeOK
    BY DEF RouterInv
  <2>2. ASSUME NEW h \in Goroutines, Call(h) \/ CallStep(h)
        PROVE  (\A g \in Goroutines : ErrorOnly(g)) /\ Refreshed
    <3>1. cached \in Lists \cup {None} /\ result \in [Goroutines -> Lists \cup {None, Failed}]
      BY <2>1 DEF TypeOK
    <3>2. ASSUME NEW value, result' = [result EXCEPT ![h] = value], value = Failed => cached = None
          PROVE  \A g \in Goroutines : ErrorOnly(g)
      BY <3>1, <3>2
    <3>3. ASSUME UNCHANGED result PROVE \A g \in Goroutines : ErrorOnly(g)
      BY <3>3
    <3>4. ASSUME UNCHANGED <<cached, cacheAge>> PROVE Refreshed
      BY <3>4 DEF Fresh
    <3>5. Fresh => cached # Failed
      BY <3>1, NoneAssumption DEF Fresh
    <3> HIDE DEF ErrorOnly, Refreshed
    <3>6. CASE Call(h)
      BY <3>2, <3>4, <3>6, NoneAssumption DEF Call, router
    <3>7. CASE CheckUnderRLock(h)
      BY <3>2, <3>3, <3>4, <3>5, <3>7 DEF CheckUnderRLock, router
    <3>8. CASE Lock(h) \/ Unlock(h)
      BY <3>3, <3>4, <3>8 DEF Lock, Unlock
    <3>9. CASE Recheck(h)
      BY <3>2, <3>3, <3>4, <3>5, <3>9 DEF Recheck, router
    <3>10. ASSUME FetchFails(h) PROVE (\A g \in Goroutines : ErrorOnly(g)) /\ Refreshed
      <4>1. cached # None => cached # Failed
        BY <3>1, NoneAssumption
      <4> QED
        BY <3>2, <3>4, <3>10, <4>1 DEF FetchFails
    <3>11. ASSUME NEW list \in Lists, Fetched(h, list), storeUp
           PROVE  (\A g \in Goroutines : ErrorOnly(g)) /\ Refreshed
      <4>1. list # Failed
        BY NoneAssumption
      <4>2. Refreshed
        BY <3>11 DEF Refreshed
      <4> QED
        BY <3>2, <3>11, <4>1, <4>2 DEF Fetched
    <3>12. CASE SMembers(h)
      BY <3>3, <3>4, <3>10, <3>11, <3>12, EmptyList DEF SMembers
    <3>13. CASE MGet(h)
      <4>1. Filter(ids[h], configs) \in Lists
        BY <2>1, FilteredList DEF TypeOK
      <4> QED
        BY <3>10, <3>11, <3>13, <4>1 DEF MGet
    <3> QED
      BY <2>2, <3>6, <3>7, <3>8, <3>9, <3>12, <3>13 DEF CallStep
  <2>3. CASE Tick \/ Edit \/ StoreChanges
    <3>1. UNCHANGED <<cached, result>> /\ (cacheAge' = cacheAge \/ cacheAge' = Older(cacheAge))
      BY <2>3 DEF Tick, Edit, StoreChanges, router
    <3>2. cacheAge \in Nat /\ CacheTTL \in Nat
      BY <2>1, TTLAssumption DEF TypeOK
    <3>3. Fresh' => Fresh
      BY <3>1, <3>2 DEF Fresh, Older
    <3> QED
      BY <3>1, <3>3
  <2> QED
    BY <2>2, <2>3 DEF Next
<1> QED
  BY <1>1, InvHolds, PTL DEF Spec, StaleBeatsError

-----------------------------------------------------------------------------
(* The shares *)

\* The users of an experiment are the buckets between two running sums.
LEMMA UsersOfPlace ==
  ASSUME NEW list \in Lists, NEW N \in Nat, N = Len(list), NEW place \in 1 .. N,
         NEW bucket \in Nat
  PROVE  Assign(list, bucket) = list[place] <=>
            Cumulative(list, place - 1) <= bucket /\ bucket < Cumulative(list, place)
<1>1. PICK sum : sum = RunningSum(list, Share) /\ SumInTurns(list, Share, sum)
  BY ListsProperties, SumTurns, ShareAssumption
<1>2. /\ sum \in [0 .. N -> Nat] /\ sum[0] = 0
      /\ \A n \in 1 .. N : sum[n] = sum[n - 1] + Share[list[n]]
      /\ \A n \in 1 .. N : list[n] \in Ids
      /\ \A m, n \in 1 .. N : list[m] = list[n] => m = n
      /\ DOMAIN list = 1 .. N
  BY <1>1, ListsProperties DEF SumInTurns, IsInjective
<1>3. \A m, n \in 0 .. N : m <= n => sum[m] <= sum[n]
  <2>1. ASSUME NEW n \in 1 .. N PROVE sum[n - 1] <= sum[n]
    <3>1. n - 1 \in 0 .. N
      OBVIOUS
    <3>2. sum[n - 1] \in Nat /\ Share[list[n]] \in Nat
      BY <1>2, <3>1, ShareAssumption
    <3> QED
      BY <1>2, <3>2
  <2> QED
    BY <1>2, <2>1, SumsRise
<1> DEFINE hits == {n \in 1 .. N : bucket < sum[n]}
<1>4. Assign(list, bucket) =
         IF hits = {} THEN None ELSE list[CHOOSE n \in hits : \A m \in hits : n <= m]
  BY <1>1, <1>2 DEF Assign, Cumulative
<1>5. ASSUME hits # {}
      PROVE  \E first \in hits : /\ Assign(list, bucket) = list[first]
                                 /\ \A m \in hits : first <= m
  <2>1. \E n \in hits : \A m \in hits : n <= m
    <3>1. hits \subseteq Nat
      OBVIOUS
    <3> HIDE DEF hits
    <3> QED
      BY <1>5, <3>1, LeastNumber
  <2> HIDE DEF hits
  <2>2. PICK first : first = CHOOSE n \in hits : \A m \in hits : n <= m
    OBVIOUS
  <2>3. first \in hits /\ \A m \in hits : first <= m
    BY <2>1, <2>2
  <2> QED
    BY <1>4, <1>5, <2>2, <2>3
<1>6. place - 1 \in 0 .. N /\ place \in 0 .. N
  OBVIOUS
<1>7. ASSUME Assign(list, bucket) = list[place]
      PROVE  sum[place - 1] <= bucket /\ bucket < sum[place]
  <2>1. list[place] # None
    BY <1>2, NoneAssumption
  <2>2. hits # {}
    BY <1>4, <1>7, <2>1
  <2>3. PICK first \in hits : Assign(list, bucket) = list[first] /\ \A m \in hits : first <= m
    BY <1>5, <2>2
  <2>4. first = place
    BY <1>2, <1>7, <2>3
  <2>5. sum[place - 1] <= bucket
    <3>1. CASE place = 1
      BY <1>2, <3>1
    <3>2. CASE place # 1
      <4>1. place - 1 \in 1 .. N /\ place - 1 \notin hits
        BY <2>3, <2>4, <3>2
      <4>2. sum[place - 1] \in Nat
        BY <1>2, <1>6
      <4> QED
        BY <4>1, <4>2
    <3> QED
      BY <3>1, <3>2
  <2> QED
    BY <2>3, <2>4, <2>5
<1>8. ASSUME sum[place - 1] <= bucket, bucket < sum[place]
      PROVE  Assign(list, bucket) = list[place]
  <2>1. place \in hits
    BY <1>8
  <2>2. PICK first \in hits : Assign(list, bucket) = list[first] /\ \A m \in hits : first <= m
    BY <1>5, <2>1
  <2>3. first = place
    <3>1. first <= place /\ first \in 1 .. N /\ bucket < sum[first]
      BY <2>1, <2>2
    <3>2. CASE first < place
      <4>1. first <= place - 1 /\ first \in 0 .. N
        BY <3>1, <3>2
      <4>2. sum[first] <= sum[place - 1] /\ sum[first] \in Nat /\ sum[place - 1] \in Nat
        BY <1>2, <1>3, <1>6, <4>1
      <4> QED
        BY <1>8, <3>1, <4>2
    <3> QED
      BY <3>1, <3>2
  <2> QED
    BY <2>2, <2>3
<1> QED
  BY <1>1, <1>7, <1>8 DEF Cumulative

\* An experiment gets the buckets of its share, as far as there are any left.
LEMMA UsersOfList ==
  ASSUME NEW list \in Lists, NEW place \in DOMAIN list
  PROVE  Cardinality({b \in 0 .. Buckets - 1 : Assign(list, b) = list[place]}) =
            IF Share[list[place]] <= Left(list, place) THEN Share[list[place]] ELSE Left(list, place)
<1>1. PICK N \in Nat : N = Len(list)
  BY ListsProperties
<1>2. PICK sum : sum = RunningSum(list, Share) /\ SumInTurns(list, Share, sum)
  BY ListsProperties, SumTurns, ShareAssumption
<1>3. /\ list \in Seq(Ids) /\ DOMAIN list = 1 .. N
      /\ sum \in [0 .. N -> Nat]
      /\ \A n \in 1 .. N : sum[n] = sum[n - 1] + Share[list[n]]
  BY <1>1, <1>2, ListsProperties DEF SumInTurns
<1>4. place \in 1 .. N /\ place - 1 \in 0 .. N /\ place \in 0 .. N
  BY <1>3
<1>5. PICK low \in Nat, high \in Nat, share \in Nat :
         low = sum[place - 1] /\ high = sum[place] /\ share = Share[list[place]]
  BY <1>3, <1>4, ShareAssumption
<1>6. high = low + share /\ Buckets \in Nat
  BY <1>3, <1>4, <1>5, BucketsAssumption
<1>7. Left(list, place) = IF low <= Buckets THEN Buckets - low ELSE 0
  BY <1>2, <1>5 DEF Left, Cumulative
<1>8. PICK end \in Nat : end = IF high <= Buckets THEN high ELSE Buckets
  BY <1>6
<1>9. {b \in 0 .. Buckets - 1 : Assign(list, b) = list[place]} = low .. end - 1
  <2>1. ASSUME NEW b \in Nat PROVE Assign(list, b) = list[place] <=> low <= b /\ b < high
    BY <1>1, <1>2, <1>4, <1>5, UsersOfPlace DEF Cumulative
  <2> QED
    BY <1>6, <1>8, <2>1
<1>10. Cardinality(low .. end - 1) = IF low > end - 1 THEN 0 ELSE end - 1 - low + 1
  BY FS_Interval
<1>11. Cardinality(low .. end - 1) =
          IF share <= Left(list, place) THEN share ELSE Left(list, place)
  <2>1. CASE low <= Buckets
    BY <1>6, <1>7, <1>8, <1>10, <2>1
  <2>2. CASE ~(low <= Buckets)
    BY <1>6, <1>7, <1>8, <1>10, <2>2
  <2> QED
    BY <2>1, <2>2
<1> QED
  BY <1>5, <1>9, <1>11

\* GetExperiment gives every experiment exactly its share of the users, or what
\* the ones before it left, however many experiments there are and in whichever
\* order SMEMBERS returned them.
THEOREM EverybodyGetsTheirShare == Spec => []SharesAreHonoured
<1>1. SharesAreHonoured
  BY UsersOfList DEF SharesAreHonoured
<1> QED
  BY <1>1, PTL
=============================================================================
