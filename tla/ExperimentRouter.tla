-------------------------- MODULE ExperimentRouter --------------------------
(***************************************************************************)
(* A/B assignment: experiment.Router (experiment/router.go) with its       *)
(* double-checked cache under an RWMutex, over the two reads of            *)
(* DragonflyStore.ListActiveExperiments (SMEMBERS, then MGET).             *)
(*                                                                         *)
(* One Router serves all requests of a pod.  The section under RLock only  *)
(* reads two fields, so it is one step that needs the write lock free.     *)
(* The age of the cache stops growing at CacheTTL, the only value it is    *)
(* compared with.  Traffic shares are numbers of hash buckets.             *)
(***************************************************************************)
EXTENDS Loops, FiniteSets, SequencesExt

CONSTANTS Goroutines,  \* request slots that may call GetExperiment together
          Ids,         \* experiment ids
          Share,       \* TrafficPct of each experiment, in buckets
          Buckets,     \* number of hash buckets (100)
          CacheTTL,    \* clock ticks a fetched list stays fresh (30 s)
          None,        \* no experiment, no list, nobody
          Failed       \* a call that returned an error

ASSUME IdsAssumption     == IsFiniteSet(Ids)
ASSUME ShareAssumption   == Share \in [Ids -> Nat]
ASSUME BucketsAssumption == Buckets \in Nat \ {0}
ASSUME TTLAssumption     == CacheTTL \in Nat \ {0}

VARIABLES
    members,     \* experiment:active, in the order SMEMBERS returns it
    configs,     \* ids whose experiment:{id} holds a config
    storeUp,     \* do commands to DragonflyDB succeed
    cached,      \* Router.cached, None for nil
    cacheAge,    \* time since Router.lastFetched
    lockHolder,  \* the goroutine that holds mu for writing
    pc,          \* the next step of each goroutine
    ids,         \* local ids of ListActiveExperiments
    result       \* the list a call worked with, or Failed

store  == <<members, configs, storeUp>>
router == <<cached, cacheAge, lockHolder>>
vars   == <<store, router, pc, ids, result>>

Steps == {"idle", "rlock", "lock", "recheck", "smembers", "mget", "unlock"}
Lists == {list \in SeqOf(Ids, Cardinality(Ids)) : IsInjective(list)}

ASSUME NoneAssumption ==
    None \notin Ids \cup Goroutines \cup Lists /\ Failed \notin Lists \cup {None}

Older(age) == IF age < CacheTTL THEN age + 1 ELSE age
Fresh      == cached # None /\ cacheAge < CacheTTL

At(g, step)   == pc[g] = step
GoTo(g, step) == pc' = [pc EXCEPT ![g] = step]

Init ==
    /\ members \in Lists /\ configs \in SUBSET Ids /\ storeUp = TRUE
    /\ cached = None /\ cacheAge = CacheTTL /\ lockHolder = None
    /\ pc = [g \in Goroutines |-> "idle"]
    /\ ids = [g \in Goroutines |-> <<>>]
    /\ result = [g \in Goroutines |-> None]

-----------------------------------------------------------------------------
(* GetExperiment *)

\* The user's bucket is compared with the running sum of the shares, in the
\* order of the list.
Cumulative(list, n) == RunningSum(list, Share)[n]

\* A mistake: the bucket that ends a share counts as inside it.
AssignInclusive(list, bucket) ==
    LET hits == {n \in DOMAIN list : bucket <= Cumulative(list, n)}
    IN  IF hits = {} THEN None ELSE list[CHOOSE n \in hits : \A m \in hits : n <= m]

Assign(list, bucket) ==
    LET hits == {n \in DOMAIN list : bucket < Cumulative(list, n)}
    IN  IF hits = {} THEN None ELSE list[CHOOSE n \in hits : \A m \in hits : n <= m]

Call(g) ==
    /\ At(g, "idle")
    /\ GoTo(g, "rlock")
    /\ result' = [result EXCEPT ![g] = None]
    /\ UNCHANGED <<store, router, ids>>

(* loadExperiments *)

CheckUnderRLock(g) ==
    /\ At(g, "rlock") /\ lockHolder = None
    /\ \/ Fresh  /\ result' = [result EXCEPT ![g] = cached] /\ GoTo(g, "idle")
       \/ ~Fresh /\ UNCHANGED result /\ GoTo(g, "lock")
    /\ UNCHANGED <<store, router, ids>>

Lock(g) ==
    /\ At(g, "lock") /\ lockHolder = None
    /\ lockHolder' = g
    /\ GoTo(g, "recheck")
    /\ UNCHANGED <<store, cached, cacheAge, ids, result>>

\* A mistake: no second check under the write lock.
RecheckNothing(g) ==
    /\ At(g, "recheck")
    /\ GoTo(g, "smembers")
    /\ UNCHANGED <<store, router, ids, result>>

Recheck(g) ==
    /\ At(g, "recheck")
    /\ \/ Fresh  /\ result' = [result EXCEPT ![g] = cached] /\ GoTo(g, "unlock")
       \/ ~Fresh /\ UNCHANGED result /\ GoTo(g, "smembers")
    /\ UNCHANGED <<store, router, ids>>

\* A mistake: the error is returned though there is a list.
FetchFailsHard(g) ==
    /\ ~storeUp
    /\ result' = [result EXCEPT ![g] = Failed]
    /\ GoTo(g, "unlock")
    /\ UNCHANGED <<cached, cacheAge, ids>>

\* A mistake: the error path returns without unlocking.
FetchFailsLocked(g) ==
    /\ ~storeUp
    /\ result' = [result EXCEPT ![g] = IF cached # None THEN cached ELSE Failed]
    /\ GoTo(g, "idle")
    /\ UNCHANGED <<cached, cacheAge, ids>>

\* A store error is answered with the stale list if there is one.
FetchFails(g) ==
    /\ ~storeUp
    /\ result' = [result EXCEPT ![g] = IF cached # None THEN cached ELSE Failed]
    /\ GoTo(g, "unlock")
    /\ UNCHANGED <<cached, cacheAge, ids>>

\* A mistake: the new list is appended to the old one.
FetchedAppended(g, list) ==
    /\ cached' = (IF cached = None THEN <<>> ELSE cached) \o list /\ cacheAge' = 0
    /\ result' = [result EXCEPT ![g] = list]
    /\ GoTo(g, "unlock")

Fetched(g, list) ==
    /\ cached' = list /\ cacheAge' = 0
    /\ result' = [result EXCEPT ![g] = list]
    /\ GoTo(g, "unlock")

SMembers(g) ==
    /\ At(g, "smembers")
    /\ \/ FetchFails(g)
       \/ storeUp /\ members = <<>> /\ Fetched(g, <<>>) /\ UNCHANGED ids
       \/ /\ storeUp /\ members # <<>>
          /\ ids' = [ids EXCEPT ![g] = members]
          /\ GoTo(g, "mget")
          /\ UNCHANGED <<cached, cacheAge, result>>
    /\ UNCHANGED <<store, lockHolder>>

\* Ids without a config are skipped.
MGet(g) ==
    /\ At(g, "mget")
    /\ \/ FetchFails(g)
       \/ /\ storeUp
          /\ Fetched(g, Filter(ids[g], configs))
          /\ UNCHANGED ids
    /\ UNCHANGED <<store, lockHolder>>

\* The deferred Unlock, on every way out.
Unlock(g) ==
    /\ At(g, "unlock")
    /\ lockHolder' = None
    /\ ids' = [ids EXCEPT ![g] = <<>>]
    /\ GoTo(g, "idle")
    /\ UNCHANGED <<store, cached, cacheAge, result>>

CallStep(g) ==
    \/ CheckUnderRLock(g) \/ Lock(g) \/ Recheck(g)
    \/ SMembers(g) \/ MGet(g) \/ Unlock(g)

-----------------------------------------------------------------------------
(* The environment *)

Tick ==
    /\ cacheAge' = Older(cacheAge)
    /\ UNCHANGED <<store, cached, lockHolder, pc, ids, result>>

\* Somebody edits the experiments, or the set comes back in another order.
Edit ==
    /\ \/ members' \in Lists /\ UNCHANGED configs
       \/ configs' \in SUBSET Ids /\ UNCHANGED members
    /\ UNCHANGED <<storeUp, router, pc, ids, result>>

StoreChanges ==
    /\ storeUp' = ~storeUp
    /\ UNCHANGED <<members, configs, router, pc, ids, result>>

Next ==
    \/ \E g \in Goroutines : Call(g) \/ CallStep(g)
    \/ Tick \/ Edit \/ StoreChanges

Spec == Init /\ [][Next]_vars

\* Goroutines are scheduled, store calls time out, and sync.RWMutex hands the
\* lock to a goroutine that has waited for it.
FairSpec ==
    /\ Spec
    /\ \A g \in Goroutines :
          /\ WF_vars(Recheck(g) \/ SMembers(g) \/ MGet(g) \/ Unlock(g))
          /\ SF_vars(CheckUnderRLock(g))
          /\ SF_vars(Lock(g))

-----------------------------------------------------------------------------

TypeOK ==
    /\ members \in Lists /\ configs \subseteq Ids /\ storeUp \in BOOLEAN
    /\ cached \in Lists \cup {None} /\ cacheAge \in 0 .. CacheTTL
    /\ lockHolder \in Goroutines \cup {None}
    /\ pc \in [Goroutines -> Steps]
    /\ ids \in [Goroutines -> Lists]
    /\ result \in [Goroutines -> Lists \cup {None, Failed}]

Fetching(g) == pc[g] \in {"smembers", "mget"}

\* However many requests find the list expired at once, one of them reads the
\* store, and those that waited for it do not read again: the reason for the
\* second check under the write lock.
OneFetchPerExpiry ==
    \A g \in Goroutines : Fetching(g) => lockHolder = g /\ ~Fresh

\* Once a list was loaded, no outage of the store turns into an error of
\* GetExperiment, the stale list answers; and the failed read never counts as
\* a refresh, so that the list is asked for again as soon as the store is back.
StaleBeatsError ==
    [][ /\ \A g \in Goroutines : result'[g] = Failed /\ result[g] # Failed => cached = None
        /\ Fresh' /\ ~Fresh => storeUp ]_vars

\* The buckets that the experiments before the n-th of a list leave.
Left(list, n) ==
    IF Cumulative(list, n - 1) <= Buckets THEN Buckets - Cumulative(list, n - 1) ELSE 0

\* Every experiment gets exactly its share of the users, in whichever order the
\* store returned the list; where the shares exceed the buckets those at the end
\* of the list get what is left, or nothing, and the ones before lose no user.
SharesAreHonoured ==
    \A g \in Goroutines : result[g] \in Lists =>
        \A n \in DOMAIN result[g] :
            LET id == result[g][n] IN
            Cardinality({b \in 0 .. Buckets - 1 : Assign(result[g], b) = id}) =
                IF Share[id] <= Left(result[g], n) THEN Share[id] ELSE Left(result[g], n)

\* Every call returns, on every way through the two locks and the store.
CallsReturn == \A g \in Goroutines : At(g, "rlock") ~> At(g, "idle")
=============================================================================
