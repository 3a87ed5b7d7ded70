----------------------------- MODULE TierRouter -----------------------------
(***************************************************************************)
(* One request through the tier cascade: Router.Recommend (tier/router.go) *)
(* behind HandleRecommend, and HandlePopular, over the reads of            *)
(* DragonflyStore (store/dragonfly.go).                                    *)
(*                                                                         *)
(* A request writes nothing that another one reads, so one request is      *)
(* followed at a time; what runs beside it is the rest of the system: the  *)
(* degradation level moves, the batch job and TTLs rewrite the cached      *)
(* lists, the stock bitmap changes, DragonflyDB comes and goes.  Every     *)
(* remote call and every load of the level is a step of its own.           *)
(*                                                                         *)
(* A recommendation is its item: scores only decide the order.  The        *)
(* reranker and the ranker may return any order of the list they are given.*)
(***************************************************************************)
EXTENDS Degradation, Loops, SequencesExt

CONSTANTS Items,    \* the catalogue
          Lists,    \* the recommendation lists the batch job may store
          Limits,   \* page sizes requests ask for, after HandleRecommend's clamp
          Absent,   \* the value of a key that is not there
          Corrupt   \* a value that json.Unmarshal refuses

ASSUME ListsAssumption  == \A list \in Lists : list \in Seq(Items) /\ IsInjective(list)
ASSUME LimitsAssumption == Limits \subseteq Nat \ {0}
ASSUME EntriesAssumption == Absent # Corrupt /\ {Absent, Corrupt} \cap Lists = {}

VARIABLES
    recCache,     \* rec:{user}:top_k of the request's user
    popular,      \* rec:popular:top_k
    outOfStock,   \* items FilterOutOfStock reads as out of stock
    dragonflyUp,  \* do commands to DragonflyDB succeed
    pc,           \* the next step of the request
    path,         \* "tiers", "emergency" or "popular": the way it took
    session,      \* did the request carry a session_id
    limit,
    recs,         \* local recs of Recommend, the response once pc = "ok"
    label,        \* local level of Recommend
    cacheMiss,
    \* history of the interval from the request's arrival to now
    available,    \* items that were in stock, or could not be looked up, at some time
    firm,         \* items that were in stock and on the user's cached list all the time
    calmest,      \* the lowest degradation level
    harshest,     \* the highest degradation level
    outage        \* was DragonflyDB down or an entry corrupt

env     == <<level, recCache, popular, outOfStock, dragonflyUp>>
request == <<path, session, limit>>
history == <<available, firm, calmest, harshest, outage>>
vars    == <<env, pc, request, recs, label, cacheMiss, history>>

Entries == Lists \cup {Absent, Corrupt}
Labels  == {"none", "tier1_precomputed", "tier2_rerank", "tier3_inference",
            "fallback_popular", "tier0_popular"}
Answered == pc \in {"idle", "ok", "error"}

Truncate(list) == SubSeq(list, 1, IF Len(list) < limit THEN Len(list) ELSE limit)
Orders(list)   == Bijection(DOMAIN list, ToSet(list))
ItemsOf(entry) == IF entry \in Lists THEN ToSet(entry) ELSE {}
Readable       == IF dragonflyUp THEN Items \ outOfStock ELSE Items
Broken         == ~dragonflyUp \/ recCache = Corrupt \/ popular = Corrupt

Init ==
    /\ level = Normal
    /\ recCache \in Entries /\ popular \in Entries
    /\ outOfStock = {} /\ dragonflyUp = TRUE
    /\ pc = "idle" /\ path = "tiers" /\ session = FALSE /\ limit \in Limits
    /\ recs = <<>> /\ label = "none" /\ cacheMiss = FALSE
    /\ available = {} /\ firm = {}
    /\ calmest = Normal /\ harshest = Normal /\ outage = FALSE

-----------------------------------------------------------------------------
(* Arrival of a request *)

StartHistory ==
    /\ available' = Readable
    /\ firm' = ItemsOf(recCache) \ outOfStock
    /\ calmest' = level /\ harshest' = level
    /\ outage' = Broken

HandleRecommend ==
    /\ Answered
    /\ pc' = "checkTier1" /\ path' = "tiers"
    /\ session' \in BOOLEAN /\ limit' \in Limits
    /\ recs' = <<>> /\ label' = "none" /\ cacheMiss' = FALSE
    /\ StartHistory
    /\ UNCHANGED env

HandlePopular ==
    /\ Answered
    /\ pc' = "popularOnly" /\ path' = "popular"
    /\ session' = FALSE /\ limit' \in Limits
    /\ recs' = <<>> /\ label' = "none" /\ cacheMiss' = FALSE
    /\ StartHistory
    /\ UNCHANGED env

-----------------------------------------------------------------------------
(* Reads of DragonflyStore *)

\* A read that fails, by the connection or by json.Unmarshal, ends the request.
ReadFails(entry) == ~dragonflyUp \/ entry = Corrupt
ListIn(entry)    == IF entry = Absent THEN <<>> ELSE entry

GetRecommendations == ListIn(recCache)
GetPopularItems    == Truncate(ListIn(popular))

Fail ==
    /\ pc' = "error"
    /\ label' = "none"
    /\ UNCHANGED <<recs, cacheMiss>>

(* Router.Recommend *)

CheckTier1 ==
    /\ pc = "checkTier1"
    /\ pc'   = IF IsTierAllowed("tier1") THEN "getRecommendations" ELSE "popularOnly"
    /\ path' = IF IsTierAllowed("tier1") THEN path ELSE "emergency"
    /\ UNCHANGED <<env, session, limit, recs, label, cacheMiss>>

\* The Emergency branch, and all of HandlePopular.
PopularOnly ==
    /\ pc = "popularOnly"
    /\ \/ ReadFails(popular) /\ Fail
       \/ /\ ~ReadFails(popular)
          /\ recs' = GetPopularItems
          /\ label' = IF path = "popular" THEN "tier0_popular" ELSE "fallback_popular"
          /\ pc' = "ok"
          /\ UNCHANGED cacheMiss
    /\ UNCHANGED <<env, request>>

ReadCache ==
    /\ pc = "getRecommendations"
    /\ \/ ReadFails(recCache) /\ Fail
       \/ /\ ~ReadFails(recCache)
          /\ recs' = GetRecommendations
          /\ label' = "tier1_precomputed"
          /\ cacheMiss' = (GetRecommendations = <<>>)
          /\ pc' = IF cacheMiss' THEN "getPopularItems" ELSE "filterOutOfStock"
    /\ UNCHANGED <<env, request>>

FallBackToPopular ==
    /\ pc = "getPopularItems"
    /\ \/ ReadFails(popular) /\ Fail
       \/ /\ ~ReadFails(popular)
          /\ recs' = GetPopularItems
          /\ label' = "fallback_popular"
          /\ pc' = "filterOutOfStock"
          /\ UNCHANGED cacheMiss
    /\ UNCHANGED <<env, request>>

\* A mistake: only the user's own list is filtered.
FilterCacheHitsOnly ==
    /\ pc = "filterOutOfStock"
    /\ recs' = IF cacheMiss THEN recs ELSE Filter(recs, Readable)
    /\ pc' = "checkTier2"
    /\ UNCHANGED <<env, request, label, cacheMiss>>

\* A mistake: the list is cut to the page before it is filtered.
TruncateThenFilter ==
    /\ pc = "filterOutOfStock"
    /\ recs' = Filter(Truncate(recs), Readable)
    /\ pc' = "checkTier2"
    /\ UNCHANGED <<env, request, label, cacheMiss>>

\* FilterOutOfStock keeps what it cannot look up and never returns an error.
FilterOutOfStock ==
    /\ pc = "filterOutOfStock"
    /\ recs' = Filter(recs, Readable)
    /\ pc' = "checkTier2"
    /\ UNCHANGED <<env, request, label, cacheMiss>>

CheckTier2 ==
    /\ pc = "checkTier2"
    /\ pc' = IF session /\ IsTierAllowed("tier2") THEN "rerank" ELSE "checkTier3"
    /\ UNCHANGED <<env, request, recs, label, cacheMiss>>

\* SessionReranker.Rerank reads the session's events before it scores.
Rerank ==
    /\ pc = "rerank"
    /\ \/ ~dragonflyUp /\ Fail
       \/ /\ dragonflyUp
          /\ recs' \in Orders(recs)
          /\ label' = IF label = "tier1_precomputed" THEN "tier2_rerank" ELSE label
          /\ pc' = "checkTier3"
          /\ UNCHANGED cacheMiss
    /\ UNCHANGED <<env, request>>

CheckTier3 ==
    /\ pc = "checkTier3"
    /\ pc' = IF cacheMiss /\ IsTierAllowed("tier3") THEN "rank" ELSE "truncate"
    /\ UNCHANGED <<env, request, recs, label, cacheMiss>>

\* A mistake: an error of the ranker is returned like one of the reranker.
RankOrFail ==
    /\ pc = "rank"
    /\ \/ Fail
       \/ label' = "tier3_inference" /\ recs' \in Orders(recs) /\ pc' = "truncate" /\ UNCHANGED cacheMiss
    /\ UNCHANGED <<env, request>>

\* ProtectedRanker.Rank may refuse (circuit open) or fail at any time.
Rank ==
    /\ pc = "rank"
    /\ \/ label' = "fallback_popular" /\ UNCHANGED recs
       \/ label' = "tier3_inference"  /\ recs' \in Orders(recs)
    /\ pc' = "truncate"
    /\ UNCHANGED <<env, request, cacheMiss>>

TruncateToLimit ==
    /\ pc = "truncate"
    /\ recs' = Truncate(recs)
    /\ pc' = "ok"
    /\ UNCHANGED <<env, request, label, cacheMiss>>

RecommendStep ==
    \/ CheckTier1 \/ PopularOnly \/ ReadCache \/ FallBackToPopular
    \/ FilterOutOfStock \/ CheckTier2 \/ Rerank \/ CheckTier3 \/ Rank
    \/ TruncateToLimit

-----------------------------------------------------------------------------
(* The rest of the system *)

local == <<pc, request, recs, label, cacheMiss>>

ChangeLevel == LevelChange /\ UNCHANGED <<recCache, popular, outOfStock, dragonflyUp, local>>

\* A batch write, an eviction or an expiry.
RewriteCache ==
    /\ \/ recCache' \in Entries /\ UNCHANGED popular
       \/ popular' \in Entries /\ UNCHANGED recCache
    /\ UNCHANGED <<level, outOfStock, dragonflyUp, local>>

ChangeStock ==
    /\ \E item \in Items :
          outOfStock' = IF item \in outOfStock THEN outOfStock \ {item}
                        ELSE outOfStock \cup {item}
    /\ UNCHANGED <<level, recCache, popular, dragonflyUp, local>>

DragonflyChanges ==
    /\ dragonflyUp' = ~dragonflyUp
    /\ UNCHANGED <<level, recCache, popular, outOfStock, local>>

\* What went on while the request was being served.
Watch ==
    /\ available' = available \cup Readable'
    /\ firm' = (firm \cap ItemsOf(recCache')) \ outOfStock'
    /\ calmest' = IF level' < calmest THEN level' ELSE calmest
    /\ harshest' = IF level' > harshest THEN level' ELSE harshest
    /\ outage' = (outage \/ Broken')

\* The rest of the system moves while a request is under way, and can reach any
\* state then; between two requests nobody watches it and it is left alone.
Next ==
    \/ HandleRecommend
    \/ HandlePopular
    \/ RecommendStep /\ Watch
    \/ /\ ~Answered
       /\ ChangeLevel \/ RewriteCache \/ ChangeStock \/ DragonflyChanges
       /\ Watch

Spec == Init /\ [][Next]_vars

-----------------------------------------------------------------------------

TypeOK ==
    /\ level \in Levels /\ calmest \in Levels /\ harshest \in Levels
    /\ recCache \in Entries /\ popular \in Entries
    /\ outOfStock \subseteq Items /\ available \subseteq Items /\ firm \subseteq Items
    /\ dragonflyUp \in BOOLEAN /\ session \in BOOLEAN
    /\ cacheMiss \in BOOLEAN /\ outage \in BOOLEAN
    /\ path \in {"tiers", "emergency", "popular"}
    /\ limit \in Limits /\ label \in Labels
    /\ recs \in Seq(Items) /\ IsInjective(recs)

Served == pc = "ok" /\ path = "tiers"

\* A personalised response holds only items that were in stock (or that could
\* not be looked up) at some time during the request, whichever of the two
\* lists it came from and whoever ordered it after the filter.
OnlyInStock == Served => ToSet(recs) \subseteq available

\* Shedding a tier is effective: a request that ran wholly at a level that
\* blocks a tier never calls it, and only an Emergency seen by the request
\* sends it to the unfiltered list.
ShedTiersStayShed ==
    /\ pc = "rerank" => calmest < Critical
    /\ pc = "rank" => calmest < Warning
    /\ path = "tiers" /\ ~Answered /\ pc # "checkTier1" => calmest < Emergency
    /\ path = "emergency" => harshest = Emergency

\* A request fails only if DragonflyDB was down or held a corrupt entry while
\* it ran: Triton, the breaker, the level and empty lists never make it fail.
ErrorsAreOutages == pc = "error" => outage

\* An item of the user's own list that stays on it and in stock while the
\* request runs is not lost on the way: either it is in the response or the
\* page is full; and no page, on any path, is longer than asked for.
FirmItemsAreServed ==
    /\ pc = "ok" => Len(recs) <= limit
    /\ Served => firm \subseteq ToSet(recs) \/ Len(recs) = limit
=============================================================================
