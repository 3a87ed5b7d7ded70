-------------------------- MODULE TierRouterProofs --------------------------
(***************************************************************************)
(* Proofs that TierRouter has the properties its run checks, for every     *)
(* catalogue, every set of lists and of page sizes.                        *)
(*                                                                         *)
(* The properties speak of the answer; the invariant follows the list on   *)
(* its way there.  From the filter on it holds nothing that was not in     *)
(* stock at some time (InStockSoFar), from the read of the cache on it     *)
(* holds what was firm, or nothing is (FirmSoFar), and the step a request  *)
(* is at says which way it took (PathsOK).                                 *)
(***************************************************************************)
EXTENDS TierRouter, LoopsProofs, FunctionTheorems

\* The unfiltered list is only on the two ways that are not personalised.
PathsOK ==
    /\ pc \in {"idle", "ok", "error", "checkTier1", "popularOnly", "getRecommendations",
               "getPopularItems", "filterOutOfStock", "checkTier2", "rerank",
               "checkTier3", "rank", "truncate"}
    /\ pc = "checkTier1" => path = "tiers"
    /\ pc = "popularOnly" => path # "tiers"

PastFilter == pc \in {"checkTier2", "rerank", "checkTier3", "rank", "truncate"}

\* What the filter let through was in stock at some time.
InStockSoFar == PastFilter => ToSet(recs) \subseteq available

\* Firm items are on the list that was read, and pass the filter.
FirmSoFar ==
    /\ pc = "getPopularItems" => firm = {}
    /\ pc = "filterOutOfStock" \/ PastFilter => firm \subseteq ToSet(recs)

RequestInv ==
    /\ TypeOK /\ PathsOK
    /\ ErrorsAreOutages /\ ShedTiersStayShed
    /\ InStockSoFar /\ OnlyInStock
    /\ FirmSoFar /\ FirmItemsAreServed

-----------------------------------------------------------------------------
(* The operators on lists *)

\* Cutting a list to the page only drops its end.
LEMMA TruncateProperties ==
  ASSUME limit \in Limits, NEW list \in Seq(Items), IsInjective(list)
  PROVE  /\ Truncate(list) \in Seq(Items) /\ IsInjective(Truncate(list))
         /\ Len(Truncate(list)) <= limit
         /\ ToSet(Truncate(list)) \subseteq ToSet(list)
         /\ ToSet(Truncate(list)) = ToSet(list) \/ Len(Truncate(list)) = limit
<1>1. PICK n \in 0 .. Len(list) :
         n <= limit /\ (n = limit \/ n = Len(list)) /\ Truncate(list) = SubSeq(list, 1, n)
  <2>1. limit \in Nat /\ Len(list) \in Nat
    BY LimitsAssumption
  <2>2. CASE Len(list) < limit
    BY <2>1, <2>2 DEF Truncate
  <2>3. CASE ~ (Len(list) < limit)
    BY <2>1, <2>3 DEF Truncate
  <2> QED
    BY <2>2, <2>3
<1>2. /\ SubSeq(list, 1, n) \in Seq(Items) /\ Len(SubSeq(list, 1, n)) = n
      /\ ToSet(SubSeq(list, 1, n)) \subseteq ToSet(list)
      /\ IsInjective(SubSeq(list, 1, n))
      /\ n = Len(list) => ToSet(SubSeq(list, 1, n)) = ToSet(list)
  BY PrefixProperties
<1> QED
  BY <1>1, <1>2

\* An order of a list is a list of the same items.
LEMMA OrdersProperties ==
  ASSUME NEW list \in Seq(Items), NEW order \in Orders(list)
  PROVE  /\ order \in Seq(Items) /\ IsInjective(order)
         /\ ToSet(order) = ToSet(list)
<1>1. order \in Bijection(DOMAIN list, ToSet(list))
  BY DEF Orders
<1>2. order \in [DOMAIN list -> ToSet(list)] /\ IsInjective(order)
  BY <1>1, Fun_BijectionProperties DEF Bijection, Injection
<1>3. \A item \in ToSet(list) : \E i \in DOMAIN list : order[i] = item
  BY <1>1, Fun_BijectionProperties
<1>4. DOMAIN list = 1 .. Len(list) /\ Len(list) \in Nat /\ ToSet(list) \subseteq Items
  BY DEF ToSet
<1>5. order \in Seq(Items)
  <2>1. order \in [1 .. Len(list) -> Items]
    BY <1>2, <1>4
  <2> QED
    BY <2>1, <1>4
<1>6. ToSet(order) = ToSet(list)
  BY <1>2, <1>3 DEF ToSet
<1> QED
  BY <1>2, <1>5, <1>6

\* What a readable entry holds is a list of items, the one firm items are on.
LEMMA ListInProperties ==
  ASSUME NEW entry \in Entries, entry # Corrupt
  PROVE  /\ ListIn(entry) \in Seq(Items) /\ IsInjective(ListIn(entry))
         /\ ItemsOf(entry) = ToSet(ListIn(entry))
<1>1. CASE entry = Absent
  <2>1. PICK empty : empty = <<>> /\ empty \in Seq(Items) /\ Len(empty) = 0
    BY EmptySeq
  <2>2. ListIn(entry) = empty /\ ItemsOf(entry) = {}
    BY <1>1, <2>1, EntriesAssumption DEF ListIn, ItemsOf
  <2>3. DOMAIN empty = {}
    BY <2>1
  <2>4. IsInjective(empty) /\ ToSet(empty) = {}
    BY <2>3 DEF IsInjective, ToSet
  <2> QED
    BY <2>1, <2>2, <2>4
<1>2. CASE entry # Absent
  BY <1>2, ListsAssumption DEF ListIn, ItemsOf, Entries
<1> QED
  BY <1>1, <1>2

-----------------------------------------------------------------------------
(* The rest of the system *)

EnvOK ==
    /\ level \in Levels /\ recCache \in Entries /\ popular \in Entries
    /\ outOfStock \subseteq Items /\ dragonflyUp \in BOOLEAN

HistoryOK ==
    /\ calmest \in Levels /\ harshest \in Levels
    /\ available \subseteq Items /\ firm \subseteq Items /\ outage \in BOOLEAN

RequestOK ==
    /\ session \in BOOLEAN /\ cacheMiss \in BOOLEAN
    /\ path \in {"tiers", "emergency", "popular"}
    /\ limit \in Limits /\ label \in Labels

ListOK == recs \in Seq(Items) /\ IsInjective(recs)

\* The parts of the type invariant.
LEMMA TypeParts == TypeOK <=> EnvOK /\ HistoryOK /\ RequestOK /\ ListOK
  BY DEF TypeOK, EnvOK, HistoryOK, RequestOK, ListOK

\* Whoever moves, the rest of the system keeps its types.
LEMMA EnvironmentTypes ==
  ASSUME EnvOK, [Next]_vars
  PROVE  EnvOK'
<1>1. CASE UNCHANGED env
  BY <1>1 DEF EnvOK, env
<1>2. CASE ChangeLevel
  <2>1. \A ratio \in Loads : LevelFor(ratio) \in Levels
    BY DEF LevelFor, Levels, Normal, Warning, Critical, Emergency
  <2> QED
    BY <1>2, <2>1 DEF ChangeLevel, LevelChange, ReportLoad, SetLevel, EnvOK
<1>3. CASE RewriteCache
  BY <1>3 DEF RewriteCache, EnvOK
<1>4. CASE ChangeStock
  BY <1>4 DEF ChangeStock, EnvOK
<1>5. CASE DragonflyChanges
  BY <1>5 DEF DragonflyChanges, EnvOK
<1>6. RecommendStep \/ HandleRecommend \/ HandlePopular => UNCHANGED env
  BY DEF RecommendStep, HandleRecommend, HandlePopular, CheckTier1, PopularOnly, ReadCache,
         FallBackToPopular, FilterOutOfStock, CheckTier2, Rerank, CheckTier3, Rank,
         TruncateToLimit, env
<1> QED
  BY <1>1, <1>2, <1>3, <1>4, <1>5, <1>6 DEF Next, vars, env

\* What the history of a request says after a step.
LEMMA WatchProperties ==
  ASSUME EnvOK, EnvOK', HistoryOK, Watch
  PROVE  /\ HistoryOK'
         /\ calmest' <= level' /\ calmest' <= calmest
         /\ harshest' >= level' /\ harshest' >= harshest
         /\ outage \/ Broken' => outage'
         /\ available \subseteq available' /\ Readable' \subseteq available'
         /\ firm' \subseteq firm \cap ItemsOf(recCache') /\ firm' \cap outOfStock' = {}
<1>1. Readable' \subseteq Items
  BY DEF Readable, EnvOK
<1>2. /\ available' = available \cup Readable'
      /\ firm' = (firm \cap ItemsOf(recCache')) \ outOfStock'
      /\ outage' = (outage \/ Broken')
  BY DEF Watch
<1>3. /\ calmest' \in Levels /\ harshest' \in Levels
      /\ calmest' <= level' /\ calmest' <= calmest
      /\ harshest' >= level' /\ harshest' >= harshest
  <2>1. /\ level' \in Nat /\ calmest \in Nat /\ harshest \in Nat
    BY DEF EnvOK, HistoryOK, Levels, Normal, Emergency
  <2>2. calmest' = IF level' < calmest THEN level' ELSE calmest
    BY Zenon DEF Watch
  <2>3. harshest' = IF level' > harshest THEN level' ELSE harshest
    BY Zenon DEF Watch
  <2> QED
    BY <2>1, <2>2, <2>3 DEF EnvOK, HistoryOK
<1>4. outage' \in BOOLEAN
  BY <1>2 DEF HistoryOK, Broken
<1> QED
  BY <1>1, <1>2, <1>3, <1>4 DEF HistoryOK

\* The history of a request that arrives.
LEMMA StartProperties ==
  ASSUME EnvOK, StartHistory
  PROVE  HistoryOK'
<1>1. Readable \subseteq Items
  BY DEF Readable, EnvOK
<1>2. ItemsOf(recCache) \subseteq Items
  <2>1. \A list \in Lists : ToSet(list) \subseteq Items
    BY ListsAssumption DEF ToSet
  <2> QED
    BY <2>1 DEF ItemsOf
<1> QED
  BY <1>1, <1>2 DEF StartHistory, HistoryOK, EnvOK, Broken

-----------------------------------------------------------------------------
(* The way of a request *)

\* Where a step of the request leads, and on which conditions.
LEMMA RequestMoves ==
  ASSUME RequestOK, PathsOK, RecommendStep
  PROVE  /\ UNCHANGED env /\ RequestOK' /\ PathsOK' /\ ~Answered
         /\ pc' = "error" => Broken
         /\ pc' = "rerank" => IsTierAllowed("tier2")
         /\ pc' = "rank" => IsTierAllowed("tier3")
         /\ path' = "tiers" /\ pc' # "checkTier1" =>
               path = "tiers" /\ (pc = "checkTier1" => IsTierAllowed("tier1"))
         /\ path' = "emergency" => path = "emergency" \/ ~IsTierAllowed("tier1")
<1> USE DEF RequestOK, PathsOK, Answered, env, request, Labels
<1>1. CASE CheckTier1
  BY <1>1 DEF CheckTier1
<1>2. CASE PopularOnly
  BY <1>2 DEF PopularOnly, Fail, ReadFails, Broken
<1>3. CASE ReadCache
  <2>1. cacheMiss' \in BOOLEAN
    <3>1. CASE Fail
      BY <3>1 DEF Fail
    <3>2. CASE cacheMiss' = (GetRecommendations = <<>>)
      BY <3>2
    <3> QED
      BY <1>3, <3>1, <3>2 DEF ReadCache
  <2> QED
    BY <1>3, <2>1 DEF ReadCache, Fail, ReadFails, Broken
<1>4. CASE FallBackToPopular
  BY <1>4 DEF FallBackToPopular, Fail, ReadFails, Broken
<1>5. CASE FilterOutOfStock
  BY <1>5 DEF FilterOutOfStock
<1>6. CASE CheckTier2
  BY <1>6 DEF CheckTier2
<1>7. CASE Rerank
  BY <1>7 DEF Rerank, Fail, Broken
<1>8. CASE CheckTier3
  BY <1>8 DEF CheckTier3
<1>9. CASE Rank
  BY <1>9 DEF Rank
<1>10. CASE TruncateToLimit
  BY <1>10 DEF TruncateToLimit
<1> QED
  BY <1>1, <1>2, <1>3, <1>4, <1>5, <1>6, <1>7, <1>8, <1>9, <1>10 DEF RecommendStep

\* The levels at which IsTierAllowed lets a request through.
LEMMA AllowedLevels ==
  /\ IsTierAllowed("tier1") <=> level < Emergency
  /\ IsTierAllowed("tier2") <=> level < Critical
  /\ IsTierAllowed("tier3") <=> level < Warning
  BY DEF IsTierAllowed, BlockedFrom

\* A step of the request keeps tiers shed and blames errors on outages only.
LEMMA ControlStep ==
  ASSUME EnvOK, EnvOK', HistoryOK, RequestOK, PathsOK, ErrorsAreOutages, ShedTiersStayShed,
         RecommendStep, Watch
  PROVE  RequestOK' /\ PathsOK' /\ ErrorsAreOutages' /\ ShedTiersStayShed'
<1>1. /\ UNCHANGED env /\ RequestOK' /\ PathsOK' /\ ~Answered
      /\ pc' = "error" => Broken
      /\ pc' = "rerank" => level < Critical
      /\ pc' = "rank" => level < Warning
      /\ path' = "tiers" /\ pc' # "checkTier1" =>
            path = "tiers" /\ (pc = "checkTier1" => level < Emergency)
      /\ path' = "emergency" => path = "emergency" \/ ~ (level < Emergency)
  BY RequestMoves, AllowedLevels
<1>2. /\ calmest' <= level' /\ calmest' <= calmest
      /\ harshest' >= level' /\ harshest' >= harshest
      /\ Broken' => outage'
      /\ HistoryOK'
  BY WatchProperties
<1>3. Broken' = Broken /\ level' = level
  BY <1>1 DEF env, Broken
<1>4. /\ calmest \in Nat /\ calmest' \in Nat /\ level \in 0 .. 3
      /\ harshest \in 0 .. 3 /\ harshest' \in 0 .. 3
  BY <1>2 DEF EnvOK, HistoryOK, Levels, Normal, Emergency
<1>5. ErrorsAreOutages'
  BY <1>1, <1>2, <1>3 DEF ErrorsAreOutages
<1>6. (pc = "rerank" => calmest < Critical)'
  BY <1>1, <1>2, <1>3, <1>4 DEF Critical
<1>7. (pc = "rank" => calmest < Warning)'
  BY <1>1, <1>2, <1>3, <1>4 DEF Warning
<1>8. (path = "tiers" /\ ~Answered /\ pc # "checkTier1" => calmest < Emergency)'
  BY <1>1, <1>2, <1>3, <1>4 DEF Emergency, ShedTiersStayShed
<1>9. (path = "emergency" => harshest = Emergency)'
  BY <1>1, <1>2, <1>3, <1>4 DEF Emergency, ShedTiersStayShed
<1> QED
  BY <1>1, <1>5, <1>6, <1>7, <1>8, <1>9 DEF ShedTiersStayShed

-----------------------------------------------------------------------------
(* The list on its way *)

ListInv ==
    /\ ListOK
    /\ InStockSoFar /\ OnlyInStock
    /\ FirmSoFar /\ FirmItemsAreServed

\* A step of the request keeps firm items on the list, and lets nothing on it
\* after the filter.
LEMMA ListStep ==
  ASSUME EnvOK, EnvOK', HistoryOK, RequestOK, PathsOK, ListInv, RecommendStep, Watch
  PROVE  ListInv'
<1>1. /\ UNCHANGED env /\ ~Answered /\ limit \in Limits
      /\ available \subseteq available' /\ Readable \subseteq available'
      /\ firm' \subseteq firm \cap ItemsOf(recCache) /\ firm' \cap outOfStock = {}
  <2>1. UNCHANGED env /\ ~Answered
    BY RequestMoves
  <2>2. /\ available \subseteq available' /\ Readable' \subseteq available'
        /\ firm' \subseteq firm \cap ItemsOf(recCache') /\ firm' \cap outOfStock' = {}
    BY WatchProperties
  <2>3. Readable' = Readable /\ recCache' = recCache /\ outOfStock' = outOfStock
    BY <2>1 DEF env, Readable
  <2> QED
    BY <2>1, <2>2, <2>3 DEF RequestOK
<1>2. /\ recs \in Seq(Items) /\ IsInjective(recs)
      /\ PastFilter => ToSet(recs) \subseteq available
      /\ pc = "getPopularItems" => firm = {}
      /\ pc = "filterOutOfStock" \/ PastFilter => firm \subseteq ToSet(recs)
  BY DEF ListInv, ListOK, InStockSoFar, FirmSoFar
<1>3. ASSUME Fail PROVE ListInv'
  BY <1>2, <1>3 DEF Fail, ListInv, ListOK, InStockSoFar, OnlyInStock, FirmSoFar,
                    FirmItemsAreServed, PastFilter, Served
<1>4. ASSUME recs' \in Seq(Items), IsInjective(recs'), pc' # "ok",
             PastFilter' => ToSet(recs') \subseteq available',
             pc' = "getPopularItems" => firm' = {},
             pc' = "filterOutOfStock" \/ PastFilter' => firm' \subseteq ToSet(recs')
      PROVE  ListInv'
  BY <1>4 DEF ListInv, ListOK, InStockSoFar, OnlyInStock, FirmSoFar,
              FirmItemsAreServed, Served
<1>5. ASSUME recs' \in Seq(Items), IsInjective(recs'), pc' = "ok", Len(recs') <= limit',
             path' = "tiers" => ToSet(recs') \subseteq available',
             path' = "tiers" => firm' \subseteq ToSet(recs') \/ Len(recs') = limit'
      PROVE  ListInv'
  BY <1>5 DEF ListInv, ListOK, InStockSoFar, OnlyInStock, FirmSoFar,
              FirmItemsAreServed, Served, PastFilter
<1>6. CASE CheckTier1
  BY <1>2, <1>4, <1>6 DEF CheckTier1, PastFilter
<1>7. CASE PopularOnly
  <2>1. CASE Fail
    BY <1>3, <2>1
  <2>2. CASE ~Fail
    <3>1. /\ popular # Corrupt /\ recs' = Truncate(ListIn(popular)) /\ pc' = "ok"
          /\ UNCHANGED request /\ path # "tiers"
      BY <1>7, <2>2 DEF PopularOnly, ReadFails, GetPopularItems, PathsOK
    <3>2. ListIn(popular) \in Seq(Items) /\ IsInjective(ListIn(popular))
      BY <3>1, ListInProperties DEF EnvOK
    <3>3. /\ Truncate(ListIn(popular)) \in Seq(Items) /\ IsInjective(Truncate(ListIn(popular)))
          /\ Len(Truncate(ListIn(popular))) <= limit
      BY <1>1, <3>2, TruncateProperties
    <3> QED
      BY <1>5, <3>1, <3>3 DEF request
  <2> QED
    BY <2>1, <2>2
<1>8. CASE ReadCache
  <2>1. CASE Fail
    BY <1>3, <2>1
  <2>2. CASE ~Fail
    <3>1. /\ recCache # Corrupt /\ recs' = ListIn(recCache)
          /\ cacheMiss' = (ListIn(recCache) = <<>>)
          /\ pc' = IF cacheMiss' THEN "getPopularItems" ELSE "filterOutOfStock"
      BY <1>8, <2>2 DEF ReadCache, ReadFails, GetRecommendations
    <3>2. /\ ListIn(recCache) \in Seq(Items) /\ IsInjective(ListIn(recCache))
          /\ ItemsOf(recCache) = ToSet(ListIn(recCache))
      BY <3>1, ListInProperties DEF EnvOK
    <3>3. PICK list \in Seq(Items) :
             list = ListIn(recCache) /\ IsInjective(list) /\ firm' \subseteq ToSet(list)
      BY <1>1, <3>2
    <3>4. CASE list = <<>>
      <4>1. DOMAIN list = {}
        BY <3>4, EmptySeq
      <4>2. firm' = {}
        BY <3>3, <4>1 DEF ToSet
      <4>3. pc' = "getPopularItems"
        BY <3>1, <3>3, <3>4
      <4> QED
        BY <1>4, <3>1, <3>3, <4>2, <4>3 DEF PastFilter
    <3>5. CASE list # <<>>
      <4>1. pc' = "filterOutOfStock"
        BY <3>1, <3>3, <3>5
      <4> QED
        BY <1>4, <3>1, <3>3, <4>1 DEF PastFilter
    <3> QED
      BY <3>4, <3>5
  <2> QED
    BY <2>1, <2>2
<1>9. CASE FallBackToPopular
  <2>1. CASE Fail
    BY <1>3, <2>1
  <2>2. CASE ~Fail
    <3>1. /\ popular # Corrupt /\ recs' = Truncate(ListIn(popular))
          /\ pc = "getPopularItems" /\ pc' = "filterOutOfStock"
      BY <1>9, <2>2 DEF FallBackToPopular, ReadFails, GetPopularItems
    <3>2. ListIn(popular) \in Seq(Items) /\ IsInjective(ListIn(popular))
      BY <3>1, ListInProperties DEF EnvOK
    <3>3. Truncate(ListIn(popular)) \in Seq(Items) /\ IsInjective(Truncate(ListIn(popular)))
      BY <1>1, <3>2, TruncateProperties
    <3>4. firm' = {}
      BY <1>1, <1>2, <3>1
    <3> QED
      BY <1>4, <3>1, <3>3, <3>4 DEF PastFilter
  <2> QED
    BY <2>1, <2>2
<1>10. CASE FilterOutOfStock
  <2>1. recs' = Filter(recs, Readable) /\ pc = "filterOutOfStock" /\ pc' = "checkTier2"
    BY <1>10 DEF FilterOutOfStock
  <2>2. /\ Filter(recs, Readable) \in Seq(Items) /\ IsInjective(Filter(recs, Readable))
        /\ ToSet(Filter(recs, Readable)) = ToSet(recs) \cap Readable
    BY <1>2, FilterProperties
  <2>3. firm' \subseteq ToSet(recs) /\ firm' \subseteq Readable
    <3>1. firm \subseteq Items /\ Items \ outOfStock \subseteq Readable
      BY DEF HistoryOK, Readable
    <3> QED
      BY <1>1, <1>2, <2>1, <3>1
  <2>4. ToSet(Filter(recs, Readable)) \subseteq available'
    BY <1>1, <2>2
  <2> QED
    BY <1>4, <2>1, <2>2, <2>3, <2>4
<1>11. CASE CheckTier2
  BY <1>1, <1>2, <1>4, <1>11 DEF CheckTier2, PastFilter
<1>12. CASE Rerank
  <2>1. CASE Fail
    BY <1>3, <2>1
  <2>2. CASE ~Fail
    <3>1. recs' \in Orders(recs) /\ pc = "rerank" /\ pc' = "checkTier3"
      BY <1>12, <2>2 DEF Rerank
    <3>2. recs' \in Seq(Items) /\ IsInjective(recs') /\ ToSet(recs') = ToSet(recs)
      BY <1>2, <3>1, OrdersProperties
    <3> QED
      BY <1>1, <1>2, <1>4, <3>1, <3>2 DEF PastFilter
  <2> QED
    BY <2>1, <2>2
<1>13. CASE CheckTier3
  BY <1>1, <1>2, <1>4, <1>13 DEF CheckTier3, PastFilter
<1>14. CASE Rank
  <2>1. (recs' = recs \/ recs' \in Orders(recs)) /\ pc = "rank" /\ pc' = "truncate"
    BY <1>14 DEF Rank
  <2>2. recs' \in Seq(Items) /\ IsInjective(recs') /\ ToSet(recs') = ToSet(recs)
    BY <1>2, <2>1, OrdersProperties
  <2> QED
    BY <1>1, <1>2, <1>4, <2>1, <2>2 DEF PastFilter
<1>15. CASE TruncateToLimit
  <2>1. /\ recs' = Truncate(recs) /\ pc = "truncate" /\ pc' = "ok" /\ limit' = limit
    BY <1>15 DEF TruncateToLimit, request
  <2>2. /\ Truncate(recs) \in Seq(Items) /\ IsInjective(Truncate(recs))
        /\ Len(Truncate(recs)) <= limit
        /\ ToSet(Truncate(recs)) \subseteq ToSet(recs)
        /\ ToSet(Truncate(recs)) = ToSet(recs) \/ Len(Truncate(recs)) = limit
    BY <1>1, <1>2, TruncateProperties
  <2>3. ToSet(recs) \subseteq available' /\ firm' \subseteq ToSet(recs)
    BY <1>1, <1>2, <2>1 DEF PastFilter
  <2> QED
    BY <1>5, <2>1, <2>2, <2>3
<1> QED
  BY <1>6, <1>7, <1>8, <1>9, <1>10, <1>11, <1>12, <1>13, <1>14, <1>15
     DEF RecommendStep

-----------------------------------------------------------------------------
(* The invariant *)

\* RequestInv in the parts that the steps are proved to keep.
LEMMA InvParts ==
  RequestInv <=> /\ EnvOK /\ HistoryOK /\ RequestOK /\ PathsOK
                 /\ ErrorsAreOutages /\ ShedTiersStayShed /\ ListInv
  BY TypeParts DEF RequestInv, ListInv

\* Before the first request there is nothing to say.
LEMMA InvInit == Init => RequestInv
<1> SUFFICES ASSUME Init PROVE RequestInv
  OBVIOUS
<1>1. EnvOK /\ HistoryOK /\ RequestOK
  <2>1. Normal \in Levels
    BY DEF Levels, Normal, Emergency
  <2>2. EnvOK
    BY <2>1 DEF Init, EnvOK
  <2>3. HistoryOK
    BY <2>1 DEF Init, HistoryOK
  <2>4. RequestOK
    BY DEF Init, RequestOK, Labels
  <2> QED
    BY <2>2, <2>3, <2>4
<1>2. ListInv
  <2>1. recs = <<>> /\ recs \in Seq(Items) /\ DOMAIN recs = {}
    BY EmptySeq DEF Init
  <2>2. IsInjective(recs)
    BY <2>1 DEF IsInjective
  <2> QED
    BY <2>1, <2>2 DEF Init, ListInv, ListOK, InStockSoFar, OnlyInStock, FirmSoFar,
                      FirmItemsAreServed, PastFilter, Served
<1>3. PathsOK /\ ErrorsAreOutages /\ ShedTiersStayShed
  BY DEF Init, PathsOK, ErrorsAreOutages, ShedTiersStayShed, Answered
<1> QED
  BY <1>1, <1>2, <1>3, InvParts

\* Every step of the request, of the next one's arrival and of the rest of the
\* system keeps it.
LEMMA InvStep == RequestInv /\ [Next]_vars => RequestInv'
<1> SUFFICES ASSUME RequestInv, [Next]_vars PROVE RequestInv'
  OBVIOUS
<1>1. /\ EnvOK /\ HistoryOK /\ RequestOK /\ PathsOK
      /\ ErrorsAreOutages /\ ShedTiersStayShed /\ ListInv
  BY InvParts
<1>2. EnvOK'
  BY <1>1, EnvironmentTypes
<1>3. SUFFICES /\ HistoryOK' /\ RequestOK' /\ PathsOK'
               /\ ErrorsAreOutages' /\ ShedTiersStayShed' /\ ListInv'
  BY <1>2, TypeParts DEF RequestInv, ListInv, TypeOK, EnvOK, HistoryOK, RequestOK, ListOK
<1>4. CASE HandleRecommend \/ HandlePopular
  <2>1. /\ recs' = <<>> /\ StartHistory
        /\ \/ pc' = "checkTier1" /\ path' = "tiers"
           \/ pc' = "popularOnly" /\ path' = "popular"
    <3>1. CASE HandleRecommend
      BY <3>1 DEF HandleRecommend
    <3>2. CASE HandlePopular
      BY <3>2 DEF HandlePopular
    <3> QED
      BY <1>4, <3>1, <3>2
  <2>2. HistoryOK'
    BY <1>1, <2>1, StartProperties
  <2>3. RequestOK'
    BY <1>4 DEF HandleRecommend, HandlePopular, RequestOK, Labels
  <2>4. recs' \in Seq(Items) /\ IsInjective(recs')
    <3>1. recs' \in Seq(Items) /\ DOMAIN recs' = {}
      BY <2>1, EmptySeq
    <3> QED
      BY <3>1 DEF IsInjective
  <2>5. PathsOK' /\ ErrorsAreOutages' /\ ShedTiersStayShed' /\ ListInv'
    BY <2>1, <2>4 DEF PathsOK, ErrorsAreOutages, ShedTiersStayShed, ListInv, ListOK,
                      InStockSoFar, OnlyInStock, FirmSoFar, FirmItemsAreServed,
                      PastFilter, Served
  <2> QED
    BY <2>2, <2>3, <2>5
<1>5. CASE RecommendStep /\ Watch
  BY <1>1, <1>2, <1>5, ControlStep, ListStep, WatchProperties
<1>6. CASE ~Answered /\ UNCHANGED local /\ Watch
  <2>1. UNCHANGED <<pc, path, session, limit, recs, label, cacheMiss>>
    BY <1>6 DEF local, request
  <2>2. /\ HistoryOK'
        /\ calmest' <= calmest /\ harshest' >= harshest
        /\ outage => outage'
        /\ available \subseteq available' /\ firm' \subseteq firm
    BY <1>1, <1>2, <1>6, WatchProperties
  <2>3. /\ calmest \in Nat /\ calmest' \in Nat
        /\ harshest \in 0 .. 3 /\ harshest' \in 0 .. 3
    BY <1>1, <2>2 DEF HistoryOK, Levels, Normal, Emergency
  <2>4. RequestOK' /\ PathsOK' /\ ErrorsAreOutages'
    BY <1>1, <2>1, <2>2 DEF RequestOK, PathsOK, ErrorsAreOutages
  <2>5. ShedTiersStayShed'
    BY <1>1, <2>1, <2>2, <2>3
       DEF ShedTiersStayShed, Answered, Warning, Critical, Emergency
  <2>6. ListInv'
    BY <1>1, <1>6, <2>1, <2>2
       DEF ListInv, ListOK, InStockSoFar, OnlyInStock, FirmSoFar, FirmItemsAreServed,
           PastFilter, Served, Answered
  <2> QED
    BY <2>2, <2>4, <2>5, <2>6
<1>7. CASE UNCHANGED vars
  BY <1>1, <1>7
     DEF vars, env, request, history, HistoryOK, RequestOK, PathsOK, ErrorsAreOutages,
         ShedTiersStayShed, Answered, ListInv, ListOK, InStockSoFar, OnlyInStock,
         FirmSoFar, FirmItemsAreServed, PastFilter, Served
<1>8. ChangeLevel \/ RewriteCache \/ ChangeStock \/ DragonflyChanges => UNCHANGED local
  BY DEF ChangeLevel, RewriteCache, ChangeStock, DragonflyChanges, local
<1> QED
  BY <1>4, <1>5, <1>6, <1>7, <1>8 DEF Next

\* The invariant holds always.
THEOREM InvHolds == Spec => []RequestInv
<1> QED
  BY InvInit, InvStep, PTL DEF Spec

\* Whatever is cached, a list that is answered is one of the catalogue's items,
\* none of them twice, and local and shared state have their types.
THEOREM TypeCorrect == Spec => []TypeOK
<1>1. RequestInv => TypeOK
  BY DEF RequestInv
<1> QED
  BY <1>1, InvHolds, PTL

\* Neither the popular fallback nor the reranker or the ranker brings back into
\* a personalised answer what Recommend filtered as out of stock.
THEOREM AnswersAreInStock == Spec => []OnlyInStock
<1>1. RequestInv => OnlyInStock
  BY DEF RequestInv
<1> QED
  BY <1>1, InvHolds, PTL

\* However the level moves between Recommend's three checks, no tier runs in a
\* request that saw only levels that block it.
THEOREM TiersStayShed == Spec => []ShedTiersStayShed
<1>1. RequestInv => ShedTiersStayShed
  BY DEF RequestInv
<1> QED
  BY <1>1, InvHolds, PTL

\* HandleRecommend and HandlePopular answer 500 only for what DragonflyDB did.
THEOREM FailuresAreOutages == Spec => []ErrorsAreOutages
<1>1. RequestInv => ErrorsAreOutages
  BY DEF RequestInv
<1> QED
  BY <1>1, InvHolds, PTL

\* An item that stays listed and in stock passes the filter, every order and
\* the cut to the page, or was cut off by a full page.
THEOREM NothingFirmIsLost == Spec => []FirmItemsAreServed
<1>1. RequestInv => FirmItemsAreServed
  BY DEF RequestInv
<1> QED
  BY <1>1, InvHolds, PTL
=============================================================================
