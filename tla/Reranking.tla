------------------------------ MODULE Reranking ------------------------------
(***************************************************************************)
(* The two orders a page may be put in after the stock filter: the session *)
(* re-ranking of Tier 2 (rerank/) and the model ranking of Tier 3          *)
(* (ProtectedRanker.Rank without the breaker, Client.ScoreBatch and the    *)
(* insertion sort sortByScoreDesc, a step of its loops at a time).         *)
(*                                                                         *)
(* A session is the sorted set session:{id}:events: a function from        *)
(* members to scores (timestamps).  A member is what json.Unmarshal makes  *)
(* of it; SessionProcessor writes members that are no JSON.                *)
(* Scores are integers, in tenths for the weights.                         *)
(***************************************************************************)
EXTENDS Integers, SequencesExt

CONSTANTS Items,
          Lists,         \* candidate lists, sequences of [item, score]
          Members,       \* members of the session, [json, type, item, id]
          Times,         \* timestamps of events
          TritonScores,  \* scores the model may give
          Recent         \* events that Extract reads (50)

ASSUME RecentAssumption == Recent \in Nat \ {0} /\ Times \subseteq Nat
ASSUME ScoresAssumption == TritonScores \subseteq Int
ASSUME ListsAssumption  ==
    /\ Lists \subseteq Seq([item : Items, score : Int])
    /\ \A list \in Lists : \A p, q \in DOMAIN list : list[p].item = list[q].item => p = q

VARIABLES
    session,   \* the sorted set
    pc,        \* the next step of the request
    list,      \* the candidates, as they came from the filter
    features,  \* SessionFeatures
    ranked,    \* the list as it is ordered; being sorted in "outer" and "inner"
    given,     \* history: the list sortByScoreDesc was called with
    i, j, key  \* locals of sortByScoreDesc, counting from 1

sorting     == <<given, i, j, key>>
rankingVars == <<session, pc, list, features, ranked, sorting>>

ClickedPenalty == -5
ViewedPenalty  == -2
NoFeatures     == [clicked |-> {}, viewed |-> {}]
NoEntry        == [item |-> "none", score |-> 0]

RankingInit ==
    /\ session = <<>>
    /\ pc = "done" /\ list = <<>> /\ features = NoFeatures
    /\ ranked = <<>> /\ given = <<>> /\ i = 2 /\ j = 1 /\ key = NoEntry

-----------------------------------------------------------------------------
(* Sorting by descending score, equal scores in the order they had *)

Leads(entries, p, q) ==
    \/ entries[p].score > entries[q].score
    \/ entries[p].score = entries[q].score /\ p <= q

StableSort(entries) ==
    LET place(q) == Cardinality({p \in DOMAIN entries : Leads(entries, p, q)})
    IN  [n \in DOMAIN entries |-> entries[CHOOSE q \in DOMAIN entries : place(q) = n]]

(* SessionFeatureExtractor *)

\* The Recent members with the highest scores; equal scores in any order.
Newest(set) ==
    {picked \in SUBSET DOMAIN set :
        /\ Cardinality(picked) = Min({Recent, Cardinality(DOMAIN set)})
        /\ \A m \in picked, n \in DOMAIN set \ picked : set[m] >= set[n]}

ItemsWith(set, type) == {m.item : m \in {n \in set : n.json /\ n.type = type}}

Extract ==
    /\ pc = "extract"
    /\ \E read \in Newest(session) :
          features' = [clicked |-> ItemsWith(read, "click"), viewed |-> ItemsWith(read, "view")]
    /\ pc' = "rerank"
    /\ UNCHANGED <<session, list, ranked, sorting>>

(* WeightedScorer *)

Penalty(item) ==
    (IF item \in features.clicked THEN ClickedPenalty ELSE 0)
      + (IF item \in features.viewed THEN ViewedPenalty ELSE 0)

\* A mistake: the signs of the weights are lost, what was seen is promoted.
RerankPromoting ==
    /\ pc = "rerank"
    /\ ranked' = StableSort([n \in DOMAIN list |->
                    [list[n] EXCEPT !.score = @ - Penalty(list[n].item)]])
    /\ pc' = "rank"
    /\ UNCHANGED <<session, list, features, sorting>>

Rerank ==
    /\ pc = "rerank"
    /\ ranked' = StableSort([n \in DOMAIN list |->
                    [list[n] EXCEPT !.score = @ + Penalty(list[n].item)]])
    /\ pc' = "rank"
    /\ UNCHANGED <<session, list, features, sorting>>

-----------------------------------------------------------------------------
(* Client.ScoreBatch and ProtectedRanker.Rank *)

\* Triton answers with any scores, in the order of the batch.
ScoreBatch(scores) ==
    /\ ranked' = [n \in DOMAIN ranked |-> [ranked[n] EXCEPT !.score = scores[n]]]
    /\ given' = ranked'

\* The router asks the model only when the cache had no list.
Rank ==
    /\ pc = "rank"
    /\ \/ \* not asked, an error, or a reply of another length: the list stays
          pc' = "reply" /\ UNCHANGED <<ranked, given>>
       \/ \E scores \in [DOMAIN ranked -> TritonScores] : ScoreBatch(scores) /\ pc' = "outer"
    /\ UNCHANGED <<session, list, features, i, j, key>>

(* sortByScoreDesc *)

Outer ==
    /\ pc = "outer"
    /\ IF i <= Len(ranked)
          THEN key' = ranked[i] /\ j' = i - 1 /\ pc' = "inner"
          ELSE pc' = "reply" /\ UNCHANGED <<key, j>>
    /\ UNCHANGED <<session, list, features, ranked, given, i>>

\* A mistake: the loop shifts entries of the same score as well.
InnerUnstable ==
    /\ pc = "inner"
    /\ IF j >= 1 /\ ranked[j].score <= key.score
          THEN /\ ranked' = [ranked EXCEPT ![j + 1] = ranked[j]]
               /\ j' = j - 1
               /\ UNCHANGED <<i, pc>>
          ELSE /\ ranked' = [ranked EXCEPT ![j + 1] = key]
               /\ i' = i + 1 /\ pc' = "outer"
               /\ UNCHANGED j
    /\ UNCHANGED <<session, list, features, given, key>>

Inner ==
    /\ pc = "inner"
    /\ IF j >= 1 /\ ranked[j].score < key.score
          THEN /\ ranked' = [ranked EXCEPT ![j + 1] = ranked[j]]
               /\ j' = j - 1
               /\ UNCHANGED <<i, pc>>
          ELSE /\ ranked' = [ranked EXCEPT ![j + 1] = key]
               /\ i' = i + 1 /\ pc' = "outer"
               /\ UNCHANGED j
    /\ UNCHANGED <<session, list, features, given, key>>

-----------------------------------------------------------------------------
(* The environment *)

\* A request arrives with the list the filter left, with a session or without.
Request ==
    /\ pc = "done"
    /\ list' \in Lists /\ ranked' = list'
    /\ pc' \in {"extract", "rank"}
    /\ UNCHANGED <<session, features, sorting>>

Reply ==
    /\ pc = "reply"
    /\ pc' = "done" /\ list' = <<>> /\ features' = NoFeatures
    /\ ranked' = <<>> /\ given' = <<>> /\ i' = 2 /\ j' = 1 /\ key' = NoEntry
    /\ UNCHANGED session

\* An event of the session, also while a request is on its way to read it.
SessionEvent ==
    /\ pc \in {"done", "extract"}
    /\ \E m \in Members, t \in Times :
          session' = [n \in DOMAIN session \cup {m} |-> IF n = m THEN t ELSE session[n]]
    /\ UNCHANGED <<pc, list, features, ranked, sorting>>

RequestStep == Extract \/ Rerank \/ Rank \/ Outer \/ Inner \/ Reply

RankingNext == Request \/ SessionEvent \/ RequestStep

RankingSpec == RankingInit /\ [][RankingNext]_rankingVars

-----------------------------------------------------------------------------

\* The insertion sort of the ranker ends with what the stable library sort of
\* the scorer would give: every entry once, scores descending, and equal
\* scores in the order of the candidates.  The ranker sends the same embedding
\* for every item, so equal scores are its normal case.
RankedStably == pc = "reply" /\ given # <<>> => ranked = StableSort(given)

\* The penalties only move back: an item without an event in the session keeps
\* its lead over every item that scored no more, whatever was clicked or
\* viewed, and however often.
FreshKeepsLead ==
    pc = "rank" =>
        \A p, q \in DOMAIN list :
            /\ p < q /\ list[p].score >= list[q].score
            /\ list[p].item \notin features.clicked \cup features.viewed
            => \E m, n \in DOMAIN ranked :
                  m < n /\ ranked[m].item = list[p].item /\ ranked[n].item = list[q].item
=============================================================================
