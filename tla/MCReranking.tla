----------------------------- MODULE MCReranking -----------------------------
(* Instances of Reranking for TLC. *)
EXTENDS Reranking

Names  == <<"a", "b", "c">>
Scores == {1, 4, 6}

\* Lists of up to three items: the gaps between scores are smaller than, equal
\* to and larger than the penalties.
ShortLists ==
    UNION {{[n \in 1 .. len |-> [item |-> Names[n], score |-> scores[n]]] :
               scores \in [1 .. len -> Scores]} : len \in 0 .. 3}

Event(json, type, item) == [json |-> json, type |-> type, item |-> item, id |-> 1]

\* Events of two items in the format Extract parses, one as SessionProcessor
\* writes it.
SomeMembers ==
    {Event(TRUE, "click", "a"), Event(TRUE, "view", "a"), Event(TRUE, "click", "b"),
     Event(FALSE, "click", "c")}
=============================================================================
