---------------------------- MODULE MCListWriters ----------------------------
(* Instances of ListWriters for TLC. *)
EXTENDS ListWriters, TLC

CONSTANTS p1, p2

ThreeUsers == <<"u1", "u2", "u3">>

\* A pass over all users, and some that are for affected users only.
SomeSelections == {ThreeUsers, <<"u3", "u1">>, <<>>}

AnyPass == Permutations({p1, p2})

\* Categories of one and of two items: a supplement may fit or overshoot.
FourItems  == <<"a", "b", "c", "d">>
Categories == "a" :> "one" @@ "b" :> "two" @@ "c" :> "three" @@ "d" :> "two"
Likes      == "u1" :> <<"one">> @@ "u2" :> <<"one", "two">> @@ "u3" :> <<"three">>
=============================================================================
