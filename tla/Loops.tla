-------------------------------- MODULE Loops --------------------------------
(***************************************************************************)
(* The two loops over a slice that the other modules need the result of:   *)
(* the one that appends what is kept to a new slice, and the one that adds *)
(* up.  Each is the function of the number of turns the loop has made.     *)
(***************************************************************************)
EXTENDS Naturals, Sequences

\* for _, item := range list { if keep { result = append(result, item) } }
Kept(list, keep) ==
    LET kept[n \in 0 .. Len(list)] ==
            IF n = 0 THEN <<>>
            ELSE IF list[n] \in keep THEN Append(kept[n - 1], list[n]) ELSE kept[n - 1]
    IN  kept

Filter(list, keep) == Kept(list, keep)[Len(list)]

\* for _, exp := range list { cumulative += weight of exp }
RunningSum(list, weight) ==
    LET sum[n \in 0 .. Len(list)] == IF n = 0 THEN 0 ELSE sum[n - 1] + weight[list[n]]
    IN  sum
=============================================================================
