---------------------------- MODULE MCStockBitmap ----------------------------
(* Instances of StockBitmap for TLC. *)
EXTENDS StockBitmap, TLC

CONSTANTS i1, i2, t1, t2

\* Each item on a subtask of its own.
TwoTasks == i1 :> t1 @@ i2 :> t2

\* The seed numbers the items; one hash lies far from those numbers, the other
\* is the seeded offset of the first item.
Seeds     == i1 :> 0 @@ i2 :> 1
OwnHashes == i1 :> 10 @@ i2 :> 0
=============================================================================
