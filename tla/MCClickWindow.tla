---------------------------- MODULE MCClickWindow ----------------------------
(* Instances of ClickWindow for TLC. *)
EXTENDS ClickWindow, TLC

CONSTANTS u1, u2

TwoPartitions == u1 :> 0 @@ u2 :> 1

\* The clicks of one user are counted; the other user keeps the watermark back
\* or moves it.
SomeKinds ==
    [user : {u1}, time : {0, 1, 3}, click : BOOLEAN]
        \cup [user : {u2}, time : {0, 3}, click : {FALSE}]
=============================================================================
