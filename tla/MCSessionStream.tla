--------------------------- MODULE MCSessionStream ---------------------------
(* Instances of SessionStream for TLC. *)
EXTENDS SessionStream, TLC

CONSTANTS sess, nosession, p1, p2, t1, t2

\* A session belongs to one user and so to one partition; events without a
\* session come from any user.
UserPartitions == sess :> {p1} @@ nosession :> {p1, p2}
TwoTasks       == sess :> t1 @@ nosession :> t2
=============================================================================
