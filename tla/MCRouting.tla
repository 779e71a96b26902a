----------------------------- MODULE MCRouting ------------------------------
(* A team of two endpoints, which may also be read empty or in part. *)
EXTENDS Routing, TLC

CONSTANTS e1, e2

MCTeams == {<<>>, <<e1>>, <<e1, e2>>}
=============================================================================
