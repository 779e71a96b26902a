----------------------------- MODULE MCKeyCache -----------------------------
(* Model values for TLC: every key belongs to one user. *)
EXTENDS KeyCache

CONSTANT u1

MCOwner == [k \in Keys |-> u1]
=============================================================================
