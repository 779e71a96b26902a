--------------------------- MODULE MCEndpointPool ---------------------------
(* One endpoint, enabled at first, and a team that it may be assigned to. *)
EXTENDS EndpointPool, TLC

CONSTANTS e1

MCStartRows == {e1 :> "on"}
MCAssignments == {{e1}}
=============================================================================
