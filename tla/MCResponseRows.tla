--------------------------- MODULE MCResponseRows ---------------------------
(* A response with two approvals, one resume turn and a DELETE. *)
EXTENDS ResponseRows

CONSTANT t1

MCBatches == {<<1>>, <<1, 2>>}
=============================================================================
