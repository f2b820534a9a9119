--------------------------- MODULE MCPbftInstance ---------------------------
(* PbftInstance on four nodes, of which one may stop. *)
EXTENDS PbftInstance

CONSTANTS n1, n2, n3, n4, b1

\* The leaders of the first views; n4 never leads.
ThreeLeaders == <<n1, n2, n3>>

=============================================================================
