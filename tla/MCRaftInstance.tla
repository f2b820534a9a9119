--------------------------- MODULE MCRaftInstance ---------------------------
(* RaftInstance on four nodes. *)
EXTENDS RaftInstance

CONSTANTS n1, n2, n3, n4

=============================================================================
