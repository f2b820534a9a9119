------------------------- MODULE MCHotStuffInstance -------------------------
(* HotStuffInstance on four nodes, for the first segment of two leaders. *)
EXTENDS HotStuffInstance

CONSTANTS n1, n2, n3, n4

TwoLeaders == <<0, 2>>

=============================================================================
