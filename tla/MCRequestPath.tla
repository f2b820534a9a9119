---------------------------- MODULE MCRequestPath ----------------------------
(* Two peers and two buckets. *)
EXTENDS RequestPath
=============================================================================
