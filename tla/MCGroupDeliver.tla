--------------------------- MODULE MCGroupDeliver ---------------------------
(* GroupDeliver on two groups, gA and gB, and up to two nodes.  GSN 2 belongs *)
(* to no request: its allocation was abandoned.                              *)
EXTENDS GroupDeliver, TLC

CONSTANTS n1, n2, gA, gB, x1, x3, l1

\* The two groups are the second and third of three.
Later == gA :> 1 @@ gB :> 2

\* Two replicas of gA; requests of both groups, and one of gA alone.
Replicas ==
    [op |-> {x1, x3, l1}, gsn |-> x1 :> 1 @@ x3 :> 3 @@ l1 :> 0,
     touched |-> x1 :> {gA, gB} @@ x3 :> {gA, gB} @@ l1 :> {gA},
     replica |-> {<<n1, gA>>, <<n2, gA>>}, offset |-> Later, skip |-> {2},
     global |-> {}, repeated |-> {x1}, batchSize |-> 2]

\* As above, gA being the first group: what it decides at SN 0 is not delivered.
FromZero ==
    [op |-> {x1, l1}, gsn |-> x1 :> 1 @@ l1 :> 0,
     touched |-> x1 :> {gA, gB} @@ l1 :> {gA},
     replica |-> {<<n1, gA>>, <<n2, gA>>}, offset |-> gA :> 0 @@ gB :> 1, skip |-> {2},
     global |-> {}, repeated |-> {x1, l1}, batchSize |-> 2]

\* totalOrder = global, one node in both groups: GSN 1 is a request of gA alone.
TotalOrder ==
    [op |-> {x1, x3}, gsn |-> x1 :> 1 @@ x3 :> 3,
     touched |-> x1 :> {gA} @@ x3 :> {gA, gB},
     replica |-> {<<n1, gA>>, <<n1, gB>>}, offset |-> Later, skip |-> {2},
     global |-> {n1}, repeated |-> {x1, x3}, batchSize |-> 1]

All == {Replicas, FromZero, TotalOrder}
=============================================================================
