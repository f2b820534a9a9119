----------------------------- MODULE MCSequencer -----------------------------
(* Sequencer on three nodes: n1 leads term 0. *)
EXTENDS Sequencer, TLC

CONSTANTS n1, n2, n3, r1, r2

\* One operation, its proxy the bootstrap leader.
OneReq == {r1}
AtLeader == [r \in OneReq |-> n1]

\* Two operations: one at the bootstrap leader, one at a follower.
TwoReqs == {r1, r2}
AtLeaderAndFollower == [r \in TwoReqs |-> IF r = r1 THEN n1 ELSE n2]

=============================================================================
