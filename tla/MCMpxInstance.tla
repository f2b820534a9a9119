---------------------------- MODULE MCMpxInstance ----------------------------
(* MpxInstance on a group of three (n1 proposes SN 0, and every SN under     *)
(* Single) or of two.                                                        *)
EXTENDS MpxInstance

CONSTANTS n1, n2, n3, r1, r2

Three == <<n1, n2, n3>>
Two   == <<n1, n2>>

OneReq  == {r1}
TwoReqs == {r1, r2}

\* Requests reach the proposer of every SN of these runs.
AtProposer == [n \in Node |-> IF n = n1 THEN {r1} ELSE {}]
TwoAtProposer == [n \in Node |-> IF n = n1 THEN {r1, r2} ELSE {}]

\* Answers get to the proposer only: followers learn by COMMIT.
ToProposer == {"promise", "accepted"} \X (Node \ {n1})

\* n2 counts ACCEPTEDs too, and may commit before the proposer; only COMMITs and
\* what it fetches get to n3.
ToTwo == ({"promise"} \X {n2, n3}) \cup ({"prepare", "accept", "accepted"} \X {n3})

\* Followers count ACCEPTEDs, and no promise.
NoPromise == {"promise"} \X {n2, n3}

=============================================================================
