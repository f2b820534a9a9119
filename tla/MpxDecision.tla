----------------------------- MODULE MpxDecision -----------------------------
(* What the instances of a group promise the log (announcer.Announce): every *)
(* member's log gets at most one entry per SN, all members get the same one, *)
(* and, if one node proposes everything, no request is decided twice.        *)

CONSTANTS Node, SN, Req,
          None,               \* no entry yet
          Once                \* a request is decided at one SN only

VARIABLE log

Init == log = [n \in Node |-> [s \in SN |-> None]]

Decide(n, s, v) ==
    /\ log[n][s] = None
    /\ \A m \in Node : log[m][s] \in {None, v}
    /\ Once => \A m \in Node, t \in SN \ {s} : log[m][t] = None \/ log[m][t] \cap v = {}
    /\ log' = [log EXCEPT ![n][s] = v]

Next == \E n \in Node, s \in SN, v \in SUBSET Req : Decide(n, s, v)

Spec == Init /\ [][Next]_log

=============================================================================
