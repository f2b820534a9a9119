------------------------------ MODULE GsnOracle ------------------------------
(* What GetNextGSN and PublishMETA promise their caller                      *)
(* (MultiPaxosMulticastOrderer.PreprocessRequest): every attempt gets a      *)
(* number of its own, and an operation is published once, under a number     *)
(* that was given to it.                                                     *)
EXTENDS Naturals

CONSTANT Req                  \* the cross-group operations

VARIABLES grants, published

Grants == [req : Req, attempt : Nat, gsn : Nat \ {0}]

Init == grants = {} /\ published = {}

\* Some number nobody has yet, in any order: the leaders' blocks interleave.
Grant(r, k, g) ==
    /\ ~ \E i \in grants : i.gsn = g \/ (i.req = r /\ i.attempt = k)
    /\ grants' = grants \cup {[req |-> r, attempt |-> k, gsn |-> g]}
    /\ UNCHANGED published

Publish(i) ==
    /\ i \in grants
    /\ ~ \E p \in published : p.req = i.req
    /\ published' = published \cup {[req |-> i.req, gsn |-> i.gsn]}
    /\ UNCHANGED grants

Next == \/ \E i \in grants' \ grants : Grant(i.req, i.attempt, i.gsn)
        \/ \E i \in grants : Publish(i)

Spec == Init /\ [][Next]_<<grants, published>>

=============================================================================
