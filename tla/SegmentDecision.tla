--------------------------- MODULE SegmentDecision ---------------------------
(* What an orderer of a segment promises the log (announcer.Announce, then   *)
(* log.CommitEntry): a node's log gets at most one entry per SN, which is    *)
(* final, and all nodes get the same one.  A step may announce several SNs.  *)

CONSTANTS Node, SN, Value,
          None                \* no entry yet

VARIABLE log

Entries == [SN -> Value \cup {None}]

Init == log = [n \in Node |-> [s \in SN |-> None]]

Decide(n, e) ==
    /\ \A s \in SN : log[n][s] # None => e[s] = log[n][s]
    /\ \A m \in Node, s \in SN : e[s] # None => log[m][s] \in {None, e[s]}
    /\ log' = [log EXCEPT ![n] = e]

Next == \E n \in Node, e \in Entries : Decide(n, e)

Spec == Init /\ [][Next]_log

=============================================================================
