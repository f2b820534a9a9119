----------------------------- MODULE MCIssNode -----------------------------
(***************************************************************************)
(* Peer 4 of four.  In the first two deployments its instances leave it    *)
(* behind; in the others peer 1 may stop, and the leader policies differ.  *)
(***************************************************************************)
EXTENDS IssNode

Deploy(p, scheme, l, w, abortable, epochs) ==
    [policy |-> p, scheme |-> scheme, segmentLength |-> l, weak |-> w, lossy |-> 0,
     prompt |-> w # Me, abortable |-> abortable, epochs |-> epochs]

AllDeployments ==
    {Deploy("Single", "Signing", 1, 4, {}, 2),
     Deploy("SimulatedRandomFailures", "Simple", 1, 4, {}, 1),
     Deploy("Simple", "Signing", 1, 1, {}, 2),
     Deploy("Blacklist", "Signing", 0, 1, {0, 1}, 1),
     Deploy("Backoff", "Simple", 1, 1, {1}, 2)}

\* One message of peer 1 may get lost in each epoch.
LostMessage == {[Deploy("Single", "Simple", 1, 1, {}, 2) EXCEPT !.lossy = 1]}

\* Three epochs, and channels of capacity 1.
FewSlots == {Deploy("Single", "Simple", 1, 1, {}, 3)}
=============================================================================
