-------------------------- MODULE HotStuffInstance --------------------------
(***************************************************************************)
(* The chained HotStuff orderer of one segment: orderer/hotstuffinstance.go,*)
(* hotstuffbacklog.go and what hotstufforderer.go does for an instance.    *)
(*                                                                         *)
(* One goroutine per node handles the messages of the segment: a handler   *)
(* is one step.  handleNewView counts votes that no one stores: no quorum  *)
(* of them is ever seen, so that the first leader alone proposes, each     *)
(* proposal names the one before it as certified, and nobody but the sender*)
(* notices a NEWVIEW (it is not in msgs).  The chain does not fork, and    *)
(* the rule of the locked node never refuses.                              *)
(*                                                                         *)
(* The SN of index i is proposed at height i; the heights above Len repeat *)
(* the last SN, for dummy nodes.  The network may reorder the messages to  *)
(* the nodes in Shaky, unless the system is calm; one that is never handled*)
(* is lost.                                                                *)
(***************************************************************************)
EXTENDS Integers, FiniteSets, Sequences

CONSTANTS
    Node,         \* segment.Followers(): all nodes
    Lead,         \* segment.Leaders()[0]
    SNs,          \* segment.SNs(), in order
    None,         \* no entry
    Empty,        \* an empty batch, proposed after a view change
    Nop,          \* the same with Aborted set
    Faulty,       \* bound: the nodes that may stop
    Shaky,        \* bound: the nodes to which messages are reordered
    Ending,       \* bound: the nodes that end the segment
    Hasty,        \* bound: the nodes whose timers may run out
    MaxView       \* bound: in this view they do not

ASSUME SegmentAssumption ==
    /\ IsFiniteSet(Node) /\ Lead \in Node
    /\ SNs \in Seq(Nat) /\ SNs # <<>>
    /\ {None, Empty, Nop} \cap Nat = {}
ASSUME HotStuffBoundAssumption ==
    Faulty \subseteq Node \ {Lead} /\ Shaky \cup Ending \cup Hasty \subseteq Node /\ MaxView \in Nat

Last == Len(SNs)
SN == 1 .. Last            \* an SN, by its index in the segment
Height == 1 .. Last + 3
Batch == SN \cup {Empty, Nop}   \* CutBatch's batches in order: no request is in two
Faults == (Cardinality(Node) - 1) \div 3

VARIABLES
    calm,         \* messages arrive in order and within every timeout
    view,
    chain,        \* what the leader proposed: chain[h] is a batch and a view
    votes,        \* votes of the leader's leaf
    vheight,      \* the height of the last node voted for; the others are below
    timer,        \* timer[n][s]: the view in which the view change timer was set, or -1
    announced,    \* announced[n]: the heights whose node is announced
    backlog,      \* backlog[n][k]: the proposals put back, by their heights
    log,          \* the log of the node
    killed,       \* the nodes whose serializer is stopped (killSegment)
    down,         \* the nodes that have stopped or panicked
    msgs

leaderVars == <<chain, votes>>
nodeVars == <<vheight, timer, announced, backlog, log>>
vars == <<calm, view, leaderVars, nodeVars, killed, down, msgs>>

-----------------------------------------------------------------------------

\* A message that changes nothing any more is not kept: one to a node that handles
\* no more, or a vote for a height that has its quorum.
Kept(S, height) == {m \in S : m.type = "vote" => m.height = height}
Proposal(n, h) == [type |-> "proposal", to |-> n, height |-> h]
Vote(n, h) == [type |-> "vote", from |-> n, to |-> Lead, height |-> h]
Receives(n) == n \notin killed \cup down

\* The SN of a height; as a number it is a key of the backlog.
SnAt(h) == IF h <= Last THEN h ELSE Last

\* init, and start at the leader: it proposes and votes for height 1.
Init ==
    /\ calm \in BOOLEAN
    /\ view = [n \in Node |-> 0]
    /\ chain = <<[batch |-> 1, view |-> 0]>>
    /\ votes = {}
    /\ vheight = [n \in Node |-> IF n = Lead THEN 1 ELSE 0]
    /\ timer = [n \in Node |-> [s \in SN |-> IF n = Lead /\ s = 1 THEN 0 ELSE -1]]
    /\ announced = [n \in Node |-> {}]
    /\ backlog = [n \in Node |-> <<>>]
    /\ log = [n \in Node |-> [s \in SN |-> None]]
    /\ killed = {} /\ down = {}
    /\ msgs = {Proposal(n, 1) : n \in Node \ {Lead}} \cup {Vote(Lead, 1)}

-----------------------------------------------------------------------------
(* Proposals *)

\* The height whose node a proposal decides: parent of the parent of its parent.
Decides(h) == h - 3

\* handleProposal from where the node is created: it is announced to the log, which
\* keeps its first entry, unless state transfer took the node for announced.
Adopt(n, h) ==
    LET d == Decides(h)
    IN  /\ vheight' = [vheight EXCEPT ![n] = h]
        /\ timer' = IF h <= Last THEN [timer EXCEPT ![n][h] = view'[n]] ELSE timer
        /\ IF d > 0 /\ d \notin announced[n]
           THEN /\ announced' = [announced EXCEPT ![n] = @ \cup {d}]
                /\ log' = [log EXCEPT ![n][SnAt(d)] = IF @ = None THEN chain[d].batch ELSE @]
           ELSE UNCHANGED <<announced, log>>

\* hotStuffBacklog.add.  A height without a list clears the list of the height that
\* is the proposal's SN.
PutBack(b, h) ==
    LET sn == SNs[SnAt(h)]
        c  == IF h \in DOMAIN b THEN b
              ELSE [k \in DOMAIN b \cup {sn} |-> IF k = sn THEN {} ELSE b[k]]
    IN  [k \in DOMAIN c \cup {h} |-> (IF k \in DOMAIN c THEN c[k] ELSE {})
                                        \cup (IF k = h THEN {h} ELSE {})]

\* hotStuffBacklog.process
PutBackAt(n, h) == IF h \in DOMAIN backlog[n] THEN {Proposal(n, k) : k \in backlog[n][h]} ELSE {}

\* Mutant: a proposal is taken in whatever the height of the node.
NeverEarly(n, h) == FALSE
\* The certificate of the proposal is for a node that is not here yet.
Early(n, h) == h - 1 > vheight[n]

HandleProposal(m) ==
    LET n == m.to
        h == m.height
        v == chain[h].view
    IN  /\ m.type = "proposal" /\ Receives(n)
        /\ (calm \/ n \notin Shaky) => \A o \in msgs : (o.type = "proposal" /\ o.to = n) => o.height >= h
        /\ view' = [view EXCEPT ![n] = IF v > @ THEN v ELSE @]
        /\ CASE h <= vheight[n] ->
                  /\ msgs' = msgs \ {m}
                  /\ UNCHANGED nodeVars
             [] Early(n, h) ->
                  /\ msgs' = msgs \ {m}
                  /\ backlog' = [backlog EXCEPT ![n] = PutBack(@, h)]
                  /\ UNCHANGED <<vheight, timer, announced, log>>
             [] OTHER ->
                  /\ Adopt(n, h)
                  /\ msgs' = Kept((msgs \ {m}) \cup {Vote(n, h)}, Len(chain)) \cup PutBackAt(n, h + 1)
                  /\ UNCHANGED backlog
        /\ UNCHANGED <<calm, leaderVars, killed, down>>

\* What proposeSN proposes at height h.
NewBatch(h) == CASE view[Lead] > 1 -> Nop
                 [] view[Lead] = 0 /\ h <= Last -> h
                 [] OTHER -> Empty

\* Mutant: 2f votes are enough.
ShortQuorum(V) == Cardinality(V) >= 2 * Faults
\* voteQuorum
VoteQuorum(V) == Cardinality(V) >= 2 * Faults + 1

\* Mutant: two dummy nodes at the end of the segment.
TwoDummies(h) == h < Last + 2
\* After height h there is another to propose: one for each SN, and three dummies.
GoesOn(h) == h < Last + 3

\* handleVote, and proposeSN when there is a quorum: the leader handles its own
\* proposal before it sends it.
HandleVote(m) ==
    LET h == Len(chain)
        V == votes \cup {m.from}
    IN  /\ m.type = "vote" /\ Receives(Lead)
        /\ IF VoteQuorum(V) /\ GoesOn(h)
           THEN /\ chain' = Append(chain, [batch |-> NewBatch(h + 1), view |-> view[Lead]])
                /\ votes' = {}
                /\ view' = view
                /\ Adopt(Lead, h + 1)
                /\ msgs' = Kept(msgs, h + 1) \cup {Vote(Lead, h + 1)}
                             \cup {Proposal(n, h + 1) : n \in {n \in Node \ {Lead} : Receives(n)}}
           ELSE /\ msgs' = msgs \ {m}
                /\ votes' = V
                /\ UNCHANGED <<chain, view, vheight, timer, announced, log>>
        /\ UNCHANGED <<calm, backlog, killed, down>>

Complete(n) == \A s \in SN : log[n][s] # None
\* A stable checkpoint of the log at the last SN
Stable == Cardinality({n \in Node : Complete(n)}) >= 2 * Faults + 1

\* A Timeout is handled, and sendNewView: the node goes to the next view by itself.
\* Bounds: Hasty, MaxView, and none once the checkpoint is stable.
Timeout(n, s) ==
    /\ Receives(n)
    /\ ~calm /\ n \in Hasty /\ view[n] < MaxView /\ ~Stable
    /\ timer[n][s] >= view[n] /\ s \notin announced[n]
    /\ view' = [view EXCEPT ![n] = @ + 1]
    /\ UNCHANGED <<calm, leaderVars, nodeVars, killed, down, msgs>>

-----------------------------------------------------------------------------
(* The end of the segment *)

\* The node handles no more, and nothing it is sent arrives.
GoesDown(n) ==
    /\ down' = down \cup {n}
    /\ msgs' = {m \in msgs : m.to # n}

\* HandleEntry and handleMissingEntry: state transfer after the checkpoint and some
\* time to do without.  A node of the chain that was not announced is marked, and
\* announce then returns before it has told the log.  For an SN that has no node
\* announce is called with nil and reads its height: the peer panics.
HandleMissingEntry(n, s) ==
    /\ Receives(n) /\ ~calm
    /\ Stable /\ log[n][s] = None /\ s \notin announced[n]
    /\ IF s <= vheight[n]
       THEN /\ announced' = [announced EXCEPT ![n] = @ \cup {s}]
            /\ UNCHANGED <<down, msgs>>
       ELSE /\ GoesDown(n)
            /\ UNCHANGED announced
    /\ UNCHANGED <<calm, view, leaderVars, vheight, timer, backlog, log, killed>>

\* killSegment
KillSegment(n) ==
    /\ n \in Ending \ (killed \cup down)
    /\ Complete(n) /\ Stable
    /\ killed' = killed \cup {n}
    /\ msgs' = {m \in msgs : m.to # n}
    /\ UNCHANGED <<calm, view, leaderVars, nodeVars, down>>

Stop(n) ==
    /\ calm /\ n \in Faulty \ down
    /\ GoesDown(n)
    /\ UNCHANGED <<calm, view, leaderVars, nodeVars, killed>>

-----------------------------------------------------------------------------

Handle(m) == HandleProposal(m) \/ HandleVote(m)

Next ==
    \/ \E m \in msgs : Handle(m)
    \/ \E n \in Node, s \in SN : Timeout(n, s) \/ HandleMissingEntry(n, s)
    \/ \E n \in Node : KillSegment(n) \/ Stop(n)

\* In a calm system messages are handled; none is sent twice, so that one condition
\* serves all nodes.
Fairness == WF_vars(calm /\ \E m \in msgs : Handle(m))

Spec == Init /\ [][Next]_vars /\ Fairness

-----------------------------------------------------------------------------
(* Properties *)

\* The types; nobody has voted for a node that was not proposed, and the proposals put
\* back are above what the node has voted for.
TypeOK ==
    /\ calm \in BOOLEAN
    /\ view \in [Node -> 0 .. MaxView]
    /\ Len(chain) \in Height
    /\ \A h \in 1 .. Len(chain) : chain[h] \in [batch : Batch, view : 0 .. MaxView]
    /\ votes \subseteq Node
    /\ timer \in [Node -> [SN -> -1 .. MaxView]]
    /\ log \in [Node -> [SN -> Batch \cup {None}]]
    /\ killed \cup down \subseteq Node
    /\ msgs \subseteq [type : {"proposal"}, to : Node, height : Height]
                        \cup [type : {"vote"}, from : Node, to : {Lead}, height : Height]
    /\ \A n \in Node : /\ vheight[n] \in 0 .. Len(chain)
                       /\ announced[n] \subseteq SN
                       /\ \A k \in DOMAIN backlog[n] : backlog[n][k] \subseteq {k}

\* The three-chain rule at work: an entry is announced only when 2f + 1 nodes have
\* voted for the node that proposed it and for the two after it.
ThreeChain ==
    \A n \in Node, s \in SN :
        log[n][s] # None => Cardinality({m \in Node : vheight[m] >= s + 2}) >= 2 * Faults + 1

\* A proposal makes only the node three below it announced, never the ancestors of
\* that one: none is skipped, in whatever order proposals arrive.
NoneSkipped == \A n \in Node, s \in SN : s <= vheight[n] - 3 => s \in announced[n]

\* Liveness: in a calm system three dummy nodes are enough for every node that does
\* not stop to announce the last SN, although up to f others do.
EveryoneAnnounces == calm => \A n \in Node \ Faulty : <>Complete(n)

=============================================================================
