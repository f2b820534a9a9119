---------------------------- MODULE RaftInstance ----------------------------
(***************************************************************************)
(* The Raft orderer of one segment: orderer/raftinstance.go, and what      *)
(* raftorderer.go does for an instance.                                    *)
(*                                                                         *)
(* One goroutine per node handles the messages of the segment, so that a   *)
(* handler is one step, and so is a turn of heartbeat with the message it  *)
(* serializes.  Two facts about the code cut the protocol down:            *)
(*   - sendVoteRequest leaves Term 0, so that no vote is granted in a later *)
(*     term, and the answer of a node in term 0 is too old for a candidate. *)
(*     No one but the first leader ever leads: terms of entries, nextIndex  *)
(*     and matchIndex of other leaders, votes and votedFor are left out.    *)
(*   - stepDown is never made.  A node that sends on the nil channel        *)
(*     (a higher term, a leader found by a candidate) waits for ever; it is *)
(*     in blocked.                                                          *)
(*                                                                         *)
(* The network.  A message is taken from msgs in any order; unless the     *)
(* system is calm it may be lost; one that no one will handle is not kept. *)
(* Indices of the log count from 1 here and from 0 in the code; 0 stands   *)
(* for its -1.                                                             *)
(***************************************************************************)
EXTENDS Integers, FiniteSets

CONSTANTS
    Node,         \* segment.Followers(): all nodes
    Lead,         \* segment.Leaders()[0]
    Len,          \* segment.Len()
    None,         \* no batch
    Faulty,       \* bound: the nodes that may stop
    Lossy,        \* bound: the nodes to and from which messages may be lost
    Candidate,    \* bound: the nodes whose election timer may run out
    MaxTerm,      \* bound: in this term it does not any more
    MaxFlight     \* bound: the messages under way when the leader sends

ASSUME SegmentAssumption ==
    /\ IsFiniteSet(Node) /\ Lead \in Node
    /\ Len \in Nat \ {0} /\ None \notin Nat
ASSUME RaftBoundAssumption ==
    Faulty \cup Lossy \subseteq Node /\ Candidate \subseteq Node \ {Lead} /\ MaxTerm \in Nat /\ MaxFlight \in Nat

SN == 1 .. Len
Index == 1 .. Len
Batch == 1 .. Len  \* the batches CutBatch returns, in order: no request is in two
Faults == (Cardinality(Node) - 1) \div 3

VARIABLES
    calm,         \* messages arrive between two heartbeats, and no timer runs out
    term, status,
    entries,      \* entries[n][i]: the raft log (ri.log)
    last,         \* last[n]: ri.last; ri.next is one more
    nextSnIndex,  \* of the leader: the next SN to propose
    nextIndex, matchIndex,
    commitIndex, lastApplied,
    log,          \* the log of the node; ri.announced says where it is not None
    timed,        \* the candidates whose election timer runs
    blocked,      \* the nodes whose goroutine waits for ever
    killed,       \* the nodes whose serializer is stopped (killSegment)
    down,
    msgs

leaderVars == <<nextSnIndex, nextIndex, matchIndex>>
logVars == <<entries, last, commitIndex, lastApplied, log>>
fixed == <<calm, killed, down>>
vars == <<term, status, leaderVars, logVars, timed, blocked, fixed, msgs>>

-----------------------------------------------------------------------------

Exchange(m, sent) == msgs' = (msgs \ {m}) \cup sent
Receives(n) == n \notin blocked \cup killed \cup down

\* The i-th SN of the segment has index i: the leader numbers them in order.
Init ==
    /\ calm \in BOOLEAN
    /\ term = [n \in Node |-> 0]
    /\ status = [n \in Node |-> IF n = Lead THEN "leader" ELSE "follower"]
    /\ entries = [n \in Node |-> [i \in Index |-> None]]
    /\ last = [n \in Node |-> 0]
    /\ nextSnIndex = 1
    /\ nextIndex = [n \in Node |-> 1]
    /\ matchIndex = [n \in Node |-> 0]
    /\ commitIndex = [n \in Node |-> 0]
    /\ lastApplied = [n \in Node |-> 0]
    /\ log = [n \in Node |-> [s \in SN |-> None]]
    /\ timed = {} /\ blocked = {} /\ killed = {} /\ down = {}
    /\ msgs = {}

-----------------------------------------------------------------------------
(* Replication *)

\* An AppendEntryRequest for index i (0: none) of the entries es.
Append(to, i, prev, es) ==
    [type |-> "append", from |-> Lead, to |-> to, index |-> i, prevIndex |-> prev,
     batch |-> IF i = 0 THEN None ELSE es[i], leaderCommit |-> commitIndex[Lead]]

\* heartbeat and SendAppendEntryRequest: the leader cuts a batch for its next SN,
\* if there is one, and sends it; to each follower also what it may still lack,
\* except the last entry.
Heartbeat ==
    LET new  == nextSnIndex <= Len
        l    == IF new THEN last[Lead] + 1 ELSE last[Lead]
        es   == IF new THEN [entries[Lead] EXCEPT ![l] = nextSnIndex] ELSE entries[Lead]
        sent == IF new THEN l ELSE 0
        waiting == {m \in msgs : Receives(m.to)}
    IN  /\ Receives(Lead) /\ status[Lead] = "leader"
        /\ Cardinality(waiting) <= IF calm THEN 0 ELSE MaxFlight
        /\ entries' = [entries EXCEPT ![Lead] = es]
        /\ last' = [last EXCEPT ![Lead] = l]
        /\ nextSnIndex' = IF new THEN nextSnIndex + 1 ELSE nextSnIndex
        /\ msgs' = waiting \cup
             UNION {{Append(n, sent, last[Lead], es)}
                      \cup {Append(n, i, i - 1, es) : i \in nextIndex[n] .. l - 1}
                    : n \in {n \in Node \ {Lead} : Receives(n)}}
        /\ UNCHANGED <<term, status, nextIndex, matchIndex, commitIndex, lastApplied, log,
                       timed, blocked, fixed>>

\* Mutant: the last batch in the raft log, for every SN.
AnnounceLast(es, i) == es[CHOOSE j \in Index : es[j] # None /\ (j = Len \/ es[j + 1] = None)]
\* The batch announced for index i.
Announced(es, i) == es[i]

\* maybeAnnounce, up to the commit index; the node's log keeps its first entry.
MaybeAnnounce(n, es, commit) ==
    /\ lastApplied' = [lastApplied EXCEPT ![n] = IF commit > @ THEN commit ELSE @]
    /\ log' = [log EXCEPT ![n] = [s \in SN |->
                 IF @[s] = None /\ s \in lastApplied[n] + 1 .. commit
                 THEN Announced(es, s) ELSE @[s]]]

\* Mutant: an entry is filed whatever comes before it.
NoCheck(n, prev) == FALSE
\* The leader's previous entry is not in the log.
PrevMissing(n, prev) == prev > 0 /\ entries[n][prev] = None

Response(m, i, next, ok) ==
    [type |-> "response", from |-> m.to, to |-> Lead, index |-> i, nextIndex |-> next, success |-> ok]

Smaller(a, b) == IF a <= b THEN a ELSE b
Larger(a, b) == IF a >= b THEN a ELSE b

\* Mutant: the leader's commit index, whether the entry is here or not.
LeadersCommit(n, leaderCommit, l) == Larger(leaderCommit, commitIndex[n])
\* Mutant: the last entry here is left out.
CommitBelow(n, leaderCommit, l) == Larger(Smaller(leaderCommit, l - 1), commitIndex[n])
\* The commit index of a follower whose last entry is l.
FollowerCommit(n, leaderCommit, l) ==
    IF leaderCommit > commitIndex[n] THEN Smaller(leaderCommit, l) ELSE commitIndex[n]

\* HandleAppendEntryRequest at a follower.  (A candidate: FindLeader.)
HandleAppendEntryRequest(m) ==
    LET n  == m.to
        es == IF m.batch # None /\ entries[n][m.index] = None
              THEN [entries[n] EXCEPT ![m.index] = m.batch] ELSE entries[n]
        l  == IF m.batch # None THEN Larger(last[n], m.index) ELSE last[n]
        commit == FollowerCommit(n, m.leaderCommit, l)
    IN  /\ m.type = "append" /\ Receives(n) /\ status[n] # "candidate"
        /\ timed' = timed \cup ({n} \cap Candidate)
        /\ IF PrevMissing(n, m.prevIndex)
           THEN /\ Exchange(m, {Response(m, m.index, last[n] + 1, FALSE)})
                /\ UNCHANGED logVars
           ELSE /\ Exchange(m, {Response(m, IF m.batch # None THEN l ELSE m.index, l + 1, TRUE)})
                /\ entries' = [entries EXCEPT ![n] = es]
                /\ last' = [last EXCEPT ![n] = l]
                /\ commitIndex' = [commitIndex EXCEPT ![n] = commit]
                /\ MaybeAnnounce(n, es, commit)
        /\ UNCHANGED <<term, status, leaderVars, blocked, fixed>>

\* Mutant: one follower is enough.
OneMatch(match) == {i \in Index : Cardinality({n \in Node : match[n] = i}) >= Faults}
\* maybeCommit: the indices that 2f followers have exactly.
Committed(match) == {i \in Index : Cardinality({n \in Node : match[n] = i}) >= 2 * Faults}
MaybeCommit(match) ==
    LET S == {i \in Committed(match) : i > commitIndex[Lead] /\ \E n \in Node : match[n] = i}
    IN  IF S = {} THEN commitIndex[Lead] ELSE CHOOSE i \in S : \A j \in S : i >= j

\* HandleAppendEntryResponse.  The answer to a heartbeat without a batch has index
\* -1 (0), and that becomes the match index.
HandleAppendEntryResponse(m) ==
    LET match  == [matchIndex EXCEPT ![m.from] = m.index]
        commit == MaybeCommit(match)
    IN  /\ m.type = "response" /\ Receives(Lead)
        /\ Exchange(m, {})
        /\ IF m.success
           THEN /\ nextIndex' = [nextIndex EXCEPT ![m.from] = m.nextIndex]
                /\ matchIndex' = match
                /\ commitIndex' = [commitIndex EXCEPT ![Lead] = commit]
                /\ MaybeAnnounce(Lead, entries[Lead], commit)
           ELSE \* below 1 nextIndex means the same as 1
                /\ nextIndex' = [nextIndex EXCEPT ![m.from] = Larger(1, @ - 1)]
                /\ UNCHANGED <<matchIndex, commitIndex, lastApplied, log>>
        /\ UNCHANGED <<term, status, nextSnIndex, entries, last, timed, blocked, fixed>>

-----------------------------------------------------------------------------
(* Elections *)

Complete(n) == \A s \in SN : log[n][s] # None
\* A stable checkpoint of the log at the last SN
Stable == Cardinality({n \in Node : Complete(n)}) >= 2 * Faults + 1

\* newTerm: the election timer of a follower or candidate has run out.  The vote
\* requests it sends change nothing where they are handled, and bring back a
\* refusal with the term of the node (HandleVoteRequest): they are not in msgs.
\* Bounds: Candidate, MaxTerm, and none once the checkpoint is stable.
NewTerm(n) ==
    /\ n \in timed /\ Receives(n)
    /\ ~calm /\ n \in Candidate /\ term[n] < MaxTerm /\ ~Stable
    /\ status' = [status EXCEPT ![n] = "candidate"]
    /\ term' = [term EXCEPT ![n] = @ + 1]
    /\ UNCHANGED <<leaderVars, logVars, timed, blocked, fixed, msgs>>

\* HandleVoteResponse: a refusal from a later term makes the candidate step down,
\* on a nil channel; nothing is done about any other.
HandleVoteResponse(n, o) ==
    /\ Receives(n) /\ status[n] = "candidate"
    /\ term[o] > term[n]
    /\ term' = [term EXCEPT ![n] = term[o]]
    /\ status' = [status EXCEPT ![n] = "follower"]
    /\ blocked' = blocked \cup {n}
    /\ UNCHANGED <<leaderVars, logVars, timed, fixed, msgs>>

\* HandleAppendEntryRequest at a candidate: stopProposing, on the same channel.
FindLeader(m) ==
    /\ m.type = "append" /\ Receives(m.to) /\ status[m.to] = "candidate"
    /\ Exchange(m, {})
    /\ status' = [status EXCEPT ![m.to] = "follower"]
    /\ blocked' = blocked \cup {m.to}
    /\ UNCHANGED <<term, leaderVars, logVars, timed, fixed>>

-----------------------------------------------------------------------------
(* The end of the segment *)

\* killSegment: what comes later is not handled.  It stops the heartbeat, and
\* waits for ever in stopProposing, in a goroutine of its own.
KillSegment(n) ==
    /\ n \notin killed \cup down
    /\ Complete(n) /\ Stable
    /\ killed' = killed \cup {n}
    /\ status' = [status EXCEPT ![n] = "follower"]
    /\ UNCHANGED <<term, leaderVars, logVars, timed, blocked, calm, down, msgs>>

\* HandleEntry and handleMissingEntry: state transfer after the checkpoint.
HandleMissingEntry(n, s) ==
    /\ Receives(n) /\ Stable /\ log[n][s] = None
    /\ \E o \in Node \ down : /\ Complete(o)
                              /\ log' = [log EXCEPT ![n][s] = log[o][s]]
    /\ UNCHANGED <<term, status, leaderVars, entries, last, commitIndex, lastApplied,
                   timed, blocked, fixed, msgs>>

Lose(m) ==
    /\ ~calm /\ {m.from, m.to} \cap Lossy # {}
    /\ Exchange(m, {})
    /\ UNCHANGED <<term, status, leaderVars, logVars, timed, blocked, fixed>>

Stop(n) ==
    /\ calm /\ n \in Faulty \ down
    /\ down' = down \cup {n}
    /\ UNCHANGED <<term, status, leaderVars, logVars, timed, blocked, calm, killed, msgs>>

-----------------------------------------------------------------------------

Handle(m) == \/ HandleAppendEntryRequest(m) \/ HandleAppendEntryResponse(m)
             \/ FindLeader(m)
Finish(n) == KillSegment(n) \/ \E s \in SN : HandleMissingEntry(n, s)

Next ==
    \/ Heartbeat
    \/ \E m \in msgs : Handle(m) \/ Lose(m)
    \/ \E n \in Node : NewTerm(n) \/ Finish(n) \/ Stop(n)
    \/ \E n, o \in Node : HandleVoteResponse(n, o)

\* Messages are handled and the leader keeps sending, state transfer gets answers and
\* the segment is ended.  (When the system is calm a heartbeat waits for what is
\* under way, and a node finishes a bounded number of times: one condition each.)
Fairness ==
    /\ WF_vars(Heartbeat \/ \E m \in msgs : Handle(m))
    /\ WF_vars(\E n \in Node : Finish(n))

Spec == Init /\ [][Next]_vars /\ Fairness

-----------------------------------------------------------------------------
(* Properties *)

Message ==
    [type : {"append"}, from : {Lead}, to : Node, index : 0 .. Len, prevIndex : 0 .. Len,
     batch : Batch \cup {None}, leaderCommit : 0 .. Len]
      \cup [type : {"response"}, from : Node, to : {Lead}, index : 0 .. Len,
            nextIndex : 1 .. Len + 1, success : BOOLEAN]

\* The types; what a node has applied it has committed, and has in its raft log.
TypeOK ==
    /\ calm \in BOOLEAN
    /\ term \in [Node -> 0 .. MaxTerm]
    /\ status \in [Node -> {"leader", "follower", "candidate"}]
    /\ entries \in [Node -> [Index -> Batch \cup {None}]]
    /\ nextSnIndex \in 1 .. Len + 1
    /\ nextIndex \in [Node -> 1 .. Len + 1] /\ matchIndex \in [Node -> 0 .. Len]
    /\ log \in [Node -> [SN -> Batch \cup {None}]]
    /\ timed \cup blocked \cup killed \cup down \subseteq Node
    /\ msgs \subseteq Message
    /\ \A n \in Node : /\ last[n] \in 0 .. Len
                       /\ lastApplied[n] = commitIndex[n] /\ commitIndex[n] \in 0 .. last[n]

\* maybeAnnounce never finds a hole: whatever the order in which entries, copies
\* of them and heartbeats reach a node, its raft log is a prefix of the leader's.
PrefixOfLeader ==
    \A n \in Node, i \in Index :
        entries[n][i] = IF i <= last[n] THEN entries[Lead][i] ELSE None

\* An entry is announced only when 2f + 1 raft logs have it, though answers come in
\* any order and each replaces the match index of its sender.
QuorumBacked ==
    \A n \in Node, s \in SN :
        log[n][s] # None =>
            Cardinality({m \in Node : entries[m][s] = log[n][s]}) >= 2 * Faults + 1

\* The logs get the same batch for an SN, for good: by Raft or by state transfer.
Decision == INSTANCE SegmentDecision WITH Value <- Batch
ImplementsDecision == Decision!Spec

\* Liveness: in a calm system every node that does not stop completes the segment,
\* though the leader may end it before it has told the others (start, FIXME).
EveryoneAnnounces == calm => \A n \in Node \ Faulty : <>Complete(n)

=============================================================================
