------------------------------ MODULE Sequencer ------------------------------
(***************************************************************************)
(* The GSN sequencer of the multicast orderer: orderer/sequencer.go and    *)
(* orderer/sequencer_election.go.                                          *)
(*                                                                         *)
(* Every node of group 0 runs one Sequencer.  A leader is elected by       *)
(* majority, term by term (pre-vote, vote, heartbeat); it hands out global *)
(* sequence numbers (GSNs), but only up to a mark a majority has confirmed *)
(* (SEQ_RESERVE / SEQ_RESERVE_ACK).  A vote carries the highest mark the   *)
(* voter confirmed, and the winner resumes above the highest mark it was   *)
(* told; what it leaves out between the highest META it knows and that     *)
(* mark is declared skipped for ever.                                      *)
(*                                                                         *)
(* The network.  msgs is the set of messages sent so far and a message is  *)
(* received by looking at it: it may be delayed, overtaken or never        *)
(* received.  Heartbeats, reservations and METAs may be received again (the*)
(* code resends them); a vote request is answered once, and a GSN request  *)
(* is taken from msgs, for each one that is sent is served at most once.   *)
(*                                                                         *)
(* Concurrency.  Each inbound stream has a goroutine of its own            *)
(* (messenger/peers.go, Listen), and three handlers release a lock half-way*)
(* and act on what they read under it: HandlePreVoteResponse before it     *)
(* starts the election, HandleVoteResponse before it resumes the counter,  *)
(* HandleReserve before it accepts the mark.  Preempt says which of the    *)
(* three are two steps ("elect", "resume", "accept"), with any other step  *)
(* of the node between them; the others are one step, as if the node ran   *)
(* its handlers one after the other.                                       *)
(***************************************************************************)
EXTENDS Integers, FiniteSets

CONSTANTS
    Node,         \* the members of group 0: every node of the system
    Bootstrap,    \* the member with the smallest id, leader of term 0
    Nobody,       \* votedFor = -1
    Req,          \* the cross-group operations that ask for a GSN
    Proxy,        \* Proxy[r]: the node whose PreprocessRequest handles r
    Block,        \* gsnBlockSize
    MaxAttempts,  \* maxGSNRequestAttempts
    Preempt,      \* the handlers that may be suspended half-way
    Publisher,    \* bound: the operations whose proxy lives to publish their META
    Candidate,    \* bound: the nodes whose election timer may run out
    MaxTerm,      \* bound: no node starts an election above this term
    MaxGSN        \* bound: no leader asks for a mark above this one

ASSUME NodeAssumption ==
    /\ IsFiniteSet(Node) /\ Cardinality(Node) > 1
    /\ Bootstrap \in Node
    /\ Nobody \notin Node
ASSUME ParamAssumption ==
    /\ Proxy \in [Req -> Node]
    /\ Block \in Nat \ {0}
    /\ MaxAttempts \in Nat
    /\ Preempt \subseteq {"elect", "resume", "accept"}
    /\ Publisher \subseteq Req
    /\ Candidate \subseteq Node
    /\ MaxTerm \in Nat
    /\ MaxGSN \in Nat

VARIABLES
    \* guarded by electMu
    term, votedFor, status, leader,
    preVoteTerm, preVotes,        \* preVotes[n] = {}: no pre-vote under way
    votes, voteMaxAccepted, voteMaxMeta, voteHoles,
    \* guarded by gsnMu.  gsn[n]: [next, confirmed, pending, term, acks]
    gsn, acceptedUpTo,
    \* history: has one of the two races on the counter been run (Early, Stale)?
    raced,
    \* METAs known and GSNs known to be skipped (metaMu, skipMu)
    metadata, skipped,
    \* GetNextGSN at the proxy of each request, and the allocations a leader
    \* has under way: <<node, request, attempt>>
    reqStatus, attempts, answer, waiting,
    \* suspended handlers and the goroutine of recoverMetaHoles
    tasks,
    msgs,
    \* history: every allocation made, [gsn, by, req, attempt]
    issued

electVars == <<term, votedFor, status, leader>>
preVars   == <<preVoteTerm, preVotes>>
voteVars  == <<votes, voteMaxAccepted, voteMaxMeta, voteHoles>>
gsnVars   == <<gsn, acceptedUpTo, raced>>
metaVars  == <<metadata, skipped>>
reqVars   == <<reqStatus, attempts, answer, waiting, issued>>
vars == <<electVars, preVars, voteVars, gsnVars, metaVars, reqVars, tasks, msgs>>

-----------------------------------------------------------------------------
(* Helpers *)

Larger(a, b) == IF a >= b THEN a ELSE b

Majority(S) == 2 * Cardinality(S) > Cardinality(Node)

Exchange(received, sent) == msgs' = (msgs \ received) \cup sent
Send(M) == Exchange({}, M)

\* maxMetaSeen: the highest GSN with a META in a set of GSNs, 0 if none.
MaxMeta(S) == IF S = {} THEN 0 ELSE CHOOSE g \in S : \A h \in S : g >= h

\* metaHoles: the GSNs up to `upto` that have neither a META nor a skip.
MetaHoles(meta, skips, upto) == (1 .. upto) \ (meta \cup skips)

IsLeader(n) == leader[n] = n

\* requestReservationLocked, for a node whose election state is (lead, t): asks
\* for the next mark unless one is already pending in this term.  Asking again
\* for a pending mark sends the message that is already in msgs.
Reserve(n, lead, t, g) ==
    LET mark == Larger(g.confirmed, g.next - 1) + Block
    IN  IF lead /\ (g.pending = 0 \/ g.term # t) /\ mark <= MaxGSN
        THEN [g EXCEPT !.pending = mark, !.term = t, !.acks = {n}]
        ELSE g

ReserveMsg(n, g) ==
    IF g.pending = 0 THEN {}
    ELSE {[type |-> "Reserve", term |-> g.term, upto |-> g.pending, from |-> n]}

\* Race: with the counter still to be resumed for the term, a reservation of the
\* term is asked for.
Early(n, g, todo) ==
    /\ [kind |-> "resume", node |-> n, term |-> term[n]] \in todo
    /\ g.pending # 0 /\ g.term = term[n]

\* Installs the reservation state g at n, with the mark it asks for accepted
\* by n itself and asked of the others; todo are the handlers still suspended.
SetGSN(n, g, todo, received, sent) ==
    /\ gsn' = [gsn EXCEPT ![n] = g]
    /\ raced' = (raced \/ Early(n, g, todo))
    /\ acceptedUpTo' = [acceptedUpTo EXCEPT ![n] = Larger(@, g.pending)]
    /\ Exchange(received, sent \cup ReserveMsg(n, g))

Leads(n) == status[n] = "leader" /\ IsLeader(n)

-----------------------------------------------------------------------------
(* NewSequencer and Start: the bootstrap leader is decided, every node has   *)
(* voted for it in term 0, and it has asked for its first block.             *)
Init ==
    /\ term = [n \in Node |-> 0]
    /\ votedFor = [n \in Node |-> Bootstrap]
    /\ status = [n \in Node |-> IF n = Bootstrap THEN "leader" ELSE "follower"]
    /\ leader = [n \in Node |-> Bootstrap]
    /\ preVoteTerm = [n \in Node |-> 0]
    /\ preVotes = [n \in Node |-> {}]
    /\ votes = [n \in Node |-> {}]
    /\ voteMaxAccepted = [n \in Node |-> 0]
    /\ voteMaxMeta = [n \in Node |-> 0]
    /\ voteHoles = [n \in Node |-> {}]
    /\ LET none == [next |-> 1, confirmed |-> 0, pending |-> 0, term |-> 0, acks |-> {}]
           first == Reserve(Bootstrap, TRUE, 0, none)
       IN  /\ gsn = [n \in Node |-> IF n = Bootstrap THEN first ELSE none]
           /\ acceptedUpTo = [n \in Node |-> IF n = Bootstrap THEN first.pending ELSE 0]
           /\ msgs = ReserveMsg(Bootstrap, first)
    /\ raced = FALSE
    /\ metadata = [n \in Node |-> {}]
    /\ skipped = [n \in Node |-> {}]
    /\ reqStatus = [r \in Req |-> "new"]
    /\ attempts = [r \in Req |-> 0]
    /\ answer = [r \in Req |-> 0]
    /\ waiting = {}
    /\ tasks = {}
    /\ issued = {}

-----------------------------------------------------------------------------
(* Election *)

\* onElectionTimeout: a node that is not leader asks whether the others would
\* change leader.  Bound: an election that was won in advance starts before the
\* timer runs out again.
OnElectionTimeout(n) ==
    /\ n \in Candidate
    /\ [kind |-> "elect", node |-> n] \notin tasks
    /\ status[n] # "leader"
    /\ term[n] < MaxTerm
    /\ preVoteTerm' = [preVoteTerm EXCEPT ![n] = term[n] + 1]
    /\ preVotes' = [preVotes EXCEPT ![n] = {n}]
    /\ Send({[type |-> "PreVoteRequest", term |-> term[n] + 1, from |-> n]})
    /\ UNCHANGED <<electVars, voteVars, gsnVars, metaVars, reqVars, tasks>>

\* HandlePreVoteRequest: granted when this node has not heard its leader for
\* the minimum election timeout either; how long that is, is not modelled, so
\* the grant may or may not come.  A refusal is ignored by its receiver.
HandlePreVoteRequest(n, m) ==
    /\ m.type = "PreVoteRequest" /\ m.from # n
    /\ m.term > term[n]
    /\ status[n] # "leader"
    /\ Send({[type |-> "PreVoteResponse", term |-> m.term, from |-> n, to |-> m.from]})
    /\ UNCHANGED <<electVars, preVars, voteVars, gsnVars, metaVars, reqVars, tasks>>

\* startElection, from the goroutine of HandlePreVoteResponse.
StartElection(n) ==
    LET meta == MaxMeta(metadata[n])
    IN  /\ term' = [term EXCEPT ![n] = @ + 1]
        /\ status' = [status EXCEPT ![n] = "candidate"]
        /\ votedFor' = [votedFor EXCEPT ![n] = n]
        /\ votes' = [votes EXCEPT ![n] = {n}]
        /\ voteMaxAccepted' = [voteMaxAccepted EXCEPT ![n] = acceptedUpTo[n]]
        /\ voteMaxMeta' = [voteMaxMeta EXCEPT ![n] = meta]
        /\ voteHoles' = [voteHoles EXCEPT ![n] = MetaHoles(metadata[n], skipped[n], meta)]
        /\ Send({[type |-> "VoteRequest", term |-> term[n] + 1, from |-> n]})
        /\ UNCHANGED leader

\* HandlePreVoteResponse: with a majority of pre-votes the election starts.
PreVoteGranted(n, m) ==
    /\ m.type = "PreVoteResponse" /\ m.to = n
    /\ status[n] # "leader"
    /\ m.term = preVoteTerm[n] /\ m.term = term[n] + 1
    /\ preVotes[n] # {}

HandlePreVoteResponse(n, m) ==
    /\ PreVoteGranted(n, m)
    /\ LET pre == preVotes[n] \cup {m.from}
       IN  \/ /\ ~Majority(pre)
              /\ preVotes' = [preVotes EXCEPT ![n] = pre]
              /\ UNCHANGED <<electVars, voteVars, tasks, msgs>>
           \/ /\ Majority(pre)
              /\ preVotes' = [preVotes EXCEPT ![n] = {}]
              /\ IF "elect" \in Preempt
                 THEN /\ tasks' = tasks \cup {[kind |-> "elect", node |-> n]}
                      /\ UNCHANGED <<electVars, voteVars, msgs>>
                 ELSE /\ StartElection(n)
                      /\ UNCHANGED tasks
    /\ UNCHANGED <<preVoteTerm, gsnVars, metaVars, reqVars>>

\* By now the term may be another, or the node may lead.
ElectSuspended(n) ==
    /\ [kind |-> "elect", node |-> n] \in tasks
    /\ term[n] < MaxTerm
    /\ tasks' = tasks \ {[kind |-> "elect", node |-> n]}
    /\ IF status[n] = "leader"
       THEN UNCHANGED <<electVars, voteVars, msgs>>
       ELSE StartElection(n)
    /\ UNCHANGED <<preVars, gsnVars, metaVars, reqVars>>

\* Mutant: a leader goes on leading, in the higher term.
GoOn(n, newer) == status
Follow(n, newer) == [status EXCEPT ![n] = IF newer THEN "follower" ELSE @]

\* One vote a term, which may be repeated.
MayVote(voted, candidate) == voted \in {Nobody, candidate}

\* HandleVoteRequest: a higher term makes the node a follower of that term, but
\* leaves leader[n] as it is; the vote carries the highest mark this node
\* accepted, its highest META and the holes below it.  reqTerm names the request
\* that is answered.
HandleVoteRequest(n, m) ==
    /\ m.type = "VoteRequest" /\ m.from # n
    /\ ~ \E r \in msgs : /\ r.type = "VoteResponse"
                         /\ r.from = n /\ r.to = m.from /\ r.reqTerm = m.term
    /\ LET newer   == m.term > term[n]
           voted   == IF newer THEN Nobody ELSE votedFor[n]
           now     == IF newer THEN m.term ELSE term[n]
           granted == m.term = now /\ MayVote(voted, m.from)
           meta    == MaxMeta(metadata[n])
       IN  /\ term' = [term EXCEPT ![n] = now]
           /\ votedFor' = [votedFor EXCEPT ![n] = IF granted THEN m.from ELSE voted]
           /\ status' = Follow(n, newer)
           /\ Send({[type |-> "VoteResponse", term |-> now, reqTerm |-> m.term,
                     granted |-> granted, accepted |-> acceptedUpTo[n], meta |-> meta,
                     holes |-> MetaHoles(metadata[n], skipped[n], meta),
                     from |-> n, to |-> m.from]})
    /\ UNCHANGED <<leader, preVars, voteVars, gsnVars, metaVars, reqVars, tasks>>

\* PublishMETASkip: the GSNs are skipped here, and everyone is told.
SkipMsg(S) == IF S = {} THEN {} ELSE {[type |-> "MetaSkip", gsns |-> S]}

\* Where the counter resumes: above the highest mark reported, and above what
\* this node handed out itself.  Mutant: at the mark, whatever this node handed
\* out.
ResumeAtReported(maxAcc, old) == maxAcc
ResumePoint(maxAcc, old) == Larger(maxAcc + 1, old)

\* What is left out for good: from the highest META known, or from what this
\* node numbered itself, up to the counter.
SkipRange(maxMeta, old, resume) == Larger(maxMeta + 1, old) .. (resume - 1)

\* resumeGSNCounterOnBecomingLeader.  lead and t are the election state read by
\* requestReservationLocked, acc, meta and holes what the votes reported, done
\* the suspended handler this completes.
Resume(n, lead, t, acc, meta, holes, done) ==
    LET maxAcc  == Larger(acc, acceptedUpTo[n])
        maxMeta == Larger(meta, MaxMeta(metadata[n]))
        old     == gsn[n].next
        resume  == ResumePoint(maxAcc, old)
        skip    == SkipRange(maxMeta, old, resume)
        fresh   == [gsn[n] EXCEPT !.next = resume, !.confirmed = resume - 1, !.pending = 0]
        missing == (holes \cup MetaHoles(metadata[n], skipped[n], maxMeta))
                      \ (metadata[n] \cup skipped[n] \cup skip)
    IN  /\ SetGSN(n, Reserve(n, lead, t, fresh), tasks \ done, {}, SkipMsg(skip))
        /\ skipped' = [skipped EXCEPT ![n] = @ \cup skip]
        /\ tasks' = (tasks \ done) \cup
                       (IF missing = {} THEN {}
                        ELSE {[kind |-> "holes", node |-> n, gsns |-> missing]})
        /\ UNCHANGED metadata

\* HandleVoteResponse: a higher term ends the candidature.
VoteResponseStepDown(n, m) ==
    /\ m.type = "VoteResponse" /\ m.to = n
    /\ m.term > term[n]
    /\ term' = [term EXCEPT ![n] = m.term]
    /\ status' = [status EXCEPT ![n] = "follower"]
    /\ votedFor' = [votedFor EXCEPT ![n] = Nobody]
    /\ UNCHANGED <<leader, preVars, voteVars, gsnVars, metaVars, reqVars, tasks, msgs>>

\* HandleVoteResponse: a vote for this candidate, with what the voter reports.
CountVote(n, m) ==
    /\ m.type = "VoteResponse" /\ m.to = n
    /\ status[n] = "candidate" /\ m.term = term[n] /\ m.granted
    /\ m.from \notin votes[n]
    /\ votes' = [votes EXCEPT ![n] = @ \cup {m.from}]
    /\ voteMaxAccepted' = [voteMaxAccepted EXCEPT ![n] = Larger(@, m.accepted)]
    /\ voteMaxMeta' = [voteMaxMeta EXCEPT ![n] = Larger(@, m.meta)]
    /\ voteHoles' = [voteHoles EXCEPT ![n] = @ \cup m.holes]

HandleVote(n, m) ==
    /\ CountVote(n, m)
    /\ ~Majority(votes'[n])
    /\ UNCHANGED <<electVars, preVars, gsnVars, metaVars, reqVars, tasks, msgs>>

\* The vote that completes a majority: leader under electMu, then, with electMu
\* released, the counter resumed under gsnMu.
WinElection(n, m) ==
    /\ CountVote(n, m)
    /\ Majority(votes'[n])
    /\ status' = [status EXCEPT ![n] = "leader"]
    /\ leader' = [leader EXCEPT ![n] = n]
    /\ IF "resume" \in Preempt
       THEN /\ tasks' = tasks \cup {[kind |-> "resume", node |-> n, term |-> term[n]]}
            /\ UNCHANGED <<gsnVars, metaVars, msgs>>
       ELSE Resume(n, TRUE, term[n],
                   voteMaxAccepted'[n], voteMaxMeta'[n], voteHoles'[n], {})
    /\ UNCHANGED <<term, votedFor, preVars, reqVars>>

ResumeSuspended(t) ==
    LET n == t.node
    IN  /\ t.kind = "resume"
        /\ Resume(n, Leads(n), term[n], voteMaxAccepted[n], voteMaxMeta[n], voteHoles[n], {t})
        /\ UNCHANGED <<electVars, preVars, voteVars, reqVars>>

\* leaderHeartbeatLoop, started once the counter is resumed.
Heartbeat(n) ==
    /\ status[n] = "leader"
    /\ [kind |-> "resume", node |-> n, term |-> term[n]] \notin tasks
    /\ Send({[type |-> "Heartbeat", term |-> term[n], from |-> n, skips |-> skipped[n]]})
    /\ UNCHANGED <<electVars, preVars, voteVars, gsnVars, metaVars, reqVars, tasks>>

\* HandleHeartbeat: the skipped GSNs count whatever the term; the rest only
\* unless the term is old.
HandleHeartbeat(n, m) ==
    /\ m.type = "Heartbeat" /\ m.from # n
    /\ skipped' = [skipped EXCEPT ![n] = @ \cup m.skips]
    /\ IF m.term < term[n]
       THEN UNCHANGED electVars
       ELSE /\ term' = [term EXCEPT ![n] = m.term]
            /\ leader' = [leader EXCEPT ![n] = m.from]
            /\ votedFor' = [votedFor EXCEPT ![n] = m.from]
            /\ status' = [status EXCEPT ![n] = "follower"]
    /\ UNCHANGED <<preVars, voteVars, gsnVars, metadata, reqVars, tasks, msgs>>

-----------------------------------------------------------------------------
(* Reservation of GSNs *)

ReserveAck(n, t, upto, to) ==
    [type |-> "ReserveAck", term |-> t, upto |-> upto, from |-> n, to |-> to]

\* The second half of HandleReserve: the mark is kept, the leader told.
\* Mutant: the leader told, the mark forgotten.
AckOnly(n, t, upto, to) ==
    /\ Send({ReserveAck(n, t, upto, to)})
    /\ UNCHANGED acceptedUpTo
AcceptMark(n, t, upto, to) ==
    /\ acceptedUpTo' = [acceptedUpTo EXCEPT ![n] = Larger(@, upto)]
    /\ Send({ReserveAck(n, t, upto, to)})

\* A reservation of an older term.  Mutants: none is; the current term's too.
NeverStale(n, t) == FALSE
StaleUnlessNewer(n, t) == t <= term[n]
Stale(n, t) == t < term[n]

\* HandleReserve: refused only when the leader's term is older than this
\* node's; a newer one is not adopted.
HandleReserve(n, m) ==
    /\ m.type = "Reserve" /\ m.from # n
    /\ ~Stale(n, m.term)
    /\ ReserveAck(n, m.term, m.upto, m.from) \notin msgs
    /\ IF "accept" \in Preempt
       THEN /\ tasks' = tasks \cup {[kind |-> "accept", node |-> n, term |-> m.term,
                                     upto |-> m.upto, to |-> m.from]}
            /\ UNCHANGED <<acceptedUpTo, msgs>>
       ELSE /\ AcceptMark(n, m.term, m.upto, m.from)
            /\ UNCHANGED tasks
    /\ UNCHANGED <<electVars, preVars, voteVars, gsn, raced, metaVars, reqVars>>

\* Race: by now the node may be in a later term.
AcceptSuspended(t) ==
    /\ t.kind = "accept"
    /\ AcceptMark(t.node, t.term, t.upto, t.to)
    /\ raced' = (raced \/ Stale(t.node, t.term))
    /\ tasks' = tasks \ {t}
    /\ UNCHANGED <<electVars, preVars, voteVars, gsn, metaVars, reqVars>>

\* confirmReservationLocked.  Mutant: the reservation stays pending.
ConfirmOnly(g) == [g EXCEPT !.confirmed = g.pending]
ConfirmReservation(g) == [g EXCEPT !.confirmed = g.pending, !.pending = 0]

\* HandleReserveAck: counted whether or not the node still leads.
HandleReserveAck(n, m) ==
    /\ m.type = "ReserveAck" /\ m.to = n
    /\ gsn[n].pending = m.upto /\ gsn[n].term = m.term
    /\ LET g == [gsn[n] EXCEPT !.acks = @ \cup {m.from}]
       IN  gsn' = [gsn EXCEPT ![n] = IF Majority(g.acks) THEN ConfirmReservation(g) ELSE g]
    /\ UNCHANGED <<electVars, preVars, voteVars, acceptedUpTo, raced, metaVars, reqVars, tasks, msgs>>

-----------------------------------------------------------------------------
(* Requests for a GSN *)

\* allocateGSN, up to where it waits: with the reservation used up, it asks for
\* the next one.
StartAllocation(n, r, k, received) ==
    /\ waiting' = waiting \cup {<<n, r, k>>}
    /\ LET g == gsn[n]
       IN  SetGSN(n, IF g.next > g.confirmed THEN Reserve(n, Leads(n), term[n], g) ELSE g,
                  tasks, received, {})

\* GetNextGSN, one attempt: served here by the leader, sent to it by another
\* node.  An attempt after the first is made when the one before it timed out.
SendGSNRequest(r) ==
    LET p == Proxy[r]
        k == attempts[r] + 1
    IN  /\ reqStatus[r] \in {"new", "asking"}
        /\ k <= MaxAttempts
        /\ attempts' = [attempts EXCEPT ![r] = k]
        /\ IF IsLeader(p)
           THEN /\ reqStatus' = [reqStatus EXCEPT ![r] = "local"]
                /\ StartAllocation(p, r, k, {})
           ELSE /\ reqStatus' = [reqStatus EXCEPT ![r] = "asking"]
                /\ Send({[type |-> "GSNRequest", req |-> r, attempt |-> k, to |-> leader[p]]})
                /\ UNCHANGED <<waiting, gsnVars>>
        /\ UNCHANGED <<electVars, preVars, voteVars, metaVars, answer, issued, tasks>>

\* GetNextGSN: the last attempt timed out.
ExhaustRequest(r) ==
    /\ reqStatus[r] = "asking" /\ attempts[r] = MaxAttempts
    /\ reqStatus' = [reqStatus EXCEPT ![r] = "failed"]
    /\ UNCHANGED <<electVars, preVars, voteVars, gsnVars, metaVars, attempts, answer,
                   waiting, issued, tasks, msgs>>

\* HandleGSNRequest: by the leader, who allocates, or by a node that forwards it
\* to the one it believes leads.
HandleGSNRequest(n, m) ==
    /\ m.type = "GSNRequest" /\ m.to = n
    /\ IF IsLeader(n)
       THEN StartAllocation(n, m.req, m.attempt, {m})
       ELSE /\ Exchange({m}, {[m EXCEPT !.to = leader[n]]})
            /\ UNCHANGED <<waiting, gsnVars>>
    /\ UNCHANGED <<electVars, preVars, voteVars, metaVars, reqStatus, attempts, answer,
                   issued, tasks>>

\* allocateGSN, woken: the reservation is still used up, so it is asked for
\* again; a node that no longer leads asks nothing and goes on waiting.
RetryReservation(n, r, k) ==
    /\ <<n, r, k>> \in waiting
    /\ gsn[n].next > gsn[n].confirmed
    /\ SetGSN(n, Reserve(n, Leads(n), term[n], gsn[n]), tasks, {}, {})
    /\ UNCHANGED <<electVars, preVars, voteVars, metaVars, reqVars, tasks>>

\* Is GetNextGSN of r still listening for the answer to attempt k?  Once it
\* allocates here itself, it has dropped its channel.
Listens(r, k) == \/ reqStatus[r] = "asking"
                 \/ reqStatus[r] = "local" /\ k = attempts[r]

Answered(r, g) ==
    /\ reqStatus' = [reqStatus EXCEPT ![r] = "answered"]
    /\ answer' = [answer EXCEPT ![r] = g]

\* allocateGSN: the next number inside the confirmed reservation, the next block
\* asked for when less than half of this one is left.  Whether the node still
\* leads is not looked at.  The number goes to the proxy of the request.
Allocate(n, r, k) ==
    LET g    == gsn[n].next
        used == [gsn[n] EXCEPT !.next = g + 1]
        sent == IF Proxy[r] = n THEN {} ELSE {[type |-> "GSNResponse", req |-> r, gsn |-> g]}
    IN  /\ <<n, r, k>> \in waiting
        /\ g <= gsn[n].confirmed
        /\ waiting' = waiting \ {<<n, r, k>>}
        /\ issued' = issued \cup {[gsn |-> g, by |-> n, req |-> r, attempt |-> k]}
        /\ SetGSN(n, IF gsn[n].confirmed - g < Block \div 2
                     THEN Reserve(n, Leads(n), term[n], used) ELSE used, tasks, {}, sent)
        /\ IF Proxy[r] = n /\ Listens(r, k)
           THEN Answered(r, g)
           ELSE UNCHANGED <<reqStatus, answer>>
        /\ UNCHANGED <<electVars, preVars, voteVars, metaVars, attempts, tasks>>

\* allocateGSN: no confirmed reservation within its deadline.
GiveUpAllocation(n, r, k) ==
    /\ <<n, r, k>> \in waiting
    /\ gsn[n].next > gsn[n].confirmed
    /\ waiting' = waiting \ {<<n, r, k>>}
    /\ reqStatus' = [reqStatus EXCEPT ![r] =
                        IF @ = "local" /\ k = attempts[r] THEN "failed" ELSE @]
    /\ UNCHANGED <<electVars, preVars, voteVars, gsnVars, metaVars, attempts, answer,
                   issued, tasks, msgs>>

\* HandleGSNResponse: the first answer is taken, while GetNextGSN waits for one.
\* Mutant: a late answer replaces it.
TakeEveryAnswer(m) ==
    /\ m.type = "GSNResponse"
    /\ Answered(m.req, m.gsn)
    /\ UNCHANGED <<electVars, preVars, voteVars, gsnVars, metaVars, attempts, waiting,
                   issued, tasks, msgs>>

HandleGSNResponse(m) ==
    /\ m.type = "GSNResponse"
    /\ reqStatus[m.req] = "asking"
    /\ Answered(m.req, m.gsn)
    /\ UNCHANGED <<electVars, preVars, voteVars, gsnVars, metaVars, attempts, waiting,
                   issued, tasks, msgs>>

-----------------------------------------------------------------------------
(* METAs and skips *)

\* PreprocessRequest with a GSN in hand, PublishMETA: known here, sent to all.
PublishMETA(r) ==
    /\ reqStatus[r] = "answered" /\ r \in Publisher
    /\ reqStatus' = [reqStatus EXCEPT ![r] = "published"]
    /\ metadata' = [metadata EXCEPT ![Proxy[r]] = @ \cup {answer[r]}]
    /\ Send({[type |-> "Meta", gsn |-> answer[r]]})
    /\ UNCHANGED <<electVars, preVars, voteVars, gsnVars, skipped, attempts, answer,
                   waiting, issued, tasks>>

HandleMETAStream(n, m) ==
    /\ m.type = "Meta"
    /\ metadata' = [metadata EXCEPT ![n] = @ \cup {m.gsn}]
    /\ UNCHANGED <<electVars, preVars, voteVars, gsnVars, skipped, reqVars, tasks, msgs>>

HandleMETASkip(n, m) ==
    /\ m.type = "MetaSkip"
    /\ skipped' = [skipped EXCEPT ![n] = @ \cup m.gsns]
    /\ UNCHANGED <<electVars, preVars, voteVars, gsnVars, metadata, reqVars, tasks, msgs>>

\* recoverMetaHoles, metaQueryWait after the METAs were asked for: what is still
\* missing is declared skipped, if the node still leads.
SkipMissing(t) ==
    LET n     == t.node
        still == IF IsLeader(n) THEN t.gsns \ (metadata[n] \cup skipped[n]) ELSE {}
    IN  /\ t.kind = "holes"
        /\ tasks' = tasks \ {t}
        /\ skipped' = [skipped EXCEPT ![n] = @ \cup still]
        /\ Send(SkipMsg(still))
        /\ UNCHANGED <<electVars, preVars, voteVars, gsnVars, metadata, reqVars>>

-----------------------------------------------------------------------------
Election(n) ==
    \/ OnElectionTimeout(n) \/ ElectSuspended(n) \/ Heartbeat(n)
    \/ \E t \in tasks : t.node = n /\ ResumeSuspended(t)
    \/ \E m \in msgs :
          \/ HandlePreVoteRequest(n, m) \/ HandlePreVoteResponse(n, m)
          \/ HandleVoteRequest(n, m)
          \/ VoteResponseStepDown(n, m) \/ HandleVote(n, m) \/ WinElection(n, m)
          \/ HandleHeartbeat(n, m)

Reservation(n) ==
    \/ \E m \in msgs : HandleReserve(n, m) \/ HandleReserveAck(n, m)
    \/ \E t \in tasks : t.node = n /\ AcceptSuspended(t)

Allocation(n) ==
    \/ \E m \in msgs : HandleGSNRequest(n, m)
    \/ \E r \in Req, k \in 1 .. MaxAttempts :
          RetryReservation(n, r, k) \/ Allocate(n, r, k) \/ GiveUpAllocation(n, r, k)

Request(r) ==
    \/ SendGSNRequest(r) \/ ExhaustRequest(r) \/ PublishMETA(r)
    \/ \E m \in msgs : m.type = "GSNResponse" /\ m.req = r /\ HandleGSNResponse(m)

Meta(n) ==
    \/ \E m \in msgs : HandleMETAStream(n, m) \/ HandleMETASkip(n, m)
    \/ \E t \in tasks : t.node = n /\ SkipMissing(t)

Next ==
    \/ \E n \in Node : Election(n) \/ Reservation(n) \/ Allocation(n) \/ Meta(n)
    \/ \E r \in Req : Request(r)

Spec == Init /\ [][Next]_vars

\* Next without the timeouts that end a request: 3 s for a reservation and the
\* last 2 s for an answer (GiveUpAllocation, ExhaustRequest).
TimelyNext ==
    \/ \E n \in Node : Election(n) \/ Reservation(n) \/ Meta(n)
    \/ \E n \in Node : \E m \in msgs : HandleGSNRequest(n, m)
    \/ \E n \in Node, r \in Req, k \in 1 .. MaxAttempts :
          RetryReservation(n, r, k) \/ Allocate(n, r, k)
    \/ \E r \in Req :
          \/ SendGSNRequest(r) \/ PublishMETA(r)
          \/ \E m \in msgs : m.type = "GSNResponse" /\ m.req = r /\ HandleGSNResponse(m)

\* Every message is delivered, every goroutine goes on, and both take less than
\* those timeouts.  No fairness for the election timer or for new requests.
\* What a node has to do ends, so that fairness to all of it is fairness to each.
Work(n) ==
    \/ ElectSuspended(n) \/ Heartbeat(n)
    \/ \E s \in tasks : s.node = n /\ (ResumeSuspended(s) \/ AcceptSuspended(s))
    \/ \E m \in msgs : \/ HandlePreVoteResponse(n, m) \/ HandleVoteRequest(n, m)
                       \/ HandleVote(n, m) \/ WinElection(n, m) \/ HandleHeartbeat(n, m)
                       \/ HandleReserve(n, m) \/ HandleReserveAck(n, m)
                       \/ HandleGSNRequest(n, m) \/ HandleMETAStream(n, m)
    \/ \E r \in Req, k \in 1 .. MaxAttempts : RetryReservation(n, r, k) \/ Allocate(n, r, k)

Fairness ==
    /\ \A n \in Node : WF_vars(Work(n))
    /\ \A r \in Req :
         WF_vars(\/ PublishMETA(r)
                 \/ \E m \in msgs : m.type = "GSNResponse" /\ m.req = r /\ HandleGSNResponse(m))

TimelySpec == Init /\ [][TimelyNext]_vars /\ Fairness

\* The same fairness with the timeouts: a request may end without a GSN.
FairSpec == Spec /\ Fairness

-----------------------------------------------------------------------------
(* What holds *)

Status == {"follower", "candidate", "leader"}

\* No mark, and so no GSN, is above MaxGSN.
Gsn == 0 .. MaxGSN

Message ==
    [type : {"PreVoteRequest", "VoteRequest"}, term : Nat, from : Node]
      \cup [type : {"PreVoteResponse"}, term : Nat, from : Node, to : Node]
      \cup [type : {"VoteResponse"}, term : Nat, reqTerm : Nat, granted : BOOLEAN,
            accepted : Gsn, meta : Gsn, holes : SUBSET Gsn, from : Node, to : Node]
      \cup [type : {"Heartbeat"}, term : Nat, from : Node, skips : SUBSET Gsn]
      \cup [type : {"Reserve"}, term : Nat, upto : Gsn, from : Node]
      \cup [type : {"ReserveAck"}, term : Nat, upto : Gsn, from : Node, to : Node]
      \cup [type : {"GSNRequest"}, req : Req, attempt : Nat, to : Node]
      \cup [type : {"GSNResponse"}, req : Req, gsn : Gsn]
      \cup [type : {"Meta"}, gsn : Gsn]
      \cup [type : {"MetaSkip"}, gsns : SUBSET Gsn]

Task ==
    [kind : {"elect"}, node : Node]
      \cup [kind : {"resume"}, node : Node, term : Nat]
      \cup [kind : {"holes"}, node : Node, gsns : SUBSET Gsn]
      \cup [kind : {"accept"}, node : Node, term : Nat, upto : Gsn, to : Node]

Counter == [next : 1 .. MaxGSN + 1, confirmed : Gsn, pending : Gsn, term : Nat,
            acks : SUBSET Node]

ElectionTypes ==
    /\ term \in [Node -> Nat]
    /\ votedFor \in [Node -> Node \cup {Nobody}]
    /\ status \in [Node -> Status]
    /\ leader \in [Node -> Node]
    /\ preVoteTerm \in [Node -> Nat]
    /\ preVotes \in [Node -> SUBSET Node]
    /\ votes \in [Node -> SUBSET Node]
    /\ voteMaxAccepted \in [Node -> Gsn]
    /\ voteMaxMeta \in [Node -> Gsn]
    /\ voteHoles \in [Node -> SUBSET Gsn]

GsnTypes ==
    /\ gsn \in [Node -> Counter]
    /\ acceptedUpTo \in [Node -> Gsn]
    /\ raced \in BOOLEAN
    /\ metadata \in [Node -> SUBSET Gsn]
    /\ skipped \in [Node -> SUBSET Gsn]

RequestTypes ==
    /\ reqStatus \in [Req -> {"new", "asking", "local", "answered", "published", "failed"}]
    /\ attempts \in [Req -> Nat]
    /\ answer \in [Req -> Gsn]
    /\ waiting \subseteq Node \X Req \X Nat
    /\ issued \subseteq [gsn : Gsn, by : Node, req : Req, attempt : Nat]

\* The fields of Sequencer, the messages and the suspended handlers have the
\* types of their declarations; in particular no counter goes below zero, where
\* an unsigned one would wrap, and none above the marks that were asked for.
TypeOK ==
    /\ ElectionTypes
    /\ GsnTypes
    /\ RequestTypes
    /\ tasks \subseteq Task
    /\ msgs \subseteq Message

\* A term has one leader: whoever leads it now, or has sent a heartbeat or a
\* reservation of it, is the same node.  HandleVoteRequest gives one vote a
\* term, HandleHeartbeat turns votedFor over to a leader nobody voted for here.
Led(n, t) == \/ status[n] = "leader" /\ term[n] = t
             \/ \E m \in msgs : m.type \in {"Heartbeat", "Reserve"} /\ m.from = n /\ m.term = t
ElectionSafety == \A n, o \in Node : \A t \in 0 .. MaxTerm : Led(n, t) /\ Led(o, t) => n = o

\* No GSN is given twice, by one leader or by two (the comment on
\* resumeGSNCounterOnBecomingLeader, sequencer_election.go:292), unless one of two
\* races was run: a leader reserved before its counter was resumed, or a node
\* accepted a mark of a term that it had left since it looked.
NumberedOnce == \A a, b \in issued : a.gsn = b.gsn => a = b
UniqueGSN == raced \/ NumberedOnce

\* What two nodes may still hand out, without asking anyone, never overlaps,
\* nor has any of it been handed out: a deposed leader keeps numbering inside
\* its block (allocateGSN) while its successor numbers in another.  So it is until
\* one of those races is run.
Free(n) == gsn[n].next .. gsn[n].confirmed
BlocksDisjoint ==
    \/ raced
    \/ \A n \in Node : /\ \A o \in Node \ {n} : Free(n) \cap Free(o) = {}
                       /\ \A i \in issued : i.gsn \notin Free(n)

\* Every GSN handed out is below a mark a majority has accepted
\* (confirmReservationLocked): what the next leader's counter resumes from.
IssuedBelowMark ==
    \A i \in issued : Majority({n \in Node : acceptedUpTo[n] >= i.gsn})

\* A GSN that a node has declared skipped is never given afterwards
\* (PublishMETASkip, sequencer.go:551).  The code does not keep to it: a deposed
\* leader goes on numbering in its block, which its successor has declared skipped.
SkippedNeverIssued ==
    [][\A i \in issued' \ issued : \A o \in Node : i.gsn \notin skipped[o]]_vars

\* With no election, the leader and the proxies together behave
\* as one source of numbers: no attempt and no number is served twice, and a
\* proxy publishes its operation once, under a number that was given to it.
Oracle == INSTANCE GsnOracle WITH
    grants    <- {[req |-> i.req, attempt |-> i.attempt, gsn |-> i.gsn] : i \in issued},
    published <- {[req |-> r, gsn |-> answer[r]] : r \in {q \in Req : reqStatus[q] = "published"}}
ImplementsOracle == Oracle!Spec

\* With no election, a request gets a GSN and every node gets its META: the
\* reservation is asked for again whenever it is used up or half used
\* (allocateGSN), at the boundary of each block too.
RequestServed ==
    \A r \in Req : attempts[r] > 0
                      ~> \A n \in Node : reqStatus[r] = "published" /\ answer[r] \in metadata[n]

\* A candidate nobody competes with is leader in the end, everyone knows it, and
\* it has numbers to give, or gave one, although its counter had to be resumed
\* first (resumeGSNCounterOnBecomingLeader, then HandleReserveAck).
TakeoverDone ==
    \A n \in Candidate :
      status[n] = "candidate" ~> /\ \A o \in Node : leader[o] = n
                                  /\ (Free(n) # {} \/ \E i \in issued : i.by = n)

=============================================================================
