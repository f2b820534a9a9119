----------------------------- MODULE MpxInstance -----------------------------
(***************************************************************************)
(* The MultiPaxos orderer of one group: orderer/multipaxosinstance.go and  *)
(* the group state of orderer/multipaxosorderer.go.                        *)
(*                                                                         *)
(* One instance decides one sequence number (SN).  Its proposer is fixed:  *)
(* the same member for every SN under the Single leader policy, round      *)
(* robin otherwise.  Whatever the code reads from `leader` is therefore    *)
(* that member or -1, and only the proposer acts on its being set, so the  *)
(* model has Proposer(s) instead; a ballot is its round number, for the    *)
(* node id in its low bits never differs.  (The branch of onPrepare for a  *)
(* PREPARE above one's own ballot, and the one of onAccept for a second    *)
(* sender of a ballot, need a second proposer and are never taken.)        *)
(*                                                                         *)
(* SN is the set of sequence numbers in one window (MaxInFlightSNs): their *)
(* instances run side by side.  A batch is a set of requests, NOP the      *)
(* empty one, and a digest is the batch it is the digest of.               *)
(*                                                                         *)
(* The network.  A message is one copy for one member, taken out of msgs   *)
(* when it is handled: it may be delayed, overtaken or never handled       *)
(* (peers.go, BufferedMultiConnection), and is handled at most once.  Only *)
(* an ACCEPT is sent again.  A handler's early returns are the guards of   *)
(* its action: a message the code would ignore stays in msgs, as if it     *)
(* were lost.                                                              *)
(***************************************************************************)
EXTENDS Integers, FiniteSets, Sequences

CONSTANTS
    Members,      \* the group: Members[1] is members[0]
    SN,           \* the sequence numbers of the window
    Single,       \* leaderPolicy = Single
    Req,          \* client requests of this group
    Reach,        \* Reach[n]: bound, the requests that get to member n
    BatchSize,    \* bound: requests in a batch
    None,         \* no value
    Late,         \* bound: members that may get messages before SetMembers
    Lost,         \* bound: the <<type, member>> that never get through
    Ticks,        \* bound: what tick may do, of {"giveup", "resend", "round"}
    CatchUpAt,    \* bound: members whose checkpointer may ask for an entry
    MaxBallot     \* bound: the last round of an instance

Node == {Members[k] : k \in DOMAIN Members}
Batch == {B \in SUBSET Req : Cardinality(B) <= BatchSize}
Nop == {}
Ballot == 0 .. MaxBallot

ASSUME GroupAssumption ==
    /\ Members \in Seq(Node) /\ Members # << >>
    /\ IsFiniteSet(Node)
    /\ SN \subseteq Nat
    /\ Single \in BOOLEAN
    /\ IsFiniteSet(Req)
    /\ BatchSize \in Nat
    /\ \A B \in SUBSET Req : B # None
ASSUME BoundAssumption ==
    /\ Reach \in [Node -> SUBSET Req]
    /\ Late \subseteq Node /\ CatchUpAt \subseteq Node
    /\ Lost \subseteq {"prepare", "promise", "accept", "accepted", "commit"} \X Node
    /\ Ticks \subseteq {"giveup", "resend", "round"}
    /\ MaxBallot \in Nat

\* SetMembers: who leads an SN is computed alike by every member.
Proposer(s) == IF Single THEN Members[1] ELSE Members[(s % Len(Members)) + 1]

VARIABLES
    \* one per member and SN: the fields of mpxInstance
    joined,       \* members and quorum are set (SetMembers)
    phase, promised, prepared, promisedFrom, acceptedFrom,
    lastVal, pending, fetching,
    \* one per SN, at its proposer: currentBallot and lastReqBatch
    ballot, held,
    \* one per member: the group's promise; and, at the Single leader, the
    \* ballot the group is prepared for, or -1
    grpPromised, grpReady,
    \* one per member: the bucket, the index of the requests it has seen, the
    \* log, and how many SNs were announced to it (groupCommitCount)
    bucket, index, log, groupCommitCount,
    msgs,
    \* history: the <<ballot, batch>> pairs a member accepted for an SN
    accepted

promiseVars == <<promised, prepared, promisedFrom, grpPromised, grpReady>>
valueVars   == <<lastVal, acceptedFrom, accepted>>
commitVars  == <<pending, fetching, log, groupCommitCount>>
bucketVars  == <<bucket, index, held>>
vars == <<joined, phase, ballot, promiseVars, valueVars, commitVars, bucketVars, msgs>>

-----------------------------------------------------------------------------
(* Helpers *)

\* Mutant: n/2 without the + 1.
HasHalf(n, s, S) == joined[n][s] => Cardinality(S) >= Cardinality(Node) \div 2
\* Before SetMembers an instance has quorum 0: any number of answers will do.
HasQuorum(n, s, S) == joined[n][s] => 2 * Cardinality(S) > Cardinality(Node)

Set(f, n, s, v) == [f EXCEPT ![n][s] = v]

ToAll(m) == {[m EXCEPT !.to = n] : n \in {k \in Node : <<m.type, k>> \notin Lost}}
Prepare(s, b)    == ToAll([type |-> "prepare", sn |-> s, ballot |-> b, to |-> None])
Promise(s, b, n) == ToAll([type |-> "promise", sn |-> s, ballot |-> b, from |-> n, to |-> None])
Accept(s, b, v)  == ToAll([type |-> "accept", sn |-> s, ballot |-> b, val |-> v, to |-> None])
Commit(s, v)     == ToAll([type |-> "commit", sn |-> s, val |-> v, to |-> None])
\* Mutant: the digest is remembered and nobody is asked.
NoFetch(s, n) == {}
\* FetchMissingEntry asks the other members until one of them has the entry.
Fetch(s, n)       == {[type |-> "fetch", sn |-> s, to |-> n]}

\* The proposer hands its own ACCEPTED to itself (callUnlocked) and tells no
\* one; tick may run in between, so it is a message like any other.
Accepted(s, b, n) ==
    LET m == [type |-> "accepted", sn |-> s, ballot |-> b, from |-> n, to |-> n]
    IN  IF n = Proposer(s) THEN {m} ELSE ToAll(m)

Receive(m, sent) == msgs' = (msgs \ {m}) \cup sent
Send(sent) == msgs' = msgs \cup sent

\* What CutBatch may return: NOP if the bucket stays empty, else some of its
\* requests; how many and which depends on how long it waits.
Cut(S) == IF S = {} THEN {Nop} ELSE {B \in Batch : B # {} /\ B \subseteq S}

\* Mutant: the requests of a batch are read, not removed.
Peek(n, B) == bucket
RemoveFirst(n, B) == [bucket EXCEPT ![n] = @ \ B]

\* Mutant: a batch given up is dropped.
DropBatch(n, B) == bucket
Resurrect(n, B) == [bucket EXCEPT ![n] = @ \cup B]

-----------------------------------------------------------------------------
(* The initial state: requests are still on their way, no PREPARE is sent. *)

Init ==
    /\ joined = [n \in Node |-> [s \in SN |-> n \notin Late /\ n # Proposer(s)]]
    /\ phase = [n \in Node |-> [s \in SN |-> "init"]]
    /\ promised = [n \in Node |-> [s \in SN |-> 0]]
    /\ prepared = [n \in Node |-> [s \in SN |-> FALSE]]
    /\ promisedFrom = [n \in Node |-> [s \in SN |-> {}]]
    /\ acceptedFrom = [n \in Node |-> [s \in SN |-> {}]]
    /\ lastVal = [n \in Node |-> [s \in SN |-> None]]
    /\ pending = [n \in Node |-> [s \in SN |-> None]]
    /\ fetching = [n \in Node |-> [s \in SN |-> FALSE]]
    /\ ballot = [s \in SN |-> 0]
    /\ held = [s \in SN |-> Nop]
    /\ grpPromised = [n \in Node |-> 0]
    /\ grpReady = -1
    /\ bucket = [n \in Node |-> {}]
    /\ index = [n \in Node |-> {}]
    /\ log = [n \in Node |-> [s \in SN |-> None]]
    /\ groupCommitCount = [n \in Node |-> 0]
    /\ msgs = {}
    /\ accepted = [n \in Node |-> [s \in SN |-> {}]]

-----------------------------------------------------------------------------
(* Delivery *)

RemoveCommitted(n, v) == [bucket EXCEPT ![n] = @ \ v]

\* Mutant: NOP is not announced.
DeliverRequests(n, s, v) ==
    /\ phase' = Set(phase, n, s, "committed")
    /\ log' = IF log[n][s] = None /\ v # Nop THEN Set(log, n, s, v) ELSE log
    /\ groupCommitCount' = [groupCommitCount EXCEPT ![n] = @ + 1]
    /\ IF n = Proposer(s) /\ held[s] # Nop
       THEN held' = [held EXCEPT ![s] = Nop] /\ UNCHANGED bucket
       ELSE bucket' = RemoveCommitted(n, v) /\ UNCHANGED held

\* deliverCommit: the instance is over, its value goes to the log (which keeps
\* the first entry of an SN) and its requests leave the bucket.
DeliverCommit(n, s, v) ==
    /\ phase' = Set(phase, n, s, "committed")
    /\ log' = IF log[n][s] = None THEN Set(log, n, s, v) ELSE log
    /\ groupCommitCount' = [groupCommitCount EXCEPT ![n] = @ + 1]
    /\ IF n = Proposer(s) /\ held[s] # Nop
       THEN held' = [held EXCEPT ![s] = Nop] /\ UNCHANGED bucket
       ELSE bucket' = RemoveCommitted(n, v) /\ UNCHANGED held

\* onCommit past its first test: v is the value of the digest received.
TakeCommit(n, s, v) ==
    IF lastVal[n][s] = v
    THEN /\ DeliverCommit(n, s, v)
         /\ pending' = Set(pending, n, s, None)
         /\ fetching' = Set(fetching, n, s, FALSE)
    ELSE /\ pending' = Set(pending, n, s, v)
         /\ fetching' = Set(fetching, n, s, TRUE)
         /\ UNCHANGED <<phase, log, groupCommitCount, bucket, held>>

-----------------------------------------------------------------------------
(* Phase 1 *)

\* A request gets to a member, which files it at most once.
AddDirectToBucket(n, r) ==
    /\ r \in Reach[n] \ index[n]
    /\ index' = [index EXCEPT ![n] = @ \cup {r}]
    /\ bucket' = [bucket EXCEPT ![n] = @ \cup {r}]
    /\ UNCHANGED <<joined, phase, ballot, promiseVars, valueVars, commitVars, held, msgs>>

\* SetMembers.  The proposer starts: at the ballot of the group if that is
\* higher, and without a PREPARE if the group is prepared for it.
SetMembers(n, s) ==
    /\ ~joined[n][s]
    /\ \A t \in SN : t < s => joined[n][t]         \* runSegment, in order
    /\ joined' = Set(joined, n, s, TRUE)
    /\ IF n # Proposer(s)
       THEN UNCHANGED <<phase, ballot, prepared, msgs>>
       ELSE /\ ballot' = [ballot EXCEPT ![s] = grpPromised[n]]
            /\ IF Single /\ grpReady = grpPromised[n]
               THEN /\ prepared' = Set(prepared, n, s, TRUE)
                    /\ phase' = Set(phase, n, s, "prepared")
                    /\ UNCHANGED msgs
               ELSE /\ Send(Prepare(s, grpPromised[n]))
                    /\ UNCHANGED <<phase, prepared>>
    /\ UNCHANGED <<promised, promisedFrom, grpPromised, grpReady>>
    /\ UNCHANGED <<valueVars, commitVars, bucketVars>>

\* A promise counts once, whatever its ballot (and whatever the phase).
CountPromise(n, s, from) ==
    LET F == promisedFrom[n][s] \cup {from}
        first == from \notin promisedFrom[n][s]
    IN  /\ promisedFrom' = Set(promisedFrom, n, s, F)
        /\ IF first /\ HasQuorum(n, s, F) /\ ~prepared[n][s]
           THEN /\ prepared' = Set(prepared, n, s, TRUE)
                /\ phase' = Set(phase, n, s, "prepared")
                /\ grpReady' = IF Single /\ n = Proposer(s) THEN ballot[s] ELSE grpReady
           ELSE UNCHANGED <<prepared, phase, grpReady>>

\* The promise an acceptor is bound by: its own and, under Single, the group's.
Bound(n, s) == IF Single /\ grpPromised[n] > promised[n][s] THEN grpPromised[n]
               ELSE promised[n][s]

OnPrepare(m) ==
    LET n == m.to  s == m.sn  b == m.ballot
    IN  /\ m.type = "prepare"
        /\ phase[n][s] # "committed" /\ b >= Bound(n, s)
        /\ promised' = Set(promised, n, s, b)
        /\ grpPromised' = IF Single THEN [grpPromised EXCEPT ![n] = b] ELSE grpPromised
        /\ Receive(m, Promise(s, b, n))
        /\ IF n = Proposer(s) THEN CountPromise(n, s, n)
           ELSE UNCHANGED <<phase, prepared, promisedFrom, grpReady>>
        /\ UNCHANGED <<joined, ballot, valueVars, commitVars, bucketVars>>

OnPromise(m) ==
    /\ m.type = "promise"
    /\ m.from \notin promisedFrom[m.to][m.sn]
    /\ CountPromise(m.to, m.sn, m.from)
    /\ Receive(m, {})
    /\ UNCHANGED <<joined, ballot, promised, grpPromised, valueVars, commitVars, bucketVars>>

-----------------------------------------------------------------------------
(* Phase 2 *)

\* ProposeIfDue: the first proposal cuts a batch, a later one repeats the value.
ProposeIfDue(s) ==
    LET n == Proposer(s)
    IN  /\ joined[n][s]
        /\ log[n][s] = None                          \* ~closed
        /\ phase[n][s] # "acceptSent"
        /\ prepared[n][s] \/ HasQuorum(n, s, promisedFrom[n][s])
        /\ prepared' = Set(prepared, n, s, TRUE)
        /\ phase' = Set(phase, n, s, "acceptSent")
        /\ IF lastVal[n][s] = None
           THEN \E v \in Cut(bucket[n]) :
                    /\ bucket' = RemoveFirst(n, v)
                    /\ held' = [held EXCEPT ![s] = v]
                    /\ lastVal' = Set(lastVal, n, s, v)
                    /\ acceptedFrom' = Set(acceptedFrom, n, s, {})
           ELSE UNCHANGED <<bucket, held, lastVal, acceptedFrom>>
        /\ Send(Accept(s, ballot[s], lastVal'[n][s]))
        /\ UNCHANGED <<joined, ballot, promised, promisedFrom, grpPromised, grpReady>>
        /\ UNCHANGED <<accepted, index, commitVars>>

OnAccept(m) ==
    LET n == m.to  s == m.sn
    IN  /\ m.type = "accept"
        /\ phase[n][s] # "committed" /\ m.ballot >= Bound(n, s)
        /\ promised' = Set(promised, n, s, m.ballot)
        /\ lastVal' = Set(lastVal, n, s, m.val)
        /\ accepted' = Set(accepted, n, s, accepted[n][s] \cup {<<m.ballot, m.val>>})
        /\ Receive(m, Accepted(s, m.ballot, n))
        /\ UNCHANGED <<joined, phase, ballot, prepared, promisedFrom, grpPromised, grpReady>>
        /\ UNCHANGED <<acceptedFrom, commitVars, bucketVars>>

\* onAccepted: any member that counts a majority commits its own value and
\* tells the others.
OnAccepted(m) ==
    LET n == m.to  s == m.sn  F == acceptedFrom[n][s] \cup {m.from}
    IN  /\ m.type = "accepted"
        /\ m.from \notin acceptedFrom[n][s]
        /\ acceptedFrom' = Set(acceptedFrom, n, s, F)
        /\ IF HasQuorum(n, s, F) /\ lastVal[n][s] # None /\ phase[n][s] # "committed"
           THEN /\ Receive(m, Commit(s, lastVal[n][s]))
                /\ TakeCommit(n, s, lastVal[n][s])
           ELSE Receive(m, {}) /\ UNCHANGED <<phase, commitVars, bucket, held>>
        /\ UNCHANGED <<joined, ballot, promiseVars, lastVal, accepted, index>>

OnCommit(m) ==
    LET n == m.to  s == m.sn
    IN  /\ m.type = "commit"
        /\ phase[n][s] # "committed"
        /\ TakeCommit(n, s, m.val)
        /\ Receive(m, IF lastVal[n][s] # m.val /\ ~fetching[n][s] THEN Fetch(s, n) ELSE {})
        /\ UNCHANGED <<joined, ballot, promiseVars, valueVars, index>>

-----------------------------------------------------------------------------
(* State transfer *)

\* The first answer to FetchMissingEntry, from any other member that has the
\* SN in its log: the value is taken, then refused if a COMMIT named another.
OnMissingEntry(m) ==
    LET n == m.to  s == m.sn
    IN  /\ m.type = "fetch"
        /\ phase[n][s] # "committed"
        /\ \E src \in Node \ {n} :
             /\ log[src][s] # None
             /\ lastVal' = Set(lastVal, n, s, log[src][s])
             /\ fetching' = Set(fetching, n, s, FALSE)
             /\ IF pending[n][s] \notin {None, log[src][s]}
                THEN UNCHANGED <<phase, pending, log, groupCommitCount, bucket, held>>
                ELSE /\ pending' = Set(pending, n, s, None)
                     /\ DeliverCommit(n, s, log[src][s])
        /\ Receive(m, {})
        /\ UNCHANGED <<joined, ballot, promiseVars, acceptedFrom, accepted, index>>

\* statetransfer.CatchUp asks for an SN a checkpoint covers: others have it.
CatchUp(n, s) ==
    /\ n \in CatchUpAt
    /\ log[n][s] = None
    /\ \E src \in Node \ {n} : log[src][s] # None
    /\ Send(Fetch(s, n))
    /\ UNCHANGED <<joined, phase, ballot, promiseVars, valueVars, commitVars, bucketVars>>

-----------------------------------------------------------------------------
(* tick: the proposer has sent its ACCEPT and waits for a quorum. *)

Waiting(s) ==
    /\ phase[Proposer(s)][s] = "acceptSent"
    /\ ~HasQuorum(Proposer(s), s, acceptedFrom[Proposer(s)][s])

\* After ViewChangeTimeout it gives the requests back and commits NOP alone.
GiveUp(s) ==
    LET n == Proposer(s)
    IN  /\ "giveup" \in Ticks /\ Waiting(s)
        /\ lastVal' = Set(lastVal, n, s, Nop)
        /\ bucket' = Resurrect(n, held[s])
        /\ held' = [held EXCEPT ![s] = Nop]
        /\ phase' = Set(phase, n, s, "committed")
        /\ log' = IF log[n][s] = None THEN Set(log, n, s, Nop) ELSE log
        /\ groupCommitCount' = [groupCommitCount EXCEPT ![n] = @ + 1]
        /\ UNCHANGED <<joined, ballot, promiseVars, acceptedFrom, accepted, pending, fetching>>
        /\ UNCHANGED <<index, msgs>>

ResendAccept(s) ==
    /\ "resend" \in Ticks /\ Waiting(s)
    /\ Send(Accept(s, ballot[s], lastVal[Proposer(s)][s]))
    /\ UNCHANGED <<joined, phase, ballot, promiseVars, valueVars, commitVars, bucketVars>>

RaiseBallot(s) == [ballot EXCEPT ![s] = @ + 1]

\* Mutant: a new round forgets the value already proposed.
Forget(n, s) == Set(lastVal, n, s, None)
KeepValue(n, s) == lastVal

\* The next round starts over with a higher ballot; the value stays.
NewRound(s) ==
    LET n == Proposer(s)
    IN  /\ "round" \in Ticks /\ Waiting(s) /\ ballot[s] < MaxBallot
        /\ ballot' = RaiseBallot(s)
        /\ lastVal' = KeepValue(n, s)
        /\ phase' = Set(phase, n, s, "init")
        /\ prepared' = Set(prepared, n, s, FALSE)
        /\ grpReady' = IF Single THEN -1 ELSE grpReady
        /\ promisedFrom' = Set(promisedFrom, n, s, {})
        /\ acceptedFrom' = Set(acceptedFrom, n, s, {})
        /\ Send(Prepare(s, ballot[s] + 1))
        /\ UNCHANGED <<joined, promised, grpPromised, accepted>>
        /\ UNCHANGED <<commitVars, bucketVars>>

-----------------------------------------------------------------------------

Arrive == \E n \in Node, r \in Req : AddDirectToBucket(n, r)
Join   == \E n \in Node, s \in SN : SetMembers(n, s)
Handle(m) == \/ OnPrepare(m) \/ OnPromise(m) \/ OnAccept(m) \/ OnAccepted(m)
             \/ OnCommit(m) \/ OnMissingEntry(m)
Tick(s) == GiveUp(s) \/ ResendAccept(s) \/ NewRound(s)

Next ==
    \/ Arrive
    \/ Join
    \/ \E m \in msgs : Handle(m)
    \/ \E s \in SN : ProposeIfDue(s) \/ Tick(s)
    \/ \E n \in Node, s \in SN : CatchUp(n, s)

Spec == Init /\ [][Next]_vars

-----------------------------------------------------------------------------
(* Properties *)

Ballots == [Node -> [SN -> Ballot]]
Values  == [Node -> [SN -> {None} \cup Batch]]
Flags   == [Node -> [SN -> BOOLEAN]]
Votes   == [Node -> [SN -> SUBSET Node]]

Message ==
    [type : {"prepare"}, sn : SN, ballot : Ballot, to : Node]
    \cup [type : {"promise", "accepted"}, sn : SN, ballot : Ballot, from : Node, to : Node]
    \cup [type : {"accept"}, sn : SN, ballot : Ballot, val : Batch, to : Node]
    \cup [type : {"commit"}, sn : SN, val : Batch, to : Node]
    \cup [type : {"fetch"}, sn : SN, to : Node]

InstanceTypes ==
    /\ joined \in Flags
    /\ phase \in [Node -> [SN -> {"init", "prepared", "acceptSent", "committed"}]]
    /\ promised \in Ballots /\ prepared \in Flags
    /\ promisedFrom \in Votes /\ acceptedFrom \in Votes
    /\ lastVal \in Values /\ pending \in Values /\ fetching \in Flags
    /\ ballot \in [SN -> Ballot] /\ held \in [SN -> Batch]

MemberTypes ==
    /\ grpPromised \in [Node -> Ballot] /\ grpReady \in {-1} \cup Ballot
    /\ bucket \in [Node -> SUBSET Req] /\ index \in [Node -> SUBSET Req]
    /\ \A n \in Node : bucket[n] \subseteq index[n]
    /\ log \in Values /\ groupCommitCount \in [Node -> Nat]
    /\ accepted \in [Node -> [SN -> SUBSET (Ballot \X Batch)]]

\* The types of the instances, of the members and of the messages in flight; a
\* bucket holds only requests its index knows (Prepend would panic).
TypeOK == InstanceTypes /\ MemberTypes /\ msgs \subseteq Message

\* No two members have different entries for an SN: two majorities share a
\* member (multipaxosinstance.go, setSegment), though ACCEPTEDs are counted
\* whatever their ballot and every member that counts a majority commits.
Agreement ==
    \A s \in SN, m, n \in Node :
        log[m][s] = None \/ log[n][s] = None \/ log[m][s] = log[n][s]

\* The members that accepted v for s, in whatever round.
Accepters(s, v) == {m \in Node : \E b \in Ballot : <<b, v>> \in accepted[m][s]}

\* What stands behind an entry: a majority of the group accepted it; or a member
\* accepted and decided it that may have counted before it knew the group; or it
\* is the NOP of a proposer that gave its batch up.
Backed(s, v) ==
    \/ 2 * Cardinality(Accepters(s, v)) > Cardinality(Node)
    \/ \E m \in Late \ {Proposer(s)} : log[m][s] # None /\ m \in Accepters(s, v)
    \/ "giveup" \in Ticks /\ v = Nop /\ log[Proposer(s)][s] = Nop

\* An entry gets into a log only after a majority of the group accepted it, and
\* so survives the loss of a minority (recordGroupCommit: "o COMMIT do MultiPaxos
\* já é a prova de durabilidade"), but in two cases: an instance that a message
\* created has quorum 0 until SetMembers, so that its member decides alone what
\* it accepted (newMPXInstance), and a proposer that gives up logs NOP (tick).
QuorumBacked ==
    \A s \in SN, n \in Node : log[n][s] # None => Backed(s, log[n][s])

\* A member that waits for the value of a COMMIT waits for one that a majority
\* accepted, and that no log contradicts: the fetch can be answered.
PendingBacked ==
    \A s \in SN, n \in Node :
        pending[n][s] # None =>
            /\ \E m \in Node : log[m][s] # None
            /\ \A m \in Node : log[m][s] \in {None, pending[n][s]}

\* A request a member has filed is in its bucket, in a batch it proposes, or in
\* its log: cutting, giving up and learning another value lose none.  What it
\* takes out of its bucket for the SN of another proposer was accepted for that
\* SN, even where its log has the NOP of a batch given up.
NothingLost ==
    \A n \in Node : \A r \in index[n] :
        \/ r \in bucket[n]
        \/ \E s \in SN :
              \/ Proposer(s) = n /\ r \in held[s]
              \/ log[n][s] # None /\ r \in log[n][s]
              \/ /\ Proposer(s) # n /\ log[n][s] # None
                 /\ \E m \in Node : \E e \in accepted[m][s] : r \in e[2]

\* The instances implement the decisions: the same entries in every log and,
\* under Single, every request at one SN only.
Decision == INSTANCE MpxDecision WITH Once <- Single
ImplementsDecision == Decision!Spec

\* Liveness.  Messages that are not lost are handled; the loop of runSegment
\* creates every instance of the window and proposes, and the ticker ticks.  The
\* rounds are bounded, so that no message can wait behind others for ever.
Fairness ==
    /\ \A n \in Node : WF_vars(\/ \E m \in msgs : m.to = n /\ Handle(m)
                               \/ \E s \in SN : SetMembers(n, s))
    /\ \A s \in SN : WF_vars(ProposeIfDue(s) \/ Tick(s))
TimelySpec == Spec /\ Fairness

\* Every SN is decided in the end, at every member: no hole is left in the log,
\* though the COMMIT may get to a member before the ACCEPT it names.
EveryoneDecides == <>(\A n \in Node, s \in SN : log[n][s] # None)

=============================================================================
