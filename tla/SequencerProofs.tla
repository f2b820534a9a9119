--------------------------- MODULE SequencerProofs ---------------------------
(* Theorems about Sequencer, for any number of nodes, operations and terms,  *)
(* any block size, and whichever handlers may be suspended.  That no number  *)
(* is given twice holds until one of two races is run, which the properties  *)
(* name (raced); so does the refinement of GsnOracle, or where nobody stands *)
(* for election.                                                             *)
EXTENDS Sequencer, FiniteSetTheorems, WellFoundedInduction, TLAPS

USE DEF Gsn

-----------------------------------------------------------------------------
(* Helpers *)

LEMMA LargerType ==
    ASSUME NEW a \in Int, NEW b \in Int
    PROVE  /\ Larger(a, b) \in {a, b}
           /\ Larger(a, b) >= a /\ Larger(a, b) >= b
  BY DEF Larger

\* A set of GSNs that is not empty has a greatest element.
LEMMA HasGreatest ==
    ASSUME NEW S \in SUBSET Gsn, S # {}
    PROVE  \E g \in S : \A h \in S : g >= h
<1> DEFINE T == {MaxGSN - g : g \in S}
<1>0. \A g \in S : g \in Nat /\ MaxGSN - g \in Nat
  BY ParamAssumption
<1>1. T \subseteq Nat /\ T # {}
  <2>1. T \subseteq Nat
    BY <1>0
  <2>2. PICK g \in S : TRUE
    OBVIOUS
  <2>3. MaxGSN - g \in T
    OBVIOUS
  <2> QED
    BY <2>1, <2>3
<1>2. PICK x \in T : \A y \in T : ~ (<<y, x>> \in OpToRel(<, Nat))
  BY <1>1, WFMin, NatLessThanWellFounded
<1>3. \A y \in T : ~ (y < x)
  BY <1>1, <1>2 DEF OpToRel
<1>4. PICK g \in S : x = MaxGSN - g
  OBVIOUS
<1>5. \A h \in S : g >= h
  <2> TAKE h \in S
  <2>1. MaxGSN - h \in T
    OBVIOUS
  <2>2. ~ (MaxGSN - h < MaxGSN - g)
    BY <2>1, <1>3, <1>4
  <2>3. g \in Int /\ h \in Int /\ MaxGSN \in Int
    BY ParamAssumption DEF Gsn
  <2>4. \A i, j, k \in Int : ~ (k - j < k - i) => i >= j
    OBVIOUS
  <2> QED
    BY <2>2, <2>3, <2>4
<1> QED
  BY <1>5

LEMMA MaxMetaType ==
    ASSUME NEW S \in SUBSET Gsn
    PROVE  MaxMeta(S) \in Gsn
<1>1. CASE S = {}
  BY <1>1, ParamAssumption DEF MaxMeta
<1>2. CASE S # {}
  <2>1. PICK g \in S : \A h \in S : g >= h
    BY <1>2, HasGreatest
  <2>2. MaxMeta(S) \in S
    BY <1>2, <2>1 DEF MaxMeta
  <2> QED
    BY <2>2
<1> QED
  BY <1>1, <1>2

LEMMA MetaHolesType ==
    ASSUME NEW meta, NEW skips, NEW upto \in Gsn
    PROVE  MetaHoles(meta, skips, upto) \in SUBSET Gsn
  BY ParamAssumption DEF MetaHoles

LEMMA ReserveType ==
    ASSUME NEW n \in Node, NEW lead \in BOOLEAN, NEW t \in Nat, NEW g \in Counter
    PROVE  /\ Reserve(n, lead, t, g) \in Counter
           /\ ReserveMsg(n, g) \subseteq Message
<1> DEFINE mark == Larger(g.confirmed, g.next - 1) + Block
<1>1. mark \in Nat
  BY ParamAssumption DEF Counter, Larger
<1>2. Reserve(n, lead, t, g) \in Counter
  <2>1. CASE Reserve(n, lead, t, g) = g
    BY <2>1
  <2>2. CASE /\ mark <= MaxGSN
             /\ Reserve(n, lead, t, g) = [g EXCEPT !.pending = mark, !.term = t, !.acks = {n}]
    <3>1. mark \in Gsn
      BY <2>2, <1>1, ParamAssumption
    <3> QED
      BY <2>2, <3>1 DEF Counter
  <2> QED
    BY <2>1, <2>2 DEF Reserve
<1>3. ReserveMsg(n, g) \subseteq Message
  BY DEF ReserveMsg, Counter, Message
<1> QED
  BY <1>2, <1>3

\* Two majorities of the group have a member in common.
LEMMA MajoritiesMeet ==
    ASSUME NEW S \in SUBSET Node, NEW T \in SUBSET Node, Majority(S), Majority(T)
    PROVE  S \cap T # {}
<1>1. IsFiniteSet(S) /\ IsFiniteSet(T) /\ IsFiniteSet(Node)
  BY FS_Subset, NodeAssumption
<1>2. Cardinality(S) \in Nat /\ Cardinality(T) \in Nat /\ Cardinality(Node) \in Nat
  BY <1>1, FS_CardinalityType
<1>3. Cardinality(S) + Cardinality(T) > Cardinality(Node)
  BY <1>2 DEF Majority
<1> QED
  BY <1>1, <1>3, FS_MajoritiesIntersect

-----------------------------------------------------------------------------
(* Type correctness *)

LEMMA SetGSNType ==
    ASSUME TypeOK, NEW n \in Node, NEW g \in Counter, NEW todo, NEW received,
           NEW sent \in SUBSET Message, SetGSN(n, g, todo, received, sent)
    PROVE  /\ gsn' \in [Node -> Counter]
           /\ acceptedUpTo' \in [Node -> Gsn]
           /\ raced' \in BOOLEAN
           /\ msgs' \subseteq Message
<1>1. gsn' \in [Node -> Counter] /\ raced' \in BOOLEAN
  BY DEF TypeOK, GsnTypes, SetGSN
<1>2. Larger(acceptedUpTo[n], g.pending) \in Gsn
  BY LargerType, ParamAssumption DEF TypeOK, GsnTypes, Counter
<1>3. acceptedUpTo' \in [Node -> Gsn]
  BY <1>2 DEF TypeOK, GsnTypes, SetGSN
<1>4. ReserveMsg(n, g) \subseteq Message
  BY ReserveType, ParamAssumption
<1>5. msgs' \subseteq Message
  BY <1>4 DEF TypeOK, SetGSN, Exchange
<1> QED
  BY <1>1, <1>3, <1>5

LEMMA SkipMsgType ==
    ASSUME NEW S \in SUBSET Gsn
    PROVE  SkipMsg(S) \in SUBSET Message
  BY DEF SkipMsg, Message

\* The step of a resumption, once its counter g, what it skips and what it still
\* misses are known.
Resumed(n, lead, t, done, g, skip, missing) ==
    /\ g.pending = 0
    /\ SetGSN(n, Reserve(n, lead, t, g), tasks \ done, {}, SkipMsg(skip))
    /\ skipped' = [skipped EXCEPT ![n] = @ \cup skip]
    /\ tasks' = (tasks \ done) \cup
                   (IF missing = {} THEN {}
                    ELSE {[kind |-> "holes", node |-> n, gsns |-> missing]})
    /\ UNCHANGED metadata

LEMMA ResumeCounter ==
    ASSUME TypeOK, NEW n \in Node, NEW lead \in BOOLEAN, NEW t \in Nat,
           NEW acc \in Gsn, NEW meta \in Gsn, NEW holes \in SUBSET Gsn, NEW done,
           Resume(n, lead, t, acc, meta, holes, done)
    PROVE  \E g \in Counter, skip, missing \in SUBSET Gsn :
             Resumed(n, lead, t, done, g, skip, missing)
<1> DEFINE maxAcc  == Larger(acc, acceptedUpTo[n])
           maxMeta == Larger(meta, MaxMeta(metadata[n]))
           old     == gsn[n].next
           resume  == ResumePoint(maxAcc, old)
           skip    == SkipRange(maxMeta, old, resume)
           fresh   == [gsn[n] EXCEPT !.next = resume, !.confirmed = resume - 1, !.pending = 0]
           missing == (holes \cup MetaHoles(metadata[n], skipped[n], maxMeta))
                         \ (metadata[n] \cup skipped[n] \cup skip)
<1>1. gsn[n] \in Counter /\ acceptedUpTo[n] \in Gsn /\ metadata[n] \in SUBSET Gsn
      /\ skipped[n] \in SUBSET Gsn
  BY DEF TypeOK, GsnTypes
<1>2. maxAcc \in Gsn /\ maxMeta \in Gsn
  BY <1>1, MaxMetaType, LargerType, ParamAssumption
<1>3. old \in 1 .. MaxGSN + 1
  BY <1>1 DEF Counter
<1> HIDE DEF maxAcc, maxMeta, old
<1>4. resume \in 1 .. MaxGSN + 1 /\ resume - 1 \in Gsn
  BY <1>2, <1>3, ParamAssumption DEF ResumePoint, Larger
<1> HIDE DEF resume
<1>5. skip \in SUBSET Gsn
  BY <1>2, <1>3, <1>4, ParamAssumption DEF SkipRange, Larger
<1> HIDE DEF skip
<1>6. fresh \in Counter /\ fresh.pending = 0
  <2>1. 0 \in Gsn
    BY ParamAssumption
  <2>2. \A c \in Gsn : LET g == [gsn[n] EXCEPT !.next = resume, !.confirmed = c, !.pending = 0]
                       IN  g \in Counter /\ g.pending = 0
    BY <1>1, <1>4, <2>1 DEF Counter
  <2> QED
    BY <1>4, <2>2
<1>7. missing \in SUBSET Gsn
  BY <1>2, MetaHolesType
<1> HIDE DEF fresh, missing
<1>8. Resumed(n, lead, t, done, fresh, skip, missing)
  BY <1>6 DEF Resumed, Resume, fresh, missing, skip, resume, maxAcc, maxMeta, old
<1> QED
  BY <1>5, <1>6, <1>7, <1>8

LEMMA ResumeTypes ==
    ASSUME TypeOK, NEW n \in Node, NEW lead \in BOOLEAN, NEW t \in Nat,
           NEW acc \in Gsn, NEW meta \in Gsn, NEW holes \in SUBSET Gsn, NEW done,
           Resume(n, lead, t, acc, meta, holes, done)
    PROVE  GsnTypes' /\ tasks' \subseteq Task /\ msgs' \subseteq Message
<1>0. PICK g \in Counter, skip, missing \in SUBSET Gsn :
        Resumed(n, lead, t, done, g, skip, missing)
  BY ResumeCounter, Zenon
<1>1. /\ SetGSN(n, Reserve(n, lead, t, g), tasks \ done, {}, SkipMsg(skip))
      /\ skipped' = [skipped EXCEPT ![n] = @ \cup skip]
      /\ tasks' = (tasks \ done) \cup
                     (IF missing = {} THEN {}
                      ELSE {[kind |-> "holes", node |-> n, gsns |-> missing]})
      /\ UNCHANGED metadata
  BY <1>0 DEF Resumed
<1>2. /\ gsn' \in [Node -> Counter] /\ acceptedUpTo' \in [Node -> Gsn] /\ raced' \in BOOLEAN
      /\ msgs' \subseteq Message
  <2>1. Reserve(n, lead, t, g) \in Counter
    BY ReserveType
  <2>2. SkipMsg(skip) \in SUBSET Message
    BY SkipMsgType
  <2> QED
    BY <1>1, <2>1, <2>2, SetGSNType
<1>3. skipped' \in [Node -> SUBSET Gsn] /\ metadata' \in [Node -> SUBSET Gsn]
  BY <1>1 DEF TypeOK, GsnTypes
<1>4. tasks' \subseteq Task
  BY <1>1 DEF TypeOK, Task
<1> QED
  BY <1>2, <1>3, <1>4 DEF GsnTypes

LEMMA MessageFields ==
    ASSUME NEW m \in Message
    PROVE  /\ m.type \in {"PreVoteRequest", "VoteRequest"} => m.term \in Nat /\ m.from \in Node
           /\ m.type = "PreVoteResponse" => m.term \in Nat /\ m.from \in Node
           /\ m.type = "VoteResponse" =>
                /\ m.term \in Nat /\ m.accepted \in Gsn /\ m.meta \in Gsn
                /\ m.holes \in SUBSET Gsn /\ m.from \in Node /\ m.to \in Node
           /\ m.type = "Heartbeat" =>
                m.term \in Nat /\ m.from \in Node /\ m.skips \in SUBSET Gsn
           /\ m.type = "Reserve" => m.term \in Nat /\ m.upto \in Gsn /\ m.from \in Node
           /\ m.type = "ReserveAck" => m.term \in Nat /\ m.upto \in Gsn /\ m.from \in Node
           /\ m.type = "GSNRequest" => m.req \in Req /\ m.attempt \in Nat
           /\ m.type = "GSNResponse" => m.req \in Req /\ m.gsn \in Gsn
           /\ m.type = "Meta" => m.gsn \in Gsn
           /\ m.type = "MetaSkip" => m.gsns \in SUBSET Gsn
  BY DEF Message

LEMMA TaskFields ==
    ASSUME NEW t \in Task
    PROVE  /\ t.node \in Node
           /\ t.kind = "holes" => t.gsns \in SUBSET Gsn
           /\ t.kind = "accept" => t.term \in Nat /\ t.upto \in Gsn /\ t.to \in Node
  BY DEF Task

LEMMA InitTyped == Init => TypeOK
<1> SUFFICES ASSUME Init PROVE TypeOK
  OBVIOUS
<1> DEFINE none == [next |-> 1, confirmed |-> 0, pending |-> 0, term |-> 0, acks |-> {}]
           first == Reserve(Bootstrap, TRUE, 0, none)
<1>1. 0 \in Gsn /\ 1 \in 1 .. MaxGSN + 1
  BY ParamAssumption
<1>2. none \in Counter
  BY <1>1 DEF Counter
<1>3. first \in Counter /\ first.pending \in Gsn
  BY <1>2, ReserveType, NodeAssumption DEF Counter
<1>4. ReserveMsg(Bootstrap, first) \subseteq Message
  BY <1>3, ReserveType, NodeAssumption
<1> HIDE DEF none, first
<1>5. /\ gsn = [n \in Node |-> IF n = Bootstrap THEN first ELSE none]
      /\ acceptedUpTo = [n \in Node |-> IF n = Bootstrap THEN first.pending ELSE 0]
      /\ msgs = ReserveMsg(Bootstrap, first)
  BY DEF Init, none, first
<1>6. ElectionTypes
  BY <1>1, NodeAssumption DEF Init, ElectionTypes, Status
<1>7. GsnTypes
  BY <1>1, <1>2, <1>3, <1>5 DEF Init, GsnTypes
<1>8. RequestTypes
  BY <1>1 DEF Init, RequestTypes
<1> QED
  BY <1>4, <1>5, <1>6, <1>7, <1>8 DEF Init, TypeOK

\* The vote fields that StartElection and HandleVoteRequest compute.
LEMMA StartElectionTyped ==
    ASSUME TypeOK, NEW n \in Node, StartElection(n)
    PROVE  /\ term' \in [Node -> Nat] /\ votedFor' \in [Node -> Node \cup {Nobody}]
           /\ status' \in [Node -> Status] /\ leader' \in [Node -> Node]
           /\ votes' \in [Node -> SUBSET Node] /\ voteMaxAccepted' \in [Node -> Gsn]
           /\ voteMaxMeta' \in [Node -> Gsn] /\ voteHoles' \in [Node -> SUBSET Gsn]
           /\ msgs' \subseteq Message
<1>1. MaxMeta(metadata[n]) \in Gsn
  BY MaxMetaType DEF TypeOK, GsnTypes
<1>2. MetaHoles(metadata[n], skipped[n], MaxMeta(metadata[n])) \in SUBSET Gsn
  BY <1>1, MetaHolesType
<1>3. acceptedUpTo[n] \in Gsn /\ term[n] + 1 \in Nat
  BY DEF TypeOK, GsnTypes, ElectionTypes
<1>4. msgs' \subseteq Message
  BY <1>3 DEF StartElection, TypeOK, Message, Send, Exchange
<1>5. voteMaxMeta' \in [Node -> Gsn] /\ voteHoles' \in [Node -> SUBSET Gsn]
  BY <1>1, <1>2 DEF StartElection, TypeOK, ElectionTypes
<1>6. votes' \in [Node -> SUBSET Node] /\ voteMaxAccepted' \in [Node -> Gsn]
  BY <1>3 DEF StartElection, TypeOK, ElectionTypes
<1> QED
  BY <1>3, <1>4, <1>5, <1>6 DEF StartElection, TypeOK, ElectionTypes, Status

LEMMA CountVoteTyped ==
    ASSUME TypeOK, NEW n \in Node, NEW m \in msgs, CountVote(n, m)
    PROVE  /\ votes' \in [Node -> SUBSET Node]
           /\ voteMaxAccepted' \in [Node -> Gsn] /\ voteMaxMeta' \in [Node -> Gsn]
           /\ voteHoles' \in [Node -> SUBSET Gsn]
<1>1. m.from \in Node /\ m.accepted \in Gsn /\ m.meta \in Gsn /\ m.holes \in SUBSET Gsn
  BY MessageFields DEF CountVote, TypeOK
<1>2. /\ Larger(voteMaxAccepted[n], m.accepted) \in Gsn
      /\ Larger(voteMaxMeta[n], m.meta) \in Gsn
  BY <1>1, ParamAssumption DEF Larger, TypeOK, ElectionTypes
<1> QED
  BY <1>1, <1>2 DEF CountVote, TypeOK, ElectionTypes

LEMMA ElectionTyped ==
    ASSUME TypeOK, NEW n \in Node, Election(n)
    PROVE  TypeOK'
<1> USE DEF TypeOK
<1>1. ASSUME OnElectionTimeout(n) PROVE TypeOK'
  <2>1. msgs' \subseteq Message
    BY <1>1 DEF OnElectionTimeout, ElectionTypes, Message, Send, Exchange
  <2>2. ElectionTypes'
    BY <1>1 DEF OnElectionTimeout, ElectionTypes, electVars, voteVars
  <2> QED
    BY <1>1, <2>1, <2>2
       DEF OnElectionTimeout, GsnTypes, RequestTypes, gsnVars, metaVars, reqVars
<1>2. ASSUME ElectSuspended(n) PROVE TypeOK'
  <2>1. ElectionTypes' /\ msgs' \subseteq Message
    BY <1>2, StartElectionTyped DEF ElectSuspended, ElectionTypes, electVars, preVars, voteVars
  <2> QED
    BY <1>2, <2>1 DEF ElectSuspended, GsnTypes, RequestTypes, gsnVars, metaVars, reqVars
<1>3. ASSUME Heartbeat(n) PROVE TypeOK'
  <2>1. msgs' \subseteq Message
    BY <1>3 DEF Heartbeat, ElectionTypes, GsnTypes, Message, Send, Exchange
  <2> QED
    BY <1>3, <2>1 DEF Heartbeat, ElectionTypes, GsnTypes, RequestTypes,
                      electVars, preVars, voteVars, gsnVars, metaVars, reqVars
<1>4. ASSUME NEW t \in tasks, t.node = n, ResumeSuspended(t) PROVE TypeOK'
  <2>1. Leads(n) \in BOOLEAN
    BY DEF Leads
  <2>2. /\ term[n] \in Nat /\ voteMaxAccepted[n] \in Gsn /\ voteMaxMeta[n] \in Gsn
        /\ voteHoles[n] \in SUBSET Gsn
    BY DEF ElectionTypes
  <2>3. Resume(n, Leads(n), term[n], voteMaxAccepted[n], voteMaxMeta[n], voteHoles[n], {t})
    BY <1>4 DEF ResumeSuspended
  <2>4. GsnTypes' /\ tasks' \subseteq Task /\ msgs' \subseteq Message
    BY <2>1, <2>2, <2>3, ResumeTypes
  <2> QED
    BY <1>4, <2>4 DEF ResumeSuspended, ElectionTypes, RequestTypes,
                      electVars, preVars, voteVars, reqVars
<1>5. ASSUME NEW m \in msgs, HandlePreVoteRequest(n, m) PROVE TypeOK'
  <2>1. m.term \in Nat /\ m.from \in Node
    BY <1>5, MessageFields DEF HandlePreVoteRequest
  <2>2. msgs' \subseteq Message
    BY <1>5, <2>1 DEF HandlePreVoteRequest, Message, Send, Exchange
  <2> QED
    BY <1>5, <2>2 DEF HandlePreVoteRequest, ElectionTypes, GsnTypes, RequestTypes,
                      electVars, preVars, voteVars, gsnVars, metaVars, reqVars
<1>6. ASSUME NEW m \in msgs, HandlePreVoteResponse(n, m) PROVE TypeOK'
  <2>1. m.from \in Node
    BY <1>6, MessageFields DEF HandlePreVoteResponse, PreVoteGranted
  <2>2. preVotes' \in [Node -> SUBSET Node] /\ preVoteTerm' \in [Node -> Nat]
    <3>1. \/ preVotes' = [preVotes EXCEPT ![n] = preVotes[n] \cup {m.from}]
          \/ preVotes' = [preVotes EXCEPT ![n] = {}]
      BY <1>6, Zenon DEF HandlePreVoteResponse
    <3>2. preVoteTerm' = preVoteTerm
      BY <1>6 DEF HandlePreVoteResponse
    <3> QED
      BY <2>1, <3>1, <3>2 DEF ElectionTypes
  <2>3. ElectionTypes' /\ msgs' \subseteq Message
    <3>1. CASE UNCHANGED <<electVars, voteVars, msgs>>
      BY <2>2, <3>1 DEF ElectionTypes, electVars, voteVars
    <3>2. CASE StartElection(n)
      BY <2>2, <3>2, StartElectionTyped DEF ElectionTypes
    <3>3. \/ UNCHANGED <<electVars, voteVars, msgs>>
          \/ StartElection(n)
      BY <1>6, Zenon DEF HandlePreVoteResponse
    <3> QED
      BY <3>1, <3>2, <3>3
  <2>4. tasks' \subseteq Task
    BY <1>6 DEF HandlePreVoteResponse, Task
  <2> QED
    BY <1>6, <2>3, <2>4 DEF HandlePreVoteResponse, GsnTypes, RequestTypes,
                            gsnVars, metaVars, reqVars
<1>7. ASSUME NEW m \in msgs, HandleVoteRequest(n, m) PROVE TypeOK'
  <2> DEFINE newer   == m.term > term[n]
             voted   == IF newer THEN Nobody ELSE votedFor[n]
             now     == IF newer THEN m.term ELSE term[n]
             granted == m.term = now /\ MayVote(voted, m.from)
             meta    == MaxMeta(metadata[n])
             holes   == MetaHoles(metadata[n], skipped[n], meta)
  <2>1. m.term \in Nat /\ m.from \in Node
    BY <1>7, MessageFields DEF HandleVoteRequest
  <2>2. meta \in Gsn /\ acceptedUpTo[n] \in Gsn
    BY MaxMetaType DEF GsnTypes
  <2>3. holes \in SUBSET Gsn
    BY <2>2, MetaHolesType
  <2>4. now \in Nat /\ voted \in Node \cup {Nobody} /\ granted \in BOOLEAN
    BY <2>1 DEF ElectionTypes
  <2> HIDE DEF newer, voted, now, granted, meta, holes
  <2>5. /\ term' = [term EXCEPT ![n] = now]
        /\ votedFor' = [votedFor EXCEPT ![n] = IF granted THEN m.from ELSE voted]
        /\ status' = [status EXCEPT ![n] = IF newer THEN "follower" ELSE @]
        /\ Send({[type |-> "VoteResponse", term |-> now, reqTerm |-> m.term,
                  granted |-> granted, accepted |-> acceptedUpTo[n], meta |-> meta,
                  holes |-> holes, from |-> n, to |-> m.from]})
        /\ UNCHANGED <<leader, preVars, voteVars, gsnVars, metaVars, reqVars, tasks>>
    BY <1>7 DEF HandleVoteRequest, Follow, newer, voted, now, granted, meta, holes
  <2>6. msgs' \subseteq Message
    <3> DEFINE reply == [type |-> "VoteResponse", term |-> now, reqTerm |-> m.term,
                         granted |-> granted, accepted |-> acceptedUpTo[n], meta |-> meta,
                         holes |-> holes, from |-> n, to |-> m.from]
    <3>1. reply \in [type : {"VoteResponse"}, term : Nat, reqTerm : Nat, granted : BOOLEAN,
                     accepted : Gsn, meta : Gsn, holes : SUBSET Gsn, from : Node, to : Node]
      BY <2>1, <2>2, <2>3, <2>4
    <3> HIDE DEF reply
    <3>2. reply \in Message
      BY <3>1 DEF Message
    <3> QED
      BY <2>5, <3>2 DEF reply, Send, Exchange
  <2>7. ElectionTypes'
    BY <2>1, <2>4, <2>5 DEF ElectionTypes, Status, preVars, voteVars
  <2> QED
    BY <2>5, <2>6, <2>7 DEF GsnTypes, RequestTypes, gsnVars, metaVars, reqVars
<1>8. ASSUME NEW m \in msgs, VoteResponseStepDown(n, m) PROVE TypeOK'
  <2>1. m.term \in Nat
    BY <1>8, MessageFields DEF VoteResponseStepDown
  <2>2. ElectionTypes'
    BY <1>8, <2>1 DEF VoteResponseStepDown, ElectionTypes, Status, preVars, voteVars
  <2> QED
    BY <1>8, <2>2 DEF VoteResponseStepDown, GsnTypes, RequestTypes, gsnVars, metaVars, reqVars
<1>9. ASSUME NEW m \in msgs, HandleVote(n, m) PROVE TypeOK'
  BY <1>9, CountVoteTyped DEF HandleVote, ElectionTypes, GsnTypes, RequestTypes,
                     electVars, preVars, gsnVars, metaVars, reqVars
<1>10. ASSUME NEW m \in msgs, WinElection(n, m) PROVE TypeOK'
  <2>1. CountVote(n, m)
    BY <1>10 DEF WinElection
  <2>2. term[n] \in Nat /\ voteMaxAccepted'[n] \in Gsn /\ voteMaxMeta'[n] \in Gsn
        /\ voteHoles'[n] \in SUBSET Gsn
    BY <2>1, CountVoteTyped DEF ElectionTypes
  <2>3. GsnTypes' /\ tasks' \subseteq Task /\ msgs' \subseteq Message
    <3>1. CASE "resume" \in Preempt
      BY <1>10, <2>2, <3>1 DEF WinElection, GsnTypes, gsnVars, metaVars, Task
    <3>2. CASE "resume" \notin Preempt
      BY <1>10, <2>2, <3>2, ResumeTypes DEF WinElection
    <3> QED
      BY <3>1, <3>2
  <2>4. ElectionTypes'
    BY <1>10, <2>1, CountVoteTyped DEF WinElection, ElectionTypes, Status, preVars
  <2> QED
    BY <1>10, <2>3, <2>4 DEF WinElection, RequestTypes, reqVars
<1>11. ASSUME NEW m \in msgs, HandleHeartbeat(n, m) PROVE TypeOK'
  <2>1. m.term \in Nat /\ m.from \in Node /\ m.skips \in SUBSET Gsn
    BY <1>11, MessageFields DEF HandleHeartbeat
  <2>2. ElectionTypes'
    BY <1>11, <2>1 DEF HandleHeartbeat, ElectionTypes, Status, electVars, preVars, voteVars
  <2>3. GsnTypes'
    BY <1>11, <2>1 DEF HandleHeartbeat, GsnTypes, gsnVars
  <2> QED
    BY <1>11, <2>2, <2>3 DEF HandleHeartbeat, RequestTypes, reqVars
<1> QED
  BY <1>1, <1>2, <1>3, <1>4, <1>5, <1>6, <1>7, <1>8, <1>9, <1>10, <1>11 DEF Election

LEMMA ReservationTyped ==
    ASSUME TypeOK, NEW n \in Node, Reservation(n)
    PROVE  TypeOK'
<1> USE DEF TypeOK
<1>1. ASSUME NEW q \in Node, NEW t \in Nat, NEW upto \in Gsn, NEW to \in Node,
             AcceptMark(q, t, upto, to)
      PROVE  acceptedUpTo' \in [Node -> Gsn] /\ msgs' \subseteq Message
  <2>1. Larger(acceptedUpTo[q], upto) \in Gsn
    BY ParamAssumption DEF Larger, GsnTypes
  <2>2. ReserveAck(q, t, upto, to) \in Message
    BY DEF ReserveAck, Message
  <2> QED
    BY <1>1, <2>1, <2>2 DEF AcceptMark, GsnTypes, Send, Exchange
<1>2. ASSUME NEW m \in msgs, HandleReserve(n, m) PROVE TypeOK'
  <2>1. m.term \in Nat /\ m.upto \in Gsn /\ m.from \in Node
    BY <1>2, MessageFields DEF HandleReserve
  <2>2. acceptedUpTo' \in [Node -> Gsn] /\ msgs' \subseteq Message /\ tasks' \subseteq Task
    <3>1. CASE "accept" \in Preempt
      BY <1>2, <2>1, <3>1 DEF HandleReserve, GsnTypes, Task
    <3>2. CASE "accept" \notin Preempt
      BY <1>1, <1>2, <2>1, <3>2 DEF HandleReserve
    <3> QED
      BY <3>1, <3>2
  <2> QED
    BY <1>2, <2>2 DEF HandleReserve, ElectionTypes, GsnTypes, RequestTypes,
                      electVars, preVars, voteVars, metaVars, reqVars
<1>3. ASSUME NEW m \in msgs, HandleReserveAck(n, m) PROVE TypeOK'
  <2> DEFINE g == [gsn[n] EXCEPT !.acks = @ \cup {m.from}]
             h == IF Majority(g.acks) THEN ConfirmReservation(g) ELSE g
  <2>1. m.upto \in Gsn /\ m.from \in Node
    BY <1>3, MessageFields DEF HandleReserveAck
  <2>2. g \in Counter
    BY <2>1 DEF GsnTypes, Counter
  <2> HIDE DEF g
  <2>3. h \in Counter
    <3>1. 0 \in Gsn
      BY ParamAssumption
    <3>2. [g EXCEPT !.confirmed = g.pending, !.pending = 0] \in Counter
      BY <2>2, <3>1 DEF Counter
    <3> QED
      BY <2>2, <3>2 DEF ConfirmReservation
  <2> HIDE DEF h
  <2>4. gsn' = [gsn EXCEPT ![n] = h]
    BY <1>3 DEF HandleReserveAck, g, h
  <2>5. gsn' \in [Node -> Counter]
    BY <2>3, <2>4 DEF GsnTypes
  <2>6. UNCHANGED <<electVars, preVars, voteVars, acceptedUpTo, raced, metaVars, reqVars,
                    tasks, msgs>>
    BY <1>3 DEF HandleReserveAck
  <2> QED
    BY <2>5, <2>6 DEF ElectionTypes, GsnTypes, RequestTypes,
                      electVars, preVars, voteVars, metaVars, reqVars
<1>4. ASSUME NEW t \in tasks, t.node = n, AcceptSuspended(t) PROVE TypeOK'
  <2>1. t.term \in Nat /\ t.upto \in Gsn /\ t.to \in Node
    BY <1>4, TaskFields DEF AcceptSuspended
  <2>2. acceptedUpTo' \in [Node -> Gsn] /\ msgs' \subseteq Message
    BY <1>1, <1>4, <2>1 DEF AcceptSuspended
  <2> QED
    BY <1>4, <2>2 DEF AcceptSuspended, ElectionTypes, GsnTypes, RequestTypes,
                      electVars, preVars, voteVars, metaVars, reqVars
<1> QED
  BY <1>2, <1>3, <1>4 DEF Reservation

\* allocateGSN up to its wait, whoever calls it.
LEMMA StartAllocationTyped ==
    ASSUME TypeOK, NEW n \in Node, NEW r \in Req, NEW k \in Nat, NEW received,
           StartAllocation(n, r, k, received)
    PROVE  /\ gsn' \in [Node -> Counter] /\ acceptedUpTo' \in [Node -> Gsn]
           /\ raced' \in BOOLEAN
           /\ waiting' \subseteq Node \X Req \X Nat /\ msgs' \subseteq Message
<1> DEFINE h == IF gsn[n].next > gsn[n].confirmed
                THEN Reserve(n, Leads(n), term[n], gsn[n]) ELSE gsn[n]
<1>1. gsn[n] \in Counter /\ term[n] \in Nat /\ Leads(n) \in BOOLEAN
  BY DEF TypeOK, GsnTypes, ElectionTypes, Leads
<1>2. h \in Counter
  BY <1>1, ReserveType
<1> HIDE DEF h
<1>3. SetGSN(n, h, tasks, received, {})
  BY DEF StartAllocation, h
<1>4. waiting' \subseteq Node \X Req \X Nat
  BY DEF StartAllocation, TypeOK, RequestTypes
<1> QED
  BY <1>2, <1>3, <1>4, SetGSNType

LEMMA AllocationTyped ==
    ASSUME TypeOK, NEW n \in Node, Allocation(n)
    PROVE  TypeOK'
<1>0. gsn[n] \in Counter /\ term[n] \in Nat /\ Leads(n) \in BOOLEAN
  BY DEF TypeOK, GsnTypes, ElectionTypes, Leads
<1>1. ASSUME NEW m \in msgs, HandleGSNRequest(n, m) PROVE TypeOK'
  <2>1. m.type = "GSNRequest" /\ m.req \in Req /\ m.attempt \in Nat /\ m \in Message
    BY <1>1, MessageFields DEF HandleGSNRequest, TypeOK
  <2>2. /\ gsn' \in [Node -> Counter] /\ acceptedUpTo' \in [Node -> Gsn]
        /\ raced' \in BOOLEAN
        /\ waiting' \subseteq Node \X Req \X Nat /\ msgs' \subseteq Message
    <3>1. CASE IsLeader(n)
      BY <1>1, <2>1, <3>1, StartAllocationTyped DEF HandleGSNRequest
    <3>2. CASE ~IsLeader(n)
      <4>1. leader[n] \in Node
        BY DEF TypeOK, ElectionTypes
      <4>2. [m EXCEPT !.to = leader[n]] \in Message
        BY <2>1, <4>1 DEF Message
      <4> QED
        BY <1>1, <3>2, <4>2
           DEF HandleGSNRequest, TypeOK, GsnTypes, RequestTypes, gsnVars, Exchange
    <3> QED
      BY <3>1, <3>2
  <2> QED
    BY <1>1, <2>2 DEF HandleGSNRequest, TypeOK, ElectionTypes, GsnTypes, RequestTypes,
                      electVars, preVars, voteVars, metaVars
<1>2. ASSUME NEW r \in Req, NEW k \in Nat, RetryReservation(n, r, k) PROVE TypeOK'
  <2>1. Reserve(n, Leads(n), term[n], gsn[n]) \in Counter
    BY <1>0, ReserveType
  <2>2. SetGSN(n, Reserve(n, Leads(n), term[n], gsn[n]), tasks, {}, {})
    BY <1>2 DEF RetryReservation
  <2>3. /\ gsn' \in [Node -> Counter] /\ acceptedUpTo' \in [Node -> Gsn] /\ raced' \in BOOLEAN
        /\ msgs' \subseteq Message
    BY <2>1, <2>2, SetGSNType
  <2> QED
    BY <1>2, <2>3 DEF RetryReservation, TypeOK, ElectionTypes, GsnTypes, RequestTypes,
                      electVars, preVars, voteVars, metaVars, reqVars
<1>3. ASSUME NEW r \in Req, NEW k \in Nat, Allocate(n, r, k) PROVE TypeOK'
  <2> DEFINE g    == gsn[n].next
             used == [gsn[n] EXCEPT !.next = g + 1]
             h    == IF gsn[n].confirmed - g < Block \div 2
                     THEN Reserve(n, Leads(n), term[n], used) ELSE used
             sent == IF Proxy[r] = n THEN {}
                     ELSE {[type |-> "GSNResponse", req |-> r, gsn |-> g]}
  <2>1. g \in Gsn /\ g + 1 \in 1 .. MaxGSN + 1
    BY <1>0, <1>3, ParamAssumption DEF Allocate, Counter
  <2>2. used \in Counter
    BY <1>0, <2>1 DEF Counter
  <2>3. sent \in SUBSET Message
    BY <2>1 DEF Message
  <2> HIDE DEF used, sent
  <2>4. h \in Counter
    BY <1>0, <2>2, ReserveType
  <2> HIDE DEF h, g
  <2>5. /\ SetGSN(n, h, tasks, {}, sent)
        /\ waiting' = waiting \ {<<n, r, k>>}
        /\ issued' = issued \cup {[gsn |-> g, by |-> n, req |-> r, attempt |-> k]}
        /\ Answered(r, g) \/ UNCHANGED <<reqStatus, answer>>
        /\ UNCHANGED <<electVars, preVars, voteVars, metaVars, attempts, tasks>>
    BY <1>3, Zenon DEF Allocate, g, used, h, sent
  <2>6. /\ gsn' \in [Node -> Counter] /\ acceptedUpTo' \in [Node -> Gsn] /\ raced' \in BOOLEAN
        /\ msgs' \subseteq Message
    BY <2>3, <2>4, <2>5, SetGSNType
  <2>7. RequestTypes'
    BY <2>1, <2>5 DEF TypeOK, RequestTypes, Answered
  <2> QED
    BY <2>5, <2>6, <2>7 DEF TypeOK, ElectionTypes, GsnTypes,
                            electVars, preVars, voteVars, metaVars
<1>4. ASSUME NEW r \in Req, NEW k \in Nat, GiveUpAllocation(n, r, k) PROVE TypeOK'
  BY <1>4 DEF GiveUpAllocation, TypeOK, ElectionTypes, GsnTypes, RequestTypes,
              electVars, preVars, voteVars, gsnVars, metaVars
<1> QED
  BY <1>1, <1>2, <1>3, <1>4, ParamAssumption DEF Allocation

LEMMA RequestTyped ==
    ASSUME TypeOK, NEW r \in Req, Request(r)
    PROVE  TypeOK'
<1>0. Proxy[r] \in Node /\ attempts[r] + 1 \in Nat
  BY ParamAssumption DEF TypeOK, RequestTypes
<1>1. ASSUME SendGSNRequest(r) PROVE TypeOK'
  <2> DEFINE p == Proxy[r]
             k == attempts[r] + 1
  <2>1. /\ gsn' \in [Node -> Counter] /\ acceptedUpTo' \in [Node -> Gsn]
        /\ raced' \in BOOLEAN
        /\ waiting' \subseteq Node \X Req \X Nat /\ msgs' \subseteq Message
    <3>1. CASE IsLeader(p)
      BY <1>0, <1>1, <3>1, StartAllocationTyped DEF SendGSNRequest
    <3>2. CASE ~IsLeader(p)
      <4>1. leader[p] \in Node
        BY <1>0 DEF TypeOK, ElectionTypes
      <4>2. [type |-> "GSNRequest", req |-> r, attempt |-> k, to |-> leader[p]] \in Message
        BY <1>0, <4>1 DEF Message
      <4> QED
        BY <1>1, <3>2, <4>2
           DEF SendGSNRequest, TypeOK, GsnTypes, RequestTypes, gsnVars, Send, Exchange
    <3> QED
      BY <3>1, <3>2
  <2>2. /\ reqStatus' \in [Req -> {"new", "asking", "local", "answered", "published", "failed"}]
        /\ attempts' \in [Req -> Nat]
    BY <1>0, <1>1 DEF SendGSNRequest, TypeOK, RequestTypes
  <2> QED
    BY <1>1, <2>1, <2>2 DEF SendGSNRequest, TypeOK, ElectionTypes, GsnTypes, RequestTypes,
                            electVars, preVars, voteVars, metaVars
<1>2. ASSUME ExhaustRequest(r) PROVE TypeOK'
  BY <1>2 DEF ExhaustRequest, TypeOK, ElectionTypes, GsnTypes, RequestTypes,
              electVars, preVars, voteVars, gsnVars, metaVars
<1>3. ASSUME PublishMETA(r) PROVE TypeOK'
  <2>1. answer[r] \in Gsn
    BY DEF TypeOK, RequestTypes
  <2>2. msgs' \subseteq Message
    BY <1>3, <2>1 DEF PublishMETA, TypeOK, Message, Send, Exchange
  <2>3. GsnTypes' /\ RequestTypes'
    BY <1>0, <1>3, <2>1 DEF PublishMETA, TypeOK, GsnTypes, RequestTypes, gsnVars
  <2> QED
    BY <1>3, <2>2, <2>3 DEF PublishMETA, TypeOK, ElectionTypes, electVars, preVars, voteVars
<1>4. ASSUME NEW m \in msgs, m.req = r, HandleGSNResponse(m) PROVE TypeOK'
  <2>1. m.gsn \in Gsn
    BY <1>4, MessageFields DEF HandleGSNResponse, TypeOK
  <2>2. RequestTypes'
    BY <1>4, <2>1 DEF HandleGSNResponse, Answered, TypeOK, RequestTypes
  <2> QED
    BY <1>4, <2>2 DEF HandleGSNResponse, TypeOK, ElectionTypes, GsnTypes,
                      electVars, preVars, voteVars, gsnVars, metaVars
<1> QED
  BY <1>1, <1>2, <1>3, <1>4 DEF Request

LEMMA MetaTyped ==
    ASSUME TypeOK, NEW n \in Node, Meta(n)
    PROVE  TypeOK'
<1>1. ASSUME NEW m \in msgs, HandleMETAStream(n, m) PROVE TypeOK'
  <2>1. m.gsn \in Gsn
    BY <1>1, MessageFields DEF HandleMETAStream, TypeOK
  <2> QED
    BY <1>1, <2>1 DEF HandleMETAStream, TypeOK, ElectionTypes, GsnTypes, RequestTypes,
                      electVars, preVars, voteVars, gsnVars, reqVars
<1>2. ASSUME NEW m \in msgs, HandleMETASkip(n, m) PROVE TypeOK'
  <2>1. m.gsns \in SUBSET Gsn
    BY <1>2, MessageFields DEF HandleMETASkip, TypeOK
  <2> QED
    BY <1>2, <2>1 DEF HandleMETASkip, TypeOK, ElectionTypes, GsnTypes, RequestTypes,
                      electVars, preVars, voteVars, gsnVars, reqVars
<1>3. ASSUME NEW t \in tasks, t.node = n, SkipMissing(t) PROVE TypeOK'
  <2> DEFINE still == IF IsLeader(n) THEN t.gsns \ (metadata[n] \cup skipped[n]) ELSE {}
  <2>1. still \in SUBSET Gsn
    BY <1>3, TaskFields DEF SkipMissing, TypeOK
  <2>2. SkipMsg(still) \in SUBSET Message
    BY <2>1, SkipMsgType
  <2> HIDE DEF still
  <2>3. /\ tasks' = tasks \ {t}
        /\ skipped' = [skipped EXCEPT ![n] = @ \cup still]
        /\ Send(SkipMsg(still))
        /\ UNCHANGED <<electVars, preVars, voteVars, gsnVars, metadata, reqVars>>
    BY <1>3 DEF SkipMissing, still
  <2> QED
    BY <2>1, <2>2, <2>3 DEF TypeOK, ElectionTypes, GsnTypes, RequestTypes, Send, Exchange,
                            electVars, preVars, voteVars, gsnVars, reqVars
<1> QED
  BY <1>1, <1>2, <1>3 DEF Meta

\* Every step of the sequencer keeps its fields, messages and suspended handlers
\* typed; the counters stay between 0 and MaxGSN (+ 1 for the next number).
THEOREM TypeCorrect == Spec => []TypeOK
<1>1. Init => TypeOK
  BY InitTyped
<1>2. TypeOK /\ [Next]_vars => TypeOK'
  <2> SUFFICES ASSUME TypeOK, [Next]_vars PROVE TypeOK'
    OBVIOUS
  <2>1. CASE Next
    BY <2>1, ElectionTyped, ReservationTyped, AllocationTyped, RequestTyped, MetaTyped DEF Next
  <2>2. CASE UNCHANGED vars
    BY <2>2 DEF vars, TypeOK, ElectionTypes, GsnTypes, RequestTypes,
                electVars, preVars, voteVars, gsnVars, metaVars, reqVars
  <2> QED
    BY <2>1, <2>2
<1> QED
  BY <1>1, <1>2, PTL DEF Spec

-----------------------------------------------------------------------------
(* Election safety.  A vote is evidence in msgs: the granted response, or the *)
(* candidate's own request.  What makes a term's leader the only one is that  *)
(* the majority that elected it stays bound to it (LedTerms).  A heartbeat    *)
(* turns votedFor over to a leader the node did not vote for, so the binding  *)
(* of a plain vote (OpenTerms) lasts only until the term's first heartbeat,   *)
(* and by then the leader's own majority is bound.                            *)

Requested(c, t) == \E m \in msgs : m.type = "VoteRequest" /\ m.from = c /\ m.term = t

Granted(n, t, c) == \E m \in msgs : /\ m.type = "VoteResponse" /\ m.granted
                                    /\ m.from = n /\ m.to = c /\ m.term = t

Voted(n, t, c) == Granted(n, t, c) \/ (n = c /\ Requested(c, t))

HeartbeatSent(t) == \E m \in msgs : m.type = "Heartbeat" /\ m.term = t

Announced(n, t) == \E m \in msgs : /\ m.type \in {"Heartbeat", "Reserve"}
                                   /\ m.from = n /\ m.term = t

\* A pending reservation has been asked for, in its term.
Asked(n, g) == g.pending # 0 => Announced(n, g.term)

\* n voted for L in term t, and will vote for nobody else in it.
Bound(n, t, L) == /\ Voted(n, t, L)
                  /\ term[n] >= t
                  /\ term[n] = t => votedFor[n] = L
                  /\ \A c \in Node : Voted(n, t, c) => c = L

VoteTerms == \A n, c \in Node, t \in Nat : Voted(n, t, c) => t > 0 /\ t <= term[n]
OpenTerms == \A n, c \in Node, t \in Nat : Voted(n, t, c) /\ ~HeartbeatSent(t) => Bound(n, t, c)
LedTerms ==
    \A l \in Node, t \in Nat :
      t > 0 /\ Led(l, t) => \E Q \in SUBSET Node : Majority(Q) /\ \A n \in Q : Bound(n, t, l)
CandidateVotes ==
    \A c \in Node : status[c] = "candidate" =>
                      term[c] > 0 /\ \A n \in votes[c] : Voted(n, term[c], c)
BootTerm == \A l \in Node : Led(l, 0) => l = Bootstrap
PendingSent ==
    \A n \in Node, t \in Nat : gsn[n].pending # 0 /\ gsn[n].term = t => Announced(n, t)

ElectionInv == /\ VoteTerms /\ OpenTerms /\ LedTerms
               /\ CandidateVotes /\ BootTerm /\ PendingSent

\* Two leaders of a term would have bound a common node to two of them.
LEMMA OneLed ==
    ASSUME ElectionInv, NEW l \in Node, NEW o \in Node, NEW t \in Nat, Led(l, t), Led(o, t)
    PROVE  l = o
<1>1. CASE t = 0
  BY <1>1 DEF ElectionInv, BootTerm
<1>2. CASE t > 0
  <2>1. PICK Q \in SUBSET Node : Majority(Q) /\ \A n \in Q : Bound(n, t, l)
    BY <1>2 DEF ElectionInv, LedTerms
  <2>2. PICK R \in SUBSET Node : Majority(R) /\ \A n \in R : Bound(n, t, o)
    BY <1>2 DEF ElectionInv, LedTerms
  <2>3. PICK n \in Q \cap R : TRUE
    BY <2>1, <2>2, MajoritiesMeet
  <2> QED
    BY <2>1, <2>2, <2>3 DEF Bound
<1> QED
  BY <1>1, <1>2

LEMMA HeartbeatLed ==
    ASSUME TypeOK, NEW t \in Nat, HeartbeatSent(t)
    PROVE  \E f \in Node : Led(f, t)
<1>1. PICK m \in msgs : m.type = "Heartbeat" /\ m.term = t
  BY DEF HeartbeatSent
<1>2. m.from \in Node
  BY <1>1, MessageFields DEF TypeOK
<1> QED
  BY <1>1, <1>2 DEF Led

\* A step whose messages are no votes leaves the votes as they are.
LEMMA VotesKept ==
    ASSUME NEW received, NEW sent, Exchange(received, sent),
           \A m \in received : m.type = "GSNRequest",
           \A m \in sent : m.type \notin {"VoteRequest", "VoteResponse"}
    PROVE  /\ \A n, c \in Node, t \in Nat : Voted(n, t, c)' <=> Voted(n, t, c)
           /\ \A t \in Nat : HeartbeatSent(t) => HeartbeatSent(t)'
           /\ \A n \in Node, t \in Nat : Announced(n, t) => Announced(n, t)'
<1>1. /\ \A m \in msgs : m.type # "GSNRequest" => m \in msgs'
      /\ \A m \in msgs' : m \in msgs \/ m \in sent
  BY DEF Exchange
<1>2. \A n, c \in Node, t \in Nat : Granted(n, t, c)' <=> Granted(n, t, c)
  BY <1>1 DEF Granted
<1>3. \A c \in Node, t \in Nat : Requested(c, t)' <=> Requested(c, t)
  BY <1>1 DEF Requested
<1>4. \A t \in Nat : HeartbeatSent(t) => HeartbeatSent(t)'
  BY <1>1 DEF HeartbeatSent
<1>5. \A n \in Node, t \in Nat : Announced(n, t) => Announced(n, t)'
  BY <1>1 DEF Announced
<1> QED
  BY <1>2, <1>3, <1>4, <1>5 DEF Voted

\* A step that neither votes, nor elects, nor moves a term.
LEMMA QuietStep ==
    ASSUME TypeOK, ElectionInv, UNCHANGED <<term, votedFor, status, votes>>,
           \A n, c \in Node, t \in Nat : Voted(n, t, c)' <=> Voted(n, t, c),
           \A t \in Nat : HeartbeatSent(t) => HeartbeatSent(t)',
           \A l \in Node, t \in Nat : Led(l, t)' => Led(l, t),
           PendingSent'
    PROVE  ElectionInv'
<1>1. \A n, c \in Node, t \in Nat : Bound(n, t, c)' <=> Bound(n, t, c)
  BY DEF Bound
<1>2. VoteTerms'
  BY DEF ElectionInv, VoteTerms
<1>3. OpenTerms'
  BY <1>1 DEF ElectionInv, OpenTerms
<1>4. LedTerms'
  <2> SUFFICES ASSUME NEW l \in Node, NEW t \in Nat, t > 0, Led(l, t)'
               PROVE  (\E Q \in SUBSET Node : Majority(Q) /\ \A n \in Q : Bound(n, t, l))'
    BY DEF LedTerms
  <2>1. PICK Q \in SUBSET Node : Majority(Q) /\ \A n \in Q : Bound(n, t, l)
    BY DEF ElectionInv, LedTerms
  <2>2. \A n \in Q : Bound(n, t, l)'
    BY <1>1, <2>1
  <2> QED
    BY <2>1, <2>2
<1>5. CandidateVotes'
  BY DEF ElectionInv, CandidateVotes, TypeOK, ElectionTypes
<1>6. BootTerm'
  BY DEF ElectionInv, BootTerm
<1> QED
  BY <1>2, <1>3, <1>4, <1>5, <1>6 DEF ElectionInv

\* What requestReservationLocked announces, and what it leaves pending.
LEMMA SetGSNKeeps ==
    ASSUME TypeOK, ElectionInv, NEW n \in Node, NEW lead \in BOOLEAN, NEW t \in Nat,
           NEW g \in Counter, Asked(n, g),
           NEW h \in {g, Reserve(n, lead, t, g)},
           NEW todo, NEW received, NEW sent,
           \A m \in received : m.type = "GSNRequest",
           \A m \in sent : m.type \notin {"VoteRequest", "VoteResponse", "Heartbeat", "Reserve"},
           SetGSN(n, h, todo, received, sent)
    PROVE  /\ \A a, c \in Node, u \in Nat : Voted(a, u, c)' <=> Voted(a, u, c)
           /\ \A u \in Nat : HeartbeatSent(u) => HeartbeatSent(u)'
           /\ \A a \in Node, u \in Nat :
                Announced(a, u)' => Announced(a, u) \/ (lead /\ a = n /\ u = t)
           /\ PendingSent'
<1>1. h \in Counter
  BY ReserveType
<1>2. h.pending # 0 => Announced(n, h.term) \/ (lead /\ h.term = t)
  <2>1. CASE h = g
    BY <2>1 DEF Asked
  <2>2. CASE h = Reserve(n, lead, t, g) /\ h # g
    <3>1. lead /\ h = [g EXCEPT !.pending = Larger(g.confirmed, g.next - 1) + Block,
                                !.term = t, !.acks = {n}]
      BY <2>2 DEF Reserve
    <3> QED
      BY <3>1 DEF Counter
  <2> QED
    BY <2>1, <2>2
<1>3. /\ gsn' = [gsn EXCEPT ![n] = h]
      /\ Exchange(received, sent \cup ReserveMsg(n, h))
  BY DEF SetGSN
<1>4. \A m \in ReserveMsg(n, h) :
        h.pending # 0 /\ m.type = "Reserve" /\ m.from = n /\ m.term = h.term
  BY DEF ReserveMsg
<1>5. /\ \A a, c \in Node, u \in Nat : Voted(a, u, c)' <=> Voted(a, u, c)
      /\ \A u \in Nat : HeartbeatSent(u) => HeartbeatSent(u)'
      /\ \A a \in Node, u \in Nat : Announced(a, u) => Announced(a, u)'
  <2>1. \A m \in sent \cup ReserveMsg(n, h) : m.type \notin {"VoteRequest", "VoteResponse"}
    BY <1>4
  <2> QED
    BY <1>3, <2>1, VotesKept
<1>6. \A a \in Node, u \in Nat :
        Announced(a, u)' => Announced(a, u) \/ (lead /\ a = n /\ u = t)
  <2> SUFFICES ASSUME NEW a \in Node, NEW u \in Nat, Announced(a, u)', ~Announced(a, u)
               PROVE  lead /\ a = n /\ u = t
    OBVIOUS
  <2>1. PICK m \in msgs' : m.type \in {"Heartbeat", "Reserve"} /\ m.from = a /\ m.term = u
    BY DEF Announced
  <2>2. m \notin msgs
    BY <2>1 DEF Announced
  <2>3. m \in ReserveMsg(n, h)
    BY <1>3, <2>1, <2>2 DEF Exchange
  <2> QED
    BY <1>2, <1>4, <2>1, <2>3
<1>7. PendingSent'
  <2> SUFFICES ASSUME NEW a \in Node, NEW u \in Nat, gsn'[a].pending # 0, gsn'[a].term = u
               PROVE  Announced(a, u)'
    BY DEF PendingSent
  <2>1. CASE a = n
    <3>1. gsn'[a] = h
      BY <1>3, <2>1 DEF TypeOK, GsnTypes
    <3>2. [type |-> "Reserve", term |-> h.term, upto |-> h.pending, from |-> n] \in msgs'
      BY <1>3, <3>1 DEF ReserveMsg, Exchange
    <3> QED
      BY <2>1, <3>1, <3>2 DEF Announced
  <2>2. CASE a # n
    <3>1. gsn'[a] = gsn[a]
      BY <1>3, <2>2 DEF TypeOK, GsnTypes
    <3> QED
      BY <1>5, <3>1 DEF ElectionInv, PendingSent
  <2> QED
    BY <2>1, <2>2
<1> QED
  BY <1>5, <1>6, <1>7

\* A step of the counter at a node that only reserves while it leads.
LEMMA CounterStep ==
    ASSUME TypeOK, ElectionInv, UNCHANGED <<term, votedFor, status, votes>>,
           NEW n \in Node, NEW g \in Counter, Asked(n, g),
           NEW h \in {g, Reserve(n, Leads(n), term[n], g)},
           NEW todo, NEW received, NEW sent,
           \A m \in received : m.type = "GSNRequest",
           \A m \in sent : m.type \notin {"VoteRequest", "VoteResponse", "Heartbeat", "Reserve"},
           SetGSN(n, h, todo, received, sent)
    PROVE  ElectionInv'
<1>1. Leads(n) \in BOOLEAN /\ term[n] \in Nat
  BY DEF Leads, TypeOK, ElectionTypes
<1>2. /\ \A a, c \in Node, u \in Nat : Voted(a, u, c)' <=> Voted(a, u, c)
      /\ \A u \in Nat : HeartbeatSent(u) => HeartbeatSent(u)'
      /\ \A a \in Node, u \in Nat :
           Announced(a, u)' => Announced(a, u) \/ (Leads(n) /\ a = n /\ u = term[n])
      /\ PendingSent'
  BY <1>1, SetGSNKeeps
<1>3. \A l \in Node, u \in Nat : Led(l, u)' => Led(l, u)
  BY <1>2 DEF Led, Announced, Leads
<1> QED
  BY <1>2, <1>3, QuietStep

\* A step that changes nothing of the counters' pending reservations, and sends
\* neither votes nor announcements.
LEMMA OtherStep ==
    ASSUME TypeOK, ElectionInv, UNCHANGED <<term, votedFor, status, votes>>,
           \A n \in Node : gsn'[n].pending # 0 =>
                             gsn'[n].pending = gsn[n].pending /\ gsn'[n].term = gsn[n].term,
           NEW received, NEW sent, Exchange(received, sent),
           \A m \in received : m.type = "GSNRequest",
           \A m \in sent : /\ m.type \notin {"VoteRequest", "VoteResponse", "Reserve"}
                           /\ m.type = "Heartbeat" => Led(m.from, m.term)
    PROVE  ElectionInv'
<1>1. /\ \A n, c \in Node, t \in Nat : Voted(n, t, c)' <=> Voted(n, t, c)
      /\ \A t \in Nat : HeartbeatSent(t) => HeartbeatSent(t)'
      /\ \A n \in Node, t \in Nat : Announced(n, t) => Announced(n, t)'
  BY VotesKept
<1>2. \A l \in Node, t \in Nat : Led(l, t)' => Led(l, t)
  <2> SUFFICES ASSUME NEW l \in Node, NEW t \in Nat, Led(l, t)', ~Led(l, t) PROVE FALSE
    OBVIOUS
  <2>1. PICK m \in msgs' : m.type \in {"Heartbeat", "Reserve"} /\ m.from = l /\ m.term = t
    BY DEF Led
  <2>2. m \in sent
    BY <2>1 DEF Led, Exchange
  <2> QED
    BY <2>1, <2>2
<1>3. PendingSent'
  BY <1>1 DEF ElectionInv, PendingSent
<1> QED
  BY <1>1, <1>2, <1>3, QuietStep

\* If every binding survives a step that makes no leader, so do LedTerms and
\* BootTerm.
LEMMA LedKept ==
    ASSUME ElectionInv,
           \A l \in Node, t \in Nat : Led(l, t)' => Led(l, t),
           \A n, l \in Node, t \in Nat : Bound(n, t, l) /\ Led(l, t) => Bound(n, t, l)'
    PROVE  LedTerms' /\ BootTerm'
<1>1. LedTerms'
  <2> SUFFICES ASSUME NEW l \in Node, NEW t \in Nat, t > 0, Led(l, t)'
               PROVE  (\E Q \in SUBSET Node : Majority(Q) /\ \A n \in Q : Bound(n, t, l))'
    BY DEF LedTerms
  <2>1. PICK Q \in SUBSET Node : Majority(Q) /\ \A n \in Q : Bound(n, t, l)
    BY DEF ElectionInv, LedTerms
  <2>2. \A n \in Q : Bound(n, t, l)'
    BY <2>1
  <2> QED
    BY <2>1, <2>2
<1>2. BootTerm'
  BY DEF ElectionInv, BootTerm
<1> QED
  BY <1>1, <1>2

LEMMA StartElectionStep ==
    ASSUME TypeOK, ElectionInv, NEW n \in Node, status[n] # "leader", StartElection(n),
           UNCHANGED gsn
    PROVE  ElectionInv'
<1> DEFINE T == term[n] + 1
           request == [type |-> "VoteRequest", term |-> T, from |-> n]
<1>1. /\ term' = [term EXCEPT ![n] = T] /\ votedFor' = [votedFor EXCEPT ![n] = n]
      /\ status' = [status EXCEPT ![n] = "candidate"] /\ votes' = [votes EXCEPT ![n] = {n}]
      /\ msgs' = msgs \cup {request}
  BY DEF StartElection, Send, Exchange
<1>2. /\ term \in [Node -> Nat] /\ votedFor \in [Node -> Node \cup {Nobody}]
      /\ status \in [Node -> Status] /\ votes \in [Node -> SUBSET Node]
  BY DEF TypeOK, ElectionTypes
<1>3. T \in Nat /\ T > term[n] /\ T > 0
  BY <1>2
<1>0. request.type = "VoteRequest" /\ request.from = n /\ request.term = T
  OBVIOUS
<1> HIDE DEF T, request
<1>4. \A a, c \in Node, t \in Nat :
        Voted(a, t, c)' <=> Voted(a, t, c) \/ (a = n /\ c = n /\ t = T)
  <2>1. \A a, c \in Node, t \in Nat : Granted(a, t, c)' <=> Granted(a, t, c)
    BY <1>0, <1>1 DEF Granted
  <2>2. \A c \in Node, t \in Nat : Requested(c, t)' <=> Requested(c, t) \/ (c = n /\ t = T)
    BY <1>0, <1>1 DEF Requested
  <2> QED
    BY <2>1, <2>2 DEF Voted
<1>5. \A t \in Nat : HeartbeatSent(t)' <=> HeartbeatSent(t)
  BY <1>0, <1>1 DEF HeartbeatSent
<1>6. \A a \in Node, t \in Nat : Announced(a, t)' <=> Announced(a, t)
  BY <1>0, <1>1 DEF Announced
<1>7. \A l \in Node, t \in Nat : Led(l, t)' => Led(l, t)
  BY <1>1, <1>2, <1>6 DEF Led, Announced
<1>8. \A c \in Node : ~ Voted(n, T, c)
  BY <1>3, <1>2 DEF ElectionInv, VoteTerms
<1>9. \A a, l \in Node, t \in Nat : Bound(a, t, l) => Bound(a, t, l)'
  BY <1>1, <1>2, <1>3, <1>4 DEF Bound
<1>10. VoteTerms'
  BY <1>1, <1>2, <1>3, <1>4 DEF ElectionInv, VoteTerms
<1>11. OpenTerms'
  <2> SUFFICES ASSUME NEW a \in Node, NEW c \in Node, NEW t \in Nat,
                      Voted(a, t, c)', ~ HeartbeatSent(t)'
               PROVE  Bound(a, t, c)'
    BY DEF OpenTerms
  <2>1. CASE Voted(a, t, c)
    BY <1>5, <1>9, <2>1 DEF ElectionInv, OpenTerms
  <2>2. CASE a = n /\ c = n /\ t = T
    BY <1>1, <1>2, <1>3, <1>4, <1>8, <2>2 DEF Bound
  <2> QED
    BY <1>4, <2>1, <2>2
<1>12. LedTerms' /\ BootTerm'
  BY <1>7, <1>9, LedKept
<1>13. CandidateVotes'
  BY <1>1, <1>2, <1>3, <1>4 DEF ElectionInv, CandidateVotes
<1>14. PendingSent'
  BY <1>6 DEF ElectionInv, PendingSent
<1> QED
  BY <1>10, <1>11, <1>12, <1>13, <1>14 DEF ElectionInv

LEMMA VoteStep ==
    ASSUME TypeOK, ElectionInv, NEW n \in Node, NEW m \in msgs, HandleVoteRequest(n, m)
    PROVE  ElectionInv'
<1> DEFINE f       == m.from
           newer   == m.term > term[n]
           voted   == IF newer THEN Nobody ELSE votedFor[n]
           now     == IF newer THEN m.term ELSE term[n]
           granted == m.term = now /\ MayVote(voted, f)
<1>1. m.type = "VoteRequest" /\ m.term \in Nat /\ f \in Node
  BY MessageFields DEF HandleVoteRequest, TypeOK
<1>2. /\ term \in [Node -> Nat] /\ votedFor \in [Node -> Node \cup {Nobody}]
      /\ status \in [Node -> Status] /\ votes \in [Node -> SUBSET Node]
  BY DEF TypeOK, ElectionTypes
<1>3. /\ term' = [term EXCEPT ![n] = now]
      /\ votedFor' = [votedFor EXCEPT ![n] = IF granted THEN f ELSE voted]
      /\ status' = [status EXCEPT ![n] = IF newer THEN "follower" ELSE @]
      /\ UNCHANGED <<votes, gsn>>
  BY DEF HandleVoteRequest, Follow, voteVars, gsnVars
<1>4. PICK reply : /\ reply.type = "VoteResponse" /\ reply.granted = granted
                   /\ reply.from = n /\ reply.to = f /\ reply.term = now
                   /\ msgs' = msgs \cup {reply}
  <2> DEFINE reply == [type |-> "VoteResponse", term |-> now, reqTerm |-> m.term,
                       granted |-> granted, accepted |-> acceptedUpTo[n],
                       meta |-> MaxMeta(metadata[n]),
                       holes |-> MetaHoles(metadata[n], skipped[n], MaxMeta(metadata[n])),
                       from |-> n, to |-> f]
  <2>1. msgs' = msgs \cup {reply}
    BY DEF HandleVoteRequest, Send, Exchange
  <2>2. /\ reply.type = "VoteResponse" /\ reply.granted = granted
        /\ reply.from = n /\ reply.to = f /\ reply.term = now
    OBVIOUS
  <2> HIDE DEF reply, f, now, granted
  <2> QED
    BY <2>1, <2>2
<1>5. Voted(f, m.term, f)
  BY <1>1 DEF Voted, Requested
<1>6. m.term > 0
  BY <1>1, <1>5 DEF ElectionInv, VoteTerms
<1>7. /\ now \in Nat /\ now >= term[n]
      /\ newer => now > term[n]
      /\ ~newer => now = term[n] /\ voted = votedFor[n]
      /\ granted => now = m.term /\ voted \in {Nobody, f}
  BY <1>1, <1>2 DEF MayVote
<1> HIDE DEF f, newer, voted, now, granted
<1>8. \A a, c \in Node, t \in Nat :
        Voted(a, t, c)' <=> Voted(a, t, c) \/ (granted /\ a = n /\ c = f /\ t = now)
  <2>1. \A a, c \in Node, t \in Nat :
          Granted(a, t, c)' <=> Granted(a, t, c) \/ (granted /\ a = n /\ c = f /\ t = now)
    BY <1>4 DEF Granted
  <2>2. \A c \in Node, t \in Nat : Requested(c, t)' <=> Requested(c, t)
    BY <1>4 DEF Requested
  <2> QED
    BY <2>1, <2>2 DEF Voted
<1>9. \A t \in Nat : HeartbeatSent(t)' <=> HeartbeatSent(t)
  BY <1>4 DEF HeartbeatSent
<1>10. \A a \in Node, t \in Nat : Announced(a, t)' <=> Announced(a, t)
  BY <1>4 DEF Announced
<1>11. \A l \in Node, t \in Nat : Led(l, t)' => Led(l, t)
  BY <1>2, <1>3, <1>7, <1>10 DEF Led, Announced
<1>12. \A a, l \in Node, t \in Nat : Bound(a, t, l) => Bound(a, t, l)'
  <2> SUFFICES ASSUME NEW a \in Node, NEW l \in Node, NEW t \in Nat, Bound(a, t, l)
               PROVE  Bound(a, t, l)'
    OBVIOUS
  <2>1. CASE a # n
    BY <1>2, <1>3, <1>8, <2>1 DEF Bound
  <2>2. CASE a = n /\ t # now
    BY <1>2, <1>3, <1>7, <1>8, <2>2 DEF Bound
  <2>3. CASE a = n /\ t = now
    <3>1. term[n] = t /\ votedFor[n] = l /\ ~newer
      BY <1>2, <1>7, <2>3 DEF Bound
    <3>2. granted => f = l
      BY <1>7, <3>1, NodeAssumption
    <3> QED
      BY <1>2, <1>3, <1>7, <1>8, <2>3, <3>1, <3>2 DEF Bound
  <2> QED
    BY <2>1, <2>2, <2>3
<1>13. VoteTerms'
  BY <1>2, <1>3, <1>6, <1>7, <1>8 DEF ElectionInv, VoteTerms
<1>14. OpenTerms'
  <2> SUFFICES ASSUME NEW a \in Node, NEW c \in Node, NEW t \in Nat,
                      Voted(a, t, c)', ~ HeartbeatSent(t)'
               PROVE  Bound(a, t, c)'
    BY DEF OpenTerms
  <2>1. CASE Voted(a, t, c)
    BY <1>9, <1>12, <2>1 DEF ElectionInv, OpenTerms
  <2>2. CASE granted /\ a = n /\ c = f /\ t = now
    <3>1. ASSUME NEW d \in Node, Voted(n, now, d) PROVE d = f
      <4>1. now <= term[n]
        BY <1>7, <3>1 DEF ElectionInv, VoteTerms
      <4>2. term[n] = now /\ ~newer
        BY <1>2, <1>7, <4>1
      <4>3. votedFor[n] = d
        BY <1>7, <1>9, <2>2, <3>1, <4>2 DEF ElectionInv, OpenTerms, Bound
      <4> QED
        BY <1>7, <2>2, <4>2, <4>3, NodeAssumption
    <3>2. term'[n] = now /\ votedFor'[n] = f
      BY <1>2, <1>3, <2>2
    <3> QED
      BY <1>1, <1>7, <1>8, <2>2, <3>1, <3>2 DEF Bound
  <2> QED
    BY <1>8, <2>1, <2>2
<1>15. LedTerms' /\ BootTerm'
  BY <1>11, <1>12, LedKept
<1>16. CandidateVotes'
  <2> SUFFICES ASSUME NEW c \in Node, status'[c] = "candidate"
               PROVE  term'[c] > 0 /\ \A x \in votes'[c] : Voted(x, term[c], c)'
    BY DEF CandidateVotes
  <2>1. status[c] = "candidate" /\ term'[c] = term[c] /\ votes'[c] = votes[c]
    BY <1>2, <1>3, <1>7
  <2>2. term[c] \in Nat /\ votes[c] \in SUBSET Node
    BY <1>2
  <2>3. term[c] > 0 /\ \A x \in votes[c] : Voted(x, term[c], c)
    BY <2>1 DEF ElectionInv, CandidateVotes
  <2> QED
    BY <1>8, <2>1, <2>2, <2>3
<1>17. PendingSent'
  BY <1>3, <1>10 DEF ElectionInv, PendingSent
<1> QED
  BY <1>13, <1>14, <1>15, <1>16, <1>17 DEF ElectionInv

\* n becomes a follower: of a later term, or of a term whose leader it has heard.
LEMMA FollowerStep ==
    ASSUME TypeOK, ElectionInv, NEW n \in Node, NEW T \in Nat, NEW V,
           \/ T > term[n]
           \/ T = term[n] /\ V \in Node /\ HeartbeatSent(T) /\ Led(V, T),
           term' = [term EXCEPT ![n] = T], votedFor' = [votedFor EXCEPT ![n] = V],
           status' = [status EXCEPT ![n] = "follower"], UNCHANGED <<votes, gsn, msgs>>
    PROVE  ElectionInv'
<1>1. /\ term \in [Node -> Nat] /\ votedFor \in [Node -> Node \cup {Nobody}]
      /\ status \in [Node -> Status] /\ votes \in [Node -> SUBSET Node]
  BY DEF TypeOK, ElectionTypes
<1>2. \A a, c \in Node, t \in Nat : Voted(a, t, c)' <=> Voted(a, t, c)
  BY DEF Voted, Granted, Requested
<1>3. \A t \in Nat : HeartbeatSent(t)' <=> HeartbeatSent(t)
  BY DEF HeartbeatSent
<1>4. \A a \in Node, t \in Nat : Announced(a, t)' <=> Announced(a, t)
  BY DEF Announced
<1>5. \A l \in Node, t \in Nat : Led(l, t)' => Led(l, t)
  BY <1>1 DEF Led
<1>6. \A a, c \in Node, t \in Nat :
        Bound(a, t, c) => Bound(a, t, c)' \/ (a = n /\ t = T /\ T = term[n])
  BY <1>1, <1>2 DEF Bound
<1>7. VoteTerms'
  BY <1>1, <1>2 DEF ElectionInv, VoteTerms
<1>8. OpenTerms'
  <2> SUFFICES ASSUME NEW a \in Node, NEW c \in Node, NEW t \in Nat,
                      Voted(a, t, c), ~ HeartbeatSent(t)
               PROVE  Bound(a, t, c)'
    BY <1>2, <1>3 DEF OpenTerms
  <2>1. Bound(a, t, c)
    BY DEF ElectionInv, OpenTerms
  <2> QED
    BY <1>1, <1>6, <2>1
<1>9. LedTerms' /\ BootTerm'
  <2>1. \A a, l \in Node, t \in Nat : Bound(a, t, l) /\ Led(l, t) => Bound(a, t, l)'
    <3> SUFFICES ASSUME NEW a \in Node, NEW l \in Node, NEW t \in Nat,
                        Bound(a, t, l), Led(l, t)
                 PROVE  Bound(a, t, l)'
      OBVIOUS
    <3>1. CASE a = n /\ t = T /\ T = term[n]
      <4>1. V = l
        BY <1>1, <3>1, OneLed
      <4> QED
        BY <1>1, <1>2, <3>1, <4>1 DEF Bound
    <3> QED
      BY <1>6, <3>1
  <2> QED
    BY <1>5, <2>1, LedKept
<1>10. CandidateVotes'
  BY <1>1, <1>2 DEF ElectionInv, CandidateVotes
<1>11. PendingSent'
  BY <1>4 DEF ElectionInv, PendingSent
<1> QED
  BY <1>7, <1>8, <1>9, <1>10, <1>11 DEF ElectionInv

\* The votes of a candidate, with the one it counts now, are votes for it.
LEMMA CountedVotes ==
    ASSUME TypeOK, ElectionInv, NEW n \in Node, NEW m \in msgs, CountVote(n, m)
    PROVE  /\ status[n] = "candidate" /\ term[n] > 0
           /\ votes'[n] \in SUBSET Node
           /\ \A x \in votes'[n] : Voted(x, term[n], n)
           /\ \A c \in Node \ {n} : votes'[c] = votes[c]
<1>1. /\ m.type = "VoteResponse" /\ m.to = n /\ m.term = term[n] /\ m.granted
      /\ status[n] = "candidate" /\ votes' = [votes EXCEPT ![n] = @ \cup {m.from}]
  BY DEF CountVote
<1>2. m.from \in Node
  BY <1>1, MessageFields DEF TypeOK
<1>3. Voted(m.from, term[n], n)
  BY <1>1 DEF Voted, Granted
<1>4. votes \in [Node -> SUBSET Node]
  BY DEF TypeOK, ElectionTypes
<1>5. term[n] > 0 /\ \A x \in votes[n] : Voted(x, term[n], n)
  BY <1>1 DEF ElectionInv, CandidateVotes
<1> QED
  BY <1>1, <1>2, <1>3, <1>4, <1>5

LEMMA CountVoteStep ==
    ASSUME TypeOK, ElectionInv, NEW n \in Node, NEW m \in msgs, HandleVote(n, m)
    PROVE  ElectionInv'
<1>1. CountVote(n, m) /\ UNCHANGED <<term, votedFor, status, gsn, msgs>>
  BY DEF HandleVote, electVars, gsnVars
<1>2. \A a, c \in Node, t \in Nat : Voted(a, t, c)' <=> Voted(a, t, c)
  BY <1>1 DEF Voted, Granted, Requested
<1>3. \A t \in Nat : HeartbeatSent(t)' <=> HeartbeatSent(t)
  BY <1>1 DEF HeartbeatSent
<1>4. \A a \in Node, t \in Nat : Announced(a, t)' <=> Announced(a, t)
  BY <1>1 DEF Announced
<1>5. \A l \in Node, t \in Nat : Led(l, t)' => Led(l, t)
  BY <1>1 DEF Led
<1>6. \A a, c \in Node, t \in Nat : Bound(a, t, c)' <=> Bound(a, t, c)
  BY <1>1, <1>2 DEF Bound
<1>7. VoteTerms' /\ OpenTerms'
  BY <1>1, <1>2, <1>3, <1>6 DEF ElectionInv, VoteTerms, OpenTerms
<1>8. LedTerms' /\ BootTerm'
  BY <1>5, <1>6, LedKept
<1>9. CandidateVotes'
  <2> SUFFICES ASSUME NEW c \in Node, status[c] = "candidate"
               PROVE  term[c] > 0 /\ \A x \in votes'[c] : Voted(x, term[c], c)'
    BY <1>1 DEF CandidateVotes
  <2>1. term[c] > 0 /\ term[c] \in Nat
    BY DEF ElectionInv, CandidateVotes, TypeOK, ElectionTypes
  <2>2. votes'[c] \in SUBSET Node /\ \A x \in votes'[c] : Voted(x, term[c], c)
    <3>1. CASE c = n
      BY <1>1, <3>1, CountedVotes
    <3>2. CASE c # n
      BY <1>1, <3>2, CountedVotes DEF ElectionInv, CandidateVotes, TypeOK, ElectionTypes
    <3> QED
      BY <3>1, <3>2
  <2>3. term'[c] = term[c]
    BY <1>1
  <2> QED
    BY <1>2, <2>1, <2>2, <2>3
<1>10. PendingSent'
  BY <1>1, <1>4 DEF ElectionInv, PendingSent
<1> QED
  BY <1>7, <1>8, <1>9, <1>10 DEF ElectionInv

LEMMA WinStep ==
    ASSUME TypeOK, ElectionInv, NEW n \in Node, NEW m \in msgs, WinElection(n, m)
    PROVE  ElectionInv'
<1>1. /\ CountVote(n, m) /\ Majority(votes'[n])
      /\ status' = [status EXCEPT ![n] = "leader"] /\ UNCHANGED <<term, votedFor>>
  BY DEF WinElection
<1>2. /\ term \in [Node -> Nat] /\ votedFor \in [Node -> Node \cup {Nobody}]
      /\ status \in [Node -> Status] /\ votes \in [Node -> SUBSET Node]
  BY DEF TypeOK, ElectionTypes
<1>3. /\ \A a, c \in Node, u \in Nat : Voted(a, u, c)' <=> Voted(a, u, c)
      /\ \A u \in Nat : HeartbeatSent(u) => HeartbeatSent(u)'
      /\ \A a \in Node, u \in Nat :
           Announced(a, u)' => Announced(a, u) \/ (a = n /\ u = term[n])
      /\ PendingSent'
  <2>1. CASE "resume" \in Preempt
    <3>1. UNCHANGED <<gsn, msgs>>
      BY <2>1 DEF WinElection, gsnVars
    <3> QED
      BY <3>1 DEF Voted, Granted, Requested, HeartbeatSent, Announced, ElectionInv, PendingSent
  <2>2. CASE "resume" \notin Preempt
    <3> DEFINE acc == voteMaxAccepted'[n]
               meta == voteMaxMeta'[n]
               holes == voteHoles'[n]
    <3>1. Resume(n, TRUE, term[n], acc, meta, holes, {})
      BY <2>2 DEF WinElection
    <3>2. acc \in Gsn /\ meta \in Gsn /\ holes \in SUBSET Gsn /\ term[n] \in Nat
      BY <1>1, <1>2, CountVoteTyped
    <3> HIDE DEF acc, meta, holes
    <3>3. PICK g \in Counter, skip \in SUBSET Gsn :
            g.pending = 0 /\ SetGSN(n, Reserve(n, TRUE, term[n], g), tasks \ {}, {}, SkipMsg(skip))
      <4>1. PICK g \in Counter, skip, missing \in SUBSET Gsn :
              Resumed(n, TRUE, term[n], {}, g, skip, missing)
        BY <3>1, <3>2, ResumeCounter, Zenon
      <4> QED
        BY <4>1 DEF Resumed
    <3>4. PICK lead \in BOOLEAN : lead = TRUE
      OBVIOUS
    <3>5. PICK h \in {g, Reserve(n, lead, term[n], g)} : SetGSN(n, h, tasks \ {}, {}, SkipMsg(skip))
      BY <3>3, <3>4
    <3>6. \A s \in SkipMsg(skip) :
            s.type \notin {"VoteRequest", "VoteResponse", "Heartbeat", "Reserve"}
      BY DEF SkipMsg
    <3>7. Asked(n, g) /\ \A s \in {} : s.type = "GSNRequest"
      BY <3>3 DEF Asked
    <3> QED
      BY <3>2, <3>5, <3>6, <3>7, SetGSNKeeps
  <2> QED
    BY <2>1, <2>2
<1>4. \A l \in Node, t \in Nat : Led(l, t)' => Led(l, t) \/ (l = n /\ t = term[n])
  BY <1>1, <1>2, <1>3 DEF Led, Announced
<1>5. \A a, c \in Node, t \in Nat : Bound(a, t, c)' <=> Bound(a, t, c)
  BY <1>1, <1>3 DEF Bound
<1>6. /\ status[n] = "candidate" /\ term[n] > 0
      /\ votes'[n] \in SUBSET Node
      /\ \A x \in votes'[n] : Voted(x, term[n], n)
      /\ \A c \in Node \ {n} : votes'[c] = votes[c]
  BY <1>1, CountedVotes
<1>7. VoteTerms' /\ OpenTerms'
  BY <1>1, <1>3, <1>5 DEF ElectionInv, VoteTerms, OpenTerms
<1>8. LedTerms'
  <2> SUFFICES ASSUME NEW l \in Node, NEW t \in Nat, t > 0, Led(l, t)'
               PROVE  \E Q \in SUBSET Node : Majority(Q) /\ \A a \in Q : Bound(a, t, l)
    BY <1>5 DEF LedTerms
  <2>1. CASE Led(l, t)
    BY <2>1 DEF ElectionInv, LedTerms
  <2>2. CASE l = n /\ t = term[n] /\ HeartbeatSent(t)
    <3>1. PICK f \in Node : Led(f, t)
      BY <2>2, HeartbeatLed
    <3>2. PICK Q \in SUBSET Node : Majority(Q) /\ \A a \in Q : Bound(a, t, f)
      BY <3>1 DEF ElectionInv, LedTerms
    <3>3. PICK x \in Q \cap votes'[n] : TRUE
      BY <1>1, <1>6, <3>2, MajoritiesMeet
    <3>4. f = n
      BY <1>6, <2>2, <3>2, <3>3 DEF Bound
    <3> QED
      BY <2>2, <3>2, <3>4
  <2>3. CASE l = n /\ t = term[n] /\ ~ HeartbeatSent(t)
    <3>1. \A x \in votes'[n] : Bound(x, t, n)
      BY <1>6, <2>3 DEF ElectionInv, OpenTerms
    <3> QED
      BY <1>1, <1>6, <2>3, <3>1
  <2> QED
    BY <1>4, <2>1, <2>2, <2>3
<1>9. BootTerm'
  BY <1>4, <1>6 DEF ElectionInv, BootTerm
<1>10. CandidateVotes'
  <2> SUFFICES ASSUME NEW c \in Node, status'[c] = "candidate"
               PROVE  term'[c] > 0 /\ \A x \in votes'[c] : Voted(x, term[c], c)'
    BY DEF CandidateVotes
  <2>1. c # n /\ status[c] = "candidate" /\ term'[c] = term[c] /\ votes'[c] = votes[c]
    BY <1>1, <1>2, <1>6
  <2>2. /\ term[c] > 0 /\ \A x \in votes[c] : Voted(x, term[c], c)
        /\ term[c] \in Nat /\ votes[c] \in SUBSET Node
    BY <1>2, <2>1 DEF ElectionInv, CandidateVotes
  <2> QED
    BY <1>3, <2>1, <2>2
<1> QED
  BY <1>3, <1>7, <1>8, <1>9, <1>10 DEF ElectionInv

LEMMA ElectionStep ==
    ASSUME TypeOK, ElectionInv, NEW n \in Node, Election(n)
    PROVE  ElectionInv'
<1>1. ASSUME OnElectionTimeout(n) PROVE ElectionInv'
  <2>1. Exchange({}, {[type |-> "PreVoteRequest", term |-> term[n] + 1, from |-> n]})
    BY <1>1 DEF OnElectionTimeout, Send
  <2> QED
    BY <1>1, <2>1, OtherStep DEF OnElectionTimeout, electVars, voteVars, gsnVars
<1>2. ASSUME ElectSuspended(n) PROVE ElectionInv'
  <2>1. CASE status[n] = "leader"
    <3>1. Exchange({}, {})
      BY <1>2, <2>1 DEF ElectSuspended, Exchange
    <3> QED
      BY <1>2, <2>1, <3>1, OtherStep DEF ElectSuspended, electVars, voteVars, gsnVars
  <2>2. CASE status[n] # "leader"
    BY <1>2, <2>2, StartElectionStep DEF ElectSuspended, gsnVars
  <2> QED
    BY <2>1, <2>2
<1>3. ASSUME Heartbeat(n) PROVE ElectionInv'
  <2> DEFINE beat == [type |-> "Heartbeat", term |-> term[n], from |-> n, skips |-> skipped[n]]
  <2>1. Exchange({}, {beat})
    BY <1>3 DEF Heartbeat, Send
  <2>2. beat.type = "Heartbeat" /\ beat.from = n /\ beat.term = term[n]
    OBVIOUS
  <2> HIDE DEF beat
  <2>3. Led(n, term[n])
    BY <1>3 DEF Heartbeat, Led
  <2> QED
    BY <1>3, <2>1, <2>2, <2>3, OtherStep DEF Heartbeat, electVars, voteVars, gsnVars
<1>4. ASSUME NEW t \in tasks, t.node = n, ResumeSuspended(t) PROVE ElectionInv'
  <2>1. Leads(n) \in BOOLEAN
    BY DEF Leads
  <2>2. /\ term[n] \in Nat /\ voteMaxAccepted[n] \in Gsn /\ voteMaxMeta[n] \in Gsn
        /\ voteHoles[n] \in SUBSET Gsn
    BY DEF TypeOK, ElectionTypes
  <2>3. Resume(n, Leads(n), term[n], voteMaxAccepted[n], voteMaxMeta[n], voteHoles[n], {t})
    BY <1>4 DEF ResumeSuspended
  <2>4. PICK g \in Counter, skip, missing \in SUBSET Gsn :
          Resumed(n, Leads(n), term[n], {t}, g, skip, missing)
    BY <2>1, <2>2, <2>3, ResumeCounter, Zenon
  <2>5. /\ Asked(n, g)
        /\ SetGSN(n, Reserve(n, Leads(n), term[n], g), tasks \ {t}, {}, SkipMsg(skip))
    BY <2>4 DEF Resumed, Asked
  <2>6. \A s \in SkipMsg(skip) :
          s.type \notin {"VoteRequest", "VoteResponse", "Heartbeat", "Reserve"}
    BY DEF SkipMsg
  <2>7. UNCHANGED <<term, votedFor, status, votes>>
    BY <1>4 DEF ResumeSuspended, electVars, voteVars
  <2> QED
    BY <2>5, <2>6, <2>7, CounterStep
<1>5. ASSUME NEW m \in msgs, HandlePreVoteRequest(n, m) PROVE ElectionInv'
  <2>1. Exchange({}, {[type |-> "PreVoteResponse", term |-> m.term, from |-> n,
                       to |-> m.from]})
    BY <1>5 DEF HandlePreVoteRequest, Send
  <2> QED
    BY <1>5, <2>1, OtherStep DEF HandlePreVoteRequest, electVars, voteVars, gsnVars
<1>6. ASSUME NEW m \in msgs, HandlePreVoteResponse(n, m) PROVE ElectionInv'
  <2>1. UNCHANGED gsn /\ status[n] # "leader"
    BY <1>6 DEF HandlePreVoteResponse, PreVoteGranted, gsnVars
  <2>2. CASE UNCHANGED <<electVars, voteVars, msgs>>
    <3>1. Exchange({}, {})
      BY <2>2 DEF Exchange
    <3> QED
      BY <2>1, <2>2, <3>1, OtherStep DEF electVars, voteVars
  <2>3. CASE StartElection(n)
    BY <2>1, <2>3, StartElectionStep
  <2>4. \/ UNCHANGED <<electVars, voteVars, msgs>>
        \/ StartElection(n)
    BY <1>6, Zenon DEF HandlePreVoteResponse
  <2> QED
    BY <2>2, <2>3, <2>4
<1>7. ASSUME NEW m \in msgs, VoteResponseStepDown(n, m) PROVE ElectionInv'
  <2>1. m.term \in Nat
    BY <1>7, MessageFields DEF VoteResponseStepDown, TypeOK
  <2> QED
    BY <1>7, <2>1, FollowerStep DEF VoteResponseStepDown, voteVars, gsnVars
<1>8. ASSUME NEW m \in msgs, HandleHeartbeat(n, m) PROVE ElectionInv'
  <2>1. m.type = "Heartbeat" /\ m.term \in Nat /\ m.from \in Node
    BY <1>8, MessageFields DEF HandleHeartbeat, TypeOK
  <2>2. HeartbeatSent(m.term) /\ Led(m.from, m.term)
    BY <2>1 DEF HeartbeatSent, Led
  <2>3. UNCHANGED <<votes, gsn, msgs>>
    BY <1>8 DEF HandleHeartbeat, voteVars, gsnVars
  <2>4. CASE m.term < term[n]
    <3>1. Exchange({}, {}) /\ UNCHANGED <<term, votedFor, status>>
      BY <1>8, <2>3, <2>4 DEF HandleHeartbeat, Exchange, electVars
    <3> QED
      BY <2>3, <3>1, OtherStep
  <2>5. CASE ~ (m.term < term[n])
    <3>1. term[n] \in Nat
      BY DEF TypeOK, ElectionTypes
    <3>2. /\ term' = [term EXCEPT ![n] = m.term]
          /\ votedFor' = [votedFor EXCEPT ![n] = m.from]
          /\ status' = [status EXCEPT ![n] = "follower"]
      BY <1>8, <2>5 DEF HandleHeartbeat
    <3>3. m.term > term[n] \/ m.term = term[n]
      BY <2>1, <2>5, <3>1
    <3> QED
      BY <2>1, <2>2, <2>3, <3>2, <3>3, FollowerStep
  <2> QED
    BY <2>4, <2>5
<1> QED
  BY <1>1, <1>2, <1>3, <1>4, <1>5, <1>6, <1>7, <1>8, VoteStep, CountVoteStep, WinStep
     DEF Election

LEMMA ReservationStep ==
    ASSUME TypeOK, ElectionInv, NEW n \in Node, Reservation(n)
    PROVE  ElectionInv'
<1>1. ASSUME NEW a, NEW t, NEW upto, NEW to, AcceptMark(a, t, upto, to),
             UNCHANGED <<term, votedFor, status, votes, gsn>>
      PROVE  ElectionInv'
  <2>1. Exchange({}, {ReserveAck(a, t, upto, to)})
    BY <1>1 DEF AcceptMark, Send
  <2>2. ReserveAck(a, t, upto, to).type = "ReserveAck"
    BY DEF ReserveAck
  <2> QED
    BY <1>1, <2>1, <2>2, OtherStep
<1>2. ASSUME NEW m \in msgs, HandleReserve(n, m) PROVE ElectionInv'
  <2>1. UNCHANGED <<term, votedFor, status, votes, gsn>>
    BY <1>2 DEF HandleReserve, electVars, voteVars
  <2>2. CASE UNCHANGED msgs
    <3>1. Exchange({}, {})
      BY <2>2 DEF Exchange
    <3> QED
      BY <2>1, <3>1, OtherStep
  <2>3. CASE AcceptMark(n, m.term, m.upto, m.from)
    BY <1>1, <2>1, <2>3
  <2>4. UNCHANGED msgs \/ AcceptMark(n, m.term, m.upto, m.from)
    BY <1>2, Zenon DEF HandleReserve
  <2> QED
    BY <2>2, <2>3, <2>4
<1>3. ASSUME NEW t \in tasks, t.node = n, AcceptSuspended(t) PROVE ElectionInv'
  BY <1>1, <1>3 DEF AcceptSuspended, electVars, voteVars
<1>4. ASSUME NEW m \in msgs, HandleReserveAck(n, m) PROVE ElectionInv'
  <2>1. UNCHANGED <<term, votedFor, status, votes>> /\ Exchange({}, {})
    BY <1>4 DEF HandleReserveAck, electVars, voteVars, Exchange
  <2> DEFINE g == [gsn[n] EXCEPT !.acks = @ \cup {m.from}]
  <2>2. gsn[n] \in Counter /\ gsn \in [Node -> Counter]
    BY DEF TypeOK, GsnTypes
  <2>3. /\ g.pending = gsn[n].pending /\ g.term = gsn[n].term
        /\ ConfirmReservation(g).pending = 0
    BY <2>2 DEF Counter, ConfirmReservation
  <2>4. gsn' = [gsn EXCEPT ![n] = IF Majority(g.acks) THEN ConfirmReservation(g) ELSE g]
    BY <1>4 DEF HandleReserveAck
  <2> HIDE DEF g
  <2>5. \A a \in Node : gsn'[a].pending # 0 =>
                          gsn'[a].pending = gsn[a].pending /\ gsn'[a].term = gsn[a].term
    BY <2>2, <2>3, <2>4
  <2> QED
    BY <2>1, <2>5, OtherStep
<1> QED
  BY <1>2, <1>3, <1>4 DEF Reservation

LEMMA StartAllocationStep ==
    ASSUME TypeOK, ElectionInv, NEW n \in Node, NEW r, NEW k, NEW received,
           \A m \in received : m.type = "GSNRequest",
           StartAllocation(n, r, k, received), UNCHANGED <<term, votedFor, status, votes>>
    PROVE  ElectionInv'
<1>1. PICK g \in Counter : g = gsn[n] /\ Asked(n, g)
  BY DEF Asked, TypeOK, GsnTypes, Counter, ElectionInv, PendingSent
<1>2. PICK h \in {g, Reserve(n, Leads(n), term[n], g)} : SetGSN(n, h, tasks, received, {})
  BY <1>1 DEF StartAllocation
<1>3. \A m \in {} : m.type \notin {"VoteRequest", "VoteResponse", "Heartbeat", "Reserve"}
  OBVIOUS
<1> QED
  BY <1>1, <1>2, <1>3, CounterStep

LEMMA AllocationStep ==
    ASSUME TypeOK, ElectionInv, NEW n \in Node, Allocation(n)
    PROVE  ElectionInv'
<1>1. PICK g \in Counter : g = gsn[n] /\ Asked(n, g)
  BY DEF Asked, TypeOK, GsnTypes, Counter, ElectionInv, PendingSent
<1>2. ASSUME NEW m \in msgs, HandleGSNRequest(n, m) PROVE ElectionInv'
  <2>1. UNCHANGED <<term, votedFor, status, votes>> /\ m.type = "GSNRequest"
    BY <1>2 DEF HandleGSNRequest, electVars, voteVars
  <2>2. CASE StartAllocation(n, m.req, m.attempt, {m})
    BY <2>1, <2>2, StartAllocationStep
  <2>3. CASE /\ Exchange({m}, {[m EXCEPT !.to = leader[n]]})
             /\ UNCHANGED gsn
    <3> DEFINE forward == [m EXCEPT !.to = leader[n]]
    <3>1. forward.type = "GSNRequest" /\ Exchange({m}, {forward})
      BY <2>1, <2>3 DEF TypeOK, Message
    <3> HIDE DEF forward
    <3> QED
      BY <2>1, <2>3, <3>1, OtherStep
  <2> QED
    BY <1>2, <2>2, <2>3 DEF HandleGSNRequest, gsnVars
<1>3. ASSUME NEW r \in Req, NEW k \in 1 .. MaxAttempts, RetryReservation(n, r, k)
      PROVE  ElectionInv'
  <2>1. UNCHANGED <<term, votedFor, status, votes>>
    BY <1>3 DEF RetryReservation, electVars, voteVars
  <2>2. SetGSN(n, Reserve(n, Leads(n), term[n], g), tasks, {}, {})
    BY <1>1, <1>3 DEF RetryReservation
  <2> QED
    BY <1>1, <2>1, <2>2, CounterStep
<1>4. ASSUME NEW r \in Req, NEW k \in 1 .. MaxAttempts, Allocate(n, r, k)
      PROVE  ElectionInv'
  <2> DEFINE used == [g EXCEPT !.next = g.next + 1]
             sent == IF Proxy[r] = n THEN {}
                     ELSE {[type |-> "GSNResponse", req |-> r, gsn |-> g.next]}
  <2>1. UNCHANGED <<term, votedFor, status, votes>> /\ g.next <= g.confirmed
    BY <1>1, <1>4 DEF Allocate, electVars, voteVars
  <2>2. used \in Counter /\ Asked(n, used)
    <3>1. used \in Counter /\ used.pending = g.pending /\ used.term = g.term
      BY <1>1, <2>1, ParamAssumption DEF Counter
    <3> QED
      BY <1>1, <3>1 DEF Asked
  <2>3. \A m \in sent : m.type \notin {"VoteRequest", "VoteResponse", "Heartbeat", "Reserve"}
    OBVIOUS
  <2>4. \E h \in {used, Reserve(n, Leads(n), term[n], used)} : SetGSN(n, h, tasks, {}, sent)
    BY <1>1, <1>4 DEF Allocate
  <2> HIDE DEF used, sent
  <2>5. PICK u \in Counter : u = used /\ Asked(n, u)
    BY <2>2
  <2>6. PICK h \in {u, Reserve(n, Leads(n), term[n], u)} : SetGSN(n, h, tasks, {}, sent)
    BY <2>4, <2>5
  <2> DEFINE received == {}
  <2>7. SetGSN(n, h, tasks, received, sent) /\ \A m \in received : m.type = "GSNRequest"
    BY <2>6
  <2> HIDE DEF received
  <2> QED
    BY <2>1, <2>3, <2>5, <2>6, <2>7, CounterStep
<1>5. ASSUME NEW r \in Req, NEW k \in 1 .. MaxAttempts, GiveUpAllocation(n, r, k)
      PROVE  ElectionInv'
  <2>1. Exchange({}, {})
    BY <1>5 DEF GiveUpAllocation, Exchange
  <2> QED
    BY <1>5, <2>1, OtherStep DEF GiveUpAllocation, electVars, voteVars, gsnVars
<1> QED
  BY <1>2, <1>3, <1>4, <1>5 DEF Allocation

LEMMA RequestStep ==
    ASSUME TypeOK, ElectionInv, NEW r \in Req, Request(r)
    PROVE  ElectionInv'
<1>1. ASSUME SendGSNRequest(r) PROVE ElectionInv'
  <2> DEFINE p == Proxy[r]
             k == attempts[r] + 1
             request == [type |-> "GSNRequest", req |-> r, attempt |-> k, to |-> leader[p]]
  <2>1. p \in Node /\ UNCHANGED <<term, votedFor, status, votes>>
    BY <1>1, ParamAssumption DEF SendGSNRequest, electVars, voteVars
  <2>2. CASE StartAllocation(p, r, k, {})
    <3> HIDE DEF p, k
    <3> QED
      BY <2>1, <2>2, StartAllocationStep
  <2>3. CASE Send({request}) /\ UNCHANGED gsn
    <3>1. Exchange({}, {request}) /\ request.type = "GSNRequest"
      BY <2>3 DEF Send
    <3> HIDE DEF request
    <3> QED
      BY <2>1, <2>3, <3>1, OtherStep
  <2> QED
    BY <1>1, <2>2, <2>3 DEF SendGSNRequest, gsnVars
<1>2. ASSUME NEW m \in msgs, HandleGSNResponse(m) PROVE ElectionInv'
  <2>1. Exchange({}, {})
    BY <1>2 DEF HandleGSNResponse, Exchange
  <2> QED
    BY <1>2, <2>1, OtherStep DEF HandleGSNResponse, electVars, voteVars, gsnVars
<1>3. ASSUME ExhaustRequest(r) PROVE ElectionInv'
  <2>1. Exchange({}, {})
    BY <1>3 DEF ExhaustRequest, Exchange
  <2> QED
    BY <1>3, <2>1, OtherStep DEF ExhaustRequest, electVars, voteVars, gsnVars
<1>4. ASSUME PublishMETA(r) PROVE ElectionInv'
  <2>1. Exchange({}, {[type |-> "Meta", gsn |-> answer[r]]})
    BY <1>4 DEF PublishMETA, Send
  <2> QED
    BY <1>4, <2>1, OtherStep DEF PublishMETA, electVars, voteVars, gsnVars
<1> QED
  BY <1>1, <1>2, <1>3, <1>4 DEF Request

LEMMA MetaStep ==
    ASSUME TypeOK, ElectionInv, NEW n \in Node, Meta(n)
    PROVE  ElectionInv'
<1>1. ASSUME NEW m \in msgs, HandleMETAStream(n, m) \/ HandleMETASkip(n, m)
      PROVE  ElectionInv'
  <2>1. Exchange({}, {}) /\ UNCHANGED <<term, votedFor, status, votes, gsn>>
    BY <1>1 DEF HandleMETAStream, HandleMETASkip, Exchange, electVars, voteVars, gsnVars
  <2> QED
    BY <2>1, OtherStep
<1>2. ASSUME NEW t \in tasks, t.node = n, SkipMissing(t) PROVE ElectionInv'
  <2> DEFINE still == IF IsLeader(n) THEN t.gsns \ (metadata[n] \cup skipped[n]) ELSE {}
  <2>1. Exchange({}, SkipMsg(still)) /\ UNCHANGED <<term, votedFor, status, votes, gsn>>
    BY <1>2 DEF SkipMissing, Send, electVars, voteVars, gsnVars
  <2> HIDE DEF still
  <2>2. \A m \in SkipMsg(still) : m.type = "MetaSkip"
    BY DEF SkipMsg
  <2> QED
    BY <2>1, <2>2, OtherStep
<1> QED
  BY <1>1, <1>2 DEF Meta

LEMMA InitElected == Init => ElectionInv
<1> SUFFICES ASSUME Init PROVE ElectionInv
  OBVIOUS
<1> DEFINE none == [next |-> 1, confirmed |-> 0, pending |-> 0, term |-> 0, acks |-> {}]
           first == Reserve(Bootstrap, TRUE, 0, none)
<1>1. /\ gsn = [n \in Node |-> IF n = Bootstrap THEN first ELSE none]
      /\ msgs = ReserveMsg(Bootstrap, first)
      /\ term = [n \in Node |-> 0]
      /\ status = [n \in Node |-> IF n = Bootstrap THEN "leader" ELSE "follower"]
  BY DEF Init
<1>2. none.pending = 0
  OBVIOUS
<1> HIDE DEF none, first
<1>3. \A m \in msgs : m.type = "Reserve" /\ m.from = Bootstrap /\ m.term = first.term
  BY <1>1 DEF ReserveMsg
<1>4. first.pending # 0 => Announced(Bootstrap, first.term)
  BY <1>1 DEF ReserveMsg, Announced
<1>5. \A n, c \in Node, t \in Nat : ~ Voted(n, t, c)
  BY <1>3 DEF Voted, Granted, Requested
<1>6. \A l \in Node, t \in Nat : Led(l, t) => l = Bootstrap
  BY <1>1, <1>3 DEF Led
<1>7. first.term = 0
  <2>1. CASE first = none
    BY <2>1 DEF none
  <2>2. CASE first # none
    <3>1. PICK mark : first = [none EXCEPT !.pending = mark, !.term = 0, !.acks = {Bootstrap}]
      BY <2>2 DEF first, Reserve
    <3> QED
      BY <3>1 DEF none
  <2> QED
    BY <2>1, <2>2
<1>8. \A l \in Node, t \in Nat : Led(l, t) => t = 0
  BY <1>1, <1>3, <1>7 DEF Led
<1>9. PendingSent
  BY <1>1, <1>2, <1>4 DEF PendingSent
<1>10. \A n \in Node : status[n] # "candidate"
  BY <1>1
<1> QED
  BY <1>5, <1>6, <1>8, <1>9, <1>10
     DEF ElectionInv, VoteTerms, OpenTerms, LedTerms, CandidateVotes, BootTerm

\* A term has at most one leader, whatever the interleaving of elections,
\* heartbeats and suspended handlers, and however many nodes take part.
THEOREM ElectionSafe == Spec => []ElectionSafety
<1>1. Init => ElectionInv
  BY InitElected
<1>2. TypeOK /\ ElectionInv /\ [Next]_vars => ElectionInv'
  <2> SUFFICES ASSUME TypeOK, ElectionInv, [Next]_vars PROVE ElectionInv'
    OBVIOUS
  <2>1. CASE Next
    BY <2>1, ElectionStep, ReservationStep, AllocationStep, RequestStep, MetaStep DEF Next
  <2>2. CASE UNCHANGED vars
    <3>1. Exchange({}, {}) /\ UNCHANGED <<term, votedFor, status, votes, gsn>>
      BY <2>2 DEF vars, electVars, voteVars, gsnVars, Exchange
    <3> QED
      BY <3>1, OtherStep
  <2> QED
    BY <2>1, <2>2
<1>3. ElectionInv => ElectionSafety
  <2>1. 0 .. MaxTerm \subseteq Nat
    BY ParamAssumption
  <2> QED
    BY <2>1, OneLed DEF ElectionSafety
<1> QED
  BY <1>1, <1>2, <1>3, TypeCorrect, PTL DEF Spec

-----------------------------------------------------------------------------
(* Marks *)

Reserves == {m \in msgs : m.type = "Reserve"}

\* q has accepted the mark of reservation r: the leader by asking for it, another
\* node by its answer.
Backs(q, r) ==
    \/ q = r.from
    \/ \E a \in msgs : /\ a.type = "ReserveAck" /\ a.from = q
                       /\ a.term = r.term /\ a.upto = r.upto /\ a.to = r.from

Backed(r) == \E Q \in SUBSET Node : Majority(Q) /\ \A q \in Q : Backs(q, r)

\* The numbers n may hand out, or has: the blocks of its reservations that a
\* majority backs.
Numbers(n) ==
    {g \in Gsn : \E r \in Reserves : r.from = n /\ Backed(r) /\ r.upto - Block < g /\ g <= r.upto}

\* a is the answer to a reservation, or will be.
Answers(a) == \E r \in Reserves : a.term = r.term /\ a.upto = r.upto /\ a.to = r.from

\* A mark that was asked for, or answered, is accepted, and it was asked for by
\* a leader.
MarksAccepted ==
    /\ \A r \in Reserves :
          /\ r.upto > 0 /\ acceptedUpTo[r.from] >= r.upto
          /\ r.term <= term[r.from]
          /\ status[r.from] = "candidate" => r.term < term[r.from]
    /\ \A a \in msgs : a.type = "ReserveAck" => Answers(a) /\ acceptedUpTo[a.from] >= a.upto
    /\ \A t \in tasks : t.kind = "accept" => Answers(t)

\* The counter of n is inside its blocks, and the next block is asked for.
CountersBacked ==
    \A n \in Node :
        /\ gsn[n].next <= gsn[n].confirmed + 1
        /\ Free(n) \subseteq Numbers(n)
        /\ gsn[n].pending # 0 =>
              /\ gsn[n].pending = gsn[n].confirmed + Block
              /\ \E r \in Reserves :
                    /\ r.from = n /\ r.term = gsn[n].term /\ r.upto = gsn[n].pending
                    /\ \A q \in gsn[n].acks : Backs(q, r)

IssuedBacked == \A i \in issued : i.gsn \in Numbers(i.by) /\ i.gsn < gsn[i.by].next

MarkInv == MarksAccepted /\ CountersBacked /\ IssuedBacked

-----------------------------------------------------------------------------
(* Blocks of different leaders *)

\* No majority will ever back r: one of them has moved on to a later term
\* without it.
Refused(r) ==
    \E Q \in SUBSET Node : Majority(Q) /\ \A q \in Q : term[q] > r.term /\ ~Backs(q, r)

\* A vote reports the marks of earlier terms that the voter backs.
VotesReport ==
    \A m \in msgs, r \in Reserves :
        m.type = "VoteResponse" /\ m.granted /\ r.term < m.term /\ Backs(m.from, r)
          => r.upto <= m.accepted
CandidatesKnow ==
    \A c \in Node, r \in Reserves :
        status[c] = "candidate" /\ r.term < term[c] /\ (\E q \in votes[c] : Backs(q, r))
          => r.upto <= voteMaxAccepted[c]

\* A leader numbers, with the counter g, above every mark that may still be
\* backed by a majority, but for the one it waits for.
Above(l, g) ==
    \A r \in Reserves :
        /\ r.term < term[l] => r.upto <= g.confirmed \/ Refused(r)
        /\ r.term = term[l] => \/ r.upto <= g.confirmed
                               \/ r.upto = g.pending /\ r.term = g.term

\* The votes that made l leader told it of every mark, of an earlier term, that may
\* still be backed by a majority; acc is the highest it was told.
Heard(l, acc) == \A r \in Reserves : r.term < term[l] => r.upto <= acc \/ Refused(r)

\* The counter of l is still to be resumed for the term it leads.
Unresumed(l) == [kind |-> "resume", node |-> l, term |-> term[l]] \in tasks

LeadersAbove ==
    \A l \in Node : status[l] = "leader" => /\ Heard(l, voteMaxAccepted[l])
                                            /\ Unresumed(l) \/ Above(l, gsn[l])

\* A block apart.
Apart(r, s) == r.upto <= s.upto - Block
BlocksApart ==
    \A r, s \in Reserves :
        /\ r.term = s.term => r = s \/ Apart(r, s) \/ Apart(s, r)
        /\ r.term < s.term => Apart(r, s) \/ Refused(r)

BlockInv == VotesReport /\ CandidatesKnow /\ LeadersAbove /\ BlocksApart

-----------------------------------------------------------------------------
(* What a step does to reservations and counters *)

LEMMA GsnNat == Gsn \subseteq Nat
BY ParamAssumption DEF Gsn

LEMMA MarkFields ==
    ASSUME TypeOK, NEW m \in msgs, m.type \in {"Reserve", "ReserveAck"}
    PROVE  m.term \in Nat /\ m.upto \in Nat /\ m.from \in Node
<1>1. m.term \in Nat /\ m.upto \in Gsn /\ m.from \in Node
  BY MessageFields DEF TypeOK
<1> QED
  BY <1>1, GsnNat

LEMMA ReserveFields ==
    ASSUME TypeOK, NEW r \in Reserves
    PROVE  /\ r.type = "Reserve" /\ r.term \in Nat /\ r.upto \in Gsn /\ r.from \in Node
           /\ r = [type |-> "Reserve", term |-> r.term, upto |-> r.upto, from |-> r.from]
<1>1. r \in Message /\ r.type = "Reserve"
  BY DEF Reserves, TypeOK
<1> QED
  BY <1>1 DEF Message

\* Nothing that was sent is taken back, but for the requests that are served.
MessagesStay == \A m \in msgs : m.type = "GSNRequest" \/ m \in msgs'

LEMMA BackingStays ==
    ASSUME MessagesStay
    PROVE  /\ \A r \in Reserves : r \in Reserves'
           /\ \A q, r : Backs(q, r) => Backs(q, r)'
           /\ \A n : Numbers(n) \subseteq Numbers(n)'
           /\ \A a : Answers(a) => Answers(a)'
<1>1. \A r \in Reserves : r \in Reserves'
  BY DEF MessagesStay, Reserves
<1>2. ASSUME NEW q, NEW r, Backs(q, r) PROVE Backs(q, r)'
  BY <1>2 DEF MessagesStay, Backs
<1>3. ASSUME NEW r, Backed(r) PROVE Backed(r)'
  <2>1. PICK Q \in SUBSET Node : Majority(Q) /\ \A q \in Q : Backs(q, r)
    BY <1>3 DEF Backed
  <2>2. \A q \in Q : Backs(q, r)'
    BY <1>2, <2>1
  <2> QED
    BY <2>1, <2>2 DEF Backed
<1>4. ASSUME NEW n, NEW g \in Numbers(n) PROVE g \in Numbers(n)'
  <2>1. PICK r \in Reserves : r.from = n /\ Backed(r) /\ r.upto - Block < g /\ g <= r.upto
    BY DEF Numbers
  <2> QED
    BY <1>1, <1>3, <2>1 DEF Numbers
<1>5. \A a : Answers(a) => Answers(a)'
  BY <1>1 DEF Answers
<1> QED
  BY <1>1, <1>2, <1>4, <1>5

\* Terms rise, and a candidate is one still or in a new term.
TermsRise ==
    \A n \in Node :
        /\ term[n] <= term'[n]
        /\ status'[n] = "candidate" =>
              term[n] < term'[n] \/ (term[n] = term'[n] /\ status[n] = "candidate")

\* No reservation is made, and no counter moved: marks may be accepted and answered.
LEMMA AcceptKeepsMarks ==
    ASSUME TypeOK, TypeOK', MarkInv, MessagesStay, TermsRise, UNCHANGED <<gsn, issued>>,
           \A n \in Node : acceptedUpTo[n] <= acceptedUpTo'[n],
           \A m \in msgs' : \/ m \in msgs \/ m.type \notin {"Reserve", "ReserveAck"}
                            \/ /\ m.type = "ReserveAck" /\ acceptedUpTo'[m.from] >= m.upto
                               /\ Answers(m),
           \A t \in tasks' : t \in tasks \/ t.kind # "accept" \/ Answers(t)
    PROVE  MarkInv'
<1>1. \A n \in Node : /\ term[n] \in Nat /\ term'[n] \in Nat
                      /\ acceptedUpTo[n] \in Nat /\ acceptedUpTo'[n] \in Nat
  <2>1. /\ term \in [Node -> Nat] /\ term' \in [Node -> Nat]
        /\ acceptedUpTo \in [Node -> Gsn] /\ acceptedUpTo' \in [Node -> Gsn]
    BY DEF TypeOK, ElectionTypes, GsnTypes
  <2> QED
    BY <2>1, GsnNat
<1>2. ASSUME NEW m \in msgs, m.type \in {"Reserve", "ReserveAck"}
      PROVE  m.term \in Nat /\ m.upto \in Nat /\ m.from \in Node
  BY <1>2, MarkFields
<1>3. MarksAccepted'
  <2>1. ASSUME NEW r \in Reserves'
        PROVE  /\ r.upto > 0 /\ acceptedUpTo'[r.from] >= r.upto
               /\ r.term <= term'[r.from]
               /\ status'[r.from] = "candidate" => r.term < term'[r.from]
    <3>1. r \in Reserves
      BY DEF Reserves
    <3>2. /\ r.upto > 0 /\ acceptedUpTo[r.from] >= r.upto
          /\ r.term <= term[r.from]
          /\ status[r.from] = "candidate" => r.term < term[r.from]
      BY <3>1 DEF MarkInv, MarksAccepted
    <3>3. r.term \in Nat /\ r.upto \in Nat /\ r.from \in Node
      BY <1>2, <3>1 DEF Reserves
    <3> QED
      BY <1>1, <3>2, <3>3 DEF TermsRise
  <2>2. ASSUME NEW a \in msgs', a.type = "ReserveAck"
        PROVE  Answers(a)' /\ acceptedUpTo'[a.from] >= a.upto
    <3>1. CASE a \in msgs
      <4>1. /\ Answers(a) /\ acceptedUpTo[a.from] >= a.upto
            /\ a.from \in Node /\ a.upto \in Nat
        BY <1>2, <2>2, <3>1 DEF MarkInv, MarksAccepted
      <4> QED
        BY <1>1, <4>1, BackingStays
    <3>2. CASE a \notin msgs
      BY <2>2, <3>2, BackingStays
    <3> QED
      BY <3>1, <3>2
  <2>3. \A t \in tasks' : t.kind = "accept" => Answers(t)'
    BY BackingStays DEF MarkInv, MarksAccepted
  <2> QED
    BY <2>1, <2>2, <2>3 DEF MarksAccepted
<1>4. CountersBacked'
  <2>1. ASSUME NEW n \in Node, gsn[n].pending # 0
        PROVE  /\ gsn[n].pending = gsn[n].confirmed + Block
               /\ \E r \in Reserves' :
                     /\ r.from = n /\ r.term = gsn[n].term /\ r.upto = gsn[n].pending
                     /\ \A q \in gsn[n].acks : Backs(q, r)'
    <3>1. gsn[n].pending = gsn[n].confirmed + Block
      BY <2>1 DEF MarkInv, CountersBacked
    <3>2. PICK r \in Reserves : /\ r.from = n /\ r.term = gsn[n].term
                                /\ r.upto = gsn[n].pending
                                /\ \A q \in gsn[n].acks : Backs(q, r)
      BY <2>1 DEF MarkInv, CountersBacked
    <3>3. r \in Reserves' /\ \A q \in gsn[n].acks : Backs(q, r)'
      BY <3>2, BackingStays
    <3> QED
      BY <3>1, <3>2, <3>3
  <2>2. ASSUME NEW n \in Node
        PROVE  gsn[n].next <= gsn[n].confirmed + 1 /\ Free(n)' \subseteq Numbers(n)'
    <3>1. Free(n)' = Free(n)
      BY DEF Free
    <3>2. gsn[n].next <= gsn[n].confirmed + 1 /\ Free(n) \subseteq Numbers(n)
      BY DEF MarkInv, CountersBacked
    <3>3. Numbers(n) \subseteq Numbers(n)'
      BY BackingStays
    <3> QED
      BY <3>1, <3>2, <3>3
  <2> QED
    BY <2>1, <2>2 DEF CountersBacked
<1>5. IssuedBacked'
  BY BackingStays DEF MarkInv, IssuedBacked
<1> QED
  BY <1>3, <1>4, <1>5 DEF MarkInv


\* A counter that n may work with: inside the blocks of n, the next one asked for.
GoodCounter(n, g) ==
    /\ g \in Counter
    /\ gsn[n].next <= g.next /\ g.next <= g.confirmed + 1
    /\ g.next .. g.confirmed \subseteq Numbers(n)
    /\ g.pending # 0 =>
          /\ g.pending = g.confirmed + Block
          /\ \E r \in Reserves : /\ r.from = n /\ r.term = g.term /\ r.upto = g.pending
                                 /\ \A q \in g.acks : Backs(q, r)

LEMMA CounterFields ==
    ASSUME NEW g \in Counter
    PROVE  /\ g.next \in Nat /\ g.next > 0 /\ g.confirmed \in Nat /\ g.pending \in Nat
           /\ g.term \in Nat /\ g.acks \in SUBSET Node
BY ParamAssumption DEF Counter, Gsn

\* What requestReservationLocked makes of a counter.
LEMMA ReserveShape ==
    ASSUME NEW n \in Node, NEW lead \in BOOLEAN, NEW t \in Nat, NEW g \in Counter,
           g.next <= g.confirmed + 1, NEW h, h = Reserve(n, lead, t, g), h # g
    PROVE  /\ lead /\ (g.pending = 0 \/ g.term # t)
           /\ h.next = g.next /\ h.confirmed = g.confirmed
           /\ h.pending = g.confirmed + Block /\ h.term = t /\ h.acks = {n}
<1> DEFINE mark == Larger(g.confirmed, g.next - 1) + Block
<1>1. /\ lead /\ (g.pending = 0 \/ g.term # t)
      /\ h = [g EXCEPT !.pending = mark, !.term = t, !.acks = {n}]
  BY DEF Reserve
<1>2. mark = g.confirmed + Block
  BY CounterFields DEF Larger
<1> HIDE DEF mark
<1> QED
  BY <1>1, <1>2 DEF Counter

\* The counter of n becomes h, with the mark it asks for accepted by n itself and asked of
\* the others; nobody is suspended on a mark.
Counted(n, h) ==
    /\ gsn' = [gsn EXCEPT ![n] = h]
    /\ acceptedUpTo' = [acceptedUpTo EXCEPT ![n] = Larger(@, h.pending)]
    /\ MessagesStay
    /\ ReserveMsg(n, h) \subseteq msgs'
    /\ \A m \in msgs' : \/ m \in msgs \/ m \in ReserveMsg(n, h)
                        \/ m.type \notin {"Reserve", "ReserveAck", "VoteResponse"}
    /\ \A t \in tasks' : t \in tasks \/ t.kind # "accept"

LEMMA CountKeepsMarks ==
    ASSUME TypeOK, TypeOK', MarkInv, UNCHANGED term,
           \A c \in Node : status'[c] = "candidate" => status[c] = "candidate",
           NEW n \in Node, NEW lead \in BOOLEAN, lead => status'[n] # "candidate",
           NEW g, GoodCounter(n, g), NEW h \in {g, Reserve(n, lead, term[n], g)},
           Counted(n, h),
           \A i \in issued' :
               i \in issued \/ (i.by = n /\ i.gsn \in Numbers(n) /\ i.gsn < g.next)
    PROVE  MarkInv'
<1>1. /\ term \in [Node -> Nat] /\ acceptedUpTo \in [Node -> Nat]
      /\ gsn \in [Node -> Counter] /\ g \in Counter
      /\ \A i \in issued : i.by \in Node /\ i.gsn \in Nat
  BY GsnNat DEF TypeOK, ElectionTypes, GsnTypes, RequestTypes, GoodCounter
<1>2. /\ h.next = g.next /\ h.confirmed = g.confirmed /\ h \in Counter
      /\ h = g \/ (lead /\ h.pending = g.confirmed + Block /\ h.term = term[n] /\ h.acks = {n})
  BY <1>1, ReserveShape, ReserveType DEF GoodCounter
<1>3. /\ gsn' = [gsn EXCEPT ![n] = h]
      /\ acceptedUpTo' = [acceptedUpTo EXCEPT ![n] = Larger(@, h.pending)]
      /\ MessagesStay /\ ReserveMsg(n, h) \subseteq msgs'
      /\ \A m \in msgs' : \/ m \in msgs \/ m \in ReserveMsg(n, h)
                          \/ m.type \notin {"Reserve", "ReserveAck"}
      /\ \A t \in tasks' : t \in tasks \/ t.kind # "accept"
  BY DEF Counted
<1> DEFINE new == [type |-> "Reserve", term |-> h.term, upto |-> h.pending, from |-> n]
<1>4. ReserveMsg(n, h) = IF h.pending = 0 THEN {} ELSE {new}
  BY DEF ReserveMsg
<1>5. MessagesStay
  BY <1>3
<1>6. /\ h.pending \in Nat /\ acceptedUpTo'[n] >= h.pending
      /\ \A c \in Node : acceptedUpTo[c] \in Nat /\ acceptedUpTo'[c] \in Nat
      /\ \A c \in Node : acceptedUpTo[c] <= acceptedUpTo'[c]
  BY <1>1, <1>2, <1>3, CounterFields DEF Larger
<1>7. \A r \in Reserves' : r \in Reserves \/ (h.pending # 0 /\ r = new)
  BY <1>3, <1>4 DEF Reserves
<1>8. h # g => /\ lead /\ new.term = term[n]
  BY <1>2
<1>9. h = g /\ h.pending # 0 => new \in Reserves
  <2> SUFFICES ASSUME h = g, h.pending # 0 PROVE new \in Reserves
    OBVIOUS
  <2>1. PICK r \in Reserves : r.from = n /\ r.term = g.term /\ r.upto = g.pending
    BY DEF GoodCounter
  <2>2. r = new
    BY <2>1, ReserveFields
  <2> QED
    BY <2>1, <2>2
<1>10. MarksAccepted'
  <2>1. ASSUME NEW r \in Reserves'
        PROVE  /\ r.upto > 0 /\ acceptedUpTo'[r.from] >= r.upto
               /\ r.term <= term'[r.from]
               /\ status'[r.from] = "candidate" => r.term < term'[r.from]
    <3>1. CASE r \in Reserves
      <4>1. /\ r.upto > 0 /\ acceptedUpTo[r.from] >= r.upto
            /\ r.term <= term[r.from]
            /\ status[r.from] = "candidate" => r.term < term[r.from]
        BY <3>1 DEF MarkInv, MarksAccepted
      <4>2. r.upto \in Nat /\ r.from \in Node
        BY <3>1, ReserveFields, GsnNat
      <4> QED
        BY <1>6, <4>1, <4>2
    <3>2. CASE r \notin Reserves
      <4>1. h.pending # 0 /\ r = new /\ h # g
        BY <1>7, <1>9, <3>2
      <4>2. lead /\ r.term = term[n] /\ r.from = n /\ r.upto = h.pending
        BY <1>8, <4>1
      <4> QED
        BY <1>1, <1>6, <4>1, <4>2
    <3> QED
      BY <3>1, <3>2
  <2>2. ASSUME NEW a \in msgs', a.type = "ReserveAck"
        PROVE  Answers(a)' /\ acceptedUpTo'[a.from] >= a.upto
    <3>1. a \in msgs
      BY <1>3, <1>4, <2>2
    <3>2. /\ Answers(a) /\ acceptedUpTo[a.from] >= a.upto
          /\ a.from \in Node /\ a.upto \in Nat
      BY <2>2, <3>1, MarkFields DEF MarkInv, MarksAccepted
    <3> QED
      BY <1>5, <1>6, <3>2, BackingStays
  <2>3. \A t \in tasks' : t.kind = "accept" => Answers(t)'
    BY <1>3, <1>5, BackingStays DEF MarkInv, MarksAccepted
  <2> QED
    BY <2>1, <2>2, <2>3 DEF MarksAccepted
<1> HIDE DEF new
<1>11. CountersBacked'
  <2>1. ASSUME NEW c \in Node, c # n
        PROVE  /\ gsn'[c] = gsn[c]
               /\ gsn[c].next <= gsn[c].confirmed + 1
               /\ Free(c) \subseteq Numbers(c)'
               /\ gsn[c].pending # 0 =>
                     /\ gsn[c].pending = gsn[c].confirmed + Block
                     /\ \E r \in Reserves' :
                           /\ r.from = c /\ r.term = gsn[c].term /\ r.upto = gsn[c].pending
                           /\ \A q \in gsn[c].acks : Backs(q, r)'
    <3>1. gsn'[c] = gsn[c]
      BY <1>1, <1>3, <2>1
    <3>2. gsn[c].next <= gsn[c].confirmed + 1 /\ Free(c) \subseteq Numbers(c)'
      BY <1>5, BackingStays DEF MarkInv, CountersBacked
    <3>3. ASSUME gsn[c].pending # 0
          PROVE  /\ gsn[c].pending = gsn[c].confirmed + Block
                 /\ \E r \in Reserves' :
                       /\ r.from = c /\ r.term = gsn[c].term /\ r.upto = gsn[c].pending
                       /\ \A q \in gsn[c].acks : Backs(q, r)'
      BY <1>5, <3>3, BackingStays DEF MarkInv, CountersBacked
    <3> QED
      BY <3>1, <3>2, <3>3
  <2>2. /\ gsn'[n] = h /\ h.next <= h.confirmed + 1
        /\ h.next .. h.confirmed \subseteq Numbers(n)'
    BY <1>1, <1>2, <1>3, <1>5, BackingStays DEF GoodCounter
  <2>3. ASSUME h.pending # 0
        PROVE  /\ h.pending = h.confirmed + Block
               /\ \E r \in Reserves' :
                     /\ r.from = n /\ r.term = h.term /\ r.upto = h.pending
                     /\ \A q \in h.acks : Backs(q, r)'
    <3>1. CASE h = g
      BY <1>5, <2>3, <3>1, BackingStays DEF GoodCounter
    <3>2. CASE h # g
      <4>1. new \in Reserves'
        BY <1>3, <1>4, <2>3 DEF Reserves, new
      <4>2. \A q \in h.acks : Backs(q, new)'
        BY <1>2, <3>2 DEF Backs, new
      <4> QED
        BY <1>2, <3>2, <4>1, <4>2 DEF new
    <3> QED
      BY <3>1, <3>2
  <2>4. ASSUME NEW c \in Node
        PROVE  /\ gsn'[c].next <= gsn'[c].confirmed + 1
               /\ gsn'[c].next .. gsn'[c].confirmed \subseteq Numbers(c)'
               /\ gsn'[c].pending # 0 =>
                     /\ gsn'[c].pending = gsn'[c].confirmed + Block
                     /\ \E r \in Reserves' :
                           /\ r.from = c /\ r.term = gsn'[c].term /\ r.upto = gsn'[c].pending
                           /\ \A q \in gsn'[c].acks : Backs(q, r)'
    <3>1. CASE c = n
      BY <2>2, <2>3, <3>1
    <3>2. CASE c # n
      BY <2>1, <3>2 DEF Free
    <3> QED
      BY <3>1, <3>2
  <2> QED
    BY <2>4 DEF CountersBacked, Free
<1>12. IssuedBacked'
  <2> SUFFICES ASSUME NEW i \in issued' PROVE i.gsn \in Numbers(i.by)' /\ i.gsn < gsn'[i.by].next
    BY DEF IssuedBacked
  <2>1. gsn'[n].next = g.next /\ \A c \in Node : gsn[c].next <= gsn'[c].next
    BY <1>1, <1>2, <1>3, CounterFields DEF GoodCounter
  <2>2. CASE i \in issued
    <3>1. i.gsn \in Numbers(i.by) /\ i.gsn < gsn[i.by].next /\ i.by \in Node /\ i.gsn \in Nat
      BY <1>1, <2>2 DEF MarkInv, IssuedBacked
    <3>2. gsn[i.by].next \in Nat /\ gsn'[i.by].next \in Nat
      BY <1>1, <1>2, <1>3, <3>1, CounterFields
    <3> QED
      BY <1>5, <2>1, <3>1, <3>2, BackingStays
  <2>3. CASE i \notin issued
    BY <1>5, <2>1, <2>3, BackingStays
  <2> QED
    BY <2>2, <2>3
<1> QED
  BY <1>10, <1>11, <1>12 DEF MarkInv


\* An answer is counted, and the mark confirmed once a majority has answered.
LEMMA AckKeepsMarks ==
    ASSUME TypeOK, MarkInv, NEW n \in Node, NEW m \in msgs, HandleReserveAck(n, m)
    PROVE  MarkInv'
<1> DEFINE g == [gsn[n] EXCEPT !.acks = @ \cup {m.from}]
<1>1. /\ m.type = "ReserveAck" /\ m.to = n
      /\ gsn[n].pending = m.upto /\ gsn[n].term = m.term
      /\ gsn' = [gsn EXCEPT ![n] = IF Majority(g.acks) THEN ConfirmReservation(g) ELSE g]
      /\ UNCHANGED <<term, status, acceptedUpTo, issued, tasks, msgs>>
  BY DEF HandleReserveAck, electVars, reqVars
<1>2. gsn \in [Node -> Counter] /\ gsn[n] \in Counter /\ m.from \in Node
  BY <1>1, MarkFields DEF TypeOK, GsnTypes
<1>3. /\ g.next = gsn[n].next /\ g.confirmed = gsn[n].confirmed
      /\ g.pending = gsn[n].pending /\ g.term = gsn[n].term
      /\ g.acks = gsn[n].acks \cup {m.from} /\ g \in Counter
  BY <1>2 DEF Counter
<1>4. /\ ConfirmReservation(g).next = g.next /\ ConfirmReservation(g).confirmed = g.pending
      /\ ConfirmReservation(g).pending = 0
  BY <1>3 DEF ConfirmReservation, Counter
<1> HIDE DEF g
<1>5. Reserves' = Reserves /\ \A q, r : Backs(q, r)' <=> Backs(q, r)
  BY <1>1 DEF Reserves, Backs
<1>6. \A r : Backed(r)' <=> Backed(r)
  BY <1>5 DEF Backed
<1>7. \A c \in Node : Numbers(c)' = Numbers(c)
  BY <1>5, <1>6 DEF Numbers
<1>8. MarksAccepted'
  <2>1. \A a : Answers(a)' <=> Answers(a)
    BY <1>5 DEF Answers
  <2> QED
    BY <1>1, <1>5, <2>1 DEF MarkInv, MarksAccepted
<1>9. /\ gsn[n].next <= gsn[n].confirmed + 1 /\ Free(n) \subseteq Numbers(n)
      /\ gsn[n].next \in Nat /\ gsn[n].confirmed \in Nat /\ gsn[n].pending \in Gsn
      /\ Block \in Nat \ {0}
  BY <1>2, CounterFields, ParamAssumption DEF MarkInv, CountersBacked, Counter
<1>10. PICK r \in Reserves : /\ r.from = n /\ r.term = gsn[n].term /\ r.upto = gsn[n].pending
                             /\ \A q \in g.acks : Backs(q, r)
  <2>1. Answers(m)
    BY <1>1 DEF MarkInv, MarksAccepted
  <2>2. gsn[n].pending # 0
    BY <1>1, <2>1 DEF Answers, MarkInv, MarksAccepted
  <2>3. PICK r \in Reserves : /\ r.from = n /\ r.term = gsn[n].term /\ r.upto = gsn[n].pending
                              /\ \A q \in gsn[n].acks : Backs(q, r)
    BY <2>2 DEF MarkInv, CountersBacked
  <2>4. Backs(m.from, r)
    BY <1>1, <2>3 DEF Backs
  <2> QED
    BY <1>3, <2>3, <2>4
<1>11. gsn[n].pending = gsn[n].confirmed + Block
  <2>1. r.upto > 0
    BY DEF MarkInv, MarksAccepted
  <2> QED
    BY <1>10, <2>1 DEF MarkInv, CountersBacked
<1>12. CASE Majority(g.acks)
  <2>1. /\ gsn'[n].next = gsn[n].next /\ gsn'[n].confirmed = gsn[n].pending
        /\ gsn'[n].pending = 0
    BY <1>1, <1>2, <1>3, <1>4, <1>12
  <2>2. Backed(r)
    BY <1>3, <1>10, <1>12, CounterFields DEF Backed
  <2>3. \A x \in gsn[n].next .. gsn[n].pending : x \in Numbers(n)
    <3> SUFFICES ASSUME NEW x \in gsn[n].next .. gsn[n].pending PROVE x \in Numbers(n)
      OBVIOUS
    <3>1. CASE x <= gsn[n].confirmed
      BY <1>9, <3>1 DEF Free
    <3>2. CASE x > gsn[n].confirmed
      <4>1. x \in Gsn /\ r.upto - Block < x /\ x <= r.upto
        <5>1. gsn[n].pending \in Nat /\ gsn[n].pending <= MaxGSN /\ MaxGSN \in Nat
          BY <1>9, ParamAssumption DEF Gsn
        <5>2. x \in Nat /\ x <= gsn[n].pending
          BY <1>9, <5>1
        <5>3. r.upto = gsn[n].confirmed + Block
          BY <1>10, <1>11
        <5> QED
          BY <1>9, <1>10, <3>2, <5>1, <5>2, <5>3 DEF Gsn
      <4> QED
        BY <1>10, <2>2, <4>1 DEF Numbers
    <3> QED
      BY <1>9, <3>1, <3>2
  <2>4. ASSUME NEW c \in Node
        PROVE  /\ gsn'[c].next <= gsn'[c].confirmed + 1
               /\ gsn'[c].next .. gsn'[c].confirmed \subseteq Numbers(c)
               /\ gsn'[c].pending # 0 => gsn'[c] = gsn[c]
               /\ gsn'[c].next = gsn[c].next
    <3>1. CASE c = n
      BY <1>9, <1>11, <2>1, <2>3, <3>1
    <3>2. CASE c # n
      <4>1. gsn'[c] = gsn[c]
        BY <1>1, <1>2, <3>2
      <4> QED
        BY <4>1 DEF MarkInv, CountersBacked, Free
    <3> QED
      BY <3>1, <3>2
  <2>5. CountersBacked'
    BY <1>5, <1>7, <2>4 DEF MarkInv, CountersBacked, Free
  <2>6. IssuedBacked'
    BY <1>1, <1>7, <2>4 DEF MarkInv, IssuedBacked, TypeOK, RequestTypes
  <2> QED
    BY <1>8, <2>5, <2>6 DEF MarkInv
<1>13. CASE ~ Majority(g.acks)
  <2>1. gsn'[n] = g /\ \A c \in Node \ {n} : gsn'[c] = gsn[c]
    BY <1>1, <1>2, <1>13
  <2>2. CountersBacked'
    <3>1. ASSUME NEW c \in Node
          PROVE  /\ gsn'[c].next <= gsn'[c].confirmed + 1
                 /\ gsn'[c].next .. gsn'[c].confirmed \subseteq Numbers(c)
                 /\ gsn'[c].pending # 0 =>
                       /\ gsn'[c].pending = gsn'[c].confirmed + Block
                       /\ \E s \in Reserves :
                             /\ s.from = c /\ s.term = gsn'[c].term /\ s.upto = gsn'[c].pending
                             /\ \A q \in gsn'[c].acks : Backs(q, s)
      <4>1. CASE c = n
        BY <1>3, <1>9, <1>10, <1>11, <2>1, <4>1 DEF Free
      <4>2. CASE c # n
        BY <2>1, <4>2 DEF MarkInv, CountersBacked, Free
      <4> QED
        BY <4>1, <4>2
    <3> QED
      BY <1>5, <1>7, <3>1 DEF CountersBacked, Free
  <2>3. \A c \in Node : gsn'[c].next = gsn[c].next
    BY <1>3, <2>1
  <2>4. IssuedBacked'
    BY <1>1, <1>7, <2>3 DEF MarkInv, IssuedBacked, TypeOK, RequestTypes
  <2> QED
    BY <1>8, <2>2, <2>4 DEF MarkInv
<1> QED
  BY <1>12, <1>13


-----------------------------------------------------------------------------
(* The shapes of a step *)

LEMMA SetGSNCounted ==
    ASSUME NEW n, NEW h, NEW todo, NEW received, \A m \in received : m.type = "GSNRequest",
           NEW sent, \A m \in sent : m.type \notin {"Reserve", "ReserveAck", "VoteResponse"},
           SetGSN(n, h, todo, received, sent),
           \A t \in tasks' : t \in tasks \/ t.kind # "accept"
    PROVE  Counted(n, h)
<1>1. /\ gsn' = [gsn EXCEPT ![n] = h]
      /\ acceptedUpTo' = [acceptedUpTo EXCEPT ![n] = Larger(@, h.pending)]
      /\ msgs' = (msgs \ received) \cup (sent \cup ReserveMsg(n, h))
  BY DEF SetGSN, Exchange
<1> QED
  BY <1>1 DEF Counted, MessagesStay

\* The counter of n as it is, or with one number used.
Uses(n, g) ==
    /\ GoodCounter(n, g)
    /\ g.confirmed = gsn[n].confirmed /\ g.pending = gsn[n].pending /\ g.term = gsn[n].term

LEMMA OwnCounter ==
    ASSUME TypeOK, MarkInv, NEW n \in Node
    PROVE  Uses(n, gsn[n])
<1>1. gsn[n] \in Counter /\ gsn[n].next \in Nat
  BY CounterFields DEF TypeOK, GsnTypes
<1> QED
  BY <1>1 DEF Uses, GoodCounter, MarkInv, CountersBacked, Free

LEMMA UsedCounter ==
    ASSUME TypeOK, MarkInv, NEW n \in Node, gsn[n].next <= gsn[n].confirmed
    PROVE  /\ Uses(n, [gsn[n] EXCEPT !.next = gsn[n].next + 1])
           /\ gsn[n].next \in Numbers(n)
<1> DEFINE g == gsn[n]
           used == [gsn[n] EXCEPT !.next = gsn[n].next + 1]
<1>1. g \in Counter /\ Uses(n, g) /\ g.next \in Nat /\ g.confirmed \in Nat
  BY OwnCounter, CounterFields DEF TypeOK, GsnTypes
<1>2. /\ used.next = g.next + 1 /\ used.confirmed = g.confirmed /\ used.pending = g.pending
      /\ used.term = g.term /\ used.acks = g.acks
  BY <1>1 DEF Counter
<1>3. used \in Counter
  BY <1>1, ParamAssumption DEF Counter, Gsn
<1> HIDE DEF used
<1>4. used.next .. used.confirmed \subseteq Numbers(n) /\ g.next \in Numbers(n)
  <2>1. \A x \in g.next .. g.confirmed : x \in Numbers(n)
    BY <1>1 DEF Uses, GoodCounter
  <2>2. g.next \in g.next .. g.confirmed
    BY <1>1
  <2>3. \A x \in used.next .. used.confirmed : x \in g.next .. g.confirmed
    BY <1>1, <1>2
  <2> QED
    BY <2>1, <2>2, <2>3
<1>5. g.next <= used.next /\ used.next <= used.confirmed + 1
  BY <1>1, <1>2
<1> QED
  BY <1>1, <1>2, <1>3, <1>4, <1>5 DEF Uses, GoodCounter, used

\* A counter that resumes is used up, above the marks reported, those accepted here,
\* and its own numbers.
LEMMA ResumeCounted ==
    ASSUME TypeOK, NEW n \in Node, NEW lead \in BOOLEAN, NEW t \in Nat,
           NEW acc \in Gsn, NEW meta \in Gsn, NEW holes \in SUBSET Gsn, NEW done,
           Resume(n, lead, t, acc, meta, holes, done)
    PROVE  \E g : /\ GoodCounter(n, g) /\ g.pending = 0
                  /\ acc <= g.confirmed /\ acceptedUpTo[n] <= g.confirmed
                  /\ Counted(n, Reserve(n, lead, t, g))
                  /\ raced' = (raced \/ Early(n, Reserve(n, lead, t, g), tasks \ done))
<1> DEFINE maxAcc  == Larger(acc, acceptedUpTo[n])
           old     == gsn[n].next
           resume  == ResumePoint(maxAcc, old)
           fresh   == [gsn[n] EXCEPT !.next = resume, !.confirmed = resume - 1, !.pending = 0]
<1>1. /\ gsn[n] \in Counter /\ acceptedUpTo[n] \in 0 .. MaxGSN /\ acc \in 0 .. MaxGSN
      /\ MaxGSN \in Nat
  BY ParamAssumption DEF TypeOK, GsnTypes, Gsn
<1>2. maxAcc \in 0 .. MaxGSN /\ acc <= maxAcc /\ acceptedUpTo[n] <= maxAcc
  BY <1>1 DEF Larger
<1>3. old \in 1 .. MaxGSN + 1
  BY <1>1 DEF Counter
<1> HIDE DEF maxAcc, old
<1>4. resume \in 1 .. MaxGSN + 1 /\ old <= resume /\ maxAcc + 1 <= resume
  BY <1>1, <1>2, <1>3 DEF ResumePoint, Larger
<1> HIDE DEF resume
<1>5. /\ fresh.next = resume /\ fresh.confirmed = resume - 1 /\ fresh.pending = 0
      /\ fresh.term = gsn[n].term /\ fresh.acks = gsn[n].acks
  BY <1>1 DEF Counter
<1>6. fresh \in Counter
  <2>1. resume - 1 \in Gsn /\ 0 \in Gsn
    BY <1>1, <1>4 DEF Gsn
  <2>2. \A c \in Gsn, p \in Gsn :
           [gsn[n] EXCEPT !.next = resume, !.confirmed = c, !.pending = p] \in Counter
    BY <1>1, <1>4 DEF Counter
  <2> QED
    BY <2>1, <2>2
<1>7. \E skip, missing :
         /\ SetGSN(n, Reserve(n, lead, t, fresh), tasks \ done, {}, SkipMsg(skip))
         /\ tasks' = (tasks \ done) \cup
                        (IF missing = {} THEN {}
                         ELSE {[kind |-> "holes", node |-> n, gsns |-> missing]})
  BY DEF Resume, fresh, resume, old, maxAcc
<1> HIDE DEF fresh
<1>8. /\ Counted(n, Reserve(n, lead, t, fresh))
      /\ raced' = (raced \/ Early(n, Reserve(n, lead, t, fresh), tasks \ done))
  <2>1. PICK skip, missing :
           /\ SetGSN(n, Reserve(n, lead, t, fresh), tasks \ done, {}, SkipMsg(skip))
           /\ tasks' = (tasks \ done) \cup
                          (IF missing = {} THEN {}
                           ELSE {[kind |-> "holes", node |-> n, gsns |-> missing]})
    BY <1>7
  <2>2. \A m \in SkipMsg(skip) : m.type \notin {"Reserve", "ReserveAck", "VoteResponse"}
    BY DEF SkipMsg
  <2>3. \A s \in tasks' : s \in tasks \/ s.kind # "accept"
    BY <2>1
  <2>4. \A m \in {} : m.type = "GSNRequest"
    OBVIOUS
  <2> QED
    BY <2>1, <2>2, <2>3, <2>4, SetGSNCounted DEF SetGSN
<1>9. /\ gsn[n].next <= fresh.next /\ fresh.next <= fresh.confirmed + 1
      /\ fresh.next .. fresh.confirmed = {}
      /\ acc <= fresh.confirmed /\ acceptedUpTo[n] <= fresh.confirmed
  BY <1>1, <1>2, <1>3, <1>4, <1>5 DEF old
<1>10. GoodCounter(n, fresh)
  BY <1>5, <1>6, <1>9 DEF GoodCounter
<1> QED
  BY <1>5, <1>8, <1>9, <1>10


\* A candidate counts votes, or a new candidature starts.
Stays(c) ==
    /\ term'[c] = term[c] /\ status[c] = "candidate"
    /\ voteMaxAccepted[c] <= voteMaxAccepted'[c]
    /\ \A q \in votes'[c] :
          \/ q \in votes[c]
          \/ \E m \in msgs : /\ m.type = "VoteResponse" /\ m.granted /\ m.from = q
                             /\ m.term = term[c] /\ m.accepted <= voteMaxAccepted'[c]
Starts(c) ==
    /\ term[c] < term'[c]
    /\ votes'[c] = {c} /\ voteMaxAccepted'[c] = acceptedUpTo[c]

\* Nobody is suspended on a mark, and who is suspended on an election won still is.
HandlersStay ==
    /\ \A t \in tasks' : t \in tasks \/ t.kind # "accept"
    /\ \A t \in tasks : t.kind = "resume" => t \in tasks'

\* A step that touches no reservation: terms rise, votes are given and counted.
Silent ==
    /\ UNCHANGED <<gsnVars, issued>>
    /\ MessagesStay /\ HandlersStay
    /\ \A m \in msgs' :
          \/ m \in msgs \/ m.type \notin {"Reserve", "ReserveAck", "VoteResponse"}
          \/ m.type = "VoteResponse" /\ m.accepted = acceptedUpTo[m.from]
    /\ \A c \in Node :
          /\ term[c] <= term'[c]
          /\ status'[c] = "leader" => /\ status[c] = "leader" /\ term'[c] = term[c]
                                      /\ voteMaxAccepted'[c] = voteMaxAccepted[c]
          /\ status'[c] = "candidate" => Stays(c) \/ Starts(c)

\* A step that only uses, or reserves, numbers.
Counting(n) ==
    /\ UNCHANGED <<term, status, votes, voteMaxAccepted, tasks>>
    /\ \E g, h : /\ Uses(n, g) /\ h \in {g, Reserve(n, Leads(n), term[n], g)}
                 /\ Counted(n, h) /\ raced' = (raced \/ Early(n, h, tasks))
                 /\ \A i \in issued' : \/ i \in issued
                                       \/ /\ i.by = n /\ i.gsn \in Numbers(n)
                                          /\ gsn[n].next <= i.gsn /\ i.gsn < g.next
    /\ \A i, j \in issued' \ issued : i = j

LEMMA Unelected ==
    ASSUME TypeOK, UNCHANGED <<term, status, votes, voteMaxAccepted, gsnVars, issued>>,
           MessagesStay, HandlersStay,
           \A m \in msgs' : m \in msgs \/ m.type \notin {"Reserve", "ReserveAck", "VoteResponse"}
    PROVE  Silent
<1>1. ASSUME NEW c \in Node
      PROVE  /\ term[c] <= term'[c]
             /\ status'[c] = "leader" => /\ status[c] = "leader" /\ term'[c] = term[c]
                                         /\ voteMaxAccepted'[c] = voteMaxAccepted[c]
             /\ status'[c] = "candidate" => Stays(c)
  <2>1. term[c] \in Nat /\ voteMaxAccepted[c] \in Nat
    BY GsnNat DEF TypeOK, ElectionTypes
  <2> QED
    BY <2>1 DEF Stays
<1> QED
  BY <1>1 DEF Silent

LEMMA StartElectionSilent ==
    ASSUME TypeOK, NEW n \in Node, StartElection(n), UNCHANGED <<gsnVars, issued>>,
           HandlersStay
    PROVE  Silent
<1>1. /\ term \in [Node -> Nat] /\ status \in [Node -> Status] /\ votes \in [Node -> SUBSET Node]
      /\ voteMaxAccepted \in [Node -> Nat] /\ acceptedUpTo \in [Node -> Nat]
  BY GsnNat DEF TypeOK, ElectionTypes, GsnTypes
<1>2. /\ term' = [term EXCEPT ![n] = @ + 1] /\ status' = [status EXCEPT ![n] = "candidate"]
      /\ votes' = [votes EXCEPT ![n] = {n}]
      /\ voteMaxAccepted' = [voteMaxAccepted EXCEPT ![n] = acceptedUpTo[n]]
      /\ msgs' = msgs \cup {[type |-> "VoteRequest", term |-> term[n] + 1, from |-> n]}
  BY DEF StartElection, Send, Exchange
<1>3. ASSUME NEW c \in Node
      PROVE  /\ term[c] <= term'[c]
             /\ status'[c] = "leader" => /\ status[c] = "leader" /\ term'[c] = term[c]
                                         /\ voteMaxAccepted'[c] = voteMaxAccepted[c]
             /\ status'[c] = "candidate" => Stays(c) \/ Starts(c)
  <2>1. CASE c = n
    BY <1>1, <1>2, <2>1 DEF Starts
  <2>2. CASE c # n
    BY <1>1, <1>2, <2>2 DEF Stays
  <2> QED
    BY <2>1, <2>2
<1>4. MessagesStay
  BY <1>2 DEF MessagesStay
<1>5. \A m \in msgs' : m \in msgs \/ m.type \notin {"Reserve", "ReserveAck", "VoteResponse"}
  BY <1>2
<1> QED
  BY <1>3, <1>4, <1>5 DEF Silent

\* A node that follows a later leader, or a later term.
LEMMA FollowSilent ==
    ASSUME TypeOK, NEW n \in Node, UNCHANGED <<votes, voteMaxAccepted, gsnVars, issued>>,
           MessagesStay, HandlersStay,
           \A m \in msgs' :
               \/ m \in msgs \/ m.type \notin {"Reserve", "ReserveAck", "VoteResponse"}
               \/ m.type = "VoteResponse" /\ m.accepted = acceptedUpTo[m.from],
           NEW u \in Nat, term[n] <= u, term' = [term EXCEPT ![n] = u],
           \/ status' = status /\ u = term[n]
           \/ status' = [status EXCEPT ![n] = "follower"]
    PROVE  Silent
<1>1. term \in [Node -> Nat] /\ status \in [Node -> Status] /\ voteMaxAccepted \in [Node -> Nat]
  BY GsnNat DEF TypeOK, ElectionTypes
<1>2. ASSUME NEW c \in Node
      PROVE  /\ term[c] <= term'[c]
             /\ status'[c] = "leader" => /\ status[c] = "leader" /\ term'[c] = term[c]
                                         /\ voteMaxAccepted'[c] = voteMaxAccepted[c]
             /\ status'[c] = "candidate" => Stays(c)
  <2>1. CASE c = n
    BY <1>1, <2>1 DEF Stays
  <2>2. CASE c # n
    BY <1>1, <2>2 DEF Stays
  <2> QED
    BY <2>1, <2>2
<1> QED
  BY <1>2 DEF Silent

\* A vote is counted that does not yet make a majority.
LEMMA CountSilent ==
    ASSUME TypeOK, NEW n \in Node, NEW m \in msgs, CountVote(n, m),
           UNCHANGED <<term, status, gsnVars, issued, tasks, msgs>>
    PROVE  Silent
<1>1. /\ m.type = "VoteResponse" /\ status[n] = "candidate" /\ m.term = term[n] /\ m.granted
      /\ votes' = [votes EXCEPT ![n] = @ \cup {m.from}]
      /\ voteMaxAccepted' = [voteMaxAccepted EXCEPT ![n] = Larger(@, m.accepted)]
  BY DEF CountVote
<1>2. /\ term \in [Node -> Nat] /\ votes \in [Node -> SUBSET Node]
      /\ voteMaxAccepted \in [Node -> Nat]
  BY GsnNat DEF TypeOK, ElectionTypes
<1>3. m.accepted \in Nat
  BY <1>1, MessageFields, GsnNat DEF TypeOK
<1>4. ASSUME NEW c \in Node
      PROVE  /\ term[c] <= term'[c]
             /\ status'[c] = "leader" => /\ status[c] = "leader" /\ term'[c] = term[c]
                                         /\ voteMaxAccepted'[c] = voteMaxAccepted[c]
             /\ status'[c] = "candidate" => Stays(c)
  <2>1. CASE c = n
    <3>1. /\ voteMaxAccepted'[c] = Larger(voteMaxAccepted[c], m.accepted)
          /\ votes'[c] = votes[c] \cup {m.from}
      BY <1>1, <1>2, <2>1
    <3>2. voteMaxAccepted[c] <= voteMaxAccepted'[c] /\ m.accepted <= voteMaxAccepted'[c]
      BY <1>2, <1>3, <3>1 DEF Larger
    <3>3. Stays(c)
      BY <1>1, <2>1, <3>1, <3>2 DEF Stays
    <3> QED
      BY <1>1, <1>2, <2>1, <3>3
  <2>2. CASE c # n
    <3>1. votes'[c] = votes[c] /\ voteMaxAccepted'[c] = voteMaxAccepted[c]
      BY <1>1, <1>2, <2>2
    <3> QED
      BY <1>2, <3>1 DEF Stays
  <2> QED
    BY <2>1, <2>2
<1> QED
  BY <1>4 DEF Silent, MessagesStay, HandlersStay

Takeover == \/ \E n \in Node, m \in msgs : WinElection(n, m)
            \/ \E t \in tasks : ResumeSuspended(t)

LEMMA ElectionShape ==
    ASSUME TypeOK, NEW n \in Node, Election(n)
    PROVE  Silent \/ Takeover
<1>1. term[n] \in Nat
  BY DEF TypeOK, ElectionTypes
<1>2. ASSUME OnElectionTimeout(n) PROVE Silent
  BY <1>2, Unelected
     DEF OnElectionTimeout, Send, Exchange, MessagesStay, HandlersStay,
         electVars, voteVars, gsnVars, reqVars
<1>3. ASSUME ElectSuspended(n) PROVE Silent
  <2>0. HandlersStay
    BY <1>3 DEF ElectSuspended, HandlersStay
  <2>1. CASE status[n] = "leader"
    BY <1>3, <2>0, <2>1, Unelected
       DEF ElectSuspended, MessagesStay, electVars, voteVars, gsnVars, reqVars
  <2>2. CASE status[n] # "leader"
    BY <1>3, <2>0, <2>2, StartElectionSilent DEF ElectSuspended, gsnVars, reqVars
  <2> QED
    BY <2>1, <2>2
<1>4. ASSUME Heartbeat(n) PROVE Silent
  BY <1>4, Unelected
     DEF Heartbeat, Send, Exchange, MessagesStay, HandlersStay,
         electVars, voteVars, gsnVars, reqVars
<1>5. ASSUME NEW m \in msgs, HandlePreVoteRequest(n, m) PROVE Silent
  BY <1>5, Unelected
     DEF HandlePreVoteRequest, Send, Exchange, MessagesStay, HandlersStay,
         electVars, voteVars, gsnVars, reqVars
<1>6. ASSUME NEW m \in msgs, HandlePreVoteResponse(n, m) PROVE Silent
  <2>1. UNCHANGED <<gsnVars, issued>>
    BY <1>6 DEF HandlePreVoteResponse, gsnVars, reqVars
  <2>2. CASE UNCHANGED <<electVars, voteVars, tasks, msgs>>
    BY <2>1, <2>2, Unelected DEF MessagesStay, HandlersStay, electVars, voteVars
  <2>3. CASE /\ tasks' = tasks \cup {[kind |-> "elect", node |-> n]}
             /\ UNCHANGED <<electVars, voteVars, msgs>>
    <3>1. HandlersStay
      BY <2>3 DEF HandlersStay
    <3> QED
      BY <2>1, <2>3, <3>1, Unelected DEF MessagesStay, electVars, voteVars
  <2>4. CASE StartElection(n) /\ UNCHANGED tasks
    BY <2>1, <2>4, StartElectionSilent DEF HandlersStay
  <2> QED
    BY <1>6, <2>2, <2>3, <2>4 DEF HandlePreVoteResponse
<1>7. ASSUME NEW m \in msgs, HandleVoteRequest(n, m) PROVE Silent
  <2> DEFINE newer == m.term > term[n]
             now == IF newer THEN m.term ELSE term[n]
  <2>1. PICK granted, meta, holes :
           Send({[type |-> "VoteResponse", term |-> now, reqTerm |-> m.term,
                  granted |-> granted, accepted |-> acceptedUpTo[n], meta |-> meta,
                  holes |-> holes, from |-> n, to |-> m.from]})
    BY <1>7 DEF HandleVoteRequest
  <2>2. m.term \in Nat
    BY <1>7, MessageFields DEF HandleVoteRequest, TypeOK
  <2>3. /\ term' = [term EXCEPT ![n] = now]
        /\ status' = [status EXCEPT ![n] = IF newer THEN "follower" ELSE @]
        /\ UNCHANGED <<votes, voteMaxAccepted, gsnVars, issued, tasks>>
    BY <1>7 DEF HandleVoteRequest, Follow, voteVars, gsnVars, reqVars
  <2>4. \/ status' = status /\ now = term[n]
        \/ status' = [status EXCEPT ![n] = "follower"]
    BY <2>3 DEF TypeOK, ElectionTypes
  <2>5. now \in Nat /\ term[n] <= now
    BY <1>1, <2>2
  <2>6. MessagesStay /\ HandlersStay
    BY <2>1, <2>3 DEF MessagesStay, HandlersStay, Send, Exchange
  <2>7. \A v \in msgs' : \/ v \in msgs
                         \/ v.type = "VoteResponse" /\ v.accepted = acceptedUpTo[v.from]
    BY <2>1 DEF Send, Exchange
  <2> HIDE DEF now, newer
  <2> QED
    BY <2>3, <2>4, <2>5, <2>6, <2>7, FollowSilent
<1>8. ASSUME NEW m \in msgs, VoteResponseStepDown(n, m) PROVE Silent
  <2>1. m.term \in Nat /\ term[n] <= m.term
    BY <1>1, <1>8, MessageFields DEF VoteResponseStepDown, TypeOK
  <2>2. MessagesStay /\ HandlersStay
    BY <1>8 DEF VoteResponseStepDown, MessagesStay, HandlersStay
  <2> QED
    BY <1>8, <2>1, <2>2, FollowSilent DEF VoteResponseStepDown, voteVars, gsnVars, reqVars
<1>9. ASSUME NEW m \in msgs, HandleVote(n, m) PROVE Silent
  BY <1>9, CountSilent DEF HandleVote, electVars, gsnVars, reqVars
<1>10. ASSUME NEW m \in msgs, HandleHeartbeat(n, m) PROVE Silent
  <2>1. MessagesStay /\ HandlersStay
    BY <1>10 DEF HandleHeartbeat, MessagesStay, HandlersStay
  <2>2. UNCHANGED <<votes, voteMaxAccepted, gsnVars, issued, tasks, msgs>>
    BY <1>10 DEF HandleHeartbeat, voteVars, gsnVars, reqVars
  <2>3. CASE m.term < term[n]
    BY <1>10, <2>1, <2>2, <2>3, Unelected DEF HandleHeartbeat, electVars
  <2>4. CASE ~ (m.term < term[n])
    <3>1. m.term \in Nat
      BY <1>10, MessageFields DEF HandleHeartbeat, TypeOK
    <3>2. /\ term[n] <= m.term /\ term' = [term EXCEPT ![n] = m.term]
          /\ status' = [status EXCEPT ![n] = "follower"]
      BY <1>1, <1>10, <2>4, <3>1 DEF HandleHeartbeat
    <3> QED
      BY <2>1, <2>2, <3>1, <3>2, FollowSilent
  <2> QED
    BY <2>3, <2>4
<1> QED
  BY <1>2, <1>3, <1>4, <1>5, <1>6, <1>7, <1>8, <1>9, <1>10 DEF Election, Takeover

Accepting == \/ \E n \in Node, m \in msgs : HandleReserve(n, m) \/ HandleReserveAck(n, m)
             \/ \E t \in tasks : AcceptSuspended(t)

LEMMA StartCounting ==
    ASSUME TypeOK, MarkInv, NEW n \in Node, NEW r, NEW k, NEW received,
           \A m \in received : m.type = "GSNRequest", StartAllocation(n, r, k, received),
           UNCHANGED <<term, status, votes, voteMaxAccepted, issued, tasks>>
    PROVE  Counting(n)
<1>1. PICK h \in {gsn[n], Reserve(n, Leads(n), term[n], gsn[n])} : SetGSN(n, h, tasks, received, {})
  BY DEF StartAllocation
<1>2. Counted(n, h)
  BY <1>1, SetGSNCounted
<1>3. Uses(n, gsn[n])
  BY OwnCounter
<1>4. raced' = (raced \/ Early(n, h, tasks))
  BY <1>1 DEF SetGSN
<1> QED
  BY <1>1, <1>2, <1>3, <1>4 DEF Counting

LEMMA AllocationShape ==
    ASSUME TypeOK, MarkInv, NEW n \in Node, Allocation(n)
    PROVE  Silent \/ Counting(n)
<1>1. ASSUME NEW m \in msgs, HandleGSNRequest(n, m) PROVE Silent \/ Counting(n)
  <2>1. /\ UNCHANGED <<term, status, votes, voteMaxAccepted, issued, tasks>>
        /\ m.type = "GSNRequest"
    BY <1>1 DEF HandleGSNRequest, electVars, voteVars
  <2>2. CASE StartAllocation(n, m.req, m.attempt, {m})
    BY <2>1, <2>2, StartCounting
  <2>3. CASE /\ Exchange({m}, {[m EXCEPT !.to = leader[n]]})
             /\ UNCHANGED gsnVars
    <3> DEFINE forward == [m EXCEPT !.to = leader[n]]
    <3>1. forward.type = "GSNRequest" /\ Exchange({m}, {forward})
      BY <2>1, <2>3 DEF TypeOK, Message
    <3> HIDE DEF forward
    <3>2. /\ MessagesStay /\ HandlersStay
          /\ \A x \in msgs' :
                x \in msgs \/ x.type \notin {"Reserve", "ReserveAck", "VoteResponse"}
      BY <2>1, <3>1 DEF MessagesStay, HandlersStay, Exchange
    <3> QED
      BY <2>1, <2>3, <3>2, Unelected DEF gsnVars
  <2> QED
    BY <1>1, <2>2, <2>3 DEF HandleGSNRequest
<1>2. ASSUME NEW r \in Req, NEW k \in 1 .. MaxAttempts, RetryReservation(n, r, k)
      PROVE  Counting(n)
  <2>1. UNCHANGED <<term, status, votes, voteMaxAccepted, issued, tasks>>
    BY <1>2 DEF RetryReservation, electVars, voteVars, reqVars
  <2>2. PICK h : /\ h = Reserve(n, Leads(n), term[n], gsn[n])
                 /\ SetGSN(n, h, tasks, {}, {})
    BY <1>2 DEF RetryReservation
  <2>3. Counted(n, h)
    BY <2>1, <2>2, SetGSNCounted
  <2>4. Uses(n, gsn[n])
    BY OwnCounter
  <2> QED
    BY <2>1, <2>2, <2>3, <2>4 DEF Counting, SetGSN
<1>3. ASSUME NEW r \in Req, NEW k \in 1 .. MaxAttempts, Allocate(n, r, k)
      PROVE  Counting(n)
  <2> DEFINE used == [gsn[n] EXCEPT !.next = gsn[n].next + 1]
             sent == IF Proxy[r] = n THEN {}
                     ELSE {[type |-> "GSNResponse", req |-> r, gsn |-> gsn[n].next]}
  <2>1. /\ UNCHANGED <<term, status, votes, voteMaxAccepted, tasks>>
        /\ gsn[n].next <= gsn[n].confirmed
        /\ issued' = issued \cup {[gsn |-> gsn[n].next, by |-> n, req |-> r, attempt |-> k]}
    BY <1>3 DEF Allocate, electVars, voteVars
  <2>2. Uses(n, used) /\ gsn[n].next \in Numbers(n)
    BY <2>1, UsedCounter
  <2>3. gsn[n].next <= gsn[n].next /\ gsn[n].next < used.next
    <3>1. gsn[n] \in Counter /\ gsn[n].next \in Nat
      BY CounterFields DEF TypeOK, GsnTypes
    <3>2. used.next = gsn[n].next + 1
      BY <3>1 DEF Counter
    <3> QED
      BY <3>1, <3>2
  <2>4. \A m \in sent : m.type \notin {"Reserve", "ReserveAck", "VoteResponse"}
    OBVIOUS
  <2>5. \E h \in {used, Reserve(n, Leads(n), term[n], used)} : SetGSN(n, h, tasks, {}, sent)
    BY <1>3 DEF Allocate
  <2> HIDE DEF used, sent
  <2>6. PICK h \in {used, Reserve(n, Leads(n), term[n], used)} : SetGSN(n, h, tasks, {}, sent)
    BY <2>5
  <2>7. Counted(n, h)
    BY <2>1, <2>4, <2>6, SetGSNCounted
  <2>8. /\ \A i \in issued' : \/ i \in issued
                              \/ /\ i.by = n /\ i.gsn \in Numbers(n)
                                 /\ gsn[n].next <= i.gsn /\ i.gsn < used.next
        /\ \A i, j \in issued' \ issued : i = j
    BY <2>1, <2>2, <2>3
  <2>9. raced' = (raced \/ Early(n, h, tasks))
    BY <2>6 DEF SetGSN
  <2> QED
    BY <2>1, <2>2, <2>6, <2>7, <2>8, <2>9 DEF Counting
<1>4. ASSUME NEW r \in Req, NEW k \in 1 .. MaxAttempts, GiveUpAllocation(n, r, k)
      PROVE  Silent
  BY <1>4, Unelected
     DEF GiveUpAllocation, MessagesStay, HandlersStay, electVars, voteVars, gsnVars
<1> QED
  BY <1>1, <1>2, <1>3, <1>4 DEF Allocation

LEMMA RequestShape ==
    ASSUME TypeOK, MarkInv, NEW r \in Req, Request(r)
    PROVE  Silent \/ \E n \in Node : Counting(n)
<1>1. ASSUME SendGSNRequest(r) PROVE Silent \/ \E n \in Node : Counting(n)
  <2> DEFINE p == Proxy[r]
             k == attempts[r] + 1
             request == [type |-> "GSNRequest", req |-> r, attempt |-> k, to |-> leader[p]]
  <2>1. p \in Node /\ UNCHANGED <<term, status, votes, voteMaxAccepted, issued, tasks>>
    BY <1>1, ParamAssumption DEF SendGSNRequest, electVars, voteVars
  <2>2. CASE StartAllocation(p, r, k, {})
    <3> HIDE DEF p, k
    <3> QED
      BY <2>1, <2>2, StartCounting
  <2>3. CASE Send({request}) /\ UNCHANGED gsnVars
    <3>1. /\ MessagesStay /\ HandlersStay
          /\ \A m \in msgs' :
                m \in msgs \/ m.type \notin {"Reserve", "ReserveAck", "VoteResponse"}
      BY <2>1, <2>3 DEF MessagesStay, HandlersStay, Send, Exchange
    <3> QED
      BY <2>1, <2>3, <3>1, Unelected DEF gsnVars
  <2> QED
    BY <1>1, <2>2, <2>3 DEF SendGSNRequest
<1>2. ASSUME NEW m \in msgs, HandleGSNResponse(m) PROVE Silent
  BY <1>2, Unelected DEF HandleGSNResponse, MessagesStay, HandlersStay,
          electVars, voteVars, gsnVars
<1>3. ASSUME ExhaustRequest(r) PROVE Silent
  BY <1>3, Unelected DEF ExhaustRequest, MessagesStay, HandlersStay, electVars, voteVars, gsnVars
<1>4. ASSUME PublishMETA(r) PROVE Silent
  BY <1>4, Unelected
     DEF PublishMETA, Send, Exchange, MessagesStay, HandlersStay, electVars, voteVars, gsnVars
<1> QED
  BY <1>1, <1>2, <1>3, <1>4 DEF Request

LEMMA MetaShape ==
    ASSUME TypeOK, NEW n \in Node, Meta(n)
    PROVE  Silent
<1>1. ASSUME NEW m \in msgs, HandleMETAStream(n, m) \/ HandleMETASkip(n, m) PROVE Silent
  BY <1>1, Unelected
     DEF HandleMETAStream, HandleMETASkip, MessagesStay, HandlersStay,
         electVars, voteVars, gsnVars, reqVars
<1>2. ASSUME NEW t \in tasks, t.node = n, SkipMissing(t) PROVE Silent
  <2>1. PICK still : /\ Send(SkipMsg(still)) /\ tasks' = tasks \ {t} /\ t.kind = "holes"
                     /\ UNCHANGED <<electVars, voteVars, gsnVars, reqVars>>
    BY <1>2 DEF SkipMissing
  <2>2. /\ MessagesStay /\ HandlersStay
        /\ \A m \in msgs' : m \in msgs \/ m.type = "MetaSkip"
    BY <2>1 DEF MessagesStay, HandlersStay, Send, Exchange, SkipMsg
  <2> QED
    BY <2>1, <2>2, Unelected DEF electVars, voteVars, gsnVars, reqVars
<1> QED
  BY <1>1, <1>2 DEF Meta

LEMMA StepShape ==
    ASSUME TypeOK, MarkInv, [Next]_vars
    PROVE  Silent \/ (\E n \in Node : Counting(n)) \/ Takeover \/ Accepting
<1>1. CASE UNCHANGED vars
  BY <1>1, Unelected
     DEF vars, MessagesStay, HandlersStay, electVars, voteVars, gsnVars, reqVars
<1>2. ASSUME NEW n \in Node, Reservation(n) PROVE Accepting
  BY <1>2 DEF Reservation, Accepting
<1>3. CASE Next
  BY <1>2, <1>3, ElectionShape, AllocationShape, RequestShape, MetaShape DEF Next
<1> QED
  BY <1>1, <1>3

-----------------------------------------------------------------------------
(* Numbers below a mark *)

\* A node accepts a mark and answers, or is suspended before it does.
LEMMA AcceptingMarks ==
    ASSUME TypeOK, MarkInv, NEW n \in Node, NEW t \in Nat, NEW upto \in Gsn, NEW to \in Node,
           AcceptMark(n, t, upto, to),
           \E r \in Reserves : t = r.term /\ upto = r.upto /\ to = r.from
    PROVE  /\ MessagesStay
           /\ \A c \in Node : acceptedUpTo[c] <= acceptedUpTo'[c]
           /\ \A m \in msgs' : \/ m \in msgs
                               \/ /\ m = ReserveAck(n, t, upto, to) /\ m.type = "ReserveAck"
                                  /\ acceptedUpTo'[m.from] >= m.upto /\ Answers(m)
<1> DEFINE ack == ReserveAck(n, t, upto, to)
<1>1. /\ acceptedUpTo' = [acceptedUpTo EXCEPT ![n] = Larger(@, upto)]
      /\ msgs' = msgs \cup {ack}
  BY DEF AcceptMark, Send, Exchange
<1>2. acceptedUpTo \in [Node -> Nat] /\ upto \in Nat
  BY GsnNat DEF TypeOK, GsnTypes
<1>3. /\ ack.type = "ReserveAck" /\ ack.from = n /\ ack.upto = upto
      /\ ack.term = t /\ ack.to = to
  BY DEF ReserveAck
<1> HIDE DEF ack
<1>4. Answers(ack)
  BY <1>3 DEF Answers
<1>5. ASSUME NEW c \in Node
      PROVE  acceptedUpTo[c] <= acceptedUpTo'[c] /\ (c = n => acceptedUpTo'[c] >= upto)
  <2>1. CASE c = n
    BY <1>1, <1>2, <2>1 DEF Larger
  <2>2. CASE c # n
    BY <1>1, <1>2, <2>2
  <2> QED
    BY <2>1, <2>2
<1>6. MessagesStay
  BY <1>1 DEF MessagesStay
<1> QED
  BY <1>1, <1>3, <1>4, <1>5, <1>6 DEF ack

LEMMA AcceptingKeepsMarks ==
    ASSUME TypeOK, TypeOK', MarkInv, Accepting
    PROVE  MarkInv'
<1>1. acceptedUpTo \in [Node -> Nat] /\ term \in [Node -> Nat]
  BY GsnNat DEF TypeOK, GsnTypes, ElectionTypes
<1>2. ASSUME UNCHANGED electVars PROVE TermsRise
  BY <1>1, <1>2 DEF TermsRise, electVars
<1>3. ASSUME NEW n \in Node, NEW m \in msgs, HandleReserve(n, m) PROVE MarkInv'
  <2>1. UNCHANGED <<gsn, issued>> /\ UNCHANGED electVars /\ m.type = "Reserve"
    BY <1>3 DEF HandleReserve, reqVars
  <2>2. m \in Reserves /\ m.term \in Nat /\ m.upto \in Gsn /\ m.from \in Node
    BY <2>1, ReserveFields DEF Reserves
  <2>3. CASE "accept" \in Preempt
    <3> DEFINE task == [kind |-> "accept", node |-> n, term |-> m.term,
                        upto |-> m.upto, to |-> m.from]
    <3>1. UNCHANGED <<acceptedUpTo, msgs>> /\ tasks' = tasks \cup {task}
      BY <1>3, <2>3 DEF HandleReserve
    <3>2. Answers(task)
      BY <2>2 DEF Answers
    <3> HIDE DEF task
    <3>3. MessagesStay
      BY <3>1 DEF MessagesStay
    <3>4. TermsRise
      BY <1>2, <2>1
    <3> QED
      BY <1>1, <2>1, <3>1, <3>2, <3>3, <3>4, AcceptKeepsMarks
  <2>4. CASE "accept" \notin Preempt
    <3>1. AcceptMark(n, m.term, m.upto, m.from) /\ UNCHANGED tasks
      BY <1>3, <2>4 DEF HandleReserve
    <3>2. /\ MessagesStay
          /\ \A c \in Node : acceptedUpTo[c] <= acceptedUpTo'[c]
          /\ \A x \in msgs' : \/ x \in msgs
                              \/ /\ x.type = "ReserveAck"
                                 /\ acceptedUpTo'[x.from] >= x.upto /\ Answers(x)
      BY <2>2, <3>1, AcceptingMarks
    <3>3. TermsRise
      BY <1>2, <2>1
    <3> QED
      BY <2>1, <3>1, <3>2, <3>3, AcceptKeepsMarks
  <2> QED
    BY <2>3, <2>4
<1>4. ASSUME NEW t \in tasks, AcceptSuspended(t) PROVE MarkInv'
  <2>1. /\ t.kind = "accept" /\ AcceptMark(t.node, t.term, t.upto, t.to)
        /\ tasks' = tasks \ {t} /\ UNCHANGED <<gsn, issued>> /\ UNCHANGED electVars
    BY <1>4 DEF AcceptSuspended, reqVars
  <2>2. t.node \in Node /\ t.term \in Nat /\ t.upto \in Gsn /\ t.to \in Node
    BY <2>1, TaskFields DEF TypeOK
  <2>3. \E r \in Reserves : t.term = r.term /\ t.upto = r.upto /\ t.to = r.from
    BY <2>1 DEF MarkInv, MarksAccepted, Answers
  <2>4. /\ MessagesStay
        /\ \A c \in Node : acceptedUpTo[c] <= acceptedUpTo'[c]
        /\ \A x \in msgs' : \/ x \in msgs
                            \/ /\ x.type = "ReserveAck"
                               /\ acceptedUpTo'[x.from] >= x.upto /\ Answers(x)
    BY <2>1, <2>2, <2>3, AcceptingMarks
  <2>5. TermsRise
    BY <1>2, <2>1
  <2>6. \A s \in tasks' : s \in tasks
    BY <2>1
  <2> QED
    BY <2>1, <2>4, <2>5, <2>6, AcceptKeepsMarks
<1> QED
  BY <1>3, <1>4, AckKeepsMarks DEF Accepting

LEMMA TakeoverKeepsMarks ==
    ASSUME TypeOK, TypeOK', MarkInv, Takeover
    PROVE  MarkInv'
<1>1. acceptedUpTo \in [Node -> Nat] /\ term \in [Node -> Nat] /\ status \in [Node -> Status]
  BY GsnNat DEF TypeOK, GsnTypes, ElectionTypes
<1>2. ASSUME NEW n \in Node, NEW m \in msgs, WinElection(n, m) PROVE MarkInv'
  <2>1. /\ CountVote(n, m) /\ status' = [status EXCEPT ![n] = "leader"]
        /\ UNCHANGED <<term, issued>>
    BY <1>2 DEF WinElection, reqVars
  <2>2. \A c \in Node : status'[c] = "candidate" => status[c] = "candidate" /\ c # n
    BY <1>1, <2>1
  <2>3. CASE "resume" \in Preempt
    <3>1. /\ UNCHANGED <<gsn, acceptedUpTo, msgs>>
          /\ tasks' = tasks \cup {[kind |-> "resume", node |-> n, term |-> term[n]]}
      BY <1>2, <2>3 DEF WinElection, gsnVars
    <3>2. MessagesStay /\ TermsRise
      BY <1>1, <2>1, <2>2, <3>1 DEF MessagesStay, TermsRise
    <3>3. \A t \in tasks' : t \in tasks \/ t.kind # "accept"
      BY <3>1
    <3> QED
      BY <1>1, <2>1, <3>1, <3>2, <3>3, AcceptKeepsMarks
  <2>4. CASE "resume" \notin Preempt
    <3>1. PICK lead \in BOOLEAN, t \in Nat, acc \in Gsn, meta \in Gsn, holes \in SUBSET Gsn :
             t = term[n] /\ Resume(n, lead, t, acc, meta, holes, {})
      BY <1>1, <1>2, <2>1, <2>4, CountVoteTyped DEF WinElection
    <3>2. PICK g : /\ GoodCounter(n, g)
                   /\ Counted(n, Reserve(n, lead, t, g))
      BY <3>1, ResumeCounted
    <3>3. status'[n] # "candidate"
      BY <2>2
    <3> QED
      BY <2>1, <2>2, <3>1, <3>2, <3>3, CountKeepsMarks
  <2> QED
    BY <2>3, <2>4
<1>3. ASSUME NEW t \in tasks, ResumeSuspended(t) PROVE MarkInv'
  <2> DEFINE n == t.node
  <2>1. /\ t.kind = "resume"
        /\ Resume(n, Leads(n), term[n], voteMaxAccepted[n], voteMaxMeta[n], voteHoles[n], {t})
        /\ UNCHANGED <<term, status, issued>>
    BY <1>3 DEF ResumeSuspended, electVars, reqVars
  <2>2. n \in Node
    BY <2>1, TaskFields DEF TypeOK
  <2> HIDE DEF n
  <2>3. PICK lead \in BOOLEAN, u \in Nat, acc \in Gsn, meta \in Gsn, holes \in SUBSET Gsn :
           lead = Leads(n) /\ u = term[n] /\ Resume(n, lead, u, acc, meta, holes, {t})
    BY <1>1, <2>1, <2>2 DEF TypeOK, ElectionTypes, Leads
  <2>4. PICK g : /\ GoodCounter(n, g)
                 /\ Counted(n, Reserve(n, lead, u, g))
    BY <2>2, <2>3, ResumeCounted
  <2>5. lead => status'[n] # "candidate"
    BY <2>1, <2>3 DEF Leads
  <2> QED
    BY <2>1, <2>2, <2>3, <2>4, <2>5, CountKeepsMarks
<1> QED
  BY <1>2, <1>3 DEF Takeover

\* Every step keeps the marks accepted and the counters below them.
LEMMA MarksKept ==
    ASSUME TypeOK, TypeOK', MarkInv, [Next]_vars
    PROVE  MarkInv'
<1>1. CASE Silent
  <2>1. TermsRise
    BY <1>1 DEF Silent, TermsRise, Stays, Starts
  <2>2. acceptedUpTo \in [Node -> Nat]
    BY GsnNat DEF TypeOK, GsnTypes
  <2> QED
    BY <1>1, <2>1, <2>2, AcceptKeepsMarks DEF Silent, HandlersStay, gsnVars
<1>2. ASSUME NEW n \in Node, Counting(n) PROVE MarkInv'
  <2>1. UNCHANGED <<term, status>>
    BY <1>2 DEF Counting
  <2>2. PICK lead \in BOOLEAN : lead = Leads(n)
    BY DEF Leads
  <2>3. PICK g, h :
           /\ Uses(n, g) /\ h \in {g, Reserve(n, lead, term[n], g)}
           /\ Counted(n, h)
           /\ \A i \in issued' : \/ i \in issued
                                 \/ i.by = n /\ i.gsn \in Numbers(n) /\ i.gsn < g.next
    BY <1>2, <2>2 DEF Counting
  <2>4. lead => status'[n] # "candidate"
    BY <2>1, <2>2 DEF Leads
  <2>5. GoodCounter(n, g)
    BY <2>3 DEF Uses
  <2> QED
    BY <2>1, <2>3, <2>4, <2>5, CountKeepsMarks
<1> QED
  BY <1>1, <1>2, StepShape, TakeoverKeepsMarks, AcceptingKeepsMarks

LEMMA InitMarks == Init => MarkInv
<1> SUFFICES ASSUME Init PROVE MarkInv
  OBVIOUS
<1> DEFINE none == [next |-> 1, confirmed |-> 0, pending |-> 0, term |-> 0, acks |-> {}]
           first == Reserve(Bootstrap, TRUE, 0, none)
           boot == [type |-> "Reserve", term |-> 0, upto |-> Block, from |-> Bootstrap]
<1>1. /\ gsn = [n \in Node |-> IF n = Bootstrap THEN first ELSE none]
      /\ acceptedUpTo = [n \in Node |-> IF n = Bootstrap THEN first.pending ELSE 0]
      /\ msgs = ReserveMsg(Bootstrap, first)
      /\ term = [n \in Node |-> 0]
      /\ status = [n \in Node |-> IF n = Bootstrap THEN "leader" ELSE "follower"]
      /\ tasks = {} /\ issued = {}
  BY DEF Init
<1>2. Block \in Nat \ {0} /\ Bootstrap \in Node /\ Larger(0, 0) = 0
  BY ParamAssumption, NodeAssumption DEF Larger
<1>3. /\ none.next = 1 /\ none.confirmed = 0 /\ none.pending = 0 /\ none.term = 0
      /\ \/ first = none
         \/ first = [none EXCEPT !.pending = Larger(0, 1 - 1) + Block, !.term = 0,
                                 !.acks = {Bootstrap}]
  BY DEF Reserve
<1> HIDE DEF first
<1>4. /\ first.next = 1 /\ first.confirmed = 0 /\ first.term = 0
      /\ \/ first.pending = 0
         \/ first.pending = Block /\ first.acks = {Bootstrap}
  <2>1. CASE first = none
    BY <1>3, <2>1
  <2>2. CASE first # none
    <3>1. first = [none EXCEPT !.pending = Block, !.term = 0, !.acks = {Bootstrap}]
      <4>1. Larger(0, 1 - 1) + Block = Block
        BY <1>2 DEF Larger
      <4> QED
        BY <1>3, <2>2, <4>1
    <3> QED
      BY <3>1
  <2> QED
    BY <2>1, <2>2
<1>5. /\ boot.type = "Reserve" /\ boot.term = 0 /\ boot.upto = Block /\ boot.from = Bootstrap
      /\ msgs = IF first.pending = 0 THEN {} ELSE {boot}
  BY <1>1, <1>4 DEF ReserveMsg
<1> HIDE DEF none, boot
<1>6. \A n \in Node : Free(n) = {} /\ gsn[n].next <= gsn[n].confirmed + 1
  BY <1>1, <1>3, <1>4 DEF Free
<1>7. \A r \in Reserves : r = boot /\ first.pending = Block
  BY <1>2, <1>4, <1>5 DEF Reserves
<1>8. MarksAccepted
  <2>1. \A r \in Reserves : /\ r.upto > 0 /\ acceptedUpTo[r.from] >= r.upto
                            /\ r.term <= term[r.from] /\ status[r.from] # "candidate"
    BY <1>1, <1>2, <1>5, <1>7
  <2>2. \A m \in msgs : m.type = "Reserve"
    BY <1>5
  <2> QED
    BY <1>1, <2>1, <2>2 DEF MarksAccepted
<1>9. ASSUME NEW n \in Node, gsn[n].pending # 0
      PROVE  /\ gsn[n].pending = gsn[n].confirmed + Block
             /\ \E r \in Reserves :
                   /\ r.from = n /\ r.term = gsn[n].term /\ r.upto = gsn[n].pending
                   /\ \A q \in gsn[n].acks : Backs(q, r)
  <2>1. n = Bootstrap /\ gsn[n] = first /\ msgs = {boot}
    BY <1>1, <1>3, <1>4, <1>5, <1>9
  <2>2. boot \in Reserves
    BY <1>5, <2>1 DEF Reserves
  <2>3. \A q \in {Bootstrap} : Backs(q, boot)
    BY <1>5 DEF Backs
  <2> QED
    BY <1>2, <1>4, <1>5, <1>9, <2>1, <2>2, <2>3
<1>10. CountersBacked
  BY <1>6, <1>9 DEF CountersBacked
<1>11. IssuedBacked
  BY <1>1 DEF IssuedBacked
<1> QED
  BY <1>8, <1>10, <1>11 DEF MarkInv

\* A number handed out is below a mark that a majority has accepted, whichever
\* handlers are suspended: by its leader and by those that answered it
\* (confirmReservationLocked, HandleReserve).
THEOREM IssuedBelow == Spec => []IssuedBelowMark
<1>1. Init => MarkInv
  BY InitMarks
<1>2. TypeOK /\ TypeOK' /\ MarkInv /\ [Next]_vars => MarkInv'
  BY MarksKept
<1>3. TypeOK /\ MarkInv => IssuedBelowMark
  <2> SUFFICES ASSUME TypeOK, MarkInv, NEW i \in issued
               PROVE  Majority({n \in Node : acceptedUpTo[n] >= i.gsn})
    BY DEF IssuedBelowMark
  <2> DEFINE high == {n \in Node : acceptedUpTo[n] >= i.gsn}
  <2>1. i.gsn \in Nat /\ i.by \in Node /\ acceptedUpTo \in [Node -> Nat]
    BY GsnNat DEF TypeOK, RequestTypes, GsnTypes
  <2>2. PICK r \in Reserves : Backed(r) /\ i.gsn <= r.upto
    BY DEF MarkInv, IssuedBacked, Numbers
  <2>3. PICK Q \in SUBSET Node : Majority(Q) /\ \A q \in Q : Backs(q, r)
    BY <2>2 DEF Backed
  <2>4. ASSUME NEW q \in Q PROVE q \in high
    <3>1. acceptedUpTo[q] >= r.upto
      <4>1. CASE q = r.from
        BY <4>1 DEF MarkInv, MarksAccepted
      <4>2. CASE q # r.from
        <5>1. PICK a \in msgs : a.type = "ReserveAck" /\ a.from = q /\ a.upto = r.upto
          BY <2>3, <4>2 DEF Backs
        <5> QED
          BY <5>1 DEF MarkInv, MarksAccepted
      <4> QED
        BY <4>1, <4>2
    <3>2. r.upto \in Nat
      BY ReserveFields, GsnNat
    <3> QED
      BY <2>1, <2>2, <3>1, <3>2
  <2>5. IsFiniteSet(high) /\ IsFiniteSet(Q) /\ IsFiniteSet(Node)
    BY FS_Subset, NodeAssumption
  <2>6. /\ Cardinality(Q) <= Cardinality(high)
        /\ Cardinality(Q) \in Nat /\ Cardinality(high) \in Nat /\ Cardinality(Node) \in Nat
    BY <2>4, <2>5, FS_Subset, FS_CardinalityType
  <2> QED
    BY <2>3, <2>6 DEF Majority
<1> QED
  BY <1>1, <1>2, <1>3, TypeCorrect, PTL DEF Spec

-----------------------------------------------------------------------------
(* Blocks apart, until one of the two races is run (raced).                   *)
(* A majority that backs a reservation and the majority that elects a later  *)
(* leader have a member in common: either its vote reports the mark, and the *)
(* counter resumes above it, or it had moved on and will never back it.      *)

LEMMA BackingAccepted ==
    ASSUME MarkInv, NEW r \in Reserves, NEW q, Backs(q, r)
    PROVE  acceptedUpTo[q] >= r.upto
<1>1. CASE q = r.from
  BY <1>1 DEF MarkInv, MarksAccepted
<1>2. CASE q # r.from
  <2>1. PICK a \in msgs : a.type = "ReserveAck" /\ a.from = q /\ a.upto = r.upto
    BY <1>2 DEF Backs
  <2> QED
    BY <2>1 DEF MarkInv, MarksAccepted
<1> QED
  BY <1>1, <1>2

\* A reservation that was not asked for is backed by its leader alone.
LEMMA NewUnbacked ==
    ASSUME TypeOK, MarkInv, NEW r, r.type = "Reserve", r \notin msgs,
           r = [type |-> "Reserve", term |-> r.term, upto |-> r.upto, from |-> r.from],
           NEW q, Backs(q, r)
    PROVE  q = r.from
<1> SUFFICES ASSUME q # r.from PROVE FALSE
  OBVIOUS
<1>1. PICK a \in msgs : /\ a.type = "ReserveAck" /\ a.from = q
                        /\ a.term = r.term /\ a.upto = r.upto /\ a.to = r.from
  BY DEF Backs
<1>2. PICK s \in Reserves : a.term = s.term /\ a.upto = s.upto /\ a.to = s.from
  BY <1>1 DEF MarkInv, MarksAccepted, Answers
<1>3. s = r
  BY <1>1, <1>2, ReserveFields
<1> QED
  BY <1>2, <1>3 DEF Reserves

\* A node that backs no reservation of an older term stays without it.
LEMMA RefusedStays ==
    ASSUME TypeOK, TypeOK', \A q \in Node : term[q] <= term'[q],
           NEW r \in Reserves,
           \A q \in Node : Backs(q, r)' => Backs(q, r) \/ term[q] <= r.term,
           Refused(r)
    PROVE  Refused(r)'
<1>1. PICK Q \in SUBSET Node : Majority(Q) /\ \A q \in Q : term[q] > r.term /\ ~Backs(q, r)
  BY DEF Refused
<1>2. term \in [Node -> Nat] /\ term' \in [Node -> Nat] /\ r.term \in Nat
  BY ReserveFields DEF TypeOK, ElectionTypes
<1>3. \A q \in Q : term'[q] > r.term /\ ~Backs(q, r)'
  BY <1>1, <1>2
<1> QED
  BY <1>1, <1>3 DEF Refused

\* Whoever was asked by a leader of a later term, or elected it, is past r.
LEMMA LaterLeaderRefuses ==
    ASSUME TypeOK, ElectionInv, NEW r, r.term \in Nat, r.from \in Node,
           r.term = term[r.from], \A q : Backs(q, r) => q = r.from,
           NEW l \in Node, NEW t \in Nat, r.term < t, Led(l, t)
    PROVE  Refused(r)
<1>1. PICK Q \in SUBSET Node : Majority(Q) /\ \A q \in Q : Bound(q, t, l)
  BY DEF ElectionInv, LedTerms
<1>2. term \in [Node -> Nat]
  BY DEF TypeOK, ElectionTypes
<1>3. \A q \in Q : term[q] > r.term
  BY <1>1, <1>2 DEF Bound
<1>4. \A q \in Q : q # r.from
  BY <1>3, <1>2
<1> QED
  BY <1>1, <1>3, <1>4 DEF Refused

LEMMA SilentKeepsBlocks ==
    ASSUME TypeOK, TypeOK', MarkInv, BlockInv, Silent
    PROVE  BlockInv'
<1>1. /\ UNCHANGED <<gsn, acceptedUpTo>> /\ MessagesStay
      /\ \A t \in tasks : t.kind = "resume" => t \in tasks'
      /\ \A m \in msgs' :
            \/ m \in msgs \/ m.type \notin {"Reserve", "ReserveAck", "VoteResponse"}
            \/ m.type = "VoteResponse" /\ m.accepted = acceptedUpTo[m.from]
      /\ \A c \in Node :
            /\ term[c] <= term'[c]
            /\ status'[c] = "leader" => /\ status[c] = "leader" /\ term'[c] = term[c]
                                        /\ voteMaxAccepted'[c] = voteMaxAccepted[c]
            /\ status'[c] = "candidate" => Stays(c) \/ Starts(c)
  BY DEF Silent, HandlersStay, gsnVars
<1>2. Reserves' = Reserves
  BY <1>1, BackingStays DEF Reserves
<1>3. \A q, r : Backs(q, r)' <=> Backs(q, r)
  BY <1>1, BackingStays DEF Backs
<1>4. ASSUME NEW r \in Reserves, Refused(r) PROVE Refused(r)'
  BY <1>1, <1>3, <1>4, RefusedStays
<1>6. VotesReport'
  <2> SUFFICES ASSUME NEW m \in msgs', NEW r \in Reserves, m.type = "VoteResponse", m.granted,
                      r.term < m.term, Backs(m.from, r)
               PROVE  r.upto <= m.accepted
    BY <1>2, <1>3 DEF VotesReport
  <2>1. CASE m \in msgs
    BY <2>1 DEF BlockInv, VotesReport
  <2>2. CASE m \notin msgs
    <3>1. m.accepted = acceptedUpTo[m.from] /\ acceptedUpTo[m.from] >= r.upto
      BY <1>1, <2>2, BackingAccepted
    <3>2. m.accepted \in Nat /\ r.upto \in Nat
      <4>1. m \in Message
        BY DEF TypeOK
      <4>2. m.accepted \in Gsn
        BY <4>1, MessageFields
      <4> QED
        BY <4>2, GsnNat, ReserveFields
    <3> QED
      BY <3>1, <3>2
  <2> QED
    BY <2>1, <2>2
<1>7. CandidatesKnow'
  <2> SUFFICES ASSUME NEW c \in Node, NEW r \in Reserves, status'[c] = "candidate",
                      r.term < term'[c], NEW q \in votes'[c], Backs(q, r)
               PROVE  r.upto <= voteMaxAccepted'[c]
    BY <1>2, <1>3 DEF CandidatesKnow
  <2>0. /\ r.upto \in Nat /\ voteMaxAccepted[c] \in Nat /\ voteMaxAccepted'[c] \in Nat
        /\ r.term \in Nat
    BY ReserveFields, GsnNat DEF TypeOK, ElectionTypes
  <2>1. CASE Stays(c)
    <3>1. CASE q \in votes[c]
      <4>1. r.upto <= voteMaxAccepted[c]
        BY <2>1, <3>1 DEF BlockInv, CandidatesKnow, Stays
      <4> QED
        BY <2>0, <2>1, <4>1 DEF Stays
    <3>2. CASE q \notin votes[c]
      <4>1. PICK m \in msgs : /\ m.type = "VoteResponse" /\ m.granted /\ m.from = q
                              /\ m.term = term[c] /\ m.accepted <= voteMaxAccepted'[c]
        BY <2>1, <3>2 DEF Stays
      <4>2. r.upto <= m.accepted
        BY <2>1, <4>1 DEF BlockInv, VotesReport, Stays
      <4>3. m.accepted \in Nat
        BY <4>1, MessageFields, GsnNat DEF TypeOK
      <4> QED
        BY <2>0, <4>1, <4>2, <4>3
    <3> QED
      BY <3>1, <3>2
  <2>2. CASE Starts(c)
    <3>1. q = c /\ voteMaxAccepted'[c] = acceptedUpTo[c]
      BY <2>2 DEF Starts
    <3> QED
      BY <2>0, <3>1, BackingAccepted
  <2> QED
    BY <1>1, <2>1, <2>2
<1>8. LeadersAbove'
  <2> SUFFICES ASSUME NEW l \in Node, status'[l] = "leader"
               PROVE  /\ Heard(l, voteMaxAccepted[l])'
                      /\ Unresumed(l)' \/ Above(l, gsn[l])'
    BY DEF LeadersAbove
  <2>1. /\ status[l] = "leader" /\ term'[l] = term[l] /\ gsn'[l] = gsn[l]
        /\ voteMaxAccepted'[l] = voteMaxAccepted[l]
    BY <1>1
  <2>2. Heard(l, voteMaxAccepted[l])'
    BY <1>2, <1>4, <2>1 DEF BlockInv, LeadersAbove, Heard
  <2>3. CASE Unresumed(l)
    BY <1>1, <2>1, <2>2, <2>3 DEF Unresumed
  <2>4. CASE Above(l, gsn[l])
    BY <1>2, <1>4, <2>1, <2>2, <2>4 DEF Above
  <2> QED
    BY <2>1, <2>2, <2>3, <2>4 DEF BlockInv, LeadersAbove
<1>9. BlocksApart'
  BY <1>2, <1>4 DEF BlockInv, BlocksApart, Apart
<1> QED
  BY <1>6, <1>7, <1>8, <1>9 DEF BlockInv

\* A mark is accepted that is no older than the node, so that no vote missed it.
LEMMA MarkKeepsBlocks ==
    ASSUME TypeOK, TypeOK', ElectionInv, MarkInv, BlockInv, NEW n \in Node, NEW m \in Reserves,
           ~Stale(n, m.term), AcceptMark(n, m.term, m.upto, m.from),
           UNCHANGED <<term, status, votes, voteMaxAccepted, gsn>>,
           \A t \in tasks : t.kind = "resume" => t \in tasks'
    PROVE  BlockInv'
<1>1. /\ ~ (m.term < term[n])
      /\ msgs' = msgs \cup {ReserveAck(n, m.term, m.upto, m.from)}
  BY DEF Stale, AcceptMark, Send, Exchange
<1>2. term \in [Node -> Nat] /\ m.term \in Nat /\ term[n] <= m.term
  BY <1>1, ReserveFields DEF TypeOK, ElectionTypes
<1> DEFINE ack == ReserveAck(n, m.term, m.upto, m.from)
<1>3. /\ ack.type = "ReserveAck" /\ ack.from = n /\ ack.term = m.term
      /\ ack.upto = m.upto /\ ack.to = m.from
  BY DEF ReserveAck
<1> HIDE DEF ack
<1>4. Reserves' = Reserves
  BY <1>1, <1>3 DEF Reserves, ack
<1>5. ASSUME NEW q, NEW r \in Reserves, Backs(q, r)'
      PROVE  Backs(q, r) \/ (q = n /\ r.term = m.term)
  BY <1>1, <1>3, <1>5 DEF Backs, ack
<1>6. ASSUME NEW r \in Reserves, Refused(r) PROVE Refused(r)'
  <2>1. \A q \in Node : term[q] <= term'[q]
    BY <1>1, <1>2
  <2>2. \A q \in Node : Backs(q, r)' => Backs(q, r) \/ term[q] <= r.term
    BY <1>2, <1>5
  <2> QED
    BY <1>6, <2>1, <2>2, RefusedStays
<1>8. VotesReport'
  <2> SUFFICES ASSUME NEW v \in msgs, NEW r \in Reserves, v.type = "VoteResponse", v.granted,
                      r.term < v.term, Backs(v.from, r)'
               PROVE  r.upto <= v.accepted
    BY <1>1, <1>3, <1>4 DEF VotesReport, ack
  <2>1. CASE Backs(v.from, r)
    BY <2>1 DEF BlockInv, VotesReport
  <2>2. CASE v.from = n /\ r.term = m.term
    <3>1. v.term \in Nat /\ v.to \in Node
      BY MessageFields DEF TypeOK
    <3>2. Voted(n, v.term, v.to)
      BY <2>2 DEF Voted, Granted
    <3>3. v.term <= term[n]
      BY <3>1, <3>2 DEF ElectionInv, VoteTerms
    <3> QED
      BY <1>2, <2>2, <3>1, <3>3
  <2> QED
    BY <1>5, <2>1, <2>2
<1>9. CandidatesKnow'
  <2> SUFFICES ASSUME NEW c \in Node, NEW r \in Reserves, status[c] = "candidate",
                      r.term < term[c], NEW q \in votes[c], Backs(q, r)'
               PROVE  r.upto <= voteMaxAccepted[c]
    BY <1>1, <1>4 DEF CandidatesKnow
  <2>1. CASE Backs(q, r)
    BY <2>1 DEF BlockInv, CandidatesKnow
  <2>2. CASE q = n /\ r.term = m.term
    <3>1. term[c] <= term[n]
      BY <1>2, <2>2 DEF ElectionInv, CandidateVotes, VoteTerms
    <3> QED
      BY <1>2, <2>2, <3>1
  <2> QED
    BY <1>5, <2>1, <2>2
<1>10. LeadersAbove'
  <2> SUFFICES ASSUME NEW l \in Node, status[l] = "leader"
               PROVE  /\ Heard(l, voteMaxAccepted[l])'
                      /\ Unresumed(l)' \/ Above(l, gsn[l])'
    BY DEF LeadersAbove
  <2>1. Heard(l, voteMaxAccepted[l])'
    BY <1>4, <1>6 DEF BlockInv, LeadersAbove, Heard
  <2>2. Unresumed(l) => Unresumed(l)'
    BY DEF Unresumed
  <2>3. Above(l, gsn[l]) => Above(l, gsn[l])'
    BY <1>4, <1>6 DEF Above
  <2> QED
    BY <2>1, <2>2, <2>3 DEF BlockInv, LeadersAbove
<1>11. BlocksApart'
  BY <1>4, <1>6 DEF BlockInv, BlocksApart, Apart
<1> QED
  BY <1>8, <1>9, <1>10, <1>11 DEF BlockInv

\* A mark that is confirmed was pending: the counter only rises to it.
LEMMA AckKeepsBlocks ==
    ASSUME TypeOK, MarkInv, BlockInv, NEW n \in Node, NEW m \in msgs, HandleReserveAck(n, m)
    PROVE  BlockInv'
<1>1. /\ m.type = "ReserveAck" /\ gsn[n].pending = m.upto
      /\ UNCHANGED <<term, status, votes, voteMaxAccepted, tasks, msgs>>
  BY DEF HandleReserveAck, electVars, voteVars
<1> DEFINE g == [gsn[n] EXCEPT !.acks = @ \cup {m.from}]
<1>2. gsn' = [gsn EXCEPT ![n] = IF Majority(g.acks) THEN ConfirmReservation(g) ELSE g]
  BY DEF HandleReserveAck
<1>3. gsn \in [Node -> Counter] /\ gsn[n] \in Counter
  BY DEF TypeOK, GsnTypes
<1>4. /\ g.confirmed = gsn[n].confirmed /\ g.pending = gsn[n].pending /\ g.term = gsn[n].term
      /\ ConfirmReservation(g).confirmed = g.pending
  BY <1>3 DEF Counter, ConfirmReservation
<1> HIDE DEF g
<1>5. /\ gsn[n].confirmed \in Nat /\ gsn[n].pending \in Nat
      /\ gsn[n].confirmed <= gsn[n].pending
  <2>1. Answers(m)
    BY <1>1 DEF MarkInv, MarksAccepted
  <2>2. gsn[n].pending # 0
    BY <1>1, <2>1 DEF Answers, MarkInv, MarksAccepted
  <2>3. gsn[n].pending = gsn[n].confirmed + Block
    BY <2>2 DEF MarkInv, CountersBacked
  <2> QED
    BY <1>3, <2>3, CounterFields, ParamAssumption
<1>6. /\ Reserves' = Reserves /\ \A q, r : Backs(q, r)' <=> Backs(q, r)
      /\ \A r : Refused(r)' <=> Refused(r)
  BY <1>1 DEF Reserves, Backs, Refused
<1>7. ASSUME NEW l \in Node, NEW r \in Reserves
      PROVE  /\ r.upto <= gsn[l].confirmed => r.upto <= gsn'[l].confirmed
             /\ r.upto = gsn[l].pending /\ r.term = gsn[l].term
                  => \/ r.upto <= gsn'[l].confirmed
                     \/ r.upto = gsn'[l].pending /\ r.term = gsn'[l].term
  <2>1. CASE l = n /\ Majority(g.acks)
    <3>1. gsn'[l].confirmed = gsn[n].pending
      BY <1>2, <1>3, <1>4, <2>1
    <3>2. r.upto \in Nat
      BY ReserveFields, GsnNat
    <3> QED
      BY <1>5, <2>1, <3>1, <3>2
  <2>2. CASE l # n \/ ~ Majority(g.acks)
    <3>1. /\ gsn'[l].confirmed = gsn[l].confirmed /\ gsn'[l].pending = gsn[l].pending
          /\ gsn'[l].term = gsn[l].term
      BY <1>2, <1>3, <1>4, <2>2
    <3> QED
      BY <3>1
  <2> QED
    BY <2>1, <2>2
<1>8. LeadersAbove'
  <2> SUFFICES ASSUME NEW l \in Node, status[l] = "leader"
               PROVE  /\ Heard(l, voteMaxAccepted[l])'
                      /\ Unresumed(l)' \/ Above(l, gsn[l])'
    BY <1>1 DEF LeadersAbove
  <2>1. Heard(l, voteMaxAccepted[l])' /\ (Unresumed(l) => Unresumed(l)')
    BY <1>1, <1>6 DEF BlockInv, LeadersAbove, Heard, Unresumed
  <2>2. Above(l, gsn[l]) => Above(l, gsn[l])'
    BY <1>1, <1>6, <1>7 DEF Above
  <2> QED
    BY <2>1, <2>2 DEF BlockInv, LeadersAbove
<1>9. VotesReport' /\ CandidatesKnow' /\ BlocksApart'
  BY <1>1, <1>6
     DEF BlockInv, VotesReport, CandidatesKnow, BlocksApart, Apart
<1> QED
  BY <1>8, <1>9 DEF BlockInv

\* OneLed, of the next state.
LEMMA OneLedNext ==
    ASSUME ElectionInv', NEW l \in Node, NEW o \in Node, NEW t \in Nat, Led(l, t)', Led(o, t)'
    PROVE  l = o
<1>1. CASE t = 0
  BY <1>1 DEF ElectionInv, BootTerm
<1>2. CASE t > 0
  <2>1. PICK Q \in SUBSET Node : Majority(Q) /\ \A n \in Q : Bound(n, t, l)'
    BY <1>2 DEF ElectionInv, LedTerms
  <2>2. PICK R \in SUBSET Node : Majority(R) /\ \A n \in R : Bound(n, t, o)'
    BY <1>2 DEF ElectionInv, LedTerms
  <2>3. PICK n \in Q \cap R : TRUE
    BY <2>1, <2>2, MajoritiesMeet
  <2> QED
    BY <2>1, <2>2, <2>3 DEF Bound
<1> QED
  BY <1>1, <1>2

\* A leader reserves the next block: above every mark of an older term that may
\* still be backed, above all of its own, and refused by whoever leads a later term.
LEMMA CountKeepsBlocks ==
    ASSUME TypeOK, TypeOK', ElectionInv, ElectionInv', MarkInv, BlockInv, UNCHANGED term,
           \A c \in Node : /\ status'[c] = "candidate" =>
                                 /\ status[c] = "candidate" /\ votes'[c] = votes[c]
                                 /\ voteMaxAccepted'[c] = voteMaxAccepted[c],
           NEW n \in Node, NEW lead \in BOOLEAN, lead => status'[n] = "leader",
           \A c \in Node \ {n} : /\ status'[c] = "leader" =>
                                       /\ status[c] = "leader"
                                       /\ voteMaxAccepted'[c] = voteMaxAccepted[c]
                                 /\ Unresumed(c) => Unresumed(c)',
           NEW g, GoodCounter(n, g), NEW h \in {g, Reserve(n, lead, term[n], g)},
           Counted(n, h),
           status'[n] = "leader" => /\ Heard(n, voteMaxAccepted'[n])
                                    /\ Above(n, g) \/ (Unresumed(n)' /\ h = g)
    PROVE  BlockInv'
<1> DEFINE new == [type |-> "Reserve", term |-> h.term, upto |-> h.pending, from |-> n]
<1>1. /\ g \in Counter /\ g.next <= g.confirmed + 1 /\ term \in [Node -> Nat]
      /\ gsn \in [Node -> Counter]
  BY DEF GoodCounter, TypeOK, ElectionTypes, GsnTypes
<1>2. /\ h \in Counter /\ h.confirmed = g.confirmed
      /\ \/ h = g
         \/ /\ h # g /\ lead /\ (g.pending = 0 \/ g.term # term[n])
            /\ h.pending = g.confirmed + Block /\ h.term = term[n]
  BY <1>1, ReserveShape, ReserveType
<1>3. /\ gsn'[n] = h /\ (\A c \in Node \ {n} : gsn'[c] = gsn[c]) /\ MessagesStay
      /\ \A m \in msgs' : \/ m \in msgs \/ (m = new /\ h.pending # 0)
                          \/ m.type \notin {"Reserve", "ReserveAck", "VoteResponse"}
  BY <1>1 DEF Counted, ReserveMsg
<1>4. /\ new.type = "Reserve" /\ new.term = h.term /\ new.upto = h.pending /\ new.from = n
      /\ new.term \in Nat /\ new.upto \in Nat /\ Block \in Nat \ {0}
      /\ new = [type |-> "Reserve", term |-> new.term, upto |-> new.upto, from |-> new.from]
  BY <1>2, CounterFields, ParamAssumption
<1>5. /\ \A r \in Reserves : r \in Reserves'
      /\ \A r \in Reserves' : r \in Reserves \/ (r = new /\ r \notin msgs /\ h.pending # 0)
  BY <1>3, BackingStays DEF Reserves
<1>6. h = g /\ h.pending # 0 => new \in Reserves
  <2> SUFFICES ASSUME h = g, h.pending # 0 PROVE new \in Reserves
    OBVIOUS
  <2>1. PICK r \in Reserves : r.from = n /\ r.term = g.term /\ r.upto = g.pending
    BY DEF GoodCounter
  <2>2. r = new
    BY <2>1, ReserveFields
  <2> QED
    BY <2>1, <2>2
<1> HIDE DEF new
<1>7. \A q, r : Backs(q, r)' <=> Backs(q, r)
  <2>1. \A m \in msgs' : m.type = "ReserveAck" => m \in msgs
    BY <1>3, <1>4
  <2> QED
    BY <1>3, <2>1, BackingStays DEF Backs
<1>8. \A r : Refused(r)' <=> Refused(r)
  BY <1>7 DEF Refused
\* What is new about the new reservation.
<1>9. ASSUME NEW r \in Reserves', r \notin Reserves
      PROVE  /\ r = new /\ h # g /\ status'[n] = "leader" /\ r.term = term[n]
             /\ r.upto = g.confirmed + Block /\ \A q : Backs(q, r) => q = n
  <2>1. r = new /\ r \notin msgs /\ h.pending # 0
    BY <1>5, <1>9
  <2>2. h # g
    BY <1>6, <1>9, <2>1
  <2>3. \A q : Backs(q, r) => q = n
    BY <1>4, <2>1, NewUnbacked
  <2> QED
    BY <1>2, <1>4, <2>1, <2>2, <2>3
<1>11. VotesReport'
  <2> SUFFICES ASSUME NEW m \in msgs', NEW r \in Reserves', m.type = "VoteResponse", m.granted,
                      r.term < m.term, Backs(m.from, r)
               PROVE  r.upto <= m.accepted
    BY <1>7 DEF VotesReport
  <2>1. m \in msgs
    BY <1>3, <1>4
  <2>2. CASE r \in Reserves
    BY <2>1, <2>2 DEF BlockInv, VotesReport
  <2>3. CASE r \notin Reserves
    <3>1. m.from = n /\ r.term = term[n]
      BY <1>9, <2>3
    <3>2. m.term \in Nat /\ m.to \in Node
      BY <2>1, MessageFields DEF TypeOK
    <3>3. Voted(n, m.term, m.to)
      BY <2>1, <3>1 DEF Voted, Granted
    <3>4. m.term <= term[n]
      BY <3>2, <3>3 DEF ElectionInv, VoteTerms
    <3> QED
      BY <1>1, <3>1, <3>2, <3>4
  <2> QED
    BY <2>2, <2>3
<1>12. CandidatesKnow'
  <2> SUFFICES ASSUME NEW c \in Node, NEW r \in Reserves', status'[c] = "candidate",
                      r.term < term[c], NEW q \in votes[c], Backs(q, r)
               PROVE  r.upto <= voteMaxAccepted[c]
    BY <1>7 DEF CandidatesKnow
  <2>1. status[c] = "candidate"
    OBVIOUS
  <2>2. CASE r \in Reserves
    BY <2>1, <2>2 DEF BlockInv, CandidatesKnow
  <2>3. CASE r \notin Reserves
    <3>1. q = n /\ r.term = term[n]
      BY <1>9, <2>3
    <3>2. term[c] <= term[n]
      BY <1>1, <2>1, <3>1 DEF ElectionInv, CandidateVotes, VoteTerms
    <3> QED
      BY <1>1, <3>1, <3>2
  <2> QED
    BY <2>2, <2>3
<1>13. ASSUME NEW r \in Reserves', r \notin Reserves, NEW l \in Node, NEW t \in Nat,
              Led(l, t), term[n] < t
       PROVE  Refused(r)
  BY <1>4, <1>9, <1>13, LaterLeaderRefuses
<1>14. LeadersAbove'
  <2> SUFFICES ASSUME NEW l \in Node, status'[l] = "leader"
               PROVE  /\ Heard(l, voteMaxAccepted[l])'
                      /\ Unresumed(l)' \/ Above(l, gsn[l])'
    BY DEF LeadersAbove
  <2>1. CASE l = n
    <3>1. Heard(l, voteMaxAccepted[l])'
      <4>1. ASSUME NEW r \in Reserves', r.term < term[l] PROVE r \in Reserves
        BY <1>1, <1>9, <2>1, <4>1
      <4> QED
        BY <1>8, <2>1, <4>1 DEF Heard
    <3>2. CASE Above(n, g)
      <4>1. ASSUME NEW r \in Reserves'
            PROVE  /\ r.term < term[l] => r.upto <= h.confirmed \/ Refused(r)
                   /\ r.term = term[l] => \/ r.upto <= h.confirmed
                                          \/ r.upto = h.pending /\ r.term = h.term
        <5>1. CASE r \in Reserves
          <6>1. r.upto > 0 /\ r.upto \in Nat
            BY <5>1, ReserveFields, GsnNat DEF MarkInv, MarksAccepted
          <6>2. /\ r.term < term[l] => r.upto <= g.confirmed \/ Refused(r)
                /\ r.term = term[l] => \/ r.upto <= g.confirmed
                                       \/ r.upto = g.pending /\ r.term = g.term
            BY <2>1, <3>2, <5>1 DEF Above
          <6> QED
            BY <1>2, <2>1, <6>1, <6>2
        <5>2. CASE r \notin Reserves
          <6>1. r = new /\ r.term = term[n]
            BY <1>9, <5>2
          <6> QED
            BY <1>1, <1>4, <2>1, <6>1
        <5> QED
          BY <5>1, <5>2
      <4>2. gsn'[l] = h
        BY <1>3, <2>1
      <4> QED
        BY <1>8, <3>1, <4>1, <4>2 DEF Above
    <3> QED
      BY <2>1, <3>1, <3>2
  <2>2. CASE l # n
    <3>1. /\ status[l] = "leader" /\ gsn'[l] = gsn[l]
          /\ voteMaxAccepted'[l] = voteMaxAccepted[l] /\ (Unresumed(l) => Unresumed(l)')
      BY <1>3, <2>2
    <3>2. Led(l, term[l]) /\ term[l] \in Nat
      BY <1>1, <3>1 DEF Led
    <3>3. ASSUME NEW r \in Reserves', r \notin Reserves
          PROVE  r.term # term[l] /\ (r.term < term[l] => Refused(r))
      <4>1. r.term = term[n] /\ status'[n] = "leader"
        BY <1>9, <3>3
      <4>2. r.term # term[l]
        <5>1. CASE r.term = term[l]
          <6>1. Led(l, term[n])' /\ Led(n, term[n])'
            BY <4>1, <5>1 DEF Led
          <6> QED
            BY <1>1, <2>2, <6>1, OneLedNext
        <5> QED
          BY <5>1
      <4> QED
        BY <1>13, <3>2, <3>3, <4>1, <4>2
    <3>4. Heard(l, voteMaxAccepted[l])'
      BY <1>8, <3>1, <3>3 DEF BlockInv, LeadersAbove, Heard
    <3>5. Above(l, gsn[l]) => Above(l, gsn[l])'
      BY <1>8, <3>1, <3>3 DEF Above
    <3> QED
      BY <3>1, <3>4, <3>5 DEF BlockInv, LeadersAbove
  <2> QED
    BY <2>1, <2>2
<1>15. BlocksApart'
  <2> SUFFICES ASSUME NEW r \in Reserves', NEW s \in Reserves'
               PROVE  /\ r.term = s.term => r = s \/ Apart(r, s) \/ Apart(s, r)
                      /\ r.term < s.term => Apart(r, s) \/ Refused(r)
    BY <1>8 DEF BlocksApart, Apart
  <2>1. CASE r \in Reserves /\ s \in Reserves
    BY <2>1 DEF BlockInv, BlocksApart
  <2>2. ASSUME NEW o \in Reserves, NEW w \in Reserves', w \notin Reserves
        PROVE  /\ o.term < w.term => Apart(o, w) \/ Refused(o)
               /\ o.term = w.term => Apart(o, w)
    <3>1. w.term = term[n] /\ w.upto = g.confirmed + Block /\ h # g /\ Above(n, g)
      BY <1>9, <2>2
    <3>2. /\ o.term < term[n] => o.upto <= g.confirmed \/ Refused(o)
          /\ o.term = term[n] => \/ o.upto <= g.confirmed
                                 \/ o.upto = g.pending /\ o.term = g.term
      BY <3>1 DEF Above
    <3>3. o.upto > 0 /\ o.upto \in Nat
      BY ReserveFields, GsnNat DEF MarkInv, MarksAccepted
    <3>4. g.pending = 0 \/ g.term # term[n]
      BY <1>2, <3>1
    <3>5. o.upto <= g.confirmed => Apart(o, w)
      BY <1>1, <1>4, <3>1, <3>3, CounterFields DEF Apart
    <3> QED
      BY <3>1, <3>2, <3>3, <3>4, <3>5
  <2>3. ASSUME NEW o \in Reserves, NEW w \in Reserves', w \notin Reserves, w.term < o.term
        PROVE  Refused(w)
    <3>1. o.from \in Node /\ o.term \in Nat /\ Led(o.from, o.term)
      BY ReserveFields DEF Led, Reserves
    <3>2. w.term = term[n]
      BY <1>9, <2>3
    <3> QED
      BY <1>13, <2>3, <3>1, <3>2
  <2>4. CASE r \in Reserves /\ s \notin Reserves
    BY <2>2, <2>4
  <2>5. CASE r \notin Reserves /\ s \in Reserves
    BY <2>2, <2>3, <2>5
  <2>6. CASE r \notin Reserves /\ s \notin Reserves
    <3>1. r = new /\ s = new
      BY <1>9, <2>6
    <3> QED
      BY <1>4, <3>1
  <2> QED
    BY <2>1, <2>4, <2>5, <2>6
<1> QED
  BY <1>11, <1>12, <1>14, <1>15 DEF BlockInv

\* Nobody has asked for a mark in the term that n comes to lead.
LEMMA NoneAsked ==
    ASSUME TypeOK, ElectionInv', MarkInv, MessagesStay, UNCHANGED term,
           NEW n \in Node, status[n] = "candidate", status'[n] = "leader", NEW r \in Reserves
    PROVE  r.term # term[n]
<1> SUFFICES ASSUME r.term = term[n] PROVE FALSE
  OBVIOUS
<1>1. term[n] \in Nat /\ r.from \in Node
  BY ReserveFields DEF TypeOK, ElectionTypes
<1>2. r.type = "Reserve" /\ r \in msgs'
  BY BackingStays DEF Reserves
<1>3. Led(r.from, term[n])' /\ Led(n, term[n])'
  BY <1>2 DEF Led
<1>4. r.from = n
  BY <1>1, <1>3, OneLedNext
<1> QED
  BY <1>1, <1>4 DEF MarkInv, MarksAccepted

\* The votes that make a leader report every mark a majority may still back.
LEMMA VotesHeard ==
    ASSUME TypeOK, ElectionInv, BlockInv,
           NEW n \in Node, NEW m \in msgs, CountVote(n, m), Majority(votes'[n])
    PROVE  Heard(n, voteMaxAccepted'[n])
<1> SUFFICES ASSUME NEW r \in Reserves, r.term < term[n]
             PROVE  r.upto <= voteMaxAccepted'[n] \/ Refused(r)
  BY DEF Heard
<1>1. /\ m.type = "VoteResponse" /\ m.granted /\ m.term = term[n] /\ status[n] = "candidate"
      /\ votes' = [votes EXCEPT ![n] = @ \cup {m.from}]
      /\ voteMaxAccepted' = [voteMaxAccepted EXCEPT ![n] = Larger(@, m.accepted)]
  BY DEF CountVote
<1>2. /\ term \in [Node -> Nat] /\ votes \in [Node -> SUBSET Node]
      /\ voteMaxAccepted \in [Node -> Nat] /\ m.accepted \in Nat
      /\ r.term \in Nat /\ r.upto \in Nat /\ r.from \in Node
  BY <1>1, ReserveFields, GsnNat, MessageFields DEF TypeOK, ElectionTypes
<1>3. /\ voteMaxAccepted[n] <= voteMaxAccepted'[n] /\ m.accepted <= voteMaxAccepted'[n]
      /\ voteMaxAccepted'[n] \in Nat /\ votes'[n] = votes[n] \cup {m.from}
  BY <1>1, <1>2 DEF Larger
<1>4. CASE \E q \in votes[n] : Backs(q, r)
  <2>1. r.upto <= voteMaxAccepted[n]
    BY <1>1, <1>4 DEF BlockInv, CandidatesKnow
  <2> QED
    BY <1>2, <1>3, <2>1
<1>5. CASE Backs(m.from, r)
  <2>1. r.upto <= m.accepted
    BY <1>1, <1>5 DEF BlockInv, VotesReport
  <2> QED
    BY <1>2, <1>3, <2>1
<1>6. CASE \A q \in votes'[n] : ~Backs(q, r)
  <2>1. votes'[n] \in SUBSET Node /\ \A q \in votes'[n] : Voted(q, term[n], n)
    BY CountedVotes
  <2>2. \A q \in votes'[n] : term[n] <= term[q]
    BY <1>2, <2>1 DEF ElectionInv, VoteTerms
  <2>3. \A q \in votes'[n] : term[q] > r.term
    BY <1>2, <2>1, <2>2
  <2> QED
    BY <1>6, <2>1, <2>3 DEF Refused
<1> QED
  BY <1>3, <1>4, <1>5, <1>6

\* The winner resumes its counter with the vote that wins, or is suspended before it does.
LEMMA WinKeepsBlocks ==
    ASSUME TypeOK, TypeOK', ElectionInv, ElectionInv', MarkInv, BlockInv,
           NEW n \in Node, NEW m \in msgs, WinElection(n, m)
    PROVE  BlockInv'
<1>1. /\ CountVote(n, m) /\ Majority(votes'[n]) /\ status[n] = "candidate"
      /\ status' = [status EXCEPT ![n] = "leader"] /\ UNCHANGED term
  BY DEF WinElection, CountVote
<1>2. term \in [Node -> Nat] /\ status \in [Node -> Status]
  BY DEF TypeOK, ElectionTypes
<1>3. status'[n] = "leader" /\ \A c \in Node \ {n} : status'[c] = status[c]
  BY <1>1, <1>2
<1>4. \A c \in Node \ {n} :
         votes'[c] = votes[c] /\ voteMaxAccepted'[c] = voteMaxAccepted[c]
  BY <1>1 DEF CountVote, TypeOK, ElectionTypes
<1>5. Heard(n, voteMaxAccepted'[n])
  BY <1>1, VotesHeard
<1>6. CASE "resume" \notin Preempt
  <2>1. /\ Resume(n, TRUE, term[n], voteMaxAccepted'[n], voteMaxMeta'[n], voteHoles'[n], {})
        /\ \A t \in tasks : t.kind = "resume" => t \in tasks'
    BY <1>6 DEF WinElection, Resume
  <2>2. PICK lead \in BOOLEAN, t \in Nat, acc \in Gsn, meta \in Gsn, holes \in SUBSET Gsn :
           t = term[n] /\ acc = voteMaxAccepted'[n] /\ Resume(n, lead, t, acc, meta, holes, {})
    BY <1>1, <1>2, <2>1, CountVoteTyped
  <2>3. PICK g : /\ GoodCounter(n, g) /\ acc <= g.confirmed
                 /\ Counted(n, Reserve(n, lead, t, g))
    BY <2>2, ResumeCounted
  <2>4. PICK h \in {g, Reserve(n, lead, term[n], g)} : Counted(n, h)
    BY <2>2, <2>3
  <2>5. g.confirmed \in Nat /\ acc \in Nat /\ MessagesStay
    BY <2>3, CounterFields, GsnNat DEF GoodCounter, Counted
  <2>6. Above(n, g)
    <3> SUFFICES ASSUME NEW r \in Reserves
                 PROVE  /\ r.term < term[n] => r.upto <= g.confirmed \/ Refused(r)
                        /\ r.term # term[n]
      BY DEF Above
    <3>1. r.term # term[n]
      BY <1>1, <1>3, <2>5, NoneAsked
    <3>2. r.term < term[n] => r.upto <= acc \/ Refused(r)
      BY <1>5, <2>2 DEF Heard
    <3>3. r.upto \in Nat
      BY ReserveFields, GsnNat
    <3> QED
      BY <2>3, <2>5, <3>1, <3>2, <3>3
  <2>7. \A c \in Node : status'[c] = "candidate" =>
                          /\ status[c] = "candidate" /\ votes'[c] = votes[c]
                          /\ voteMaxAccepted'[c] = voteMaxAccepted[c]
    BY <1>3, <1>4
  <2>8. \A c \in Node \ {n} : /\ status'[c] = "leader" =>
                                    /\ status[c] = "leader"
                                    /\ voteMaxAccepted'[c] = voteMaxAccepted[c]
                              /\ Unresumed(c) => Unresumed(c)'
    BY <1>1, <1>3, <1>4, <2>1 DEF Unresumed
  <2> QED
    BY <1>1, <1>3, <1>5, <2>3, <2>4, <2>6, <2>7, <2>8, CountKeepsBlocks
<1>7. CASE "resume" \in Preempt
  <2>1. /\ tasks' = tasks \cup {[kind |-> "resume", node |-> n, term |-> term[n]]}
        /\ UNCHANGED <<gsn, acceptedUpTo, msgs>>
    BY <1>7 DEF WinElection, gsnVars
  <2>2. /\ Reserves' = Reserves /\ \A q, r : Backs(q, r)' <=> Backs(q, r)
        /\ \A r : Refused(r)' <=> Refused(r)
    BY <1>1, <2>1 DEF Reserves, Backs, Refused
  <2>3. \A c \in Node : status'[c] = "candidate" =>
                          /\ status[c] = "candidate" /\ votes'[c] = votes[c]
                          /\ voteMaxAccepted'[c] = voteMaxAccepted[c]
    BY <1>3, <1>4
  <2>4. VotesReport' /\ CandidatesKnow' /\ BlocksApart'
    BY <1>1, <2>1, <2>2, <2>3 DEF BlockInv, VotesReport, CandidatesKnow, BlocksApart, Apart
  <2>5. Heard(n, voteMaxAccepted[n])' /\ Unresumed(n)'
    BY <1>1, <1>5, <2>1, <2>2 DEF Heard, Unresumed
  <2>6. ASSUME NEW l \in Node \ {n}, status'[l] = "leader"
        PROVE  Heard(l, voteMaxAccepted[l])' /\ (Unresumed(l)' \/ Above(l, gsn[l])')
    <3>1. Heard(l, voteMaxAccepted[l]) /\ (Unresumed(l) \/ Above(l, gsn[l]))
      BY <1>3, <2>6 DEF BlockInv, LeadersAbove
    <3>2. Heard(l, voteMaxAccepted[l])' /\ (Unresumed(l) => Unresumed(l)')
      BY <1>1, <1>4, <2>1, <2>2, <3>1 DEF Heard, Unresumed
    <3>3. Above(l, gsn[l]) => Above(l, gsn[l])'
      BY <1>1, <2>1, <2>2 DEF Above
    <3> QED
      BY <3>1, <3>2, <3>3
  <2> QED
    BY <2>4, <2>5, <2>6 DEF BlockInv, LeadersAbove
<1> QED
  BY <1>6, <1>7

\* A suspended winner goes on: whether its counter is resumed for the term it won or,
\* late, for another that it leads by now, it resumes above what it heard, and asked for.
LEMMA ResumeKeepsBlocks ==
    ASSUME TypeOK, TypeOK', ElectionInv, ElectionInv', MarkInv, BlockInv,
           NEW t \in tasks, ResumeSuspended(t)
    PROVE  BlockInv'
<1> DEFINE n == t.node
<1>1. /\ t.kind = "resume"
      /\ Resume(n, Leads(n), term[n], voteMaxAccepted[n], voteMaxMeta[n], voteHoles[n], {t})
      /\ UNCHANGED <<term, status, votes, voteMaxAccepted>>
  BY DEF ResumeSuspended, electVars, voteVars
<1>2. n \in Node
  BY <1>1, TaskFields DEF TypeOK
<1>3. \A c \in Node \ {n} : Unresumed(c) => Unresumed(c)'
  BY <1>1 DEF Resume, Unresumed
<1> HIDE DEF n
<1>4. PICK lead \in BOOLEAN, u \in Nat, acc \in Gsn, meta \in Gsn, holes \in SUBSET Gsn :
         /\ lead = Leads(n) /\ u = term[n] /\ acc = voteMaxAccepted[n]
         /\ Resume(n, lead, u, acc, meta, holes, {t})
  BY <1>1, <1>2 DEF TypeOK, ElectionTypes, Leads
<1>5. PICK g : /\ GoodCounter(n, g) /\ acc <= g.confirmed /\ acceptedUpTo[n] <= g.confirmed
               /\ Counted(n, Reserve(n, lead, u, g))
  BY <1>2, <1>4, ResumeCounted
<1>6. PICK h \in {g, Reserve(n, lead, term[n], g)} : Counted(n, h)
  BY <1>4, <1>5
<1>7. /\ g.confirmed \in Nat /\ acceptedUpTo[n] \in Nat /\ acc \in Nat /\ term[n] \in Nat
  BY <1>2, <1>5, CounterFields, GsnNat DEF GoodCounter, TypeOK, GsnTypes, ElectionTypes
<1>8. lead => status'[n] = "leader"
  BY <1>1, <1>4 DEF Leads
<1>9. ASSUME status'[n] = "leader"
      PROVE  Heard(n, voteMaxAccepted'[n]) /\ Above(n, g)
  <2>1. status[n] = "leader" /\ Heard(n, voteMaxAccepted[n])
    BY <1>1, <1>2, <1>9 DEF BlockInv, LeadersAbove
  <2> SUFFICES ASSUME NEW r \in Reserves
               PROVE  /\ r.term < term[n] => r.upto <= g.confirmed \/ Refused(r)
                      /\ r.term = term[n] => r.upto <= g.confirmed
    BY <1>1, <2>1 DEF Above
  <2>2. r.term \in Nat /\ r.upto \in Nat /\ r.from \in Node /\ r.type = "Reserve" /\ r \in msgs
    BY ReserveFields, GsnNat DEF Reserves
  <2>3. ASSUME r.term < term[n] PROVE r.upto <= g.confirmed \/ Refused(r)
    <3>1. r.upto <= acc \/ Refused(r)
      BY <1>4, <2>1, <2>3 DEF Heard
    <3> QED
      BY <1>5, <1>7, <2>2, <3>1
  <2>4. ASSUME r.term = term[n] PROVE r.upto <= g.confirmed
    <3>1. Led(r.from, term[n]) /\ Led(n, term[n])
      BY <2>1, <2>2, <2>4 DEF Led
    <3>2. r.from = n
      BY <1>2, <1>7, <2>2, <3>1, OneLed
    <3>3. acceptedUpTo[n] >= r.upto
      BY <3>2 DEF MarkInv, MarksAccepted
    <3> QED
      BY <1>5, <1>7, <2>2, <3>3
  <2> QED
    BY <2>3, <2>4
<1>10. \A c \in Node : status'[c] = status[c] /\ votes'[c] = votes[c]
                       /\ voteMaxAccepted'[c] = voteMaxAccepted[c]
  BY <1>1
<1> QED
  BY <1>1, <1>2, <1>3, <1>5, <1>6, <1>8, <1>9, <1>10, CountKeepsBlocks

\* Every step keeps the blocks of different leaders apart, unless it runs one of the races.
LEMMA BlocksKept ==
    ASSUME TypeOK, TypeOK', ElectionInv, ElectionInv', MarkInv, BlockInv, ~raced', [Next]_vars
    PROVE  BlockInv'
<1>1. ASSUME NEW n \in Node, Counting(n) PROVE BlockInv'
  <2>1. UNCHANGED <<term, status, votes, voteMaxAccepted, tasks>>
    BY <1>1 DEF Counting
  <2>2. PICK lead \in BOOLEAN : lead = Leads(n)
    BY DEF Leads
  <2>3. PICK g, h : /\ Uses(n, g) /\ h \in {g, Reserve(n, lead, term[n], g)}
                    /\ Counted(n, h) /\ raced' = (raced \/ Early(n, h, tasks))
    BY <1>1, <2>2 DEF Counting
  <2>4. GoodCounter(n, g)
    BY <2>3 DEF Uses
  <2>5. ASSUME Unresumed(n), h # g PROVE FALSE
    <3>1. h.pending = g.confirmed + Block /\ h.term = term[n]
      BY <2>3, <2>4, <2>5, ReserveShape DEF GoodCounter, TypeOK, ElectionTypes
    <3>2. g.confirmed \in Nat
      BY <2>4, CounterFields DEF GoodCounter
    <3>3. h.pending # 0
      BY <3>1, <3>2, ParamAssumption
    <3> QED
      BY <2>3, <2>5, <3>1, <3>3 DEF Early, Unresumed
  <2>6. ASSUME status'[n] = "leader"
        PROVE  /\ Heard(n, voteMaxAccepted'[n])
               /\ Above(n, g) \/ (Unresumed(n)' /\ h = g)
    <3>1. Heard(n, voteMaxAccepted[n]) /\ (Unresumed(n) \/ Above(n, gsn[n]))
      BY <2>1, <2>6 DEF BlockInv, LeadersAbove
    <3>2. Above(n, gsn[n]) => Above(n, g)
      BY <2>3 DEF Above, Uses
    <3>3. Unresumed(n) => Unresumed(n)'
      BY <2>1 DEF Unresumed
    <3> QED
      BY <2>1, <2>5, <3>1, <3>2, <3>3
  <2>7. lead => status'[n] = "leader"
    BY <2>1, <2>2 DEF Leads
  <2>8. \A c \in Node : /\ status'[c] = status[c] /\ votes'[c] = votes[c]
                        /\ voteMaxAccepted'[c] = voteMaxAccepted[c]
                        /\ Unresumed(c) => Unresumed(c)'
    BY <2>1 DEF Unresumed
  <2> QED
    BY <2>1, <2>3, <2>4, <2>6, <2>7, <2>8, CountKeepsBlocks
<1>2. CASE Takeover
  BY <1>2, WinKeepsBlocks, ResumeKeepsBlocks DEF Takeover
<1>3. ASSUME NEW n \in Node, NEW m \in msgs, HandleReserve(n, m) PROVE BlockInv'
  <2>1. /\ m \in Reserves /\ ~Stale(n, m.term)
        /\ UNCHANGED <<term, status, votes, voteMaxAccepted, gsn>>
        /\ \A t \in tasks : t.kind = "resume" => t \in tasks'
    BY <1>3 DEF HandleReserve, Reserves, electVars, voteVars
  <2>2. CASE AcceptMark(n, m.term, m.upto, m.from)
    BY <2>1, <2>2, MarkKeepsBlocks
  <2>3. CASE UNCHANGED msgs
    <3>1. /\ Reserves' = Reserves /\ \A q, r : Backs(q, r)' <=> Backs(q, r)
          /\ \A r : Refused(r)' <=> Refused(r)
      BY <2>1, <2>3 DEF Reserves, Backs, Refused
    <3>2. VotesReport' /\ CandidatesKnow' /\ BlocksApart'
      BY <2>1, <2>3, <3>1 DEF BlockInv, VotesReport, CandidatesKnow, BlocksApart, Apart
    <3>3. \A l \in Node : /\ Heard(l, voteMaxAccepted[l]) => Heard(l, voteMaxAccepted[l])'
                          /\ Unresumed(l) => Unresumed(l)'
                          /\ Above(l, gsn[l]) => Above(l, gsn[l])'
      BY <2>1, <3>1 DEF Heard, Unresumed, Above
    <3> QED
      BY <2>1, <3>2, <3>3 DEF BlockInv, LeadersAbove
  <2> QED
    BY <1>3, <2>2, <2>3 DEF HandleReserve
<1>4. ASSUME NEW t \in tasks, AcceptSuspended(t) PROVE BlockInv'
  <2>1. /\ t.kind = "accept" /\ AcceptMark(t.node, t.term, t.upto, t.to)
        /\ tasks' = tasks \ {t} /\ ~Stale(t.node, t.term)
        /\ UNCHANGED <<term, status, votes, voteMaxAccepted, gsn>>
    BY <1>4 DEF AcceptSuspended, electVars, voteVars
  <2>2. PICK m \in Reserves : t.term = m.term /\ t.upto = m.upto /\ t.to = m.from
    BY <2>1 DEF MarkInv, MarksAccepted, Answers
  <2>3. t.node \in Node /\ \A s \in tasks : s.kind = "resume" => s \in tasks'
    BY <2>1, TaskFields DEF TypeOK
  <2> QED
    BY <2>1, <2>2, <2>3, MarkKeepsBlocks
<1>5. CASE Accepting
  BY <1>3, <1>4, <1>5, AckKeepsBlocks DEF Accepting
<1> QED
  BY <1>1, <1>2, <1>5, StepShape, SilentKeepsBlocks

LEMMA InitBlocks == Init => BlockInv
<1> SUFFICES ASSUME Init PROVE BlockInv
  OBVIOUS
<1>1. TypeOK /\ MarkInv /\ tasks = {} /\ term = [n \in Node |-> 0]
      /\ status = [n \in Node |-> IF n = Bootstrap THEN "leader" ELSE "follower"]
  BY InitTyped, InitMarks DEF Init
<1>2. PICK first : msgs = ReserveMsg(Bootstrap, first) /\ gsn[Bootstrap] = first
  BY NodeAssumption DEF Init
<1>3. ASSUME NEW r \in msgs
      PROVE  /\ r.type = "Reserve" /\ r.upto = first.pending /\ r.term = first.term
             /\ r = [type |-> "Reserve", term |-> first.term, upto |-> first.pending,
                     from |-> Bootstrap]
  BY <1>2 DEF ReserveMsg
<1>4. \A r \in Reserves : r.term = 0
  <2>1. \A r \in Reserves : r.from = Bootstrap /\ r.term \in Nat /\ r.term <= 0
    BY <1>1, <1>3, ReserveFields, NodeAssumption DEF MarkInv, MarksAccepted, Reserves
  <2> QED
    BY <2>1
<1>5. \A r, s \in Reserves : r = s
  BY <1>3 DEF Reserves
<1>6. VotesReport /\ CandidatesKnow
  BY <1>1, <1>3 DEF VotesReport, CandidatesKnow
<1>7. LeadersAbove
  <2> SUFFICES ASSUME NEW l \in Node, status[l] = "leader", NEW r \in Reserves
               PROVE  /\ r.term = 0 /\ term[l] = 0
                      /\ r.upto = gsn[l].pending /\ r.term = gsn[l].term
    BY <1>4 DEF LeadersAbove, Above, Heard
  <2>1. l = Bootstrap /\ term[l] = 0
    BY <1>1
  <2>2. r.upto = first.pending /\ r.term = first.term /\ r.term = 0
    BY <1>3, <1>4 DEF Reserves
  <2> QED
    BY <1>2, <2>1, <2>2
<1>8. BlocksApart
  BY <1>4, <1>5 DEF BlocksApart
<1> QED
  BY <1>6, <1>7, <1>8 DEF BlockInv

-----------------------------------------------------------------------------
(* No number twice *)

\* Two blocks that majorities back do not overlap, unless they are one.
LEMMA NumbersApart ==
    ASSUME TypeOK, BlockInv, NEW n \in Node, NEW o \in Node, n # o
    PROVE  Numbers(n) \cap Numbers(o) = {}
<1>1. ASSUME NEW r \in Reserves, Backed(r) PROVE ~ Refused(r)
  <2> SUFFICES ASSUME Refused(r) PROVE FALSE
    OBVIOUS
  <2>1. PICK Q \in SUBSET Node : Majority(Q) /\ \A q \in Q : Backs(q, r)
    BY <1>1 DEF Backed
  <2>2. PICK R \in SUBSET Node : Majority(R) /\ \A q \in R : ~Backs(q, r)
    BY DEF Refused
  <2>3. PICK q \in Q \cap R : TRUE
    BY <2>1, <2>2, MajoritiesMeet
  <2> QED
    BY <2>1, <2>2, <2>3
<1>2. ASSUME NEW r \in Reserves, NEW s \in Reserves, Backed(r), Backed(s), r.from # s.from
      PROVE  Apart(r, s) \/ Apart(s, r)
  <2>1. r.term \in Nat /\ s.term \in Nat
    BY ReserveFields
  <2>2. CASE r.term = s.term
    BY <1>2, <2>2 DEF BlockInv, BlocksApart
  <2>3. CASE r.term < s.term
    BY <1>1, <1>2, <2>3 DEF BlockInv, BlocksApart
  <2>4. CASE s.term < r.term
    BY <1>1, <1>2, <2>4 DEF BlockInv, BlocksApart
  <2> QED
    BY <2>1, <2>2, <2>3, <2>4
<1> SUFFICES ASSUME NEW g \in Gsn, g \in Numbers(n), g \in Numbers(o) PROVE FALSE
  BY DEF Numbers
<1>3. PICK r \in Reserves : r.from = n /\ Backed(r) /\ r.upto - Block < g /\ g <= r.upto
  BY DEF Numbers
<1>4. PICK s \in Reserves : s.from = o /\ Backed(s) /\ s.upto - Block < g /\ g <= s.upto
  BY DEF Numbers
<1>5. g \in Nat /\ r.upto \in Nat /\ s.upto \in Nat /\ Block \in Nat
  BY ReserveFields, GsnNat, ParamAssumption
<1> QED
  BY <1>2, <1>3, <1>4, <1>5 DEF Apart

\* A number that is handed out is above those n handed out before, and in a block of n.
LEMMA UniqueKept ==
    ASSUME TypeOK, MarkInv, BlockInv, NumberedOnce, [Next]_vars
    PROVE  NumberedOnce'
<1>1. CASE UNCHANGED issued
  BY <1>1 DEF NumberedOnce
<1>2. ASSUME NEW n \in Node, Counting(n) PROVE NumberedOnce'
  <2>1. /\ \A i \in issued' : i \in issued \/ (/\ i.by = n /\ i.gsn \in Numbers(n)
                                               /\ gsn[n].next <= i.gsn)
        /\ \A i, j \in issued' \ issued : i = j
    BY <1>2 DEF Counting
  <2>2. gsn \in [Node -> Counter] /\ gsn[n].next \in Nat
    BY CounterFields DEF TypeOK, GsnTypes
  <2>3. ASSUME NEW a \in issued, NEW b \in issued' \ issued PROVE a.gsn # b.gsn
    <3>1. a.gsn \in Numbers(a.by) /\ a.gsn < gsn[a.by].next /\ a.by \in Node /\ a.gsn \in Nat
      BY GsnNat DEF MarkInv, IssuedBacked, TypeOK, RequestTypes
    <3>2. b.gsn \in Numbers(n) /\ gsn[n].next <= b.gsn
      BY <2>1
    <3>3. CASE a.by = n
      BY <2>2, <3>1, <3>2, <3>3
    <3>4. CASE a.by # n
      BY <3>1, <3>2, <3>4, NumbersApart
    <3> QED
      BY <3>3, <3>4
  <2> QED
    BY <2>1, <2>3 DEF NumberedOnce
<1>3. CASE Silent \/ Takeover \/ Accepting
  BY <1>1, <1>3
     DEF Silent, Takeover, WinElection, ResumeSuspended,
         Accepting, HandleReserve, HandleReserveAck, AcceptSuspended, reqVars
<1> QED
  BY <1>2, <1>3, StepShape

\* ElectionSafe's induction step, for its use together with others.
LEMMA NextElected ==
    ASSUME TypeOK, ElectionInv, [Next]_vars
    PROVE  ElectionInv'
<1>1. CASE Next
  BY <1>1, ElectionStep, ReservationStep, AllocationStep, RequestStep, MetaStep DEF Next
<1>2. CASE UNCHANGED vars
  <2>1. Exchange({}, {}) /\ UNCHANGED <<term, votedFor, status, votes, gsn>>
    BY <1>2 DEF vars, electVars, voteVars, gsnVars, Exchange
  <2> QED
    BY <2>1, OtherStep
<1> QED
  BY <1>1, <1>2

\* A race that was run has been run for good.
LEMMA RacedStays ==
    ASSUME TypeOK, MarkInv, [Next]_vars, raced
    PROVE  raced'
<1>1. CASE Silent
  BY <1>1 DEF Silent, gsnVars
<1>2. ASSUME NEW n \in Node, Counting(n) PROVE raced'
  BY <1>2 DEF Counting
<1>3. CASE Takeover
  BY <1>3 DEF Takeover, WinElection, ResumeSuspended, Resume, SetGSN, gsnVars
<1>4. CASE Accepting
  BY <1>4 DEF Accepting, HandleReserve, HandleReserveAck, AcceptSuspended
<1> QED
  BY <1>1, <1>2, <1>3, <1>4, StepShape

NumberInv == ElectionInv /\ MarkInv /\ (raced \/ (BlockInv /\ NumberedOnce))

LEMMA NumbersKept == Spec => []NumberInv
<1>1. Init => NumberInv
  BY InitElected, InitMarks, InitBlocks DEF NumberInv, NumberedOnce, Init
<1>2. TypeOK /\ TypeOK' /\ NumberInv /\ [Next]_vars => NumberInv'
  BY NextElected, MarksKept, BlocksKept, UniqueKept, RacedStays DEF NumberInv
<1> QED
  BY <1>1, <1>2, TypeCorrect, PTL DEF Spec

\* No GSN is given twice, by one leader or by two, through any number of elections
\* and with every handler suspended where the code lets it be, unless a leader has
\* reserved before its counter was resumed (resumeGSNCounterOnBecomingLeader,
\* allocateGSN), or a node has accepted a mark of a term it had left (HandleReserve).
THEOREM NoNumberTwice == Spec => []UniqueGSN
<1>1. NumberInv => UniqueGSN
  BY DEF NumberInv, UniqueGSN
<1> QED
  BY <1>1, NumbersKept, PTL

\* Until one of those two races is run, what two nodes may still hand out without
\* asking anyone, a deposed leader and its successor included, never overlaps.
THEOREM BlocksNeverMeet == Spec => []BlocksDisjoint
<1>1. TypeOK /\ NumberInv => BlocksDisjoint
  <2> SUFFICES ASSUME TypeOK, MarkInv, BlockInv, NEW n \in Node
               PROVE  /\ \A o \in Node \ {n} : Free(n) \cap Free(o) = {}
                      /\ \A i \in issued : i.gsn \notin Free(n)
    BY DEF BlocksDisjoint, NumberInv
  <2>1. \A o \in Node : Free(o) \subseteq Numbers(o)
    BY DEF MarkInv, CountersBacked
  <2>2. \A o \in Node \ {n} : Free(n) \cap Free(o) = {}
    BY <2>1, NumbersApart
  <2>3. ASSUME NEW i \in issued PROVE i.gsn \notin Free(n)
    <3>1. i.gsn \in Numbers(i.by) /\ i.gsn < gsn[i.by].next /\ i.by \in Node /\ i.gsn \in Nat
      BY GsnNat DEF MarkInv, IssuedBacked, TypeOK, RequestTypes
    <3>2. CASE i.by = n
      <4>1. gsn[n].next \in Nat /\ gsn[n].confirmed \in Nat
        BY CounterFields DEF TypeOK, GsnTypes
      <4> QED
        BY <3>1, <3>2, <4>1 DEF Free
    <3>3. CASE i.by # n
      BY <2>1, <3>1, <3>3, NumbersApart
    <3> QED
      BY <3>2, <3>3
  <2> QED
    BY <2>2, <2>3
<1> QED
  BY <1>1, NumbersKept, TypeCorrect, PTL

-----------------------------------------------------------------------------
(* One source of numbers *)

\* Where attempt k of request r is: in a message, waiting at a node, or served.
Carried(r, k) == {m \in msgs : m.type = "GSNRequest" /\ m.req = r /\ m.attempt = k}
Held(r, k) == {w \in waiting : w[2] = r /\ w[3] = k}
Served(r, k) == {i \in issued : i.req = r /\ i.attempt = k}

\* An attempt that was made is at one of those places, once.
Placed(r, k) ==
    /\ Carried(r, k) # {} \/ Held(r, k) # {} \/ Served(r, k) # {} => k <= attempts[r]
    /\ Carried(r, k) = {} \/ Held(r, k) = {}
    /\ Carried(r, k) = {} \/ Served(r, k) = {}
    /\ Held(r, k) = {} \/ Served(r, k) = {}
    /\ \A m, o \in Carried(r, k) : m = o
    /\ \A v, w \in Held(r, k) : v = w

\* What a proxy is told, and keeps, was handed out for its request.
Given(r, g) == \E i \in issued : i.req = r /\ i.gsn = g
AnswersGiven ==
    /\ \A m \in msgs : m.type = "GSNResponse" => Given(m.req, m.gsn)
    /\ \A r \in Req : reqStatus[r] \in {"answered", "published"} => Given(r, answer[r])

AttemptInv == (\A r \in Req, k \in Nat : Placed(r, k)) /\ AnswersGiven

\* The messages of a request and of its answer, which other steps leave alone.
Dialogue == {m \in msgs : m.type \in {"GSNRequest", "GSNResponse"}}

LEMMA InitAttempts == Init => AttemptInv
<1> SUFFICES ASSUME Init PROVE AttemptInv
  OBVIOUS
<1>1. issued = {} /\ waiting = {} /\ \A r \in Req : reqStatus[r] = "new"
  BY DEF Init
<1>2. \A m \in msgs : m.type = "Reserve"
  <2>1. PICK first : msgs = ReserveMsg(Bootstrap, first)
    BY DEF Init
  <2> QED
    BY <2>1 DEF ReserveMsg
<1> QED
  BY <1>1, <1>2 DEF AttemptInv, Placed, Carried, Held, Served, AnswersGiven

LEMMA SetGSNDialogue ==
    ASSUME NEW n, NEW g, NEW todo, NEW received, NEW sent, SetGSN(n, g, todo, received, sent)
    PROVE  \A m : m.type \in {"GSNRequest", "GSNResponse"} =>
                    (m \in msgs' <=> (m \in msgs /\ m \notin received) \/ m \in sent)
  BY DEF SetGSN, Exchange, ReserveMsg

\* A step that touches no request.
LEMMA Unasked ==
    ASSUME AttemptInv, UNCHANGED <<reqVars, Dialogue>>
    PROVE  AttemptInv'
<1>1. \A m : m.type \in {"GSNRequest", "GSNResponse"} => (m \in msgs' <=> m \in msgs)
  BY DEF Dialogue
<1>2. /\ \A r, k : Carried(r, k)' = Carried(r, k)
      /\ \A r, k : Held(r, k)' = Held(r, k)
      /\ \A r, k : Served(r, k)' = Served(r, k)
  BY <1>1 DEF Carried, Held, Served, reqVars
<1>3. \A r \in Req, k \in Nat : Placed(r, k)'
  BY <1>2 DEF AttemptInv, Placed, reqVars
<1>4. AnswersGiven'
  BY <1>1 DEF AttemptInv, AnswersGiven, Given, reqVars
<1> QED
  BY <1>3, <1>4 DEF AttemptInv

LEMMA ElectionUnasked ==
    ASSUME TypeOK, NEW n \in Node, Election(n)
    PROVE  UNCHANGED <<reqVars, Dialogue>>
<1>1. ASSUME OnElectionTimeout(n) PROVE UNCHANGED <<reqVars, Dialogue>>
  BY <1>1 DEF OnElectionTimeout, Send, Exchange, Dialogue
<1>2. ASSUME ElectSuspended(n) PROVE UNCHANGED <<reqVars, Dialogue>>
  BY <1>2 DEF ElectSuspended, StartElection, Send, Exchange, Dialogue
<1>3. ASSUME Heartbeat(n) PROVE UNCHANGED <<reqVars, Dialogue>>
  BY <1>3 DEF Heartbeat, Send, Exchange, Dialogue
<1>4. ASSUME NEW p, NEW lead, NEW t, NEW acc, NEW meta, NEW holes, NEW done,
             Resume(p, lead, t, acc, meta, holes, done)
      PROVE  UNCHANGED Dialogue
  <2>1. PICK g, skip : SetGSN(p, g, tasks \ done, {}, SkipMsg(skip))
    BY <1>4 DEF Resume
  <2> QED
    BY <2>1, SetGSNDialogue DEF Dialogue, SkipMsg
<1>5. ASSUME NEW t \in tasks, ResumeSuspended(t) PROVE UNCHANGED <<reqVars, Dialogue>>
  BY <1>4, <1>5 DEF ResumeSuspended
<1>6. ASSUME NEW m \in msgs, HandlePreVoteRequest(n, m) PROVE UNCHANGED <<reqVars, Dialogue>>
  BY <1>6 DEF HandlePreVoteRequest, Send, Exchange, Dialogue
<1>7. ASSUME NEW m \in msgs, HandlePreVoteResponse(n, m) PROVE UNCHANGED <<reqVars, Dialogue>>
  BY <1>7 DEF HandlePreVoteResponse, StartElection, Send, Exchange, Dialogue
<1>8. ASSUME NEW m \in msgs, HandleVoteRequest(n, m) PROVE UNCHANGED <<reqVars, Dialogue>>
  <2>1. UNCHANGED reqVars /\ \E x : x.type = "VoteResponse" /\ Send({x})
    BY <1>8 DEF HandleVoteRequest
  <2> QED
    BY <2>1 DEF Send, Exchange, Dialogue
<1>9. ASSUME NEW m \in msgs, VoteResponseStepDown(n, m) \/ HandleVote(n, m)
      PROVE  UNCHANGED <<reqVars, Dialogue>>
  BY <1>9 DEF VoteResponseStepDown, HandleVote, Dialogue
<1>10. ASSUME NEW m \in msgs, WinElection(n, m) PROVE UNCHANGED <<reqVars, Dialogue>>
  <2>1. UNCHANGED reqVars /\ (UNCHANGED msgs \/ \E t, acc, meta, holes :
                                 Resume(n, TRUE, t, acc, meta, holes, {}))
    BY <1>10 DEF WinElection
  <2> QED
    BY <1>4, <2>1 DEF Dialogue
<1>11. ASSUME NEW m \in msgs, HandleHeartbeat(n, m) PROVE UNCHANGED <<reqVars, Dialogue>>
  BY <1>11 DEF HandleHeartbeat, Dialogue
<1> QED
  BY <1>1, <1>2, <1>3, <1>5, <1>6, <1>7, <1>8, <1>9, <1>10, <1>11 DEF Election

LEMMA OthersUnasked ==
    ASSUME TypeOK, NEW n \in Node, Reservation(n) \/ Meta(n)
    PROVE  UNCHANGED <<reqVars, Dialogue>>
<1>1. ASSUME NEW m \in msgs, HandleReserve(n, m) PROVE UNCHANGED <<reqVars, Dialogue>>
  BY <1>1 DEF HandleReserve, AcceptMark, ReserveAck, Send, Exchange, Dialogue
<1>2. ASSUME NEW m \in msgs, HandleReserveAck(n, m) PROVE UNCHANGED <<reqVars, Dialogue>>
  BY <1>2 DEF HandleReserveAck, Dialogue
<1>3. ASSUME NEW t \in tasks, AcceptSuspended(t) PROVE UNCHANGED <<reqVars, Dialogue>>
  BY <1>3 DEF AcceptSuspended, AcceptMark, ReserveAck, Send, Exchange, Dialogue
<1>4. ASSUME NEW m \in msgs, HandleMETAStream(n, m) \/ HandleMETASkip(n, m)
      PROVE  UNCHANGED <<reqVars, Dialogue>>
  BY <1>4 DEF HandleMETAStream, HandleMETASkip, Dialogue
<1>5. ASSUME NEW t \in tasks, SkipMissing(t) PROVE UNCHANGED <<reqVars, Dialogue>>
  <2>1. UNCHANGED reqVars /\ \E still : Send(SkipMsg(still))
    BY <1>5 DEF SkipMissing
  <2> QED
    BY <2>1 DEF Send, Exchange, SkipMsg, Dialogue
<1> QED
  BY <1>1, <1>2, <1>3, <1>4, <1>5 DEF Reservation, Meta

-----------------------------------------------------------------------------
\* A step that moves attempt j of request q, and nothing else.
Moves(q, j) ==
    /\ \A r \in Req : attempts[r] \in Nat /\ attempts'[r] \in Nat /\ attempts[r] <= attempts'[r]
    /\ \A m \in msgs' : \/ m.type # "GSNRequest" \/ m \in msgs
                        \/ m.req = q /\ m.attempt = j
    /\ \A w \in waiting' : w \in waiting \/ (w[2] = q /\ w[3] = j)
    /\ \A i \in issued' : i \in issued \/ (i.req = q /\ i.attempt = j)

LEMMA OneMoved ==
    ASSUME AttemptInv, NEW q, NEW j, Moves(q, j), Placed(q, j)'
    PROVE  \A r \in Req, k \in Nat : Placed(r, k)'
<1> SUFFICES ASSUME NEW r \in Req, NEW k \in Nat, ~(r = q /\ k = j) PROVE Placed(r, k)'
  OBVIOUS
<1>1. /\ Carried(r, k)' \subseteq Carried(r, k)
      /\ Held(r, k)' \subseteq Held(r, k)
      /\ Served(r, k)' \subseteq Served(r, k)
  BY DEF Moves, Carried, Held, Served
<1>2. Placed(r, k)
  BY DEF AttemptInv
<1> QED
  BY <1>1, <1>2 DEF Moves, Placed

\* Nobody has an attempt that was not made yet.
LEMMA Unplaced ==
    ASSUME AttemptInv, NEW r \in Req, NEW k \in Nat, attempts[r] \in Nat, attempts[r] < k
    PROVE  Carried(r, k) = {} /\ Held(r, k) = {} /\ Served(r, k) = {}
<1>1. Placed(r, k)
  BY DEF AttemptInv
<1> QED
  BY <1>1 DEF Placed

\* What was handed out stays so; a step that sends no answer and takes none.
LEMMA AnswersStay ==
    ASSUME AnswersGiven, issued \subseteq issued',
           \A m \in msgs' : m \in msgs \/ m.type # "GSNResponse",
           \A r \in Req : reqStatus'[r] \in {"answered", "published"} =>
               reqStatus[r] \in {"answered", "published"} /\ answer'[r] = answer[r]
    PROVE  AnswersGiven'
  BY DEF AnswersGiven, Given

LEMMA SendAttempts ==
    ASSUME TypeOK, AttemptInv, NEW r \in Req, SendGSNRequest(r)
    PROVE  AttemptInv'
<1>0. PICK p, k, request :
         /\ p = Proxy[r] /\ k = attempts[r] + 1
         /\ request = [type |-> "GSNRequest", req |-> r, attempt |-> k, to |-> leader[p]]
  OBVIOUS
<1>1. /\ attempts \in [Req -> Nat] /\ attempts' = [attempts EXCEPT ![r] = k]
      /\ k \in Nat /\ attempts[r] < k /\ UNCHANGED <<answer, issued>>
      /\ reqStatus \in [Req -> {"new", "asking", "local", "answered", "published", "failed"}]
      /\ \E s \in {"local", "asking"} : reqStatus' = [reqStatus EXCEPT ![r] = s]
  BY <1>0 DEF SendGSNRequest, TypeOK, RequestTypes
<1>2. Carried(r, k) = {} /\ Held(r, k) = {} /\ Served(r, k) = {}
  BY <1>1, Unplaced
<1>3. CASE StartAllocation(p, r, k, {})
  <2>1. waiting' = waiting \cup {<<p, r, k>>} /\ \E g : SetGSN(p, g, tasks, {}, {})
    BY <1>3 DEF StartAllocation
  <2>2. \A m : m.type \in {"GSNRequest", "GSNResponse"} => (m \in msgs' <=> m \in msgs)
    BY <2>1, SetGSNDialogue
  <2>3. /\ Carried(r, k)' = Carried(r, k) /\ Served(r, k)' = Served(r, k)
        /\ Held(r, k)' = Held(r, k) \cup {<<p, r, k>>}
    BY <1>1, <2>1, <2>2 DEF Carried, Held, Served
  <2>4. Placed(r, k)'
    BY <1>1, <1>2, <2>3 DEF Placed
  <2>5. \A q \in Req, j \in Nat : Placed(q, j)'
    <3>1. Moves(r, k)
      BY <1>1, <2>1, <2>2 DEF Moves
    <3> QED
      BY <3>1, <2>4, OneMoved
  <2>6. AnswersGiven'
    BY <1>1, <2>2, AnswersStay DEF AttemptInv
  <2> QED
    BY <2>5, <2>6 DEF AttemptInv
<1>4. CASE Send({request}) /\ UNCHANGED waiting
  <2>1. request.type = "GSNRequest" /\ request.req = r /\ request.attempt = k
    BY <1>0
  <2>2. msgs' = msgs \cup {request}
    BY <1>4 DEF Send, Exchange
  <2>3. /\ Carried(r, k)' = Carried(r, k) \cup {request} /\ Served(r, k)' = Served(r, k)
        /\ Held(r, k)' = Held(r, k)
    BY <1>1, <1>4, <2>1, <2>2 DEF Carried, Held, Served
  <2>4. Placed(r, k)'
    BY <1>1, <1>2, <2>3 DEF Placed
  <2>5. \A q \in Req, j \in Nat : Placed(q, j)'
    <3>1. Moves(r, k)
      BY <1>1, <1>4, <2>1, <2>2 DEF Moves
    <3> QED
      BY <3>1, <2>4, OneMoved
  <2>6. AnswersGiven'
    BY <1>1, <2>1, <2>2, AnswersStay DEF AttemptInv
  <2> QED
    BY <2>5, <2>6 DEF AttemptInv
<1> QED
  BY <1>0, <1>3, <1>4 DEF SendGSNRequest

LEMMA HandleAttempts ==
    ASSUME TypeOK, AttemptInv, NEW n \in Node, NEW m \in msgs, HandleGSNRequest(n, m)
    PROVE  AttemptInv'
<1>0. PICK r, k : r = m.req /\ k = m.attempt
  OBVIOUS
<1>1. /\ m.type = "GSNRequest" /\ r \in Req /\ k \in Nat
      /\ attempts \in [Req -> Nat] /\ UNCHANGED <<reqStatus, attempts, answer, issued>>
  BY <1>0, MessageFields DEF HandleGSNRequest, TypeOK, RequestTypes
<1>2. m \in Carried(r, k) /\ Placed(r, k)
  BY <1>0, <1>1 DEF AttemptInv, Carried
<1>3. CASE StartAllocation(n, r, k, {m})
  <2>1. waiting' = waiting \cup {<<n, r, k>>} /\ \E g : SetGSN(n, g, tasks, {m}, {})
    BY <1>3 DEF StartAllocation
  <2>2. \A x : x.type \in {"GSNRequest", "GSNResponse"} => (x \in msgs' <=> x \in msgs /\ x # m)
    BY <2>1, SetGSNDialogue
  <2>3. /\ Carried(r, k)' = {} /\ Served(r, k)' = Served(r, k)
        /\ Held(r, k)' = Held(r, k) \cup {<<n, r, k>>}
    BY <1>1, <1>2, <2>1, <2>2 DEF Carried, Held, Served, Placed
  <2>4. Placed(r, k)'
    BY <1>1, <1>2, <2>3 DEF Placed
  <2>5. \A q \in Req, j \in Nat : Placed(q, j)'
    <3>1. Moves(r, k)
      BY <1>1, <2>1, <2>2 DEF Moves
    <3> QED
      BY <3>1, <2>4, OneMoved
  <2>6. AnswersGiven'
    BY <1>1, <2>2, AnswersStay DEF AttemptInv
  <2> QED
    BY <2>5, <2>6 DEF AttemptInv
<1>4. CASE Exchange({m}, {[m EXCEPT !.to = leader[n]]}) /\ UNCHANGED waiting
  <2>0. PICK forward : forward = [m EXCEPT !.to = leader[n]]
    OBVIOUS
  <2>1. forward.type = "GSNRequest" /\ forward.req = r /\ forward.attempt = k
    BY <1>0, <1>1, <2>0 DEF TypeOK, Message
  <2>2. Exchange({m}, {forward})
    BY <1>4, <2>0
  <2>3. msgs' = (msgs \ {m}) \cup {forward}
    BY <2>2 DEF Exchange
  <2>4. /\ Carried(r, k)' = {forward} /\ Served(r, k)' = Served(r, k)
        /\ Held(r, k)' = Held(r, k)
    BY <1>1, <1>2, <1>4, <2>1, <2>3 DEF Carried, Held, Served, Placed
  <2>5. Placed(r, k)'
    BY <1>1, <1>2, <2>4 DEF Placed
  <2>6. \A q \in Req, j \in Nat : Placed(q, j)'
    <3>1. Moves(r, k)
      BY <1>1, <1>4, <2>1, <2>3 DEF Moves
    <3> QED
      BY <3>1, <2>5, OneMoved
  <2>7. AnswersGiven'
    BY <1>1, <2>1, <2>3, AnswersStay DEF AttemptInv
  <2> QED
    BY <2>6, <2>7 DEF AttemptInv
<1> QED
  BY <1>0, <1>3, <1>4 DEF HandleGSNRequest

LEMMA AllocateAttempts ==
    ASSUME TypeOK, AttemptInv, NEW n \in Node, NEW r \in Req, NEW k \in Nat, Allocate(n, r, k)
    PROVE  AttemptInv'
<1>0. PICK g, sent, item :
         /\ g = gsn[n].next
         /\ sent = IF Proxy[r] = n THEN {} ELSE {[type |-> "GSNResponse", req |-> r, gsn |-> g]}
         /\ item = [gsn |-> g, by |-> n, req |-> r, attempt |-> k]
  OBVIOUS
<1>1. /\ <<n, r, k>> \in waiting /\ waiting' = waiting \ {<<n, r, k>>}
      /\ issued' = issued \cup {item} /\ attempts \in [Req -> Nat] /\ UNCHANGED attempts
      /\ reqStatus \in [Req -> {"new", "asking", "local", "answered", "published", "failed"}]
      /\ answer \in [Req -> Gsn]
      /\ waiting \subseteq Node \X Req \X Nat
      /\ Answered(r, g) \/ UNCHANGED <<reqStatus, answer>>
      /\ \E h : SetGSN(n, h, tasks, {}, sent)
  BY <1>0 DEF Allocate, TypeOK, RequestTypes
<1>2. item.req = r /\ item.attempt = k /\ item.gsn = g
  BY <1>0
<1>3. \A x \in sent : x.type = "GSNResponse" /\ x.req = r /\ x.gsn = g
  BY <1>0
<1>4. \A x : x.type \in {"GSNRequest", "GSNResponse"} => (x \in msgs' <=> x \in msgs \/ x \in sent)
  BY <1>1, SetGSNDialogue
<1>5. Placed(r, k) /\ <<n, r, k>> \in Held(r, k)
  BY <1>1 DEF AttemptInv, Held
<1>6. /\ Carried(r, k)' = {} /\ Served(r, k)' = Served(r, k) \cup {item}
      /\ Held(r, k)' = {}
  <2>1. Carried(r, k)' = {}
    BY <1>3, <1>4, <1>5 DEF Carried, Placed
  <2>2. Held(r, k)' = {}
    BY <1>1, <1>5 DEF Held, Placed
  <2> QED
    BY <1>1, <1>2, <2>1, <2>2 DEF Served
<1>7. Placed(r, k)'
  BY <1>1, <1>5, <1>6 DEF Placed
<1>8. \A q \in Req, j \in Nat : Placed(q, j)'
  <2>1. Moves(r, k)
    BY <1>1, <1>2, <1>3, <1>4 DEF Moves
  <2> QED
    BY <2>1, <1>7, OneMoved
<1>9. Given(r, g)'
  BY <1>1, <1>2 DEF Given
<1>10. \A q, h : Given(q, h) => Given(q, h)'
  BY <1>1 DEF Given
<1>11. AnswersGiven'
  BY <1>1, <1>3, <1>4, <1>9, <1>10 DEF AttemptInv, AnswersGiven, Answered
<1> QED
  BY <1>8, <1>11 DEF AttemptInv

LEMMA GiveUpAttempts ==
    ASSUME TypeOK, AttemptInv, NEW n \in Node, NEW r \in Req, NEW k \in Nat,
           GiveUpAllocation(n, r, k)
    PROVE  AttemptInv'
<1>1. /\ waiting' = waiting \ {<<n, r, k>>} /\ attempts \in [Req -> Nat]
      /\ UNCHANGED <<attempts, issued, msgs, answer>>
      /\ reqStatus \in [Req -> {"new", "asking", "local", "answered", "published", "failed"}]
      /\ reqStatus' = [reqStatus EXCEPT ![r] =
                           IF @ = "local" /\ k = attempts[r] THEN "failed" ELSE @]
  BY DEF GiveUpAllocation, TypeOK, RequestTypes
<1>2. /\ Carried(r, k)' = Carried(r, k) /\ Served(r, k)' = Served(r, k)
      /\ Held(r, k)' \subseteq Held(r, k)
  BY <1>1 DEF Carried, Served, Held
<1>3. Placed(r, k)'
  BY <1>1, <1>2 DEF AttemptInv, Placed
<1>4. \A q \in Req, j \in Nat : Placed(q, j)'
  <2>1. Moves(r, k)
    BY <1>1 DEF Moves
  <2> QED
    BY <2>1, <1>3, OneMoved
<1>5. AnswersGiven'
  BY <1>1, AnswersStay DEF AttemptInv
<1> QED
  BY <1>4, <1>5 DEF AttemptInv

\* A step of the proxy that only looks at its request's answer.
LEMMA ProxyAttempts ==
    ASSUME TypeOK, AttemptInv, NEW r \in Req,
           \/ ExhaustRequest(r) \/ PublishMETA(r)
           \/ \E m \in msgs : m.req = r /\ HandleGSNResponse(m)
    PROVE  AttemptInv'
<1>1. /\ UNCHANGED <<attempts, waiting, issued>>
      /\ \A m \in msgs' : m \in msgs \/ m.type = "Meta"
      /\ msgs \subseteq msgs'
  BY DEF ExhaustRequest, PublishMETA, HandleGSNResponse, Send, Exchange
<1>2. \A q \in Req, j \in Nat : Placed(q, j)'
  <2> TAKE q \in Req, j \in Nat
  <2>1. /\ Carried(q, j)' = Carried(q, j) /\ Served(q, j)' = Served(q, j)
        /\ Held(q, j)' = Held(q, j)
    BY <1>1 DEF Carried, Held, Served
  <2> QED
    BY <1>1, <2>1 DEF AttemptInv, Placed
<1>3. /\ reqStatus \in [Req -> {"new", "asking", "local", "answered", "published", "failed"}]
      /\ answer \in [Req -> Gsn]
  BY DEF TypeOK, RequestTypes
<1>4. CASE ExhaustRequest(r) \/ PublishMETA(r)
  <2>1. \A q \in Req : reqStatus'[q] \in {"answered", "published"} =>
               reqStatus[q] \in {"answered", "published"} /\ answer'[q] = answer[q]
    BY <1>3, <1>4 DEF ExhaustRequest, PublishMETA
  <2>2. AnswersGiven'
    BY <1>1, <2>1, AnswersStay DEF AttemptInv
  <2> QED
    BY <1>2, <2>2 DEF AttemptInv
<1>5. ASSUME NEW m \in msgs, m.req = r, HandleGSNResponse(m) PROVE AttemptInv'
  <2>1. Given(r, m.gsn) /\ Answered(r, m.gsn) /\ UNCHANGED msgs
    BY <1>5 DEF HandleGSNResponse, AttemptInv, AnswersGiven
  <2>2. \A q, h : Given(q, h) => Given(q, h)'
    BY <1>1 DEF Given
  <2>3. AnswersGiven'
    BY <1>1, <1>3, <2>1, <2>2 DEF AttemptInv, AnswersGiven, Answered
  <2> QED
    BY <1>2, <2>3 DEF AttemptInv
<1> QED
  BY <1>4, <1>5

LEMMA AttemptsKept ==
    ASSUME TypeOK, AttemptInv, [Next]_vars
    PROVE  AttemptInv'
<1>1. ASSUME NEW n \in Node, Election(n) \/ Reservation(n) \/ Meta(n) PROVE AttemptInv'
  BY <1>1, ElectionUnasked, OthersUnasked, Unasked
<1>2. ASSUME NEW n \in Node, Allocation(n) PROVE AttemptInv'
  <2>1. ASSUME NEW r \in Req, NEW k \in Nat, RetryReservation(n, r, k) PROVE AttemptInv'
    <3>1. UNCHANGED reqVars /\ \E g : SetGSN(n, g, tasks, {}, {})
      BY <2>1 DEF RetryReservation
    <3>2. UNCHANGED Dialogue
      BY <3>1, SetGSNDialogue DEF Dialogue
    <3> QED
      BY <3>1, <3>2, Unasked
  <2>2. 1 .. MaxAttempts \subseteq Nat
    BY ParamAssumption
  <2> QED
    BY <1>2, <2>1, <2>2, HandleAttempts, AllocateAttempts, GiveUpAttempts DEF Allocation
<1>3. ASSUME NEW r \in Req, Request(r) PROVE AttemptInv'
  BY <1>3, SendAttempts, ProxyAttempts DEF Request
<1>4. CASE UNCHANGED vars
  BY <1>4, Unasked DEF vars, Dialogue
<1> QED
  BY <1>1, <1>2, <1>3, <1>4 DEF Next

\* What the oracle sees of a state.
Handed == {[req |-> i.req, attempt |-> i.attempt, gsn |-> i.gsn] : i \in issued}
Published == {[req |-> r, gsn |-> answer[r]] : r \in {q \in Req : reqStatus[q] = "published"}}

\* A step that hands out nothing and publishes nothing.
LEMMA OracleStutters ==
    ASSUME TypeOK, UNCHANGED issued,
           \A r \in Req : reqStatus'[r] = "published" <=> reqStatus[r] = "published",
           \A r \in Req : reqStatus[r] = "published" => answer'[r] = answer[r]
    PROVE  UNCHANGED <<Handed, Published>>
<1>1. Handed' = Handed
  BY DEF Handed
<1>2. Published' = Published
  BY DEF Published
<1> QED
  BY <1>1, <1>2

\* Allocate is the oracle's Grant.
LEMMA AllocateGrants ==
    ASSUME TypeOK, AttemptInv, NumberedOnce', NEW n \in Node, NEW r \in Req, NEW k \in Nat,
           Allocate(n, r, k)
    PROVE  Oracle!Next
<1>0. PICK g, item : /\ g = gsn[n].next
                     /\ item = [gsn |-> g, by |-> n, req |-> r, attempt |-> k]
  OBVIOUS
<1>1. /\ <<n, r, k>> \in waiting /\ issued' = issued \cup {item}
      /\ \/ reqStatus[r] \notin {"published"} /\ Answered(r, g)
         \/ UNCHANGED <<reqStatus, answer>>
      /\ reqStatus \in [Req -> {"new", "asking", "local", "answered", "published", "failed"}]
      /\ answer \in [Req -> Gsn]
      /\ issued \subseteq [gsn : Gsn, by : Node, req : Req, attempt : Nat]
  BY <1>0 DEF Allocate, Listens, TypeOK, RequestTypes
<1>2. Held(r, k) # {} /\ Placed(r, k)
  BY <1>1 DEF AttemptInv, Held
<1>3. ASSUME NEW i \in issued PROVE ~(i.req = r /\ i.attempt = k)
  BY <1>2, <1>3 DEF Placed, Served
<1>4. ASSUME NEW i \in issued PROVE i.gsn # g
  <2>1. i # item /\ item.gsn = g
    BY <1>0, <1>3
  <2> QED
    BY <1>1, <2>1 DEF NumberedOnce
<1> DEFINE grant == [req |-> r, attempt |-> k, gsn |-> g]
<1>5. Handed' = Handed \cup {grant}
  BY <1>0, <1>1 DEF Handed
<1>6. \A i \in Handed : i.gsn # g /\ ~(i.req = r /\ i.attempt = k)
  BY <1>3, <1>4 DEF Handed
<1>7. Published' = Published
  BY <1>1 DEF Published, Answered
<1>8. grant \in Handed' \ Handed
  BY <1>5, <1>6
<1>9. Oracle!Grant(r, k, g)
  BY <1>5, <1>6, <1>7 DEF Oracle!Grant, Handed, Published
<1> QED
  BY <1>8, <1>9 DEF Oracle!Next, Handed, Published

\* PublishMETA is the oracle's Publish.
LEMMA MetaPublishes ==
    ASSUME TypeOK, AttemptInv, NEW r \in Req, PublishMETA(r)
    PROVE  Oracle!Next
<1>1. /\ reqStatus[r] = "answered" /\ reqStatus' = [reqStatus EXCEPT ![r] = "published"]
      /\ UNCHANGED <<answer, issued>>
      /\ reqStatus \in [Req -> {"new", "asking", "local", "answered", "published", "failed"}]
  BY DEF PublishMETA, TypeOK, RequestTypes
<1>2. PICK i \in issued : i.req = r /\ i.gsn = answer[r]
  BY <1>1 DEF AttemptInv, AnswersGiven, Given
<1> DEFINE grant == [req |-> i.req, attempt |-> i.attempt, gsn |-> i.gsn]
<1>3. grant \in Handed /\ grant.req = r /\ grant.gsn = answer[r]
  BY <1>2 DEF Handed
<1>4. Handed' = Handed
  BY <1>1 DEF Handed
<1>5. Published' = Published \cup {[req |-> r, gsn |-> answer[r]]}
  BY <1>1 DEF Published
<1>6. \A p \in Published : p.req # r
  BY <1>1 DEF Published
<1> HIDE DEF grant
<1>7. Oracle!Publish(grant)
  BY <1>3, <1>4, <1>5, <1>6 DEF Oracle!Publish, Handed, Published
<1> QED
  BY <1>3, <1>7 DEF Oracle!Next, Handed, Published

LEMMA OracleStep ==
    ASSUME TypeOK, AttemptInv, NumberedOnce', [Next]_vars
    PROVE  [Oracle!Next]_<<Handed, Published>>
<1>0. reqStatus \in [Req -> {"new", "asking", "local", "answered", "published", "failed"}]
  BY DEF TypeOK, RequestTypes
<1>1. CASE UNCHANGED reqVars
  BY <1>1, OracleStutters DEF reqVars
<1>2. ASSUME NEW n \in Node, Allocation(n) PROVE [Oracle!Next]_<<Handed, Published>>
  <2>1. 1 .. MaxAttempts \subseteq Nat
    BY ParamAssumption
  <2>2. ASSUME NEW m \in msgs, HandleGSNRequest(n, m) PROVE UNCHANGED <<Handed, Published>>
    BY <2>2, OracleStutters DEF HandleGSNRequest
  <2>3. ASSUME NEW r \in Req, NEW k \in Nat, RetryReservation(n, r, k)
        PROVE  UNCHANGED <<Handed, Published>>
    BY <2>3, OracleStutters DEF RetryReservation, reqVars
  <2>4. ASSUME NEW r \in Req, NEW k \in Nat, GiveUpAllocation(n, r, k)
        PROVE  UNCHANGED <<Handed, Published>>
    <3>1. /\ UNCHANGED <<issued, answer>>
          /\ reqStatus' = [reqStatus EXCEPT ![r] =
                               IF @ = "local" /\ k = attempts[r] THEN "failed" ELSE @]
      BY <2>4 DEF GiveUpAllocation
    <3> QED
      BY <1>0, <3>1, OracleStutters
  <2> QED
    BY <1>2, <2>1, <2>2, <2>3, <2>4, AllocateGrants DEF Allocation
<1>3. ASSUME NEW r \in Req, Request(r) PROVE [Oracle!Next]_<<Handed, Published>>
  <2>1. ASSUME SendGSNRequest(r) PROVE UNCHANGED <<Handed, Published>>
    <3>1. /\ UNCHANGED <<issued, answer>> /\ reqStatus[r] \in {"new", "asking"}
          /\ \E s \in {"local", "asking"} : reqStatus' = [reqStatus EXCEPT ![r] = s]
      BY <2>1 DEF SendGSNRequest
    <3> QED
      BY <1>0, <3>1, OracleStutters
  <2>2. ASSUME ExhaustRequest(r) PROVE UNCHANGED <<Handed, Published>>
    BY <1>0, <2>2, OracleStutters DEF ExhaustRequest
  <2>3. ASSUME NEW m \in msgs, m.req = r, HandleGSNResponse(m)
        PROVE  UNCHANGED <<Handed, Published>>
    <3>1. /\ UNCHANGED issued /\ reqStatus[r] = "asking"
          /\ reqStatus' = [reqStatus EXCEPT ![r] = "answered"]
          /\ answer \in [Req -> Gsn] /\ answer' = [answer EXCEPT ![r] = m.gsn]
      BY <2>3 DEF HandleGSNResponse, Answered, TypeOK, RequestTypes
    <3> QED
      BY <1>0, <3>1, OracleStutters
  <2> QED
    BY <1>3, <2>1, <2>2, <2>3, MetaPublishes DEF Request
<1>4. ASSUME NEW n \in Node, Election(n) \/ Reservation(n) \/ Meta(n) PROVE UNCHANGED reqVars
  BY <1>4, ElectionUnasked, OthersUnasked
<1>5. CASE UNCHANGED vars
  BY <1>1, <1>5 DEF vars
<1> QED
  BY <1>1, <1>2, <1>3, <1>4, <1>5 DEF Next

\* As long as no number is given twice, the sequencer is one source of them.
LEMMA OneSource == Spec /\ []NumberedOnce => ImplementsOracle
<1>1. Init => Oracle!Init
  BY DEF Init, Oracle!Init
<1>2. Spec => []AttemptInv
  BY InitAttempts, AttemptsKept, TypeCorrect, PTL DEF Spec
<1>3. TypeOK /\ AttemptInv /\ NumberedOnce' /\ [Next]_vars => [Oracle!Next]_<<Handed, Published>>
  BY OracleStep
<1> QED
  BY <1>1, <1>2, <1>3, TypeCorrect, PTL DEF Spec, ImplementsOracle, Oracle!Spec, Handed, Published

-----------------------------------------------------------------------------
(* Without elections *)

Ballots == {"PreVoteRequest", "PreVoteResponse", "VoteRequest", "VoteResponse"}

\* Nobody has stood for election: only the bootstrap leader has numbers.
Settled ==
    /\ \A t \in tasks : t.kind \notin {"elect", "resume"}
    /\ \A m \in msgs : m.type \notin Ballots
    /\ \A n \in Node \ {Bootstrap} :
          status[n] # "leader" /\ gsn[n].confirmed = 0 /\ gsn[n].pending = 0
    /\ \A i \in issued : i.gsn < gsn[Bootstrap].next
    /\ NumberedOnce

LEMMA InitSettled == Init => Settled
<1> SUFFICES ASSUME Init PROVE Settled
  OBVIOUS
<1>1. /\ tasks = {} /\ issued = {}
      /\ status = [n \in Node |-> IF n = Bootstrap THEN "leader" ELSE "follower"]
  BY DEF Init
<1>2. PICK first, none :
         /\ gsn = [n \in Node |-> IF n = Bootstrap THEN first ELSE none]
         /\ none = [next |-> 1, confirmed |-> 0, pending |-> 0, term |-> 0, acks |-> {}]
         /\ msgs = ReserveMsg(Bootstrap, first)
  BY DEF Init
<1>3. \A m \in msgs : m.type \notin Ballots
  BY <1>2 DEF ReserveMsg, Ballots
<1> QED
  BY <1>1, <1>2, <1>3 DEF Settled, NumberedOnce

\* A step that numbers nothing: no ballot, no new leader, no reservation but the
\* bootstrap leader's.
LEMMA StaysSettled ==
    ASSUME Settled,
           \A t \in tasks' : t \in tasks \/ t.kind \notin {"elect", "resume"},
           \A m \in msgs' : m \in msgs \/ m.type \notin Ballots,
           \A n \in Node \ {Bootstrap} :
              (status'[n] = status[n] \/ status'[n] # "leader") /\ gsn'[n] = gsn[n],
           gsn[Bootstrap].next \in Nat, gsn'[Bootstrap].next \in Nat,
           gsn[Bootstrap].next <= gsn'[Bootstrap].next,
           issued \subseteq [gsn : Gsn, by : Node, req : Req, attempt : Nat],
           UNCHANGED issued
    PROVE  Settled'
<1>1. \A i \in issued : i.gsn \in Nat
  BY GsnNat
<1>2. NumberedOnce'
  BY DEF Settled, NumberedOnce
<1> QED
  BY <1>1, <1>2 DEF Settled

LEMMA ElectionSettled ==
    ASSUME TypeOK, Settled, Candidate = {}, NEW n \in Node, Election(n)
    PROVE  Settled'
<1>0. /\ issued \subseteq [gsn : Gsn, by : Node, req : Req, attempt : Nat]
      /\ gsn[Bootstrap].next \in Nat
      /\ status \in [Node -> Status]
  BY NodeAssumption, CounterFields DEF TypeOK, GsnTypes, RequestTypes, ElectionTypes
<1>1. ~OnElectionTimeout(n)
  BY DEF OnElectionTimeout
<1>2. ~ElectSuspended(n)
  BY DEF ElectSuspended, Settled
<1>3. ASSUME Heartbeat(n) PROVE Settled'
  BY <1>0, <1>3, StaysSettled
     DEF Heartbeat, Send, Exchange, Ballots, electVars, gsnVars, reqVars
<1>4. ASSUME NEW t \in tasks PROVE ~ResumeSuspended(t)
  BY <1>4 DEF ResumeSuspended, Settled
<1>5. ASSUME NEW m \in msgs
      PROVE  ~ \/ HandlePreVoteRequest(n, m) \/ HandlePreVoteResponse(n, m)
               \/ HandleVoteRequest(n, m) \/ VoteResponseStepDown(n, m)
               \/ HandleVote(n, m) \/ WinElection(n, m)
  BY <1>5 DEF HandlePreVoteRequest, HandlePreVoteResponse, PreVoteGranted, HandleVoteRequest,
              VoteResponseStepDown, HandleVote, WinElection, CountVote, Settled, Ballots
<1>6. ASSUME NEW m \in msgs, HandleHeartbeat(n, m) PROVE Settled'
  <2>1. \A o \in Node : status'[o] = status[o] \/ status'[o] # "leader"
    BY <1>0, <1>6 DEF HandleHeartbeat, electVars
  <2> QED
    BY <1>0, <1>6, <2>1, StaysSettled DEF HandleHeartbeat, gsnVars, reqVars
<1> QED
  BY <1>1, <1>2, <1>3, <1>4, <1>5, <1>6 DEF Election

LEMMA OthersSettled ==
    ASSUME TypeOK, Settled, NEW n \in Node, Reservation(n) \/ Meta(n)
    PROVE  Settled'
<1>0. /\ issued \subseteq [gsn : Gsn, by : Node, req : Req, attempt : Nat]
      /\ gsn[Bootstrap].next \in Nat /\ gsn \in [Node -> Counter]
  BY NodeAssumption, CounterFields DEF TypeOK, GsnTypes, RequestTypes
<1>1. ASSUME NEW m \in msgs, HandleReserve(n, m) PROVE Settled'
  BY <1>0, <1>1, StaysSettled
     DEF HandleReserve, AcceptMark, ReserveAck, Send, Exchange, Ballots, electVars, reqVars
<1>2. ASSUME NEW m \in msgs, HandleReserveAck(n, m) PROVE Settled'
  <2>1. PICK g, h : /\ g = [gsn[n] EXCEPT !.acks = @ \cup {m.from}]
                    /\ h \in {g, ConfirmReservation(g)}
                    /\ gsn' = [gsn EXCEPT ![n] = h]
    BY <1>2 DEF HandleReserveAck
  <2>2. /\ h.next = gsn[n].next
        /\ gsn[n].pending = 0 /\ gsn[n].confirmed = 0 => h.pending = 0 /\ h.confirmed = 0
    <3>1. gsn[n] \in Counter
      BY <1>0
    <3>2. /\ g.next = gsn[n].next /\ g.confirmed = gsn[n].confirmed
          /\ g.pending = gsn[n].pending /\ h \in {g, ConfirmReservation(g)}
          /\ DOMAIN g = DOMAIN gsn[n]
      BY <2>1, <3>1 DEF Counter
    <3> QED
      BY <2>1, <3>1, <3>2 DEF Counter, ConfirmReservation
  <2>3. /\ \A o \in Node \ {Bootstrap} : gsn'[o].confirmed = 0 /\ gsn'[o].pending = 0
        /\ gsn'[Bootstrap].next = gsn[Bootstrap].next
    BY <1>0, <2>1, <2>2, NodeAssumption DEF Settled
  <2> QED
    BY <1>2, <2>3 DEF HandleReserveAck, Settled, NumberedOnce, electVars, reqVars
<1>3. ASSUME NEW t \in tasks, AcceptSuspended(t) PROVE Settled'
  BY <1>0, <1>3, StaysSettled
     DEF AcceptSuspended, AcceptMark, ReserveAck, Send, Exchange, Ballots, electVars, reqVars
<1>4. ASSUME NEW m \in msgs, HandleMETAStream(n, m) \/ HandleMETASkip(n, m) PROVE Settled'
  BY <1>0, <1>4, StaysSettled
     DEF HandleMETAStream, HandleMETASkip, electVars, gsnVars, reqVars
<1>5. ASSUME NEW t \in tasks, SkipMissing(t) PROVE Settled'
  <2>1. /\ UNCHANGED <<electVars, gsnVars, reqVars>> /\ tasks' \subseteq tasks
        /\ \E still : Send(SkipMsg(still))
    BY <1>5 DEF SkipMissing
  <2>2. \A m \in msgs' : m \in msgs \/ m.type \notin Ballots
    BY <2>1 DEF Send, Exchange, SkipMsg, Ballots
  <2> QED
    BY <1>0, <2>1, <2>2, StaysSettled DEF electVars, gsnVars, reqVars
<1> QED
  BY <1>1, <1>2, <1>3, <1>4, <1>5 DEF Reservation, Meta

\* An allocation is begun, or woken: at most a reservation is asked for, and only
\* by the bootstrap leader.
LEMMA AskSettled ==
    ASSUME TypeOK, Settled, NEW n \in Node, NEW received, NEW todo,
           NEW h, h \in {gsn[n], Reserve(n, Leads(n), term[n], gsn[n])},
           SetGSN(n, h, todo, received, {}),
           UNCHANGED <<electVars, tasks, issued>>
    PROVE  Settled'
<1>1. /\ gsn[n] \in Counter /\ gsn[n].next \in Nat
      /\ issued \subseteq [gsn : Gsn, by : Node, req : Req, attempt : Nat]
  BY CounterFields DEF TypeOK, GsnTypes, RequestTypes
<1>2. /\ \A o \in Node \ {Bootstrap} : gsn'[o] = gsn[o]
      /\ gsn[Bootstrap].next \in Nat /\ gsn'[Bootstrap].next \in Nat
      /\ gsn[Bootstrap].next <= gsn'[Bootstrap].next
      /\ \A m \in msgs' : m \in msgs \/ m.type \notin Ballots
  <2>1. gsn \in [Node -> Counter] /\ gsn' = [gsn EXCEPT ![n] = h] /\ Bootstrap \in Node
    BY NodeAssumption DEF SetGSN, TypeOK, GsnTypes
  <2>2. n # Bootstrap => ~Leads(n)
    BY DEF Settled, Leads
  <2>3. h.next = gsn[n].next /\ (n # Bootstrap => h = gsn[n])
    BY <1>1, <2>2 DEF Reserve, Counter
  <2>4. gsn[Bootstrap].next \in Nat
    BY <2>1 DEF Counter
  <2>5. \A m \in msgs' : m \in msgs \/ m.type \notin Ballots
    BY DEF SetGSN, Exchange, ReserveMsg, Ballots
  <2> QED
    BY <2>1, <2>3, <2>4, <2>5
<1> QED
  BY <1>1, <1>2, StaysSettled DEF electVars

LEMMA AllocateSettled ==
    ASSUME TypeOK, Settled, NEW n \in Node, NEW r \in Req, NEW k \in Nat, Allocate(n, r, k)
    PROVE  Settled'
<1>1. /\ gsn[n] \in Counter /\ gsn[n].next \in Nat /\ gsn[n].next > 0
      /\ issued \subseteq [gsn : Gsn, by : Node, req : Req, attempt : Nat]
  BY CounterFields DEF TypeOK, GsnTypes, RequestTypes, Counter
<1>2. n = Bootstrap
  BY <1>1 DEF Allocate, Settled
<1>3. PICK g, u, sent, item :
         /\ g = gsn[n].next /\ u = [gsn[n] EXCEPT !.next = g + 1]
         /\ sent = IF Proxy[r] = n THEN {} ELSE {[type |-> "GSNResponse", req |-> r, gsn |-> g]}
         /\ item = [gsn |-> g, by |-> n, req |-> r, attempt |-> k]
  OBVIOUS
<1>4. /\ g <= gsn[n].confirmed /\ issued' = issued \cup {item} /\ item.gsn = g
      /\ UNCHANGED <<electVars, tasks>>
      /\ \E h \in {u, Reserve(n, Leads(n), term[n], u)} : SetGSN(n, h, tasks, {}, sent)
  BY <1>3 DEF Allocate
<1>5. PICK h \in {u, Reserve(n, Leads(n), term[n], u)} : SetGSN(n, h, tasks, {}, sent)
  BY <1>4
<1>6. u.next = g + 1 /\ u \in Counter
  BY <1>1, <1>3, <1>4, ParamAssumption DEF Counter, Gsn
<1>7. \A m \in sent : m.type \notin Ballots
  BY <1>3 DEF Ballots
<1>8. /\ \A o \in Node \ {Bootstrap} : gsn'[o] = gsn[o]
      /\ gsn'[n].next = g + 1
      /\ \A m \in msgs' : m \in msgs \/ m \in sent \/ m.type \notin Ballots
  <2>1. gsn \in [Node -> Counter] /\ gsn' = [gsn EXCEPT ![n] = h]
    BY <1>5 DEF SetGSN, TypeOK, GsnTypes
  <2>2. h.next = u.next
    BY <1>5, <1>6 DEF Reserve, Counter
  <2>3. \A m \in msgs' : m \in msgs \/ m \in sent \/ m.type \notin Ballots
    BY <1>5 DEF SetGSN, Exchange, ReserveMsg, Ballots
  <2> QED
    BY <1>2, <1>6, <2>1, <2>2, <2>3
<1>9. \A i \in issued : i.gsn \in Nat /\ i.gsn < g
  BY <1>1, <1>2, <1>3, GsnNat DEF Settled
<1>10. NumberedOnce'
  BY <1>1, <1>3, <1>4, <1>9 DEF Settled, NumberedOnce
<1>11. \A i \in issued' : i.gsn < gsn'[Bootstrap].next
  BY <1>1, <1>2, <1>3, <1>4, <1>8, <1>9
<1> QED
  BY <1>4, <1>7, <1>8, <1>10, <1>11 DEF Settled, electVars

LEMMA SettledKept ==
    ASSUME TypeOK, Settled, Candidate = {}, [Next]_vars
    PROVE  Settled'
<1>0. /\ issued \subseteq [gsn : Gsn, by : Node, req : Req, attempt : Nat]
      /\ gsn[Bootstrap].next \in Nat
  BY NodeAssumption, CounterFields DEF TypeOK, GsnTypes, RequestTypes
<1>1. ASSUME NEW p \in Node, NEW r, NEW k, NEW received, StartAllocation(p, r, k, received),
             UNCHANGED <<electVars, tasks, issued>>
      PROVE  Settled'
  BY <1>1, AskSettled DEF StartAllocation
<1>2. ASSUME NEW n \in Node, Allocation(n) PROVE Settled'
  <2>1. 1 .. MaxAttempts \subseteq Nat
    BY ParamAssumption
  <2>2. ASSUME NEW m \in msgs, HandleGSNRequest(n, m) PROVE Settled'
    <3>1. UNCHANGED <<electVars, tasks, issued>> /\ m.type = "GSNRequest"
      BY <2>2 DEF HandleGSNRequest
    <3>2. CASE Exchange({m}, {[m EXCEPT !.to = leader[n]]}) /\ UNCHANGED gsnVars
      <4>1. PICK forward : /\ forward = [m EXCEPT !.to = leader[n]]
                           /\ msgs' = (msgs \ {m}) \cup {forward}
        BY <3>2 DEF Exchange
      <4>2. forward.type = "GSNRequest"
        BY <3>1, <4>1 DEF TypeOK, Message
      <4>3. \A x \in msgs' : x \in msgs \/ x.type \notin Ballots
        BY <4>1, <4>2 DEF Ballots
      <4> QED
        BY <1>0, <3>1, <3>2, <4>3, StaysSettled DEF electVars, gsnVars
    <3> QED
      BY <1>1, <2>2, <3>1, <3>2 DEF HandleGSNRequest
  <2>3. ASSUME NEW r \in Req, NEW k \in Nat, RetryReservation(n, r, k) PROVE Settled'
    BY <2>3, AskSettled DEF RetryReservation, reqVars
  <2>4. ASSUME NEW r \in Req, NEW k \in Nat, GiveUpAllocation(n, r, k) PROVE Settled'
    BY <1>0, <2>4, StaysSettled DEF GiveUpAllocation, electVars, gsnVars
  <2> QED
    BY <1>2, <2>1, <2>2, <2>3, <2>4, AllocateSettled DEF Allocation
<1>3. ASSUME NEW r \in Req, Request(r) PROVE Settled'
  <2>1. ASSUME SendGSNRequest(r) PROVE Settled'
    <3>1. UNCHANGED <<electVars, tasks, issued>> /\ Proxy[r] \in Node
      BY <2>1, ParamAssumption DEF SendGSNRequest
    <3>2. ASSUME NEW m, m.type = "GSNRequest", Send({m}), UNCHANGED gsnVars PROVE Settled'
      <4>1. \A x \in msgs' : x \in msgs \/ x.type \notin Ballots
        BY <3>2 DEF Send, Exchange, Ballots
      <4> QED
        BY <1>0, <3>1, <3>2, <4>1, StaysSettled DEF electVars, gsnVars
    <3>3. CASE StartAllocation(Proxy[r], r, attempts[r] + 1, {})
      BY <1>1, <3>1, <3>3
    <3>4. CASE ~StartAllocation(Proxy[r], r, attempts[r] + 1, {})
      BY <2>1, <3>2, <3>4 DEF SendGSNRequest
    <3> QED
      BY <3>3, <3>4
  <2>2. ASSUME \/ ExhaustRequest(r) \/ PublishMETA(r)
               \/ \E m \in msgs : HandleGSNResponse(m)
        PROVE  Settled'
    <3>1. /\ UNCHANGED <<electVars, gsnVars, tasks, issued>>
          /\ \A m \in msgs' : m \in msgs \/ m.type = "Meta"
      BY <2>2 DEF ExhaustRequest, PublishMETA, HandleGSNResponse, Send, Exchange
    <3> QED
      BY <1>0, <3>1, StaysSettled DEF electVars, gsnVars, Ballots
  <2> QED
    BY <1>3, <2>1, <2>2 DEF Request
<1>4. CASE UNCHANGED vars
  BY <1>0, <1>4, StaysSettled DEF vars, electVars, gsnVars, reqVars
<1> QED
  BY <1>2, <1>3, <1>4, ElectionSettled, OthersSettled DEF Next

\* In a behaviour that runs neither of the two races, with any number of elections,
\* the leaders and the proxies together are one source of numbers: no number and no
\* attempt is served twice, through retries, forwarding and late answers, and an
\* operation is published once, under a number that was given to it (GetNextGSN,
\* HandleGSNRequest, allocateGSN, PublishMETA).
THEOREM Implements == Spec /\ []~raced => ImplementsOracle
<1>1. UniqueGSN /\ ~raced => NumberedOnce
  BY DEF UniqueGSN
<1> QED
  BY <1>1, NoNumberTwice, OneSource, PTL

\* Where no election timer runs out, they are in every behaviour.
THEOREM ImplementsUnelected ==
    ASSUME Candidate = {}
    PROVE  Spec => ImplementsOracle
<1>1. Init => Settled
  BY InitSettled
<1>2. TypeOK /\ Settled /\ [Next]_vars => Settled'
  BY SettledKept
<1>3. Settled => NumberedOnce
  BY DEF Settled
<1>4. Spec => []NumberedOnce
  BY <1>1, <1>2, <1>3, TypeCorrect, PTL DEF Spec
<1> QED
  BY <1>4, OneSource, PTL

=============================================================================
