--------------------------- MODULE HotStuffProofs ---------------------------
(* Theorems about HotStuffInstance, for any number of nodes, any length of   *)
(* the segment and any bounds: only safety is proved.                        *)
EXTENDS HotStuffInstance, FiniteSetTheorems, TLAPS

-----------------------------------------------------------------------------
(* The inductive invariant *)

Link == [batch : Batch, view : 0 .. MaxView]
ProposalType == [type : {"proposal"}, to : Node, height : Height]
VoteType == [type : {"vote"}, from : Node, to : {Lead}, height : Height]

\* TypeOK, with the functions and the sequence that it only bounds.
Types ==
    /\ calm \in BOOLEAN
    /\ view \in [Node -> 0 .. MaxView]
    /\ chain \in Seq(Link) /\ Len(chain) \in Height
    /\ votes \subseteq Node
    /\ vheight \in [Node -> 0 .. Last + 3]
    /\ timer \in [Node -> [SN -> -1 .. MaxView]]
    /\ announced \in [Node -> SUBSET SN]
    /\ DOMAIN backlog = Node /\ backlog = [n \in Node |-> backlog[n]]
    /\ log \in [Node -> [SN -> Batch \cup {None}]]
    /\ killed \cup down \subseteq Node
    /\ msgs \subseteq ProposalType \cup VoteType

\* The leader votes for what it proposes, and nobody for more.
Heights ==
    /\ vheight[Lead] = Len(chain)
    /\ \A n \in Node : vheight[n] <= Len(chain)

\* What is under way, or put back, was proposed.
Proposed ==
    /\ \A m \in msgs : m.type = "proposal" => m.height <= Len(chain)
    /\ \A n \in Node : \A k \in DOMAIN backlog[n] :
           backlog[n][k] \subseteq {h \in Height : h = k /\ h <= Len(chain)}

Voters(h) == {n \in Node : vheight[n] >= h}

\* A vote, under way or counted, is one for the leader's leaf by a node that gave it.
VotesGiven ==
    /\ \A m \in msgs : m.type = "vote" => m.height = Len(chain) /\ m.from \in Voters(Len(chain))
    /\ votes \subseteq Voters(Len(chain))

\* Every height below the leaf has its quorum.
Certified == \A h \in Height : h < Len(chain) => Cardinality(Voters(h)) >= 2 * Faults + 1

\* An entry of a log is the batch of its SN, and that height has three above it.
Decided ==
    \A n \in Node, s \in SN :
        log[n][s] # None => s + 3 <= Len(chain) /\ log[n][s] = chain[s].batch

IInv == Types /\ Heights /\ Proposed /\ VotesGiven /\ Certified /\ Decided /\ NoneSkipped


-----------------------------------------------------------------------------
(* Helpers *)

LEMMA Parameters ==
    /\ IsFiniteSet(Node) /\ Lead \in Node /\ Faults \in Nat
    /\ Last \in Nat /\ Last > 0
<1>1. Cardinality(Node) \in Nat /\ Cardinality(Node) # 0
  BY SegmentAssumption, FS_CardinalityType, FS_EmptySet
<1>2. Last \in Nat /\ Last > 0
  BY SegmentAssumption DEF Last
<1> QED
  BY <1>1, <1>2, SegmentAssumption DEF Faults

\* What the type of a message says of its fields.
LEMMA MessageType ==
    ASSUME Types, NEW m \in msgs
    PROVE  /\ m.height \in Height
           /\ m.type = "proposal" => m \in ProposalType /\ m.to \in Node
           /\ m.type = "vote" => m \in VoteType /\ m.from \in Node /\ m.to = Lead
BY DEF Types, ProposalType, VoteType

\* A height that has its quorum keeps it when nobody takes a vote back.
LEMMA VotersGrow ==
    ASSUME \A n \in Node : vheight[n] \in Nat /\ vheight'[n] \in Nat /\ vheight'[n] >= vheight[n],
           NEW h \in Height, Cardinality(Voters(h)) >= 2 * Faults + 1
    PROVE  Cardinality(Voters(h)') >= 2 * Faults + 1
<1>1. Voters(h) \subseteq Voters(h)'
  BY Parameters DEF Voters, Height
<1>2. IsFiniteSet(Voters(h)')
  BY Parameters, FS_Subset DEF Voters
<1>3. Cardinality(Voters(h)) <= Cardinality(Voters(h)')
  BY <1>1, <1>2, FS_Subset
<1>4. Cardinality(Voters(h)) \in Nat /\ Cardinality(Voters(h)') \in Nat
  BY <1>1, <1>2, FS_Subset, FS_CardinalityType
<1> QED
  BY <1>3, <1>4, Parameters

LEMMA SnAtIdentity ==
    ASSUME NEW h \in 1 .. Last
    PROVE  SnAt(h) = h
BY Parameters DEF SnAt

\* A node that takes in the height after its own: nothing is skipped, and what enters
\* the log is the batch of its SN, three below.
LEMMA Adopted ==
    ASSUME Types, Decided, NoneSkipped,
           NEW n \in Node, NEW h \in Height, h = vheight[n] + 1, Adopt(n, h),
           view' \in [Node -> 0 .. MaxView],
           chain' \in Seq(Link), Len(chain) <= Len(chain'), h <= Len(chain'), h <= Len(chain) + 1,
           \A k \in 1 .. Len(chain) : chain'[k] = chain[k]
    PROVE  /\ vheight' = [vheight EXCEPT ![n] = h] /\ vheight' \in [Node -> 0 .. Last + 3]
           /\ \A p \in Node : vheight'[p] >= vheight[p]
           /\ timer' \in [Node -> [SN -> -1 .. MaxView]]
           /\ announced' \in [Node -> SUBSET SN]
           /\ log' \in [Node -> [SN -> Batch \cup {None}]]
           /\ Decided' /\ NoneSkipped'
<1> DEFINE d == Decides(h)
<1>0. /\ Last \in Nat /\ Last > 0 /\ h \in 1 .. Last + 3 /\ SN = 1 .. Last
      /\ Len(chain) \in Nat /\ Len(chain') \in Nat /\ MaxView \in Nat
  BY Parameters, HotStuffBoundAssumption DEF Types, Height, SN
<1>1. d = h - 3 /\ d <= Last /\ (d > 0 => d \in SN /\ SnAt(d) = d /\ d \in 1 .. Len(chain))
  BY <1>0, SnAtIdentity DEF Decides
<1>2. d > 0 => chain[d].batch \in Batch
  <2>1. d > 0 => chain[d] \in Link
    BY <1>1 DEF Types
  <2> QED
    BY <2>1 DEF Link
<1>3. vheight \in [Node -> 0 .. Last + 3] /\ vheight' = [vheight EXCEPT ![n] = h]
  BY DEF Types, Adopt
<1>4. vheight' \in [Node -> 0 .. Last + 3] /\ \A p \in Node : vheight'[p] >= vheight[p]
  BY <1>0, <1>3
<1>5. timer' \in [Node -> [SN -> -1 .. MaxView]]
  <2>1. timer \in [Node -> [SN -> -1 .. MaxView]] /\ view'[n] \in -1 .. MaxView
    BY <1>0 DEF Types
  <2>2. timer' = IF h <= Last THEN [timer EXCEPT ![n][h] = view'[n]] ELSE timer
    BY DEF Adopt
  <2>3. h <= Last => h \in SN
    BY <1>0
  <2> QED
    BY <2>1, <2>2, <2>3
<1>6. \/ /\ d > 0 /\ d \notin announced[n]
         /\ announced' = [announced EXCEPT ![n] = @ \cup {d}]
         /\ log' = [log EXCEPT ![n][d] = IF @ = None THEN chain[d].batch ELSE @]
      \/ ~ (d > 0 /\ d \notin announced[n]) /\ announced' = announced /\ log' = log
  BY <1>1 DEF Adopt
<1> HIDE DEF d
<1>7. announced' \in [Node -> SUBSET SN] /\ log' \in [Node -> [SN -> Batch \cup {None}]]
  <2>1. announced \in [Node -> SUBSET SN] /\ log \in [Node -> [SN -> Batch \cup {None}]]
    BY DEF Types
  <2>2. announced' \in [Node -> SUBSET SN]
    BY <2>1, <1>1, <1>6
  <2>3. log' \in [Node -> [SN -> Batch \cup {None}]]
    <3>1. CASE d > 0 /\ d \notin announced[n]
      <4> DEFINE entry == IF log[n][d] = None THEN chain[d].batch ELSE log[n][d]
      <4>1. d \in SN /\ entry \in Batch \cup {None}
        BY <3>1, <2>1, <1>1, <1>2
      <4>2. log' = [log EXCEPT ![n][d] = entry]
        BY <3>1, <2>1, <1>6
      <4> HIDE DEF entry
      <4> QED
        BY <2>1, <4>1, <4>2
    <3> QED
      BY <2>1, <3>1, <1>6
  <2> QED
    BY <2>2, <2>3
<1>8. Decided'
  <2> SUFFICES ASSUME NEW p \in Node, NEW s \in SN, log'[p][s] # None
               PROVE  s + 3 <= Len(chain') /\ log'[p][s] = chain'[s].batch
    BY DEF Decided
  <2>1. CASE log'[p][s] = log[p][s]
    <3>1. s + 3 <= Len(chain) /\ log[p][s] = chain[s].batch
      BY <2>1 DEF Decided
    <3>2. s \in 1 .. Len(chain)
      BY <3>1, <1>0
    <3> QED
      BY <2>1, <3>1, <3>2, <1>0
  <2>2. CASE log'[p][s] # log[p][s]
    <3>0. log \in [Node -> [SN -> Batch \cup {None}]]
      BY DEF Types
    <3>1. d > 0 /\ p = n /\ s = d /\ log'[p][s] = chain[d].batch
      BY <2>2, <3>0, <1>1, <1>6
    <3> QED
      BY <3>1, <1>0, <1>1
  <2> QED
    BY <2>1, <2>2
<1>9. NoneSkipped'
  <2> SUFFICES ASSUME NEW p \in Node, NEW s \in SN, s <= vheight'[p] - 3
               PROVE  s \in announced'[p]
    BY DEF NoneSkipped
  <2>0. announced \in [Node -> SUBSET SN]
    BY DEF Types
  <2>1. announced[p] \subseteq announced'[p]
    BY <2>0, <1>6
  <2>2. CASE s <= vheight[p] - 3
    BY <2>1, <2>2 DEF NoneSkipped
  <2>3. CASE ~ (s <= vheight[p] - 3)
    <3>1. p = n
      BY <2>3, <1>3
    <3>2. s = d /\ d > 0
      BY <3>1, <2>3, <1>0, <1>1, <1>3
    <3> QED
      BY <2>0, <3>1, <3>2, <1>6
  <2> QED
    BY <2>2, <2>3
<1> QED
  BY <1>3, <1>4, <1>5, <1>7, <1>8, <1>9

LEMMA InitInv == Init => IInv
<1> SUFFICES ASSUME Init PROVE IInv
  OBVIOUS
<1>0. Lead \in Node /\ Last \in Nat /\ Last > 0 /\ MaxView \in Nat /\ 1 \in Height /\ 1 \in SN
  BY Parameters, HotStuffBoundAssumption DEF Height, SN
<1> DEFINE first == [batch |-> 1, view |-> 0]
<1>1. first \in Link
  BY <1>0 DEF Link, Batch
<1>2. chain = <<first>>
  BY DEF Init
<1> HIDE DEF first
<1>3. chain \in Seq(Link) /\ Len(chain) = 1
  BY <1>1, <1>2
<1>4. \A m \in msgs : \/ m \in ProposalType /\ m.type = "proposal" /\ m.height = 1
                      \/ m \in VoteType /\ m.type = "vote" /\ m.height = 1 /\ m.from = Lead
  BY <1>0 DEF Init, Proposal, Vote, ProposalType, VoteType
<1>5. Types
  BY <1>0, <1>3, <1>4 DEF Init, Types
<1>6. Heights /\ Decided /\ NoneSkipped
  BY <1>0, <1>3 DEF Init, Heights, Decided, NoneSkipped, SN
<1>7. Proposed
  BY <1>3, <1>4 DEF Init, Proposed
<1>8. VotesGiven
  <2>1. Lead \in Voters(1) /\ votes = {}
    BY <1>0 DEF Init, Voters
  <2> QED
    BY <1>3, <1>4, <2>1 DEF VotesGiven
<1>9. Certified
  BY <1>0, <1>3 DEF Certified, Height
<1> QED
  BY <1>5, <1>6, <1>7, <1>8, <1>9 DEF IInv


-----------------------------------------------------------------------------
(* Every step preserves it *)

\* A step that only forgets messages, or goes to another view.
LEMMA QuietStep ==
    ASSUME IInv, UNCHANGED <<chain, votes, vheight, timer, announced, backlog, log>>,
           calm' \in BOOLEAN,
           view' \in [Node -> 0 .. MaxView], killed' \cup down' \subseteq Node, msgs' \subseteq msgs
    PROVE  IInv'
<1>1. UNCHANGED <<chain, votes, vheight, timer, announced, backlog, log>>
  OBVIOUS
<1>2. Types'
  BY <1>1 DEF IInv, Types
<1>3. \A h \in Height : Voters(h)' = Voters(h)
  BY <1>1 DEF Voters
<1>4. Voters(Len(chain))' = Voters(Len(chain)) /\ Len(chain)' = Len(chain)
  BY <1>1 DEF Voters
<1>5. Heights' /\ Decided' /\ NoneSkipped'
  BY <1>1 DEF IInv, Heights, Decided, NoneSkipped
<1>6. Proposed'
  BY <1>1 DEF IInv, Proposed
<1>7. VotesGiven' /\ Certified'
  BY <1>1, <1>3, <1>4 DEF IInv, VotesGiven, Certified
<1> QED
  BY <1>2, <1>5, <1>6, <1>7 DEF IInv

\* What hotStuffBacklog.add makes of a list: only the list of the proposal grows.
LEMMA PutBackKeeps ==
    ASSUME NEW b, NEW h \in Height, NEW k \in DOMAIN PutBack(b, h)
    PROVE  \A p \in PutBack(b, h)[k] : (k \in DOMAIN b /\ p \in b[k]) \/ (p = h /\ k = h)
<1> DEFINE sn == SNs[SnAt(h)]
           c  == IF h \in DOMAIN b THEN b
                 ELSE [j \in DOMAIN b \cup {sn} |-> IF j = sn THEN {} ELSE b[j]]
           e(j) == (IF j \in DOMAIN c THEN c[j] ELSE {}) \cup (IF j = h THEN {h} ELSE {})
<1>1. PutBack(b, h) = [j \in DOMAIN c \cup {h} |-> e(j)]
  BY DEF PutBack
<1>2. k \in DOMAIN c \cup {h} /\ PutBack(b, h)[k] = e(k)
  BY <1>1
<1>3. ASSUME k \in DOMAIN c, NEW p \in c[k] PROVE k \in DOMAIN b /\ p \in b[k]
  <2>1. CASE h \in DOMAIN b
    BY <1>3, <2>1
  <2>2. CASE h \notin DOMAIN b
    <3>1. c = [j \in DOMAIN b \cup {sn} |-> IF j = sn THEN {} ELSE b[j]]
      BY <2>2
    <3> HIDE DEF c, sn
    <3>2. k # sn
      BY <1>3, <3>1
    <3> QED
      BY <1>3, <3>1, <3>2
  <2> QED
    BY <2>1, <2>2
<1> HIDE DEF c
<1> QED
  BY <1>2, <1>3

LEMMA EarlyStep ==
    ASSUME IInv, NEW m \in msgs, m.type = "proposal",
           backlog' = [backlog EXCEPT ![m.to] = PutBack(@, m.height)],
           msgs' = msgs \ {m}, view' \in [Node -> 0 .. MaxView],
           UNCHANGED <<calm, leaderVars, vheight, timer, announced, log, killed, down>>
    PROVE  IInv'
<1>1. UNCHANGED <<chain, votes>>
  BY DEF leaderVars
<1>2. m.to \in Node /\ m.height \in Height /\ m.height <= Len(chain)
  BY MessageType DEF IInv, Proposed
<1>3. Types'
  BY <1>1, <1>2 DEF IInv, Types
<1>4. Heights' /\ Decided' /\ NoneSkipped'
  BY <1>1 DEF IInv, Heights, Decided, NoneSkipped
<1>5. VotesGiven' /\ Certified'
  <2>1. \A h \in Height : Voters(h)' = Voters(h)
    BY DEF Voters
  <2>2. Voters(Len(chain))' = Voters(Len(chain))
    BY <1>1 DEF Voters
  <2> QED
    BY <1>1, <2>1, <2>2 DEF IInv, VotesGiven, Certified, Voters
<1>6. Proposed'
  <2>1. ASSUME NEW n \in Node, NEW k \in DOMAIN backlog'[n], NEW p \in backlog'[n][k]
        PROVE  p \in Height /\ p = k /\ p <= Len(chain)
    <3>1. CASE n = m.to
      <4>1. backlog'[n] = PutBack(backlog[n], m.height)
        BY <3>1, <1>2 DEF IInv, Types
      <4>2. (k \in DOMAIN backlog[n] /\ p \in backlog[n][k]) \/ (p = m.height /\ k = m.height)
        BY <2>1, <4>1, <1>2, PutBackKeeps
      <4> QED
        BY <4>2, <1>2 DEF IInv, Proposed
    <3>2. CASE n # m.to
      <4>1. backlog'[n] = backlog[n]
        BY <3>2 DEF IInv, Types
      <4> QED
        BY <2>1, <4>1 DEF IInv, Proposed
    <3> QED
      BY <3>1, <3>2
  <2> QED
    BY <2>1, <1>1 DEF IInv, Proposed
<1> QED
  BY <1>3, <1>4, <1>5, <1>6 DEF IInv

LEMMA AdoptStep ==
    ASSUME IInv, NEW m \in msgs, m.type = "proposal",
           m.height > vheight[m.to], ~ Early(m.to, m.height), Adopt(m.to, m.height),
           msgs' = Kept((msgs \ {m}) \cup {Vote(m.to, m.height)}, Len(chain))
                     \cup PutBackAt(m.to, m.height + 1),
           view' \in [Node -> 0 .. MaxView],
           UNCHANGED <<calm, leaderVars, backlog, killed, down>>
    PROVE  IInv'
<1> DEFINE n == m.to
           h == m.height
<1>0. UNCHANGED <<chain, votes>>
  BY DEF leaderVars
<1>1. n \in Node /\ h \in Height /\ h <= Len(chain)
  BY MessageType DEF IInv, Proposed
<1>2. /\ vheight \in [Node -> 0 .. Last + 3] /\ Len(chain) \in Height
      /\ Last \in Nat /\ Len(chain) \in Nat /\ h \in Nat
  BY <1>1, Parameters DEF IInv, Types, Height
<1>3. h = vheight[n] + 1
  BY <1>1, <1>2 DEF Early
<1>4. n # Lead
  BY <1>1, <1>2, <1>3 DEF IInv, Heights
<1>5. Adopt(n, h)
  OBVIOUS
<1>6. ASSUME NEW o \in msgs'
      PROVE  \/ o \in msgs /\ (o.type = "vote" => o.height = Len(chain))
             \/ /\ o \in VoteType /\ o.type = "vote" /\ o.from = n
                /\ o.height = h /\ h = Len(chain)
             \/ o \in ProposalType /\ o.type = "proposal" /\ o.height <= Len(chain)
  <2>1. CASE o \in PutBackAt(n, h + 1)
    <3>1. PICK k \in backlog[n][h + 1] : o = Proposal(n, k) /\ h + 1 \in DOMAIN backlog[n]
      BY <2>1 DEF PutBackAt
    <3>2. k \in Height /\ k <= Len(chain)
      BY <1>1, <3>1 DEF IInv, Proposed
    <3> QED
      BY <1>1, <3>1, <3>2 DEF Proposal, ProposalType
  <2>2. CASE o = Vote(n, h) /\ (o.type = "vote" => o.height = Len(chain))
    BY <1>1, <2>2 DEF Vote, VoteType
  <2> QED
    BY <1>6, <2>1, <2>2 DEF Kept
<1> HIDE DEF n, h
<1>7. /\ vheight' = [vheight EXCEPT ![n] = h] /\ vheight' \in [Node -> 0 .. Last + 3]
      /\ \A p \in Node : vheight'[p] >= vheight[p]
      /\ timer' \in [Node -> [SN -> -1 .. MaxView]]
      /\ announced' \in [Node -> SUBSET SN]
      /\ log' \in [Node -> [SN -> Batch \cup {None}]]
      /\ Decided' /\ NoneSkipped'
  <2>1. Types /\ Decided /\ NoneSkipped /\ chain' \in Seq(Link)
    BY <1>0 DEF IInv, Types
  <2>2. Len(chain) <= Len(chain') /\ h <= Len(chain') /\ h <= Len(chain) + 1
    BY <1>0, <1>1, <1>2
  <2> QED
    BY <2>1, <2>2, <1>0, <1>1, <1>3, <1>5, Adopted
<1>8. Types'
  <2>1. msgs' \subseteq ProposalType \cup VoteType
    BY <1>6 DEF IInv, Types
  <2> QED
    BY <1>0, <1>7, <2>1 DEF IInv, Types
<1>9. Heights'
  BY <1>0, <1>1, <1>2, <1>4, <1>7 DEF IInv, Heights
<1>10. Proposed'
  BY <1>0, <1>6 DEF IInv, Proposed
<1>11. VotesGiven'
  <2>1. Voters(Len(chain)) \subseteq Voters(Len(chain))'
    BY <1>0, <1>2, <1>7 DEF Voters
  <2>2. h = Len(chain) => n \in Voters(Len(chain))'
    BY <1>0, <1>1, <1>2, <1>7 DEF Voters
  <2> QED
    BY <1>0, <1>6, <2>1, <2>2 DEF IInv, VotesGiven
<1>12. Certified'
  <2>1. \A p \in Node : vheight[p] \in Nat /\ vheight'[p] \in Nat
    BY <1>2, <1>7
  <2> QED
    BY <1>0, <1>7, <2>1, VotersGrow DEF IInv, Certified
<1> QED
  BY <1>7, <1>8, <1>9, <1>10, <1>11, <1>12 DEF IInv


LEMMA CountStep ==
    ASSUME IInv, NEW m \in msgs, m.type = "vote",
           msgs' = msgs \ {m}, votes' = votes \cup {m.from},
           UNCHANGED <<calm, chain, view, nodeVars, killed, down>>
    PROVE  IInv'
<1>1. UNCHANGED <<vheight, timer, announced, backlog, log>>
  BY DEF nodeVars
<1>2. m.from \in Node /\ m.from \in Voters(Len(chain))
  BY MessageType DEF IInv, VotesGiven
<1>3. Types'
  BY <1>1, <1>2 DEF IInv, Types
<1>4. Heights' /\ Decided' /\ NoneSkipped'
  BY <1>1 DEF IInv, Heights, Decided, NoneSkipped
<1>5. Proposed'
  BY <1>1 DEF IInv, Proposed
<1>6. VotesGiven' /\ Certified'
  BY <1>1, <1>2 DEF IInv, VotesGiven, Certified, Voters
<1> QED
  BY <1>3, <1>4, <1>5, <1>6 DEF IInv

LEMMA ProposeStep ==
    ASSUME IInv, NEW m \in msgs, m.type = "vote",
           NEW h \in Height, h = Len(chain), VoteQuorum(votes \cup {m.from}), GoesOn(h),
           chain' = Append(chain, [batch |-> NewBatch(h + 1), view |-> view[Lead]]),
           votes' = {}, Adopt(Lead, h + 1),
           msgs' = Kept(msgs, h + 1) \cup {Vote(Lead, h + 1)}
                     \cup {Proposal(n, h + 1) : n \in {n \in Node \ {Lead} : Receives(n)}},
           UNCHANGED <<calm, view, backlog, killed, down>>
    PROVE  IInv'
<1> DEFINE link == [batch |-> NewBatch(h + 1), view |-> view[Lead]]
<1>1. /\ vheight \in [Node -> 0 .. Last + 3] /\ Lead \in Node
      /\ Last \in Nat /\ h \in Nat /\ h + 1 \in Height
  BY Parameters DEF IInv, Types, Height, GoesOn
<1>2. link \in Link
  <2>1. NewBatch(h + 1) \in Batch
    BY <1>1 DEF NewBatch, Batch, SN
  <2> QED
    BY <1>1, <2>1 DEF IInv, Types, Link
<1> HIDE DEF link
<1>3. chain \in Seq(Link) /\ chain' = Append(chain, link)
  BY DEF IInv, Types, link
<1>4. /\ chain' \in Seq(Link) /\ Len(chain') = h + 1
      /\ \A k \in 1 .. Len(chain) : chain'[k] = chain[k]
  BY <1>2, <1>3
<1>5. h = vheight[Lead] /\ \A n \in Node : vheight[n] <= h
  BY DEF IInv, Heights
<1>6. /\ vheight' = [vheight EXCEPT ![Lead] = h + 1] /\ vheight' \in [Node -> 0 .. Last + 3]
      /\ \A p \in Node : vheight'[p] >= vheight[p]
      /\ timer' \in [Node -> [SN -> -1 .. MaxView]]
      /\ announced' \in [Node -> SUBSET SN]
      /\ log' \in [Node -> [SN -> Batch \cup {None}]]
      /\ Decided' /\ NoneSkipped'
  <2>1. Types /\ Decided /\ NoneSkipped /\ view' \in [Node -> 0 .. MaxView]
    BY DEF IInv, Types
  <2>2. Len(chain) <= Len(chain') /\ h + 1 <= Len(chain') /\ h + 1 <= Len(chain) + 1
    BY <1>1, <1>4
  <2>3. h + 1 = vheight[Lead] + 1
    BY <1>5
  <2> QED
    BY <2>1, <2>2, <2>3, <1>1, <1>4, Adopted
<1>7. ASSUME NEW o \in msgs'
      PROVE  \/ o \in msgs /\ o.type = "proposal" /\ o.height <= h
             \/ o \in VoteType /\ o.type = "vote" /\ o.from = Lead /\ o.height = h + 1
             \/ o \in ProposalType /\ o.type = "proposal" /\ o.height = h + 1
  <2>1. CASE o \in Kept(msgs, h + 1)
    <3>1. o \in msgs /\ (o.type = "vote" => o.height = h + 1)
      BY <2>1 DEF Kept
    <3>2. o.type # "vote"
      BY <1>1, <3>1 DEF IInv, VotesGiven
    <3>3. o.type = "proposal"
      BY <3>1, <3>2 DEF IInv, Types, ProposalType, VoteType
    <3> QED
      BY <3>1, <3>3 DEF IInv, Proposed
  <2>2. CASE o = Vote(Lead, h + 1)
    BY <1>1, <2>2 DEF Vote, VoteType
  <2>3. CASE \E n \in Node : o = Proposal(n, h + 1)
    BY <1>1, <2>3 DEF Proposal, ProposalType
  <2> QED
    BY <1>7, <2>1, <2>2, <2>3
<1>8. Types'
  <2>1. msgs' \subseteq ProposalType \cup VoteType
    BY <1>7 DEF IInv, Types
  <2> QED
    BY <1>1, <1>4, <1>6, <2>1 DEF IInv, Types
<1>9. Heights'
  BY <1>1, <1>4, <1>5, <1>6 DEF Heights
<1>10. Proposed'
  <2>1. ASSUME NEW o \in msgs', o.type = "proposal" PROVE o.height <= h + 1
    <3>1. o.height = h + 1 \/ (o \in msgs /\ o.height <= h)
      BY <1>7, <2>1
    <3> QED
      BY <1>1, <3>1, MessageType DEF IInv, Height
  <2>2. ASSUME NEW n \in Node, NEW k \in DOMAIN backlog[n]
        PROVE  backlog[n][k] \subseteq {g \in Height : g = k /\ g <= h + 1}
    BY <1>1 DEF IInv, Proposed, Height
  <2> QED
    BY <1>4, <2>1, <2>2 DEF Proposed
<1>11. VotesGiven'
  <2>1. Lead \in Voters(Len(chain))'
    BY <1>1, <1>4, <1>6 DEF Voters
  <2> QED
    BY <1>4, <1>7, <2>1 DEF VotesGiven
<1>12. Certified'
  <2>1. \A p \in Node : vheight[p] \in Nat /\ vheight'[p] \in Nat /\ vheight'[p] >= vheight[p]
    BY <1>1, <1>6
  <2>2. Cardinality(Voters(h)) >= 2 * Faults + 1
    <3>1. votes \cup {m.from} \subseteq Voters(h)
      BY DEF IInv, VotesGiven
    <3>2. IsFiniteSet(Voters(h))
      BY Parameters, FS_Subset DEF Voters
    <3>3. /\ Cardinality(votes \cup {m.from}) <= Cardinality(Voters(h))
          /\ Cardinality(votes \cup {m.from}) \in Nat /\ Cardinality(Voters(h)) \in Nat
      BY <3>1, <3>2, FS_Subset, FS_CardinalityType
    <3> QED
      BY <3>3, Parameters DEF VoteQuorum
  <2>3. ASSUME NEW k \in Height, k < h + 1 PROVE Cardinality(Voters(k)') >= 2 * Faults + 1
    <3>1. k < h \/ k = h
      BY <1>1, <2>3 DEF Height
    <3>2. Cardinality(Voters(k)) >= 2 * Faults + 1
      BY <2>2, <3>1 DEF IInv, Certified
    <3> QED
      BY <2>1, <3>2, VotersGrow
  <2> QED
    BY <1>4, <2>3 DEF Certified
<1> QED
  BY <1>6, <1>8, <1>9, <1>10, <1>11, <1>12 DEF IInv

\* State transfer marks a node announced or stops its peer; it logs nothing.
LEMMA MissingStep ==
    ASSUME IInv, NEW n \in Node, NEW s \in SN, HandleMissingEntry(n, s)
    PROVE  IInv'
<1>1. UNCHANGED <<calm, view, chain, votes, vheight, timer, backlog, log, killed>>
  BY DEF HandleMissingEntry, leaderVars
<1>2. killed' \cup down' \subseteq Node /\ msgs' \subseteq msgs
  <2>1. killed \cup down \subseteq Node
    BY DEF IInv, Types
  <2>2. \/ UNCHANGED <<down, msgs>>
        \/ down' = down \cup {n} /\ msgs' \subseteq msgs
    BY DEF HandleMissingEntry, GoesDown
  <2> QED
    BY <1>1, <2>1, <2>2
<1>3. announced' = announced \/ announced' = [announced EXCEPT ![n] = @ \cup {s}]
  BY DEF HandleMissingEntry
<1>4. announced' \in [Node -> SUBSET SN] /\ \A p \in Node : announced[p] \subseteq announced'[p]
  <2>1. announced \in [Node -> SUBSET SN]
    BY DEF IInv, Types
  <2> QED
    BY <1>3, <2>1
<1>5. Types'
  BY <1>1, <1>2, <1>4 DEF IInv, Types
<1>6. Heights' /\ Proposed' /\ VotesGiven' /\ Certified'
  BY <1>1, <1>2 DEF IInv, Heights, Proposed, VotesGiven, Certified, Voters
<1>7. Decided' /\ NoneSkipped'
  BY <1>1, <1>4 DEF IInv, Decided, NoneSkipped
<1> QED
  BY <1>5, <1>6, <1>7 DEF IInv

LEMMA NextInv == IInv /\ [Next]_vars => IInv'
<1> SUFFICES ASSUME IInv, [Next]_vars PROVE IInv'
  OBVIOUS
<1>0. /\ calm \in BOOLEAN /\ view \in [Node -> 0 .. MaxView] /\ killed \cup down \subseteq Node
      /\ MaxView \in Nat /\ Len(chain) \in Height
  BY HotStuffBoundAssumption DEF IInv, Types
<1>1. ASSUME NEW m \in msgs, HandleProposal(m) PROVE IInv'
  <2> DEFINE n == m.to
             h == m.height
             v == chain[h].view
  <2>1. m.type = "proposal" /\ n \in Node /\ h \in 1 .. Len(chain)
    BY <1>1, MessageType, Parameters DEF HandleProposal, IInv, Proposed, Height
  <2>2. v \in 0 .. MaxView
    <3>1. chain[h] \in Link
      BY <2>1 DEF IInv, Types
    <3> QED
      BY <3>1 DEF Link
  <2>3. view' = [view EXCEPT ![n] = IF v > @ THEN v ELSE @]
    BY <1>1 DEF HandleProposal
  <2>4. UNCHANGED <<calm, leaderVars, killed, down>>
    BY <1>1 DEF HandleProposal
  <2> HIDE DEF v
  <2>5. view' \in [Node -> 0 .. MaxView]
    BY <1>0, <2>1, <2>2, <2>3
  <2>6. CASE h <= vheight[n]
    <3>1. ~ Early(n, h)
      BY <2>1, <2>6, Parameters DEF Early, IInv, Types
    <3>2. msgs' = msgs \ {m} /\ UNCHANGED nodeVars
      BY <1>1, <2>6, <3>1 DEF HandleProposal
    <3> QED
      BY <1>0, <2>4, <2>5, <3>2, QuietStep DEF leaderVars, nodeVars
  <2>7. CASE ~ (h <= vheight[n]) /\ Early(n, h)
    <3>1. /\ msgs' = msgs \ {m} /\ backlog' = [backlog EXCEPT ![n] = PutBack(@, h)]
          /\ UNCHANGED <<vheight, timer, announced, log>>
      BY <1>1, <2>7 DEF HandleProposal
    <3> QED
      BY <2>1, <2>4, <2>5, <3>1, EarlyStep
  <2>8. CASE ~ (h <= vheight[n]) /\ ~ Early(n, h)
    <3>1. /\ Adopt(n, h) /\ UNCHANGED backlog
          /\ msgs' = Kept((msgs \ {m}) \cup {Vote(n, h)}, Len(chain)) \cup PutBackAt(n, h + 1)
      BY <1>1, <2>8 DEF HandleProposal
    <3>2. h > vheight[n]
      BY <2>1, <2>8, Parameters DEF IInv, Types
    <3> QED
      BY <2>1, <2>4, <2>5, <2>8, <3>1, <3>2, AdoptStep
  <2> QED
    BY <2>6, <2>7, <2>8
<1>2. ASSUME NEW m \in msgs, HandleVote(m) PROVE IInv'
  <2> DEFINE h == Len(chain)
             V == votes \cup {m.from}
  <2>1. m.type = "vote" /\ h \in Height /\ UNCHANGED <<calm, backlog, killed, down>>
    BY <1>0, <1>2 DEF HandleVote
  <2>2. CASE VoteQuorum(V) /\ GoesOn(h)
    BY <1>2, <2>1, <2>2, ProposeStep DEF HandleVote
  <2>3. CASE ~ (VoteQuorum(V) /\ GoesOn(h))
    BY <1>2, <2>1, <2>3, CountStep DEF HandleVote, nodeVars
  <2> QED
    BY <2>2, <2>3
<1>3. ASSUME NEW n \in Node, NEW s \in SN, Timeout(n, s) PROVE IInv'
  <2>1. view' \in [Node -> 0 .. MaxView]
    BY <1>0, <1>3 DEF Timeout
  <2> QED
    BY <1>0, <1>3, <2>1, QuietStep DEF Timeout, leaderVars, nodeVars
<1>4. ASSUME NEW n \in Node, NEW s \in SN, HandleMissingEntry(n, s) PROVE IInv'
  BY <1>4, MissingStep
<1>5. ASSUME NEW n \in Node, KillSegment(n) PROVE IInv'
  BY <1>0, <1>5, QuietStep DEF KillSegment, leaderVars, nodeVars
<1>6. ASSUME NEW n \in Node, Stop(n) PROVE IInv'
  BY <1>0, <1>6, QuietStep DEF Stop, GoesDown, leaderVars, nodeVars
<1>7. CASE UNCHANGED vars
  BY <1>0, <1>7, QuietStep DEF vars, leaderVars, nodeVars
<1> QED
  BY <1>1, <1>2, <1>3, <1>4, <1>5, <1>6, <1>7 DEF Next, Handle

-----------------------------------------------------------------------------
(* The theorems *)

\* The invariant above holds in every reachable state.
THEOREM Invariance == Spec => []IInv
<1>1. IInv /\ [Next]_vars => IInv'
  BY NextInv
<1> QED
  BY <1>1, InitInv, PTL DEF Spec

\* The types of hotstuffinstance.go, whatever the timers and the end of the segment do:
\* heights stop at the third dummy node (proposeSN), nobody has voted for a node that
\* was not proposed, what is put back waits for its own height.
THEOREM TypeCorrect == Spec => []TypeOK
<1>1. IInv => TypeOK
  <2> SUFFICES ASSUME IInv PROVE TypeOK
    OBVIOUS
  <2>1. Len(chain) \in Height /\ \A h \in 1 .. Len(chain) : chain[h] \in Link
    BY DEF IInv, Types
  <2>2. \A n \in Node : vheight[n] \in 0 .. Len(chain)
    BY <2>1, Parameters DEF IInv, Types, Heights, Height
  <2>3. \A n \in Node : \A k \in DOMAIN backlog[n] : backlog[n][k] \subseteq {k}
    BY DEF IInv, Proposed
  <2>4. /\ calm \in BOOLEAN /\ view \in [Node -> 0 .. MaxView]
        /\ votes \subseteq Node /\ timer \in [Node -> [SN -> -1 .. MaxView]]
        /\ log \in [Node -> [SN -> Batch \cup {None}]] /\ killed \cup down \subseteq Node
        /\ announced \in [Node -> SUBSET SN]
    BY DEF IInv, Types
  <2>5. \A n \in Node : announced[n] \subseteq SN
    BY <2>4
  <2>6. \A h \in 1 .. Len(chain) : chain[h] \in [batch : Batch, view : 0 .. MaxView]
    BY <2>1 DEF Link
  <2>7. msgs \subseteq [type : {"proposal"}, to : Node, height : Height]
                        \cup [type : {"vote"}, from : Node, to : {Lead}, height : Height]
    BY DEF IInv, Types, ProposalType, VoteType
  <2> QED
    BY <2>1, <2>2, <2>3, <2>4, <2>7, <2>5, <2>6 DEF TypeOK
<1> QED
  BY <1>1, Invariance, PTL

\* The three-chain rule: what handleProposal announces was proposed three heights below
\* the leaf, so that 2f + 1 nodes have voted for it and for the two nodes after it.
THEOREM ThreeChainRule == Spec => []ThreeChain
<1>1. IInv => ThreeChain
  <2> SUFFICES ASSUME IInv, NEW n \in Node, NEW s \in SN, log[n][s] # None
               PROVE  Cardinality({m \in Node : vheight[m] >= s + 2}) >= 2 * Faults + 1
    BY DEF ThreeChain
  <2>1. s + 2 \in Height /\ s + 2 < Len(chain)
    <3>1. s + 3 <= Len(chain)
      BY DEF IInv, Decided
    <3> QED
      BY <3>1, Parameters DEF IInv, Types, Height, SN
  <2> QED
    BY <2>1 DEF IInv, Certified, Voters
<1> QED
  BY <1>1, Invariance, PTL

\* Proposals are taken in at the height after the node's own, whatever their order of
\* arrival (hotStuffBacklog): no SN is passed over by the three-chain rule.
THEOREM NoSkip == Spec => []NoneSkipped
<1>1. IInv => NoneSkipped
  BY DEF IInv
<1> QED
  BY <1>1, Invariance, PTL

\* No two nodes have different entries for an SN, although views change at some nodes
\* and not at others, and state transfer marks nodes announced that were not logged.
LogsAgree ==
    \A n, o \in Node, s \in SN : log[n][s] # None /\ log[o][s] # None => log[n][s] = log[o][s]

\* LogsAgree holds in every reachable state (handleProposal, announce,
\* handleMissingEntry).
THEOREM Agreement == Spec => []LogsAgree
<1>1. IInv => LogsAgree
  BY DEF IInv, Decided, LogsAgree
<1> QED
  BY <1>1, Invariance, PTL

=============================================================================
