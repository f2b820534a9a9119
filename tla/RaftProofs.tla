----------------------------- MODULE RaftProofs -----------------------------
(* Theorems about RaftInstance, for any number of nodes, any length of the   *)
(* segment and any bounds: only safety is proved.                            *)
EXTENDS RaftInstance, FiniteSetTheorems, WellFoundedInduction, TLAPS

-----------------------------------------------------------------------------
(* Helpers *)

LEMMA FaultsType == Faults \in Nat
<1>1. Cardinality(Node) \in Nat /\ Cardinality(Node) # 0
  BY SegmentAssumption, FS_CardinalityType, FS_EmptySet
<1> QED
  BY <1>1 DEF Faults

\* A set of indices that is not empty has a greatest element.
LEMMA HasGreatestIndex ==
    ASSUME NEW S \in SUBSET Index, S # {}
    PROVE  \E i \in S : \A j \in S : i >= j
<1> DEFINE T == {Len - i : i \in S}
<1>1. \A i \in S : i \in Nat /\ Len - i \in Nat
  BY SegmentAssumption DEF Index
<1>2. T \subseteq Nat /\ T # {}
  BY <1>1
<1>3. PICK x \in T : \A y \in T : ~ (<<y, x>> \in OpToRel(<, Nat))
  BY <1>2, WFMin, NatLessThanWellFounded
<1>4. \A y \in T : ~ (y < x)
  BY <1>2, <1>3 DEF OpToRel
<1>5. PICK i \in S : x = Len - i
  OBVIOUS
<1>6. \A j \in S : i >= j
  <2> TAKE j \in S
  <2>1. ~ (Len - j < Len - i)
    BY <1>4, <1>5
  <2> QED
    BY <2>1, <1>1, SegmentAssumption
<1> QED
  BY <1>6

\* The nodes whose raft log has at least i entries.
Holders(i) == {n \in Node : last[n] >= i}
Backed(i) == Cardinality(Holders(i)) >= 2 * Faults + 1

-----------------------------------------------------------------------------
(* The inductive invariant *)

\* TypeOK, and the functions that TypeOK only bounds.
Types ==
    /\ TypeOK
    /\ last \in [Node -> 0 .. Len]
    /\ commitIndex \in [Node -> 0 .. Len]
    /\ lastApplied \in [Node -> 0 .. Len]

\* The leader has filed each batch it cut under its number, the others a part.
RaftLogs ==
    /\ nextSnIndex = last[Lead] + 1
    /\ \A n \in Node : last[n] <= last[Lead]
    /\ \A n \in Node, i \in Index : entries[n][i] = IF i <= last[n] THEN i ELSE None

\* An entry under way follows the one it names, and its commit index is known.
AppendOK(m) ==
    /\ m.to # Lead
    /\ m.leaderCommit <= commitIndex[Lead]
    /\ IF m.index = 0 THEN m.batch = None
       ELSE m.batch = m.index /\ m.prevIndex = m.index - 1 /\ m.index <= last[Lead]

\* What a follower acknowledges it has: raft logs only grow.
ResponseOK(m) ==
    /\ m.from # Lead
    /\ m.success => m.index <= last[m.from]

\* The match index of a follower never runs ahead of its raft log.
MatchReplicated ==
    /\ matchIndex[Lead] = 0
    /\ \A n \in Node : matchIndex[n] <= last[n]

\* What is committed is in a quorum of raft logs, and only that is announced.
CommitBacked ==
    /\ commitIndex[Lead] > 0 => Backed(commitIndex[Lead])
    /\ \A n \in Node : commitIndex[n] <= commitIndex[Lead]
    /\ \A n \in Node, s \in SN : log[n][s] # None => log[n][s] = s /\ s <= commitIndex[Lead]

Network ==
    \A m \in msgs :
        /\ m.type = "append" => AppendOK(m)
        /\ m.type = "response" => ResponseOK(m)

IInv ==
    /\ Types
    /\ RaftLogs
    /\ Network
    /\ MatchReplicated
    /\ CommitBacked

-----------------------------------------------------------------------------
(* Lemmas about a step *)

LEMMA MessageType ==
    \A m \in Message :
        /\ m.type = "append" =>
              /\ m.from = Lead /\ m.to \in Node /\ m.index \in 0 .. Len /\ m.prevIndex \in 0 .. Len
              /\ m.batch \in Batch \cup {None} /\ m.leaderCommit \in 0 .. Len
        /\ m.type = "response" =>
              /\ m.from \in Node /\ m.to = Lead /\ m.index \in 0 .. Len
              /\ m.nextIndex \in 1 .. Len + 1 /\ m.success \in BOOLEAN
        /\ m.type \in {"append", "response"}
  BY DEF Message

\* A raft log that grew still has what it had, so that what a quorum has stays.
LEMMA BackedStays ==
    ASSUME NEW i \in Index, Types, Types', \A n \in Node : last'[n] >= last[n], Backed(i)
    PROVE  Backed(i)'
<1>1. Holders(i) \subseteq Holders(i)' /\ Holders(i)' \subseteq Node
  BY DEF Holders, Types, Index
<1>2. IsFiniteSet(Holders(i)')
  BY <1>1, SegmentAssumption, FS_Subset
<1>3. Cardinality(Holders(i)) <= Cardinality(Holders(i)')
  BY <1>1, <1>2, FS_Subset
<1>4. Cardinality(Holders(i)) \in Nat /\ Cardinality(Holders(i)') \in Nat
  BY <1>1, <1>2, FS_Subset, FS_CardinalityType
<1> QED
  BY <1>3, <1>4, FaultsType DEF Backed

\* The index that maybeCommit takes is in a quorum of raft logs.
LEMMA MaybeCommitBacked ==
    ASSUME NEW match \in [Node -> 0 .. Len], Types, RaftLogs,
           match[Lead] = 0, \A n \in Node : match[n] <= last[n]
    PROVE  LET c == MaybeCommit(match)
           IN  /\ c \in 0 .. Len /\ c >= commitIndex[Lead]
               /\ c # commitIndex[Lead] => Backed(c) /\ c <= last[Lead]
<1> DEFINE S == {i \in Committed(match) : i > commitIndex[Lead] /\ \E n \in Node : match[n] = i}
<1>0. commitIndex[Lead] \in 0 .. Len
  BY SegmentAssumption DEF Types
<1>1. CASE S = {}
  BY <1>0, <1>1 DEF MaybeCommit
<1>2. CASE S # {}
  <2>1. S \in SUBSET Index
    BY DEF Committed
  <2>2. PICK i \in S : \A j \in S : i >= j
    BY <1>2, <2>1, HasGreatestIndex
  <2>3. MaybeCommit(match) \in S
    BY <1>2, <2>2 DEF MaybeCommit
  <2> DEFINE c == MaybeCommit(match)
             F == {n \in Node : match[n] = c}
  <2>4. c \in Index /\ c > commitIndex[Lead] /\ Cardinality(F) >= 2 * Faults
    BY <2>3, <2>1 DEF Committed
  <2>5. PICK o \in Node : match[o] = c
    BY <2>3
  <2>6. c <= last[Lead]
    <3>1. c <= last[o] /\ last[o] <= last[Lead]
      BY <2>5 DEF RaftLogs
    <3> QED
      BY <3>1, <2>4, SegmentAssumption DEF Types, Index
  <2>7. Lead \notin F
    BY <2>4, SegmentAssumption DEF Index
  <2>8. F \cup {Lead} \subseteq Holders(c)
    BY <2>4, <2>6, SegmentAssumption DEF Holders, Types, Index
  <2>9. IsFiniteSet(Holders(c)) /\ IsFiniteSet(F)
    BY SegmentAssumption, FS_Subset DEF Holders
  <2>10. Cardinality(F \cup {Lead}) = Cardinality(F) + 1
    BY <2>7, <2>9, FS_AddElement
  <2>11. Cardinality(F \cup {Lead}) <= Cardinality(Holders(c))
    BY <2>8, <2>9, FS_Subset
  <2>12. Cardinality(F) \in Nat /\ Cardinality(Holders(c)) \in Nat
    BY <2>9, FS_CardinalityType
  <2>13. Backed(c)
    BY <2>4, <2>10, <2>11, <2>12, FaultsType DEF Backed
  <2> QED
    BY <1>0, <2>4, <2>6, <2>13, SegmentAssumption DEF Index
<1> QED
  BY <1>1, <1>2

\* What maybeAnnounce does at a node with the entries es, up to its commit index.
LEMMA MaybeAnnounceOK ==
    ASSUME NEW n \in Node, NEW es \in [Index -> Batch \cup {None}],
           NEW commit \in 0 .. Len, IInv, commit >= commitIndex[n],
           \A i \in Index : i <= commit => es[i] = i,
           MaybeAnnounce(n, es, commit)
    PROVE  /\ lastApplied' = [lastApplied EXCEPT ![n] = commit]
           /\ log' \in [Node -> [SN -> Batch \cup {None}]]
           /\ \A o \in Node, s \in SN :
                  log'[o][s] # log[o][s] => o = n /\ log'[o][s] = s /\ s <= commit
<1>1. lastApplied[n] = commitIndex[n] /\ lastApplied[n] \in 0 .. Len
  BY DEF IInv, Types, TypeOK
<1>2. lastApplied' = [lastApplied EXCEPT ![n] = commit]
  <2>1. (IF commit > lastApplied[n] THEN commit ELSE lastApplied[n]) = commit
    BY <1>1, SegmentAssumption
  <2> QED
    BY <2>1 DEF MaybeAnnounce
<1>3. log \in [Node -> [SN -> Batch \cup {None}]]
  BY DEF IInv, Types, TypeOK
<1> DEFINE row == [s \in SN |-> IF log[n][s] = None /\ s \in lastApplied[n] + 1 .. commit
                                THEN es[s] ELSE log[n][s]]
<1>4. log' = [log EXCEPT ![n] = row]
  BY <1>3 DEF MaybeAnnounce, Announced
<1>5. row \in [SN -> Batch \cup {None}]
  BY <1>3 DEF SN, Index
<1>6. \A s \in SN : row[s] # log[n][s] => row[s] = s /\ s <= commit
  BY <1>1, SegmentAssumption DEF SN, Index
<1> QED
  BY <1>2, <1>3, <1>4, <1>5, <1>6

-----------------------------------------------------------------------------
(* One lemma per action *)

LEMMA InitOK == Init => IInv
<1> SUFFICES ASSUME Init PROVE IInv
  OBVIOUS
<1> USE SegmentAssumption, RaftBoundAssumption DEF Init
<1>1. Types
  BY DEF Types, TypeOK, Index, SN, Batch
<1>2. RaftLogs
  BY DEF RaftLogs, Index
<1>3. Network
  BY DEF Network
<1>4. MatchReplicated
  BY DEF MatchReplicated
<1>5. CommitBacked
  BY DEF CommitBacked
<1> QED
  BY <1>1, <1>2, <1>3, <1>4, <1>5 DEF IInv

LEMMA HeartbeatOK == IInv /\ Heartbeat => IInv' /\ UNCHANGED log
<1> SUFFICES ASSUME IInv, Heartbeat PROVE IInv' /\ UNCHANGED log
  OBVIOUS
<1> DEFINE new  == nextSnIndex <= Len
           l    == IF new THEN last[Lead] + 1 ELSE last[Lead]
           es   == IF new THEN [entries[Lead] EXCEPT ![l] = nextSnIndex] ELSE entries[Lead]
           sent == IF new THEN l ELSE 0
<1>1. /\ last' = [last EXCEPT ![Lead] = l]
      /\ entries' = [entries EXCEPT ![Lead] = es]
      /\ nextSnIndex' = IF new THEN nextSnIndex + 1 ELSE nextSnIndex
      /\ UNCHANGED <<term, status, nextIndex, matchIndex, commitIndex, lastApplied, log,
                     timed, blocked, fixed>>
  BY DEF Heartbeat
<1>2. \A m \in msgs' : \/ m \in msgs
                       \/ \E n \in Node \ {Lead} :
                             \/ m = Append(n, sent, last[Lead], es)
                             \/ \E i \in nextIndex[n] .. l - 1 : m = Append(n, i, i - 1, es)
  BY DEF Heartbeat
<1>3. /\ l \in 0 .. Len /\ l >= last[Lead] /\ nextSnIndex' = l + 1
      /\ IF new THEN l = nextSnIndex /\ l = last[Lead] + 1 /\ sent = l
         ELSE l = last[Lead] /\ sent = 0
      /\ last[Lead] \in 0 .. Len
  BY <1>1, SegmentAssumption DEF IInv, Types, TypeOK, RaftLogs
<1>4. es = IF new THEN [entries[Lead] EXCEPT ![l] = l] ELSE entries[Lead]
  BY <1>3
<1> HIDE DEF new, l, es, sent
<1>5. /\ es \in [Index -> Batch \cup {None}]
      /\ \A i \in Index : es[i] = IF i <= l THEN i ELSE None
  <2>1. entries[Lead] \in [Index -> Batch \cup {None}]
    BY SegmentAssumption DEF IInv, Types, TypeOK
  <2>2. \A i \in Index : entries[Lead][i] = IF i <= last[Lead] THEN i ELSE None
    BY SegmentAssumption DEF IInv, RaftLogs
  <2>3. CASE new
    <3>1. l \in Index /\ l \in Batch /\ last[Lead] = l - 1
      BY <1>3, <2>3 DEF Index, Batch
    <3>2. \A i \in Index : es[i] = IF i = l THEN l ELSE entries[Lead][i]
      BY <1>4, <2>1, <2>3
    <3>3. es \in [Index -> Batch \cup {None}]
      BY <1>4, <2>1, <2>3, <3>1
    <3>4. ASSUME NEW i \in Index PROVE es[i] = IF i <= l THEN i ELSE None
      BY <2>2, <3>1, <3>2 DEF Index
    <3> QED
      BY <3>3, <3>4
  <2>4. CASE ~new
    BY <1>3, <1>4, <2>1, <2>2, <2>4
  <2> QED
    BY <2>3, <2>4
<1>6. Types'
  <2>1. \A m \in msgs' : m \in Message
    <3> SUFFICES ASSUME NEW m \in msgs', m \notin msgs PROVE m \in Message
      BY DEF IInv, Types, TypeOK
    <3>1. PICK n \in Node : \/ m = Append(n, sent, last[Lead], es)
                            \/ \E i \in nextIndex[n] .. l - 1 : m = Append(n, i, i - 1, es)
      BY <1>2
    <3>2. nextIndex[n] \in 1 .. Len + 1 /\ commitIndex[Lead] \in 0 .. Len
      BY SegmentAssumption DEF IInv, Types, TypeOK
    <3>3. \A i \in 1 .. Len : es[i] \in Batch \cup {None}
      BY <1>5 DEF Index
    <3>4. CASE m = Append(n, sent, last[Lead], es)
      BY <1>3, <3>2, <3>3, <3>4, SegmentAssumption DEF Append, Message
    <3>5. ASSUME NEW i \in nextIndex[n] .. l - 1, m = Append(n, i, i - 1, es) PROVE m \in Message
      <4>1. i \in 1 .. Len /\ i - 1 \in 0 .. Len
        BY <1>3, <3>2, SegmentAssumption
      <4> QED
        BY <4>1, <3>2, <3>3, <3>5, SegmentAssumption DEF Append, Message
    <3> QED
      BY <3>1, <3>4, <3>5
  <2>2. \A n \in Node : last'[n] \in 0 .. Len /\ last'[n] >= last[n]
    BY <1>1, <1>3 DEF IInv, Types
  <2>3. last' \in [Node -> 0 .. Len] /\ entries' \in [Node -> [Index -> Batch \cup {None}]]
    BY <1>1, <1>3, <1>5 DEF IInv, Types, TypeOK
  <2>4. nextSnIndex' \in 1 .. Len + 1
    BY <1>3, SegmentAssumption
  <2>5. \A n \in Node : commitIndex[n] \in 0 .. last'[n]
    BY <2>2 DEF IInv, Types, TypeOK
  <2> QED
    BY <1>1, <2>1, <2>2, <2>3, <2>4, <2>5 DEF IInv, Types, TypeOK, fixed
<1>7. RaftLogs'
  <2>1. last'[Lead] = l /\ \A n \in Node : n # Lead => last'[n] = last[n]
    BY <1>1, SegmentAssumption DEF IInv, Types
  <2>2. \A n \in Node : last'[n] <= l
    BY <1>3, <2>1 DEF IInv, Types, RaftLogs
  <2>3. entries'[Lead] = es /\ \A n \in Node : n # Lead => entries'[n] = entries[n]
    BY <1>1, SegmentAssumption DEF IInv, Types, TypeOK
  <2> QED
    BY <1>3, <1>5, <2>1, <2>2, <2>3 DEF IInv, RaftLogs
<1>8. Network'
  <2>1. last'[Lead] = l /\ \A n \in Node : last'[n] >= last[n]
    BY <1>1, <1>3, SegmentAssumption DEF IInv, Types
  <2> SUFFICES ASSUME NEW m \in msgs'
               PROVE  /\ m.type = "append" => AppendOK(m)'
                      /\ m.type = "response" => ResponseOK(m)'
    BY DEF Network
  <2>2. CASE m \in msgs
    <3>0. m \in Message /\ last \in [Node -> 0 .. Len] /\ last' \in [Node -> 0 .. Len]
      BY <1>6, <2>2 DEF IInv, Types, TypeOK
    <3>1. m.type = "append" => AppendOK(m)'
      <4> SUFFICES ASSUME m.type = "append" PROVE AppendOK(m)'
        OBVIOUS
      <4>1. AppendOK(m) /\ m.index \in 0 .. Len
        BY <2>2, <3>0, MessageType DEF IInv, Network
      <4> QED
        BY <1>1, <1>3, <2>1, <4>1 DEF AppendOK
    <3>2. m.type = "response" => ResponseOK(m)'
      <4> SUFFICES ASSUME m.type = "response" PROVE ResponseOK(m)'
        OBVIOUS
      <4>1. ResponseOK(m) /\ m.index \in 0 .. Len /\ m.from \in Node
        BY <2>2, <3>0, MessageType DEF IInv, Network
      <4> QED
        BY <2>1, <3>0, <4>1 DEF ResponseOK
    <3> QED
      BY <3>1, <3>2
  <2>3. CASE m \notin msgs
    <3>1. PICK n \in Node \ {Lead} : \/ m = Append(n, sent, last[Lead], es)
                                     \/ \E i \in nextIndex[n] .. l - 1 : m = Append(n, i, i - 1, es)
      BY <1>2, <2>3
    <3>2. nextIndex[n] \in 1 .. Len + 1
      BY DEF IInv, Types, TypeOK
    <3>3. commitIndex[Lead] \in Int /\ commitIndex'[Lead] = commitIndex[Lead]
      BY <1>1, SegmentAssumption DEF IInv, Types
    <3>4. CASE m = Append(n, sent, last[Lead], es)
      <4>1. CASE new
        <5>1. l \in Index /\ sent = l /\ last[Lead] = l - 1 /\ l # 0
          BY <1>3, <4>1, SegmentAssumption DEF Index
        <5>2. es[l] = l
          BY <1>5, <5>1 DEF Index
        <5>3. m.type = "append" /\ m.index = l /\ m.batch = l /\ m.prevIndex = l - 1
          BY <3>4, <5>1, <5>2 DEF Append
        <5>4. m.to # Lead /\ m.leaderCommit = commitIndex[Lead]
          BY <3>4 DEF Append
        <5> QED
          BY <2>1, <3>3, <5>1, <5>3, <5>4, SegmentAssumption DEF AppendOK, Index
      <4>2. CASE ~new
        BY <1>3, <3>3, <3>4, <4>2 DEF AppendOK, Append
      <4> QED
        BY <4>1, <4>2
    <3>5. ASSUME NEW i \in nextIndex[n] .. l - 1, m = Append(n, i, i - 1, es)
          PROVE  m.type = "append" /\ AppendOK(m)'
      <4>1. i \in Index /\ i <= l /\ i # 0
        BY <1>3, <3>2, SegmentAssumption DEF Index
      <4> QED
        BY <1>5, <2>1, <3>3, <3>5, <4>1 DEF AppendOK, Append
    <3> QED
      BY <3>1, <3>4, <3>5 DEF Append
  <2> QED
    BY <2>2, <2>3
<1>9. MatchReplicated'
  <2>1. \A n \in Node : last'[n] >= last[n] /\ last'[n] \in Int
    BY <1>1, <1>3 DEF IInv, Types
  <2> QED
    BY <1>1, <2>1 DEF IInv, MatchReplicated, Types, TypeOK
<1>10. CommitBacked'
  <2>1. \A n \in Node : last'[n] >= last[n]
    BY <1>1, <1>3 DEF IInv, Types
  <2>2. commitIndex[Lead] > 0 => commitIndex[Lead] \in Index
    BY SegmentAssumption DEF IInv, Types, Index
  <2>3. commitIndex[Lead] > 0 => Backed(commitIndex[Lead])'
    <3> SUFFICES ASSUME commitIndex[Lead] > 0 PROVE Backed(commitIndex[Lead])'
      OBVIOUS
    <3>1. Backed(commitIndex[Lead])
      BY DEF IInv, CommitBacked
    <3>2. PICK i \in Index : i = commitIndex[Lead] /\ i = commitIndex'[Lead]
      BY <1>1, <2>2
    <3>3. Backed(i)'
      BY <1>6, <2>1, <3>1, <3>2, BackedStays DEF IInv
    <3> QED
      BY <3>2, <3>3 DEF Backed, Holders
  <2> QED
    BY <1>1, <2>3 DEF IInv, CommitBacked
<1> QED
  BY <1>1, <1>6, <1>7, <1>8, <1>9, <1>10 DEF IInv

\* A step that leaves the raft logs and the indices of commits and matches alone
\* keeps what is said of them.
LEMMA Untouched ==
    ASSUME IInv, UNCHANGED <<leaderVars, entries, last, commitIndex, lastApplied, log>>
    PROVE  RaftLogs' /\ MatchReplicated' /\ CommitBacked'
  BY DEF IInv, leaderVars, RaftLogs, MatchReplicated, CommitBacked, Backed, Holders

\* What is under way stays true as raft logs and the leader's commit index grow.
LEMMA NetworkStays ==
    ASSUME IInv, Types', NEW m \in msgs, \A n \in Node : last'[n] >= last[n],
           commitIndex'[Lead] >= commitIndex[Lead]
    PROVE  /\ m.type = "append" => AppendOK(m)'
           /\ m.type = "response" => ResponseOK(m)'
<1>0. /\ m \in Message
      /\ last \in [Node -> 0 .. Len] /\ last' \in [Node -> 0 .. Len]
      /\ commitIndex[Lead] \in Int /\ commitIndex'[Lead] \in Int
  BY SegmentAssumption DEF IInv, Types, TypeOK
<1>1. ASSUME m.type = "append" PROVE AppendOK(m)'
  <2>1. AppendOK(m) /\ m.index \in 0 .. Len /\ m.leaderCommit \in 0 .. Len
    BY <1>0, <1>1, MessageType DEF IInv, Network
  <2>2. last[Lead] \in Int /\ last'[Lead] \in Int /\ last'[Lead] >= last[Lead]
    BY <1>0, SegmentAssumption
  <2> QED
    BY <1>0, <2>1, <2>2, SegmentAssumption DEF AppendOK
<1>2. ASSUME m.type = "response" PROVE ResponseOK(m)'
  <2>1. ResponseOK(m) /\ m.index \in 0 .. Len /\ m.from \in Node
    BY <1>0, <1>2, MessageType DEF IInv, Network
  <2> QED
    BY <1>0, <2>1 DEF ResponseOK
<1> QED
  BY <1>1, <1>2

\* Commits of the leader that are backed stay backed, and a new one is.
LEMMA CommitBackedStep ==
    ASSUME IInv, Types', \A n \in Node : last'[n] >= last[n],
           commitIndex'[Lead] >= commitIndex[Lead],
           commitIndex'[Lead] # commitIndex[Lead] => Backed(commitIndex'[Lead]),
           \A n \in Node : commitIndex'[n] <= commitIndex'[Lead],
           \A n \in Node, s \in SN :
              log'[n][s] # log[n][s] => log'[n][s] = s /\ s <= commitIndex'[Lead]
    PROVE  CommitBacked'
<1>0. commitIndex[Lead] \in 0 .. Len /\ commitIndex'[Lead] \in 0 .. Len
  BY SegmentAssumption DEF IInv, Types
<1>1. ASSUME commitIndex'[Lead] > 0 PROVE Backed(commitIndex[Lead])'
  <2>1. PICK i \in Index : i = commitIndex'[Lead]
    BY <1>0, <1>1, SegmentAssumption DEF Index
  <2>2. Backed(i)
    <3>1. CASE commitIndex'[Lead] = commitIndex[Lead]
      <4>1. Backed(commitIndex[Lead])
        BY <1>1, <3>1 DEF IInv, CommitBacked
      <4> QED
        BY <2>1, <3>1, <4>1
    <3>2. CASE commitIndex'[Lead] # commitIndex[Lead]
      BY <2>1, <3>2
    <3> QED
      BY <3>1, <3>2
  <2>3. Backed(i)'
    BY <2>2, BackedStays DEF IInv
  <2> QED
    BY <2>1, <2>3 DEF Backed, Holders
<1>2. ASSUME NEW n \in Node, NEW s \in SN, log'[n][s] # None
      PROVE  log'[n][s] = s /\ s <= commitIndex'[Lead]
  <2>1. CASE log'[n][s] = log[n][s]
    <3>1. log[n][s] = s /\ s <= commitIndex[Lead]
      BY <1>2, <2>1 DEF IInv, CommitBacked
    <3> QED
      BY <1>0, <2>1, <3>1, SegmentAssumption DEF SN
  <2>2. CASE log'[n][s] # log[n][s]
    BY <2>2
  <2> QED
    BY <2>1, <2>2
<1> QED
  BY <1>1, <1>2 DEF CommitBacked

LEMMA AppendRequestOK ==
    ASSUME IInv, NEW m \in msgs, HandleAppendEntryRequest(m)
    PROVE  IInv'
<1> DEFINE n  == m.to
           es == IF m.batch # None /\ entries[n][m.index] = None
                 THEN [entries[n] EXCEPT ![m.index] = m.batch] ELSE entries[n]
           l  == IF m.batch # None THEN Larger(last[n], m.index) ELSE last[n]
           commit == FollowerCommit(n, m.leaderCommit, l)
           miss == Response(m, m.index, last[n] + 1, FALSE)
           got  == Response(m, IF m.batch # None THEN l ELSE m.index, l + 1, TRUE)
<1>1. /\ m.type = "append"
      /\ timed' = timed \cup ({n} \cap Candidate)
      /\ UNCHANGED <<term, status, leaderVars, blocked, fixed>>
      /\ \/ /\ PrevMissing(n, m.prevIndex)
            /\ Exchange(m, {miss}) /\ UNCHANGED logVars
         \/ /\ ~PrevMissing(n, m.prevIndex)
            /\ Exchange(m, {got})
            /\ entries' = [entries EXCEPT ![n] = es]
            /\ last' = [last EXCEPT ![n] = l]
            /\ commitIndex' = [commitIndex EXCEPT ![n] = commit]
            /\ MaybeAnnounce(n, es, commit)
  BY DEF HandleAppendEntryRequest
<1>2. /\ n \in Node /\ n # Lead /\ m.from = Lead
      /\ m.index \in 0 .. Len /\ m.prevIndex \in 0 .. Len /\ m.leaderCommit \in 0 .. Len
      /\ m.leaderCommit <= commitIndex[Lead]
      /\ IF m.index = 0 THEN m.batch = None
         ELSE m.batch = m.index /\ m.prevIndex = m.index - 1 /\ m.index <= last[Lead]
  <2>1. m \in Message /\ AppendOK(m)
    BY <1>1 DEF IInv, Types, TypeOK, Network
  <2> QED
    BY <1>1, <2>1, MessageType DEF AppendOK
<1>3. /\ last[n] \in 0 .. Len /\ last[Lead] \in 0 .. Len /\ last[n] <= last[Lead]
      /\ commitIndex[n] \in 0 .. last[n] /\ commitIndex[Lead] \in 0 .. Len
      /\ commitIndex[n] <= commitIndex[Lead] /\ lastApplied[n] = commitIndex[n]
      /\ entries[n] \in [Index -> Batch \cup {None}]
      /\ \A i \in Index : entries[n][i] = IF i <= last[n] THEN i ELSE None
  BY <1>2, SegmentAssumption DEF IInv, Types, TypeOK, RaftLogs, CommitBacked
<1>4. timed' \subseteq Node
  BY <1>1, <1>2 DEF IInv, Types, TypeOK
<1>5. CASE PrevMissing(n, m.prevIndex)
  <2>1. Exchange(m, {miss}) /\ UNCHANGED logVars
    BY <1>1, <1>5
  <2>2. miss \in Message /\ ~ (miss.type = "append") /\ miss.from = n /\ ~ miss.success
    BY <1>2, <1>3, SegmentAssumption DEF Response, Message
  <2> HIDE DEF miss
  <2>3. Types'
    BY <1>1, <1>4, <2>1, <2>2 DEF IInv, Types, TypeOK, logVars, leaderVars, fixed, Exchange
  <2>4. Network'
    <3> SUFFICES ASSUME NEW x \in msgs'
                 PROVE  /\ x.type = "append" => AppendOK(x)'
                        /\ x.type = "response" => ResponseOK(x)'
      BY DEF Network
    <3>1. CASE x \in msgs
      BY <2>1, <2>3, <3>1, NetworkStays, SegmentAssumption DEF logVars, IInv, Types
    <3>2. CASE x = miss
      BY <1>2, <2>2, <3>2 DEF ResponseOK
    <3> QED
      BY <2>1, <3>1, <3>2 DEF Exchange
  <2>5. RaftLogs' /\ MatchReplicated' /\ CommitBacked'
    BY <1>1, <2>1, Untouched DEF logVars
  <2> QED
    BY <2>3, <2>4, <2>5 DEF IInv
<1>6. CASE ~PrevMissing(n, m.prevIndex)
  <2>1. /\ Exchange(m, {got})
        /\ entries' = [entries EXCEPT ![n] = es]
        /\ last' = [last EXCEPT ![n] = l]
        /\ commitIndex' = [commitIndex EXCEPT ![n] = commit]
        /\ MaybeAnnounce(n, es, commit)
    BY <1>1, <1>6
  <2>2. m.prevIndex <= last[n]
    BY <1>2, <1>3, <1>6, SegmentAssumption DEF PrevMissing, Index
  <2>3. /\ l \in 0 .. Len /\ l >= last[n] /\ l <= last[Lead]
        /\ m.batch # None => l >= m.index
    BY <1>2, <1>3, SegmentAssumption DEF Larger
  <2>4. /\ es \in [Index -> Batch \cup {None}]
        /\ \A i \in Index : es[i] = IF i <= l THEN i ELSE None
    <3>1. CASE m.index = 0
      BY <1>2, <1>3, <3>1
    <3>2. CASE m.index # 0
      <4>1. m.index \in Index /\ m.batch \in Batch /\ m.batch # None /\ m.batch = m.index
        BY <1>2, <3>2, SegmentAssumption DEF Index, Batch
      <4>2. m.index <= last[n] + 1 /\ l = IF last[n] >= m.index THEN last[n] ELSE m.index
        BY <1>2, <1>3, <2>2, <3>2, <4>1 DEF Larger
      <4>3. CASE m.index <= last[n]
        <5>1. entries[n][m.index] # None /\ l = last[n]
          BY <1>3, <4>1, <4>2, <4>3, SegmentAssumption DEF Index
        <5> QED
          BY <1>3, <5>1
      <4>4. CASE m.index = last[n] + 1
        <5>1. entries[n][m.index] = None /\ l = m.index
          BY <1>3, <4>1, <4>2, <4>4 DEF Index
        <5>2. es = [entries[n] EXCEPT ![m.index] = m.index]
          BY <4>1, <5>1
        <5>3. es \in [Index -> Batch \cup {None}]
          BY <1>3, <4>1, <5>2
        <5>4. ASSUME NEW i \in Index PROVE es[i] = IF i <= l THEN i ELSE None
          <6>1. es[i] = IF i = m.index THEN m.index ELSE entries[n][i]
            BY <1>3, <4>1, <5>2
          <6> QED
            BY <1>3, <4>4, <5>1, <6>1 DEF Index
        <5> QED
          BY <5>3, <5>4
      <4> QED
        BY <1>3, <4>1, <4>2, <4>3, <4>4 DEF Index
    <3> QED
      BY <3>1, <3>2
  <2>5. commit \in 0 .. l /\ commit >= commitIndex[n] /\ commit <= commitIndex[Lead]
    BY <1>2, <1>3, <2>3 DEF FollowerCommit, Smaller
  <2>6. got \in Message /\ got.type = "response" /\ got.from = n /\ got.success /\ got.index <= l
    <3>1. l + 1 \in 1 .. Len + 1 /\ (m.batch = None => m.index = 0)
      BY <1>2, <2>3, SegmentAssumption
    <3> QED
      BY <1>2, <2>3, <3>1, SegmentAssumption DEF Response, Message
  <2> HIDE DEF n, es, l, commit, got
  <2>7. commit \in 0 .. Len /\ \A i \in Index : i <= commit => es[i] = i
    BY <2>3, <2>4, <2>5, SegmentAssumption DEF Index
  <2>8. /\ lastApplied' = [lastApplied EXCEPT ![n] = commit]
        /\ log' \in [Node -> [SN -> Batch \cup {None}]]
        /\ \A o \in Node, s \in SN : log'[o][s] # log[o][s] => log'[o][s] = s /\ s <= commit
    <3>1. n \in Node /\ es \in [Index -> Batch \cup {None}] /\ commit >= commitIndex[n]
      BY <1>2, <2>4, <2>5
    <3>2. MaybeAnnounce(n, es, commit)
      BY <2>1
    <3> QED
      BY <2>7, <3>1, <3>2, MaybeAnnounceOK
  <2>9. /\ \A o \in Node : last'[o] = IF o = n THEN l ELSE last[o]
        /\ \A o \in Node : commitIndex'[o] = IF o = n THEN commit ELSE commitIndex[o]
        /\ \A o \in Node : lastApplied'[o] = IF o = n THEN commit ELSE lastApplied[o]
        /\ \A o \in Node : entries'[o] = IF o = n THEN es ELSE entries[o]
    BY <1>2, <2>1, <2>8 DEF IInv, Types, TypeOK
  <2>10. Types'
    <3>1. /\ last' \in [Node -> 0 .. Len] /\ commitIndex' \in [Node -> 0 .. Len]
          /\ lastApplied' \in [Node -> 0 .. Len]
          /\ entries' \in [Node -> [Index -> Batch \cup {None}]]
      BY <2>1, <2>3, <2>4, <2>8, <2>7 DEF IInv, Types, TypeOK
    <3>2. \A o \in Node : lastApplied'[o] = commitIndex'[o] /\ commitIndex'[o] \in 0 .. last'[o]
      BY <2>5, <2>9 DEF IInv, Types, TypeOK
    <3>3. msgs' \subseteq Message
      BY <2>1, <2>6 DEF IInv, Types, TypeOK, Exchange
    <3> QED
      BY <1>1, <1>4, <2>8, <3>1, <3>2, <3>3 DEF IInv, Types, TypeOK, leaderVars, fixed
  <2>11. \A o \in Node : last'[o] >= last[o]
    BY <2>3, <2>9 DEF IInv, Types
  <2>12. commitIndex'[Lead] = commitIndex[Lead] /\ last'[Lead] = last[Lead]
    BY <1>2, <2>9, SegmentAssumption
  <2>13. RaftLogs'
    BY <1>1, <2>3, <2>4, <2>9, <2>12 DEF IInv, RaftLogs, leaderVars
  <2>14. Network'
    <3> SUFFICES ASSUME NEW x \in msgs'
                 PROVE  /\ x.type = "append" => AppendOK(x)'
                        /\ x.type = "response" => ResponseOK(x)'
      BY DEF Network
    <3>1. CASE x \in msgs
      BY <1>3, <2>10, <2>11, <2>12, <3>1, NetworkStays
    <3>2. CASE x = got
      BY <1>2, <2>6, <2>9, <3>2 DEF ResponseOK
    <3> QED
      BY <2>1, <3>1, <3>2 DEF Exchange
  <2>15. MatchReplicated'
    BY <1>1, <2>11, <2>10 DEF IInv, MatchReplicated, leaderVars, Types, TypeOK
  <2>16. CommitBacked'
    <3>1. \A o \in Node : commitIndex'[o] <= commitIndex'[Lead]
      BY <2>5, <2>9, <2>12 DEF IInv, CommitBacked
    <3>2. \A o \in Node, s \in SN :
             log'[o][s] # log[o][s] => log'[o][s] = s /\ s <= commitIndex'[Lead]
      BY <1>3, <2>5, <2>8, <2>12, <2>3 DEF SN
    <3> QED
      BY <1>3, <2>10, <2>11, <2>12, <3>1, <3>2, CommitBackedStep
  <2> QED
    BY <2>10, <2>13, <2>14, <2>15, <2>16 DEF IInv
<1> QED
  BY <1>5, <1>6

LEMMA AppendResponseOK ==
    ASSUME IInv, NEW m \in msgs, HandleAppendEntryResponse(m)
    PROVE  IInv'
<1> DEFINE match  == [matchIndex EXCEPT ![m.from] = m.index]
           commit == MaybeCommit(match)
<1>1. /\ m.type = "response" /\ Exchange(m, {})
      /\ UNCHANGED <<term, status, nextSnIndex, entries, last, timed, blocked, fixed>>
      /\ \/ /\ m.success
            /\ nextIndex' = [nextIndex EXCEPT ![m.from] = m.nextIndex]
            /\ matchIndex' = match
            /\ commitIndex' = [commitIndex EXCEPT ![Lead] = commit]
            /\ MaybeAnnounce(Lead, entries[Lead], commit)
         \/ /\ nextIndex' = [nextIndex EXCEPT ![m.from] = Larger(1, @ - 1)]
            /\ UNCHANGED <<matchIndex, commitIndex, lastApplied, log>>
  BY DEF HandleAppendEntryResponse
<1>2. /\ m.from \in Node /\ m.from # Lead /\ m.index \in 0 .. Len /\ m.nextIndex \in 1 .. Len + 1
      /\ m.success => m.index <= last[m.from]
  <2>1. m \in Message /\ ResponseOK(m)
    BY <1>1 DEF IInv, Types, TypeOK, Network
  <2> QED
    BY <1>1, <2>1, MessageType DEF ResponseOK
<1>3. Lead \in Node /\ commitIndex[Lead] \in 0 .. Len /\ last[Lead] \in 0 .. Len
  BY SegmentAssumption DEF IInv, Types
<1>4. nextIndex' \in [Node -> 1 .. Len + 1]
  <2>1. nextIndex[m.from] \in 1 .. Len + 1
    BY <1>2 DEF IInv, Types, TypeOK
  <2>2. Larger(1, nextIndex[m.from] - 1) \in 1 .. Len + 1
    BY <2>1, SegmentAssumption DEF Larger
  <2> QED
    BY <1>1, <1>2, <2>2 DEF IInv, Types, TypeOK
<1>5. msgs' \subseteq msgs
  BY <1>1 DEF Exchange
<1>6. CASE UNCHANGED <<matchIndex, commitIndex, lastApplied, log>>
  <2>1. Types'
    BY <1>1, <1>4, <1>5, <1>6 DEF IInv, Types, TypeOK, fixed
  <2>2. Network'
    BY <1>1, <1>5, <1>6 DEF IInv, Network, AppendOK, ResponseOK
  <2> QED
    BY <1>1, <1>6, <2>1, <2>2
       DEF IInv, RaftLogs, MatchReplicated, CommitBacked, Backed, Holders
<1>7. CASE /\ m.success
           /\ matchIndex' = match
           /\ commitIndex' = [commitIndex EXCEPT ![Lead] = commit]
           /\ MaybeAnnounce(Lead, entries[Lead], commit)
  <2>1. /\ match \in [Node -> 0 .. Len] /\ match[Lead] = 0
        /\ \A n \in Node : match[n] <= last[n]
    BY <1>2, <1>3, <1>7 DEF IInv, MatchReplicated, Types, TypeOK
  <2> HIDE DEF match
  <2>2. /\ commit \in 0 .. Len /\ commit >= commitIndex[Lead]
        /\ commit # commitIndex[Lead] => Backed(commit) /\ commit <= last[Lead]
    BY <2>1, MaybeCommitBacked DEF IInv
  <2> HIDE DEF commit
  <2>3. commit <= last[Lead]
    BY <1>3, <2>2 DEF IInv, Types, TypeOK
  <2>4. /\ lastApplied' = [lastApplied EXCEPT ![Lead] = commit]
        /\ log' \in [Node -> [SN -> Batch \cup {None}]]
        /\ \A o \in Node, s \in SN : log'[o][s] # log[o][s] => log'[o][s] = s /\ s <= commit
    <3>1. entries[Lead] \in [Index -> Batch \cup {None}]
      BY <1>3 DEF IInv, Types, TypeOK
    <3>2. \A i \in Index : i <= commit => entries[Lead][i] = i
      BY <1>3, <2>2, <2>3 DEF IInv, RaftLogs, Index
    <3> QED
      BY <1>3, <1>7, <2>2, <3>1, <3>2, MaybeAnnounceOK
  <2>5. \A o \in Node : /\ commitIndex'[o] = IF o = Lead THEN commit ELSE commitIndex[o]
                        /\ lastApplied'[o] = IF o = Lead THEN commit ELSE lastApplied[o]
    BY <1>7, <2>4 DEF IInv, Types
  <2>6. Types'
    <3>1. commitIndex' \in [Node -> 0 .. Len] /\ lastApplied' \in [Node -> 0 .. Len]
      BY <1>7, <2>2, <2>4 DEF IInv, Types
    <3>2. \A o \in Node : lastApplied'[o] = commitIndex'[o] /\ commitIndex'[o] \in 0 .. last'[o]
      BY <1>1, <1>3, <2>2, <2>3, <2>5 DEF IInv, Types, TypeOK
    <3>3. matchIndex' \in [Node -> 0 .. Len]
      BY <1>7, <2>1
    <3> QED
      BY <1>1, <1>4, <1>5, <2>4, <3>1, <3>2, <3>3 DEF IInv, Types, TypeOK, fixed
  <2>7. commitIndex'[Lead] = commit /\ \A n \in Node : last'[n] >= last[n]
    BY <1>1, <1>3, <2>5 DEF IInv, Types
  <2>8. Network'
    <3> SUFFICES ASSUME NEW x \in msgs'
                 PROVE  /\ x.type = "append" => AppendOK(x)'
                        /\ x.type = "response" => ResponseOK(x)'
      BY DEF Network
    <3> QED
      BY <1>5, <2>2, <2>6, <2>7, NetworkStays
  <2>9. CommitBacked'
    <3>1. \A o \in Node : commitIndex'[o] <= commitIndex'[Lead]
      BY <1>3, <2>2, <2>5, <2>7 DEF IInv, CommitBacked, Types
    <3> QED
      BY <2>2, <2>4, <2>6, <2>7, <3>1, CommitBackedStep
  <2>10. MatchReplicated' /\ RaftLogs'
    BY <1>1, <1>7, <2>1 DEF IInv, RaftLogs, MatchReplicated
  <2> QED
    BY <2>6, <2>8, <2>9, <2>10 DEF IInv
<1> QED
  BY <1>1, <1>6, <1>7

LEMMA NewTermOK == ASSUME IInv, NEW n \in Node, NewTerm(n) PROVE IInv' /\ UNCHANGED log
<1>1. /\ status' = [status EXCEPT ![n] = "candidate"] /\ term' = [term EXCEPT ![n] = @ + 1]
      /\ term[n] < MaxTerm
      /\ UNCHANGED <<leaderVars, logVars, timed, blocked, fixed, msgs>>
  BY DEF NewTerm
<1>2. term[n] + 1 \in 0 .. MaxTerm
  BY <1>1, RaftBoundAssumption DEF IInv, Types, TypeOK
<1>3. Types'
  BY <1>1, <1>2 DEF IInv, Types, TypeOK, leaderVars, logVars, fixed
<1>4. Network'
  BY <1>1 DEF IInv, Network, AppendOK, ResponseOK, logVars
<1>5. RaftLogs' /\ MatchReplicated' /\ CommitBacked'
  BY <1>1, Untouched DEF logVars
<1> QED
  BY <1>1, <1>3, <1>4, <1>5 DEF IInv, logVars

LEMMA VoteResponseOK ==
    ASSUME IInv, NEW n \in Node, NEW o \in Node, HandleVoteResponse(n, o)
    PROVE  IInv' /\ UNCHANGED log
<1>1. /\ status' = [status EXCEPT ![n] = "follower"] /\ term' = [term EXCEPT ![n] = term[o]]
      /\ blocked' = blocked \cup {n}
      /\ UNCHANGED <<leaderVars, logVars, timed, fixed, msgs>>
  BY DEF HandleVoteResponse
<1>2. Types'
  BY <1>1 DEF IInv, Types, TypeOK, leaderVars, logVars, fixed
<1>3. Network'
  BY <1>1 DEF IInv, Network, AppendOK, ResponseOK, logVars
<1>4. RaftLogs' /\ MatchReplicated' /\ CommitBacked'
  BY <1>1, Untouched DEF logVars
<1> QED
  BY <1>1, <1>2, <1>3, <1>4 DEF IInv, logVars

LEMMA FindLeaderOK == ASSUME IInv, NEW m \in msgs, FindLeader(m) PROVE IInv' /\ UNCHANGED log
<1>1. /\ m.type = "append" /\ msgs' \subseteq msgs
      /\ status' = [status EXCEPT ![m.to] = "follower"]
      /\ blocked' = blocked \cup {m.to}
      /\ UNCHANGED <<term, leaderVars, logVars, timed, fixed>>
  BY DEF FindLeader, Exchange
<1>2. m.to \in Node
  BY <1>1, MessageType DEF IInv, Types, TypeOK
<1>3. Types'
  BY <1>1, <1>2 DEF IInv, Types, TypeOK, leaderVars, logVars, fixed
<1>4. Network'
  BY <1>1 DEF IInv, Network, AppendOK, ResponseOK, logVars
<1>5. RaftLogs' /\ MatchReplicated' /\ CommitBacked'
  BY <1>1, Untouched DEF logVars
<1> QED
  BY <1>1, <1>3, <1>4, <1>5 DEF IInv, logVars

LEMMA KillSegmentOK == ASSUME IInv, NEW n \in Node, KillSegment(n) PROVE IInv' /\ UNCHANGED log
<1>1. /\ killed' = killed \cup {n} /\ status' = [status EXCEPT ![n] = "follower"]
      /\ UNCHANGED <<term, leaderVars, logVars, timed, blocked, calm, down, msgs>>
  BY DEF KillSegment
<1>2. Types'
  BY <1>1 DEF IInv, Types, TypeOK, leaderVars, logVars
<1>3. Network'
  BY <1>1 DEF IInv, Network, AppendOK, ResponseOK, logVars
<1>4. RaftLogs' /\ MatchReplicated' /\ CommitBacked'
  BY <1>1, Untouched DEF logVars
<1> QED
  BY <1>1, <1>2, <1>3, <1>4 DEF IInv, logVars

\* State transfer files what another node has, which a quorum holds already.
LEMMA MissingEntryOK ==
    ASSUME IInv, NEW n \in Node, NEW s \in SN, HandleMissingEntry(n, s)
    PROVE  IInv'
<1>1. PICK o \in Node : Complete(o) /\ log' = [log EXCEPT ![n][s] = log[o][s]]
  BY DEF HandleMissingEntry
<1>2. UNCHANGED <<term, status, leaderVars, entries, last, commitIndex, lastApplied,
                  timed, blocked, fixed, msgs>>
  BY DEF HandleMissingEntry
<1>3. log[o][s] = s /\ s <= commitIndex[Lead] /\ log[o][s] \in Batch
  BY <1>1 DEF IInv, CommitBacked, Complete, SN, Batch
<1>4. log' \in [Node -> [SN -> Batch \cup {None}]]
  BY <1>1, <1>3 DEF IInv, Types, TypeOK
<1>5. \A p \in Node, r \in SN : log'[p][r] # log[p][r] => log'[p][r] = r /\ r <= commitIndex'[Lead]
  <2> SUFFICES ASSUME NEW p \in Node, NEW r \in SN, log'[p][r] # log[p][r]
               PROVE  log'[p][r] = r /\ r <= commitIndex'[Lead]
    OBVIOUS
  <2>1. p = n /\ r = s /\ log'[p][r] = log[o][s]
    BY <1>1 DEF IInv, Types, TypeOK
  <2> QED
    BY <1>2, <1>3, <2>1
<1>6. Types'
  BY <1>2, <1>4 DEF IInv, Types, TypeOK, leaderVars, fixed
<1>7. Network'
  BY <1>2 DEF IInv, Network, AppendOK, ResponseOK
<1>8. RaftLogs' /\ MatchReplicated'
  BY <1>2 DEF IInv, RaftLogs, MatchReplicated, leaderVars
<1>9. CommitBacked'
  BY <1>2, <1>5 DEF IInv, CommitBacked, Backed, Holders
<1> QED
  BY <1>6, <1>7, <1>8, <1>9 DEF IInv

LEMMA LoseOK == ASSUME IInv, NEW m \in msgs, Lose(m) PROVE IInv' /\ UNCHANGED log
<1>1. msgs' \subseteq msgs /\ UNCHANGED <<term, status, leaderVars, logVars, timed, blocked, fixed>>
  BY DEF Lose, Exchange
<1>2. Types'
  BY <1>1 DEF IInv, Types, TypeOK, leaderVars, logVars, fixed
<1>3. Network'
  BY <1>1 DEF IInv, Network, AppendOK, ResponseOK, logVars
<1>4. RaftLogs' /\ MatchReplicated' /\ CommitBacked'
  BY <1>1, Untouched DEF logVars
<1> QED
  BY <1>1, <1>2, <1>3, <1>4 DEF IInv, logVars

LEMMA StopOK == ASSUME IInv, NEW n \in Node, Stop(n) PROVE IInv' /\ UNCHANGED log
<1>1. /\ down' = down \cup {n}
      /\ UNCHANGED <<term, status, leaderVars, logVars, timed, blocked, calm, killed, msgs>>
  BY DEF Stop
<1>2. Types'
  BY <1>1 DEF IInv, Types, TypeOK, leaderVars, logVars
<1>3. Network'
  BY <1>1 DEF IInv, Network, AppendOK, ResponseOK, logVars
<1>4. RaftLogs' /\ MatchReplicated' /\ CommitBacked'
  BY <1>1, Untouched DEF logVars
<1> QED
  BY <1>1, <1>2, <1>3, <1>4 DEF IInv, logVars

LEMMA StutterOK == ASSUME IInv, UNCHANGED vars PROVE IInv'
<1> USE DEF vars, leaderVars, logVars, fixed
<1>1. Types'
  BY DEF IInv, Types, TypeOK
<1>2. Network'
  BY DEF IInv, Network, AppendOK, ResponseOK
<1>3. RaftLogs' /\ MatchReplicated' /\ CommitBacked'
  BY Untouched
<1> QED
  BY <1>1, <1>2, <1>3 DEF IInv

LEMMA NextOK == IInv /\ [Next]_vars => IInv'
<1> SUFFICES ASSUME IInv, [Next]_vars PROVE IInv'
  OBVIOUS
<1>1. CASE Heartbeat
  BY <1>1, HeartbeatOK
<1>2. ASSUME NEW m \in msgs, Handle(m) PROVE IInv'
  BY <1>2, AppendRequestOK, AppendResponseOK, FindLeaderOK DEF Handle
<1>3. ASSUME NEW m \in msgs, Lose(m) PROVE IInv'
  BY <1>3, LoseOK
<1>4. ASSUME NEW n \in Node, NewTerm(n) \/ Finish(n) \/ Stop(n) PROVE IInv'
  BY <1>4, NewTermOK, KillSegmentOK, MissingEntryOK, StopOK DEF Finish
<1>5. ASSUME NEW n \in Node, NEW o \in Node, HandleVoteResponse(n, o) PROVE IInv'
  BY <1>5, VoteResponseOK
<1>6. CASE UNCHANGED vars
  BY <1>6, StutterOK
<1> QED
  BY <1>1, <1>2, <1>3, <1>4, <1>5, <1>6 DEF Next

-----------------------------------------------------------------------------
(* What a step may do to the logs *)

\* The log of n gets entries where it had none.
RowStep(n) ==
    /\ log' = [log EXCEPT ![n] = log'[n]]
    /\ \A s \in SN : log[n][s] # None => log'[n][s] = log[n][s]

LEMMA MaybeAnnounceRow ==
    ASSUME IInv, NEW n \in Node, NEW es, NEW commit, MaybeAnnounce(n, es, commit)
    PROVE  RowStep(n)
<1> DEFINE row == [s \in SN |-> IF log[n][s] = None /\ s \in lastApplied[n] + 1 .. commit
                                THEN Announced(es, s) ELSE log[n][s]]
<1>1. log \in [Node -> [SN -> Batch \cup {None}]]
  BY DEF IInv, Types, TypeOK
<1>2. log' = [log EXCEPT ![n] = row]
  BY <1>1 DEF MaybeAnnounce
<1>3. \A s \in SN : log[n][s] # None => row[s] = log[n][s]
  OBVIOUS
<1> HIDE DEF row
<1>4. log'[n] = row
  BY <1>1, <1>2
<1> QED
  BY <1>2, <1>3, <1>4 DEF RowStep

LEMMA OneRowChanges ==
    ASSUME IInv, [Next]_vars
    PROVE  UNCHANGED log \/ \E n \in Node : RowStep(n)
<1>1. CASE Heartbeat
  BY <1>1, HeartbeatOK
<1>2. ASSUME NEW m \in msgs, HandleAppendEntryRequest(m)
      PROVE  UNCHANGED log \/ \E n \in Node : RowStep(n)
  <2>1. m.to \in Node
    BY <1>2, MessageType DEF HandleAppendEntryRequest, IInv, Types, TypeOK
  <2>2. UNCHANGED log \/ \E es, commit : MaybeAnnounce(m.to, es, commit)
    BY <1>2 DEF HandleAppendEntryRequest, logVars
  <2> QED
    BY <2>1, <2>2, MaybeAnnounceRow
<1>3. ASSUME NEW m \in msgs, HandleAppendEntryResponse(m)
      PROVE  UNCHANGED log \/ \E n \in Node : RowStep(n)
  <2>1. UNCHANGED log \/ \E es, commit : MaybeAnnounce(Lead, es, commit)
    BY <1>3 DEF HandleAppendEntryResponse
  <2> QED
    BY <2>1, MaybeAnnounceRow, SegmentAssumption
<1>4. ASSUME NEW n \in Node, NEW s \in SN, HandleMissingEntry(n, s) PROVE RowStep(n)
  BY <1>4 DEF HandleMissingEntry, RowStep, IInv, Types, TypeOK
<1>5. ASSUME NEW m \in msgs, FindLeader(m) \/ Lose(m) PROVE UNCHANGED log
  BY <1>5, FindLeaderOK, LoseOK
<1>6. ASSUME NEW n \in Node, NewTerm(n) \/ KillSegment(n) \/ Stop(n) PROVE UNCHANGED log
  BY <1>6, NewTermOK, KillSegmentOK, StopOK
<1>7. ASSUME NEW n \in Node, NEW o \in Node, HandleVoteResponse(n, o) PROVE UNCHANGED log
  BY <1>7, VoteResponseOK
<1>8. CASE UNCHANGED vars
  BY <1>8 DEF vars, logVars
<1> QED
  BY <1>1, <1>2, <1>3, <1>4, <1>5, <1>6, <1>7, <1>8 DEF Next, Handle, Finish

-----------------------------------------------------------------------------
(* Theorems *)

\* Every part of the inductive invariant holds in every reachable state.
THEOREM Invariance == Spec => []IInv
<1>1. Init => IInv
  BY InitOK
<1>2. IInv /\ [Next]_vars => IInv'
  BY NextOK
<1> QED
  BY <1>1, <1>2, PTL DEF Spec

\* The types of the Raft orderer, and that a node applies exactly what it has
\* committed and holds: commit indices never run ahead of a raft log.
THEOREM TypeCorrect == Spec => []TypeOK
<1>1. IInv => TypeOK
  BY DEF IInv, Types
<1> QED
  BY <1>1, Invariance, PTL

\* HandleAppendEntryRequest keeps every raft log a prefix of the leader's, in
\* whatever order entries, copies of them and heartbeats arrive.
THEOREM LogsArePrefixes == Spec => []PrefixOfLeader
<1>1. IInv => PrefixOfLeader
  <2> SUFFICES ASSUME IInv, NEW n \in Node, NEW i \in Index
               PROVE  entries[n][i] = IF i <= last[n] THEN entries[Lead][i] ELSE None
    BY DEF PrefixOfLeader
  <2>1. /\ entries[n][i] = IF i <= last[n] THEN i ELSE None
        /\ entries[Lead][i] = IF i <= last[Lead] THEN i ELSE None
        /\ last[n] <= last[Lead] /\ last[n] \in Int /\ last[Lead] \in Int
    BY SegmentAssumption DEF IInv, RaftLogs, Types
  <2> QED
    BY <2>1 DEF Index
<1> QED
  BY <1>1, Invariance, PTL

\* What maybeCommit lets a node announce is in 2f + 1 raft logs, though each
\* answer replaces the match index of its sender.
THEOREM AnnouncedIsBacked == Spec => []QuorumBacked
<1>1. IInv => QuorumBacked
  <2> SUFFICES ASSUME IInv, NEW n \in Node, NEW s \in SN, log[n][s] # None
               PROVE  Cardinality({m \in Node : entries[m][s] = log[n][s]}) >= 2 * Faults + 1
    BY DEF QuorumBacked
  <2> DEFINE c == commitIndex[Lead]
             H == {m \in Node : entries[m][s] = log[n][s]}
  <2>1. log[n][s] = s /\ s <= c /\ c \in 0 .. Len
    BY SegmentAssumption DEF IInv, CommitBacked, Types
  <2>2. Backed(c)
    BY <2>1 DEF IInv, CommitBacked, SN
  <2>3. Holders(c) \subseteq H
    <3> SUFFICES ASSUME NEW m \in Node, last[m] >= c PROVE entries[m][s] = s
      BY <2>1 DEF Holders
    <3>1. last[m] \in Int /\ s \in Index /\ s <= last[m]
      BY <2>1 DEF IInv, Types, SN, Index
    <3> QED
      BY <3>1 DEF IInv, RaftLogs
  <2>4. IsFiniteSet(H) /\ IsFiniteSet(Holders(c))
    BY SegmentAssumption, FS_Subset DEF Holders
  <2>5. /\ Cardinality(Holders(c)) <= Cardinality(H)
        /\ Cardinality(H) \in Nat /\ Cardinality(Holders(c)) \in Nat
    BY <2>3, <2>4, FS_Subset, FS_CardinalityType
  <2> QED
    BY <2>2, <2>5, FaultsType DEF Backed
<1> QED
  BY <1>1, Invariance, PTL

\* The segment implements SegmentDecision: an entry of a node's log is final, and
\* all nodes get the same one, by Raft or by state transfer.
THEOREM Implements == Spec => ImplementsDecision
<1>1. Init => Decision!Init
  BY DEF Init, Decision!Init
<1>2. IInv /\ IInv' /\ [Next]_vars => [Decision!Next]_log
  <2> SUFFICES ASSUME IInv, IInv', [Next]_vars PROVE [Decision!Next]_log
    OBVIOUS
  <2>1. /\ log \in [Node -> [SN -> Batch \cup {None}]]
        /\ log' \in [Node -> [SN -> Batch \cup {None}]]
    BY DEF IInv, Types, TypeOK
  <2>2. \A n \in Node, s \in SN : /\ log[n][s] # None => log[n][s] = s
                                  /\ log'[n][s] # None => log'[n][s] = s
    BY DEF IInv, CommitBacked
  <2>3. CASE UNCHANGED log
    BY <2>3
  <2>4. ASSUME NEW n \in Node, RowStep(n) PROVE Decision!Next
    <3>1. log'[n] \in Decision!Entries
      BY <2>1 DEF Decision!Entries
    <3>2. \A s \in SN : log[n][s] # None => log'[n][s] = log[n][s]
      BY <2>4 DEF RowStep
    <3>3. \A m \in Node, s \in SN : log'[n][s] # None => log[m][s] \in {None, log'[n][s]}
      BY <2>2
    <3>4. log' = [log EXCEPT ![n] = log'[n]]
      BY <2>4 DEF RowStep
    <3>5. Decision!Decide(n, log'[n])
      BY <3>2, <3>3, <3>4 DEF Decision!Decide
    <3> QED
      BY <3>1, <3>5 DEF Decision!Next
  <2> QED
    BY <2>3, <2>4, OneRowChanges
<1> QED
  <2>1. Spec => []IInv /\ Init /\ [][Next]_vars
    BY Invariance, PTL DEF Spec
  <2> QED
    BY <1>1, <1>2, <2>1, PTL DEF ImplementsDecision, Decision!Spec

=============================================================================
