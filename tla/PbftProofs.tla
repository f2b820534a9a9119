----------------------------- MODULE PbftProofs -----------------------------
(* Theorems about PbftInstance, for any number of SNs, views and batches:    *)
(* only safety is proved.                                                    *)
EXTENDS PbftInstance, FiniteSetTheorems, FunctionTheorems, WellFoundedInduction, TLAPS

-----------------------------------------------------------------------------
(* Helpers *)

Value == Batch \cup {Empty}

LEMMA Parameters ==
    /\ IsFiniteSet(Node) /\ Cardinality(Node) \in Nat /\ Cardinality(Node) # 0
    /\ Faults \in Nat /\ Quorum \in Nat /\ Quorum > 0
    /\ MaxView \in Nat /\ Patience \in 0 .. MaxView /\ 0 \in View /\ View \subseteq Nat
<1>1. Cardinality(Node) \in Nat /\ Cardinality(Node) # 0
  <2>1. Node # {}
    BY SegmentAssumption
  <2> QED
    BY <2>1, SegmentAssumption, FS_CardinalityType, FS_EmptySet
<1>2. Faults \in Nat
  BY <1>1 DEF Faults
<1> QED
  BY <1>1, <1>2, SegmentAssumption, PbftBoundAssumption DEF Quorum, View

LEMMA LeaderIsNode ==
    ASSUME NEW v \in View
    PROVE  Leader(v) \in Node
<1>1. Len(Leaders) \in Nat \ {0}
  BY SegmentAssumption
<1>2. v \in Nat
  BY Parameters
<1>3. (v % Len(Leaders)) + 1 \in 1 .. Len(Leaders)
  BY <1>1, <1>2
<1> QED
  BY <1>3, SegmentAssumption DEF Leader

\* The first of some SNs.
LEMMA HasFirst ==
    ASSUME NEW S \in SUBSET SN, S # {}
    PROVE  First(S) \in S
<1>1. S \subseteq Nat
  BY SegmentAssumption
<1>2. PICK x \in S : \A y \in S : ~ (<<y, x>> \in OpToRel(<, Nat))
  BY <1>1, WFMin, NatLessThanWellFounded
<1>3. \A y \in S : ~ (y < x)
  BY <1>1, <1>2 DEF OpToRel
<1>4. \A y \in S : x <= y
  BY <1>1, <1>3
<1> QED
  BY <1>2, <1>4 DEF First

\* The last of some views.
LEMMA HasLast ==
    ASSUME NEW V \in SUBSET View, V # {}
    PROVE  \E u \in V : \A w \in V : w <= u
<1> DEFINE T == {MaxView - i : i \in V}
<1>1. \A i \in V : i \in Nat /\ MaxView - i \in Nat
  BY Parameters DEF View
<1>2. T \subseteq Nat /\ T # {}
  BY <1>1
<1>3. PICK x \in T : \A y \in T : ~ (<<y, x>> \in OpToRel(<, Nat))
  BY <1>2, WFMin, NatLessThanWellFounded
<1>4. \A y \in T : ~ (y < x)
  BY <1>2, <1>3 DEF OpToRel
<1>5. PICK i \in V : x = MaxView - i
  OBVIOUS
<1>6. \A j \in V : j <= i
  <2> TAKE j \in V
  <2>1. ~ (MaxView - j < MaxView - i)
    BY <1>4, <1>5
  <2> QED
    BY <2>1, <1>1, Parameters
<1> QED
  BY <1>6

LEMMA FirstTimerType ==
    ASSUME NEW bs
    PROVE  FirstTimer(bs) \subseteq SN
<1>1. Uncommitted(bs) \subseteq SN
  BY DEF Uncommitted
<1> QED
  BY <1>1, HasFirst DEF FirstTimer

-----------------------------------------------------------------------------
(* Types *)

VoteMsg == [type : {"PREPARE", "COMMIT"}, from : Node, view : View, sn : SN, digest : Value]
ViewChangeMsg == [type : {"VIEWCHANGE"}, from : Node, view : View \ {0},
                  p : [SN -> Entry \cup {None}], q : [SN -> Entry \cup {None}]]
NewViewMsg == [type : {"NEWVIEW"}, from : Node, view : View \ {0}, s : SUBSET ViewChangeMsg,
               x : [SN -> PrePrepare]]
PrePrepareMsg == [type : {"PREPREPARE"}, from : Node, view : {0}, sn : SN, preprepare : PrePrepare]
CheckpointMsg == [type : {"CHECKPOINT"}, from : Node, digests : [SN -> Value \cup {None}]]
MissingReqMsg == [type : {"MISSINGREQ"}, from : Node, to : Node, sn : SN, view : View]
MissingPPMsg == [type : {"MISSINGPP"}, to : Node, sn : SN, preprepare : PrePrepare]

Message == VoteMsg \cup ViewChangeMsg \cup NewViewMsg \cup PrePrepareMsg \cup CheckpointMsg
             \cup MissingReqMsg \cup MissingPPMsg

Info == [s : SUBSET ViewChangeMsg, newView : BOOLEAN, enoughViewChanges : BOOLEAN,
         fetchingMissingPreprepares : BOOLEAN, reproposeBatches : [SN -> Reproposal \cup {None}]]

\* A slot that is proposed or committed has a digest, one that is prepared was proposed.
SlotShape(b) ==
    /\ b.preprepareMsg # None \/ b.committed => b.digest # None
    /\ b.prepared => b.preprepareMsg # None

\* What is proposed again was chosen for all SNs, by the leader of the view.
InfoShape(k, v, i) ==
    /\ i.fetchingMissingPreprepares => i.enoughViewChanges
    /\ i.enoughViewChanges => v > 0 /\ k = Leader(v) /\ \A s \in SN : i.reproposeBatches[s] # None

\* TypeOK, with the functions and messages that it only bounds.
Types ==
    /\ view \in [Node -> View]
    /\ inViewChange \in [Node -> BOOLEAN]
    /\ batches \in [Node -> [View -> [SN -> Slot]]]
    /\ viewChange \in [Node -> [View -> Info]]
    /\ timers \in [Node -> SUBSET (SN \cup {NewViewTimer, CheckpointTimer})]
    /\ finalDigests \in [Node -> {"none", "known", "caughtup"}]
    /\ fetching \in [Node -> SUBSET SN]
    /\ log \in [Node -> [SN -> LogEntry \cup {None}]]
    /\ down \subseteq Node
    /\ msgs \subseteq Message

Shapes ==
    /\ \A k \in Node, v \in View, s \in SN : SlotShape(batches[k][v][s])
    /\ \A k \in Node, v \in View :
         InfoShape(k, v, viewChange[k][v]) /\ viewChange[k][v].s \subseteq ViewChanges(v)

TypeInv == Types /\ Shapes

LEMMA TypeInvType == TypeInv => TypeOK
BY DEF TypeInv, Types, Shapes, TypeOK, Info, ViewChanges

\* What a message is, by its type.
LEMMA MessageType ==
    ASSUME msgs \subseteq Message, NEW m \in msgs
    PROVE  /\ m.type \in {"PREPARE", "COMMIT"} => m \in VoteMsg
           /\ m.type = "VIEWCHANGE" => m \in ViewChangeMsg
           /\ m.type = "NEWVIEW" => m \in NewViewMsg
           /\ m.type = "PREPREPARE" => m \in PrePrepareMsg
           /\ m.type = "CHECKPOINT" => m \in CheckpointMsg
           /\ m.type = "MISSINGREQ" => m \in MissingReqMsg
           /\ m.type = "MISSINGPP" => m \in MissingPPMsg
<1>1. m \in Message
  OBVIOUS
<1> QED
  BY <1>1 DEF Message, VoteMsg, ViewChangeMsg, NewViewMsg, PrePrepareMsg, CheckpointMsg,
              MissingReqMsg, MissingPPMsg

\* Sets that messages are counted by.
LEMMA VotesType ==
    ASSUME TypeInv, NEW kind \in {"PREPARE", "COMMIT"}, NEW v, NEW s, NEW d
    PROVE  Votes(kind, v, s, d) \subseteq {k \in Node : Vote(kind, k, v, s, d) \in msgs}
<1> SUFFICES ASSUME NEW m \in msgs, m.type = kind, m.view = v, m.sn = s, m.digest = d
             PROVE  m.from \in Node /\ Vote(kind, m.from, v, s, d) \in msgs
  BY DEF Votes
<1>1. m \in VoteMsg
  BY MessageType DEF TypeInv, Types
<1>2. m = Vote(kind, m.from, v, s, d)
  BY <1>1 DEF VoteMsg, Vote
<1> QED
  BY <1>1, <1>2 DEF VoteMsg

LEMMA StartViewType ==
    ASSUME TypeInv, NEW n \in Node, NEW v \in View
    PROVE  /\ StartView(n, v) \in [SN -> Slot]
           /\ \A s \in SN : /\ SlotShape(StartView(n, v)[s])
                            /\ StartView(n, v)[s].preprepareMsg = None
                            /\ ~StartView(n, v)[s].prepared
<1> SUFFICES ASSUME NEW s \in SN
             PROVE  /\ StartView(n, v)[s] \in Slot /\ SlotShape(StartView(n, v)[s])
                    /\ StartView(n, v)[s].preprepareMsg = None /\ ~StartView(n, v)[s].prepared
  BY DEF StartView
<1> DEFINE b == batches[n][view[n]][s]
<1>1. b \in Slot /\ SlotShape(b)
  BY DEF TypeInv, Types, Shapes
<1>2. StartView(n, v)[s] = IF b.committed
                           THEN [NewSlot EXCEPT !.committed = TRUE, !.digest = b.digest]
                           ELSE NewSlot
  BY DEF StartView
<1>3. StartView(n, v)[s] = [preprepareMsg |-> None, digest |-> IF b.committed THEN b.digest ELSE None,
                            prepared |-> FALSE, committed |-> b.committed]
  BY <1>1, <1>2 DEF Slot, NewSlot
<1>4. b.committed \in BOOLEAN /\ b.digest \in Batch \cup {Empty, None}
      /\ (b.committed => b.digest # None)
  BY <1>1 DEF Slot, SlotShape
<1> HIDE DEF b
<1> QED
  BY <1>3, <1>4 DEF Slot, SlotShape

\* An entry of a Pset or Qset.
LEMMA LatestEntryType ==
    ASSUME TypeInv, NEW n \in Node, NEW s \in SN, NEW V \in SUBSET View,
           \A u \in V : batches[n][u][s].digest # None
    PROVE  /\ LatestEntry(n, s, V) \in Entry \cup {None}
           /\ LatestEntry(n, s, V) = None <=> V = {}
           /\ V # {} => \E u \in V : /\ \A w \in V : w <= u
                                     /\ LatestEntry(n, s, V) = [view |-> u, digest |-> batches[n][u][s].digest]
<1>1. CASE V = {}
  BY <1>1 DEF LatestEntry
<1>2. CASE V # {}
  <2> DEFINE u == CHOOSE w \in V : \A x \in V : x <= w
  <2>1. u \in V /\ \A x \in V : x <= u
    BY <1>2, HasLast
  <2>2. LatestEntry(n, s, V) = [view |-> u, digest |-> batches[n][u][s].digest]
    BY <1>2 DEF LatestEntry
  <2>3. batches[n][u][s] \in Slot
    BY <2>1 DEF TypeInv, Types
  <2>4. batches[n][u][s].digest \in Value
    BY <2>1, <2>3 DEF Slot, Value
  <2>5. [view |-> u, digest |-> batches[n][u][s].digest] \in Entry
    BY <2>1, <2>4 DEF Entry, Value
  <2> QED
    BY <1>2, <2>1, <2>2, <2>5, NoneAssumption
<1> QED
  BY <1>1, <1>2

LEMMA PsetType ==
    ASSUME TypeInv, NEW n \in Node, NEW v \in View
    PROVE  /\ Pset(n, v) \in [SN -> Entry \cup {None}]
           /\ Qset(n, v) \in [SN -> Entry \cup {None}]
<1> SUFFICES ASSUME NEW s \in SN
             PROVE  Pset(n, v)[s] \in Entry \cup {None} /\ Qset(n, v)[s] \in Entry \cup {None}
  BY DEF Pset, Qset
<1> DEFINE P == {u \in 0 .. v - 1 : batches[n][u][s].prepared}
           Q == {u \in 0 .. v - 1 : batches[n][u][s].preprepareMsg # None}
<1>1. 0 .. v - 1 \subseteq View
  BY Parameters DEF View
<1>2. \A u \in P \cup Q : batches[n][u][s].digest # None
  BY <1>1 DEF TypeInv, Shapes, SlotShape
<1>3. P \subseteq View /\ Q \subseteq View
  BY <1>1
<1>4. Pset(n, v)[s] = LatestEntry(n, s, P) /\ Qset(n, v)[s] = LatestEntry(n, s, Q)
  BY DEF Pset, Qset
<1> HIDE DEF P, Q
<1> QED
  BY <1>2, <1>3, <1>4, LatestEntryType

\* A choice is an entry of a VIEWCHANGE.
LEMMA ChoiceType ==
    ASSUME NEW S \in SUBSET ViewChangeMsg, NEW s \in SN, NEW p \in Choices(S, s)
    PROVE  p \in Entry \cup {None}
<1>1. p = None \/ p \in Prepared(S, s)
  BY DEF Choices
<1>2. Prepared(S, s) \subseteq Entry
  BY DEF Prepared, ViewChangeMsg
<1> QED
  BY <1>1, <1>2

LEMMA FindBatchType ==
    ASSUME TypeInv, NEW n \in Node, NEW v \in View, NEW s \in SN
    PROVE  \/ FindBatch(n, v, s) = NewSlot
           \/ \E u \in 0 .. v - 1 : /\ FindBatch(n, v, s) = batches[n][u][s]
                                    /\ batches[n][u][s].preprepareMsg # None
                                    /\ \A w \in 0 .. v - 1 : batches[n][w][s].preprepareMsg # None => w <= u
<1> DEFINE V == {u \in 0 .. v - 1 : batches[n][u][s].preprepareMsg # None}
<1>1. V \subseteq View
  BY Parameters DEF View
<1>2. CASE V = {}
  BY <1>2 DEF FindBatch
<1>3. CASE V # {}
  <2> DEFINE u == CHOOSE w \in V : \A x \in V : x <= w
  <2>1. u \in V /\ \A x \in V : x <= u
    BY <1>1, <1>3, HasLast
  <2>2. FindBatch(n, v, s) = batches[n][u][s]
    BY <1>3 DEF FindBatch
  <2> QED
    BY <2>1, <2>2
<1> QED
  BY <1>2, <1>3

\* What a leader proposes for a choice: the empty batch; what it has, and that may be
\* another batch than the digest it compares; or nothing but the digest.
LEMMA ReproposeType ==
    ASSUME TypeInv, NEW n \in Node, NEW v \in View, NEW s \in SN, NEW p \in Entry \cup {None}
    PROVE  /\ Repropose(n, v, s, p) \in Reproposal
           /\ p = None => /\ Repropose(n, v, s, p).digest = Empty
                          /\ Repropose(n, v, s, p).preprepareMsg.batch = Empty
                          /\ ~Repropose(n, v, s, p).committed
           /\ p # None /\ Repropose(n, v, s, p).preprepareMsg = None
                => Repropose(n, v, s, p).digest = p.digest /\ ~Repropose(n, v, s, p).committed
           /\ p # None /\ Repropose(n, v, s, p).preprepareMsg # None
                => \E u \in 0 .. v - 1 :
                     /\ batches[n][u][s].preprepareMsg # None
                     /\ \A w \in 0 .. v - 1 : batches[n][w][s].preprepareMsg # None => w <= u
                     /\ batches[n][u][s].digest = p.digest
                     /\ Repropose(n, v, s, p).preprepareMsg.batch = batches[n][u][s].preprepareMsg.batch
                     /\ Repropose(n, v, s, p).digest = batches[n][u][s].preprepareMsg.batch
                     /\ Repropose(n, v, s, p).committed = batches[n][u][s].committed
<1> DEFINE found == FindBatch(n, v, s)
           r == Repropose(n, v, s, p)
<1>0. 0 .. v - 1 \subseteq View
  BY Parameters DEF View
<1>1. CASE p = None
  <2>1. r = [preprepareMsg |-> [view |-> v, batch |-> Empty, aborted |-> TRUE],
             digest |-> Empty, committed |-> FALSE]
    BY <1>1 DEF Repropose
  <2> QED
    BY <1>1, <2>1 DEF Reproposal, PrePrepare
<1>2. CASE p # None /\ found.digest = p.digest
  <2>1. p \in Entry /\ p.digest \in Value
    BY <1>2 DEF Entry, Value
  <2>2. found # NewSlot
    BY <1>2, <2>1, SegmentAssumption DEF NewSlot, Value
  <2>3. PICK u \in 0 .. v - 1 : /\ found = batches[n][u][s]
                                /\ batches[n][u][s].preprepareMsg # None
                                /\ \A w \in 0 .. v - 1 : batches[n][w][s].preprepareMsg # None => w <= u
    BY <2>2, FindBatchType, Zenon
  <2>4. batches[n][u][s] \in Slot
    <3>1. u \in View
      BY <1>0
    <3> QED
      BY <3>1 DEF TypeInv, Types
  <2>5. batches[n][u][s].preprepareMsg \in PrePrepare
    BY <2>3, <2>4 DEF Slot
  <2>6. r = [preprepareMsg |-> [view |-> v, batch |-> found.preprepareMsg.batch, aborted |-> FALSE],
             digest |-> found.preprepareMsg.batch, committed |-> found.committed]
    BY <1>2 DEF Repropose
  <2> HIDE DEF found
  <2>7. r.preprepareMsg = [view |-> v, batch |-> batches[n][u][s].preprepareMsg.batch, aborted |-> FALSE]
    BY <2>3, <2>6
  <2>8. r.preprepareMsg \in PrePrepare
    BY <2>5, <2>7 DEF PrePrepare
  <2>9. r \in Reproposal
    BY <2>3, <2>4, <2>5, <2>6, <2>8 DEF Reproposal, PrePrepare, Slot
  <2>10. r.preprepareMsg # None
    BY <2>8, NoneAssumption
  <2> HIDE DEF r
  <2>11. /\ r.preprepareMsg.batch = batches[n][u][s].preprepareMsg.batch
         /\ r.digest = batches[n][u][s].preprepareMsg.batch
         /\ r.committed = batches[n][u][s].committed
         /\ batches[n][u][s].digest = p.digest
    BY <1>2, <2>3, <2>6, <2>7
  <2> QED
    BY <1>2, <2>3, <2>9, <2>10, <2>11 DEF r
<1>3. CASE p # None /\ found.digest # p.digest
  <2>1. r = [preprepareMsg |-> None, digest |-> p.digest, committed |-> FALSE]
    BY <1>3 DEF Repropose
  <2>2. p \in Entry
    BY <1>3
  <2> QED
    BY <1>3, <2>1, <2>2 DEF Reproposal, Entry
<1> QED
  BY <1>1, <1>2, <1>3

-----------------------------------------------------------------------------
(* Steps *)

\* Every step of a node is about one view, the one it is in after the step: it gets
\* a new row of slots and a new viewChangeInfo, which may be the old ones.
Put(n, w, f, i) ==
    /\ view' = [view EXCEPT ![n] = w]
    /\ batches' = [batches EXCEPT ![n][w] = f]
    /\ viewChange' = [viewChange EXCEPT ![n][w] = i]
    /\ msgs \subseteq msgs'

Row(f) == f \in [SN -> Slot] /\ \A s \in SN : SlotShape(f[s])

\* The rest of the state has its types.
Others ==
    /\ inViewChange \in [Node -> BOOLEAN]
    /\ timers \in [Node -> SUBSET (SN \cup {NewViewTimer, CheckpointTimer})]
    /\ finalDigests \in [Node -> {"none", "known", "caughtup"}]
    /\ fetching \in [Node -> SUBSET SN]
    /\ log \in [Node -> [SN -> LogEntry \cup {None}]]
    /\ down \subseteq Node

LEMMA OthersType == TypeInv => Others
BY DEF TypeInv, Types, Others

LEMMA ViewType ==
    ASSUME TypeInv, NEW n \in Node
    PROVE  view[n] \in View
BY DEF TypeInv, Types

LEMMA RowType ==
    ASSUME TypeInv, NEW n \in Node, NEW v \in View
    PROVE  /\ Row(batches[n][v])
           /\ viewChange[n][v] \in Info /\ InfoShape(n, v, viewChange[n][v])
           /\ viewChange[n][v].s \subseteq ViewChanges(v)
           /\ view[n] \in View
BY DEF TypeInv, Types, Shapes, Row

\* What Put leaves as it is.
LEMMA PutFrame ==
    ASSUME TypeInv, NEW n \in Node, NEW w \in View, NEW f, NEW i, Put(n, w, f, i)
    PROVE  /\ view' \in [Node -> View] /\ view'[n] = w
           /\ \A k \in Node : k # n => view'[k] = view[k]
           /\ batches'[n][w] = f /\ viewChange'[n][w] = i
           /\ \A k \in Node, v \in View : k # n \/ v # w =>
                batches'[k][v] = batches[k][v] /\ viewChange'[k][v] = viewChange[k][v]
BY DEF TypeInv, Types, Put

LEMMA PutTypes ==
    ASSUME TypeInv, NEW n \in Node, NEW w \in View, NEW f, NEW i, Put(n, w, f, i),
           Row(f), i \in Info, InfoShape(n, w, i), i.s \subseteq ViewChanges(w),
           msgs' \subseteq Message, Others'
    PROVE  TypeInv'
<1>1. batches' \in [Node -> [View -> [SN -> Slot]]]
  BY DEF TypeInv, Types, Put, Row
<1>2. viewChange' \in [Node -> [View -> Info]]
  BY DEF TypeInv, Types, Put
<1>3. Types'
  BY <1>1, <1>2, PutFrame DEF Types, Others
<1>4. ASSUME NEW k \in Node, NEW v \in View
      PROVE  /\ \A s \in SN : SlotShape(batches'[k][v][s])
             /\ InfoShape(k, v, viewChange'[k][v]) /\ viewChange'[k][v].s \subseteq ViewChanges(v)'
  <2>1. ViewChanges(v) \subseteq ViewChanges(v)'
    BY DEF ViewChanges, Put
  <2>2. CASE k = n /\ v = w
    BY <2>1, <2>2, PutFrame DEF Row
  <2>3. CASE k # n \/ v # w
    BY <2>1, <2>3, PutFrame DEF TypeInv, Shapes
  <2> QED
    BY <2>2, <2>3
<1>5. Shapes'
  BY <1>4 DEF Shapes, SlotShape, InfoShape
<1> QED
  BY <1>3, <1>5 DEF TypeInv

\* The rows that the handlers write.
ProposedRow(row, s, pp) ==
    [row EXCEPT ![s] = [row[s] EXCEPT !.preprepareMsg = pp, !.digest = pp.batch]]
PreparedRow(row, s) == [row EXCEPT ![s] = [row[s] EXCEPT !.prepared = TRUE]]
AnnouncedRow(row, s, d) == [row EXCEPT ![s] = [row[s] EXCEPT !.committed = TRUE, !.digest = d]]
StartRow(n, w) == IF w = view[n] THEN batches[n][w] ELSE StartView(n, w)
ReproposedRow(row, rs) ==
    [s \in SN |-> [preprepareMsg |-> rs[s].preprepareMsg, digest |-> rs[s].digest,
                   prepared |-> row[s].prepared, committed |-> rs[s].committed]]
NewViewRow(row, x) ==
    [s \in SN |-> IF row[s].committed
                  THEN [row[s] EXCEPT !.preprepareMsg = x[s]]
                  ELSE [row[s] EXCEPT !.preprepareMsg = x[s], !.digest = x[s].batch]]

\* The slots that they write.
LEMMA SlotProposed ==
    ASSUME NEW b \in Slot, NEW pp \in PrePrepare,
           NEW c, c = [b EXCEPT !.preprepareMsg = pp, !.digest = pp.batch]
    PROVE  /\ c \in Slot /\ c.preprepareMsg = pp /\ c.digest = pp.batch
           /\ c.prepared = b.prepared /\ c.committed = b.committed
<1>1. pp.batch \in Batch \cup {Empty}
  BY DEF PrePrepare
<1> QED
  BY <1>1 DEF Slot

LEMMA SlotPrepared ==
    ASSUME NEW b \in Slot, NEW c, c = [b EXCEPT !.prepared = TRUE]
    PROVE  /\ c \in Slot /\ c.preprepareMsg = b.preprepareMsg /\ c.digest = b.digest
           /\ c.prepared /\ c.committed = b.committed
BY DEF Slot

LEMMA SlotCommitted ==
    ASSUME NEW b \in Slot, NEW d \in Value, NEW c, c = [b EXCEPT !.committed = TRUE, !.digest = d]
    PROVE  /\ c \in Slot /\ c.preprepareMsg = b.preprepareMsg /\ c.digest = d
           /\ c.prepared = b.prepared /\ c.committed
BY DEF Slot, Value

LEMMA SlotReopened ==
    ASSUME NEW b \in Slot, NEW pp \in PrePrepare, NEW c, c = [b EXCEPT !.preprepareMsg = pp]
    PROVE  /\ c \in Slot /\ c.preprepareMsg = pp /\ c.digest = b.digest
           /\ c.prepared = b.prepared /\ c.committed = b.committed
BY DEF Slot

LEMMA RowTypes ==
    ASSUME NEW row, Row(row), NEW s \in SN
    PROVE  /\ \A pp \in PrePrepare : Row(ProposedRow(row, s, pp))
           /\ row[s].preprepareMsg # None => Row(PreparedRow(row, s))
           /\ \A d \in Value : Row(AnnouncedRow(row, s, d))
<1>0. row \in [SN -> Slot] /\ (\A t \in SN : SlotShape(row[t])) /\ row[s] \in Slot
  BY DEF Row
<1>a. ASSUME NEW b \in Slot, SlotShape(b) PROVE Row([row EXCEPT ![s] = b])
  BY <1>0, <1>a DEF Row
<1>1. ASSUME NEW pp \in PrePrepare PROVE Row(ProposedRow(row, s, pp))
  <2>1. pp # None /\ pp.batch # None
    BY NoneAssumption, SegmentAssumption DEF PrePrepare
  <2>b. PICK b : b = [row[s] EXCEPT !.preprepareMsg = pp, !.digest = pp.batch]
    OBVIOUS
  <2>2. b \in Slot /\ b.preprepareMsg = pp /\ b.digest = pp.batch
    BY <1>0, <2>b, SlotProposed
  <2>3. SlotShape(b)
    BY <2>1, <2>2 DEF SlotShape
  <2> QED
    BY <1>a, <2>b, <2>2, <2>3 DEF ProposedRow
<1>2. ASSUME row[s].preprepareMsg # None PROVE Row(PreparedRow(row, s))
  <2>b. PICK b : b = [row[s] EXCEPT !.prepared = TRUE]
    OBVIOUS
  <2>1. b \in Slot /\ b.preprepareMsg = row[s].preprepareMsg /\ b.digest = row[s].digest
        /\ b.committed = row[s].committed
    BY <1>0, <2>b, SlotPrepared
  <2>2. SlotShape(b)
    BY <1>0, <1>2, <2>1 DEF SlotShape
  <2> QED
    BY <1>a, <2>b, <2>1, <2>2 DEF PreparedRow
<1>3. ASSUME NEW d \in Value PROVE Row(AnnouncedRow(row, s, d))
  <2>1. d # None
    BY SegmentAssumption DEF Value
  <2>b. PICK b : b = [row[s] EXCEPT !.committed = TRUE, !.digest = d]
    OBVIOUS
  <2>c. PICK c : c = row[s]
    OBVIOUS
  <2>d. c \in Slot /\ b = [c EXCEPT !.committed = TRUE, !.digest = d]
    BY <1>0, <2>b, <2>c
  <2>e. /\ b \in Slot /\ b.preprepareMsg = c.preprepareMsg /\ b.digest = d
        /\ b.prepared = c.prepared /\ b.committed
    BY <2>d DEF Slot, Value
  <2>2. b \in Slot /\ b.preprepareMsg = row[s].preprepareMsg /\ b.digest = d
        /\ b.prepared = row[s].prepared
    BY <2>c, <2>e
  <2>3. SlotShape(b)
    BY <1>0, <2>1, <2>2 DEF SlotShape
  <2> QED
    BY <1>a, <2>b, <2>2, <2>3 DEF AnnouncedRow
<1> QED
  BY <1>1, <1>2, <1>3

LEMMA NewViewRowType ==
    ASSUME NEW row, Row(row), NEW x \in [SN -> PrePrepare]
    PROVE  /\ Row(NewViewRow(row, x))
           /\ \A s \in SN :
                LET b == NewViewRow(row, x)[s]
                IN  /\ b.preprepareMsg = x[s] /\ b.preprepareMsg # None
                    /\ b.digest = IF row[s].committed THEN row[s].digest ELSE x[s].batch
                    /\ b.prepared = row[s].prepared /\ b.committed = row[s].committed
<1>1. ASSUME NEW s \in SN, NEW b, b = NewViewRow(row, x)[s]
      PROVE  /\ b \in Slot /\ SlotShape(b)
             /\ b.preprepareMsg = x[s] /\ b.preprepareMsg # None
             /\ b.digest = IF row[s].committed THEN row[s].digest ELSE x[s].batch
             /\ b.prepared = row[s].prepared /\ b.committed = row[s].committed
  <2>1. row[s] \in Slot /\ SlotShape(row[s]) /\ x[s] \in PrePrepare
    BY DEF Row
  <2>2. x[s] # None /\ x[s].batch # None
    BY <2>1, NoneAssumption, SegmentAssumption DEF PrePrepare
  <2>3. b = IF row[s].committed
            THEN [row[s] EXCEPT !.preprepareMsg = x[s]]
            ELSE [row[s] EXCEPT !.preprepareMsg = x[s], !.digest = x[s].batch]
    BY <1>1 DEF NewViewRow
  <2>4. CASE row[s].committed
    <3>1. b = [row[s] EXCEPT !.preprepareMsg = x[s]]
      BY <2>3, <2>4
    <3>2. /\ b \in Slot /\ b.preprepareMsg = x[s] /\ b.digest = row[s].digest
          /\ b.prepared = row[s].prepared /\ b.committed = row[s].committed
      BY <2>1, <3>1, SlotReopened
    <3>3. SlotShape(b)
      BY <2>1, <2>2, <2>4, <3>2 DEF SlotShape
    <3> QED
      BY <2>2, <2>4, <3>2, <3>3
  <2>5. CASE ~row[s].committed
    <3>1. b = [row[s] EXCEPT !.preprepareMsg = x[s], !.digest = x[s].batch]
      BY <2>3, <2>5
    <3>2. /\ b \in Slot /\ b.preprepareMsg = x[s] /\ b.digest = x[s].batch
          /\ b.prepared = row[s].prepared /\ b.committed = row[s].committed
      <4>1. PICK c, pp : c = row[s] /\ pp = x[s]
        OBVIOUS
      <4>2. c \in Slot /\ pp \in PrePrepare /\ b = [c EXCEPT !.preprepareMsg = pp, !.digest = pp.batch]
        BY <2>1, <3>1, <4>1
      <4>3. /\ b \in Slot /\ b.preprepareMsg = pp /\ b.digest = pp.batch
            /\ b.prepared = c.prepared /\ b.committed = c.committed
        BY <4>2 DEF Slot, PrePrepare
      <4> QED
        BY <4>1, <4>3
    <3>3. SlotShape(b)
      BY <2>1, <2>2, <3>2 DEF SlotShape
    <3> QED
      BY <2>2, <2>5, <3>2, <3>3
  <2> QED
    BY <2>4, <2>5
<1>2. NewViewRow(row, x) \in [SN -> Slot]
  BY <1>1 DEF NewViewRow
<1> QED
  BY <1>1, <1>2 DEF Row

LEMMA StartRowType ==
    ASSUME TypeInv, NEW n \in Node, NEW w \in View
    PROVE  Row(StartRow(n, w))
BY RowType, StartViewType DEF StartRow, Row

LEMMA ReproposedRowType ==
    ASSUME NEW row, Row(row), NEW rs \in [SN -> Reproposal], \A s \in SN : rs[s].preprepareMsg # None
    PROVE  Row(ReproposedRow(row, rs))
<1> SUFFICES ASSUME NEW s \in SN
             PROVE  ReproposedRow(row, rs)[s] \in Slot /\ SlotShape(ReproposedRow(row, rs)[s])
  BY DEF Row, ReproposedRow
<1>1. row[s] \in Slot /\ rs[s] \in Reproposal
  BY DEF Row
<1>2. rs[s].digest # None
  BY <1>1, SegmentAssumption DEF Reproposal
<1> QED
  BY <1>1, <1>2 DEF ReproposedRow, Slot, SlotShape, Reproposal

\* The kinds of the messages that a step adds.
Sends(kinds) == \A m \in msgs' : m \in msgs \/ m.type \in kinds

LEMMA MessagesType == TypeInv => msgs \subseteq Message
BY DEF TypeInv, Types

LEMMA VoteType ==
    ASSUME NEW kind \in {"PREPARE", "COMMIT"}, NEW n \in Node, NEW v \in View, NEW s \in SN, NEW d \in Value
    PROVE  Vote(kind, n, v, s, d) \in VoteMsg /\ Vote(kind, n, v, s, d).type = kind
BY DEF Vote, VoteMsg

\* A slot of a row is written.
LEMMA RowUpdate ==
    ASSUME TypeInv, NEW n \in Node, NEW v \in View, NEW s \in SN, NEW b
    PROVE  [batches EXCEPT ![n][v][s] = b] = [batches EXCEPT ![n][v] = [batches[n][v] EXCEPT ![s] = b]]
BY DEF TypeInv, Types

LEMMA ProposeStep ==
    ASSUME TypeInv, NEW n \in Node, NEW s \in SN, NEW b \in Batch, Propose(n, s, b)
    PROVE  \E pp \in PrePrepare :
             /\ view[n] = 0 /\ 0 \in View /\ batches[n][0][s].preprepareMsg = None
             /\ Put(n, 0, ProposedRow(batches[n][0], s, pp), viewChange[n][0])
             /\ Sends({"PREPREPARE"}) /\ log' = log /\ TypeInv'
<1> DEFINE pp == [view |-> 0, batch |-> b, aborted |-> FALSE]
           m == [type |-> "PREPREPARE", from |-> n, view |-> 0, sn |-> s, preprepare |-> pp]
           row == batches[n][0]
<1>1. 0 \in View /\ view[n] = 0 /\ row[s].preprepareMsg = None /\ log' = log
  BY Parameters DEF Propose
<1>2. pp \in PrePrepare /\ pp.batch = b
  BY <1>1 DEF PrePrepare
<1>3. msgs' = msgs \cup {m} /\ m \in PrePrepareMsg /\ m.type = "PREPREPARE"
  BY <1>1, <1>2 DEF Propose, Send, PrePrepareMsg
<1>4. Row(row)
  BY <1>1, RowType
<1>5. batches' = [batches EXCEPT ![n][0] = ProposedRow(row, s, pp)]
  <2>1. batches' = [batches EXCEPT ![n][0][s] = [row[s] EXCEPT !.preprepareMsg = pp, !.digest = pp.batch]]
    BY <1>2 DEF Propose
  <2> QED
    BY <1>1, <2>1, RowUpdate DEF ProposedRow
<1>6. Put(n, 0, ProposedRow(row, s, pp), viewChange[n][0])
  <2>1. view' = view /\ viewChange' = viewChange
    BY DEF Propose
  <2>2. view \in [Node -> View] /\ viewChange \in [Node -> [View -> Info]]
    BY DEF TypeInv, Types
  <2> QED
    BY <1>1, <1>3, <1>5, <2>1, <2>2 DEF Put
<1>7. Others'
  BY OthersType DEF Others, Propose
<1>8. msgs' \subseteq Message
  BY <1>3, MessagesType DEF Message
<1>9. TypeInv'
  BY <1>1, <1>2, <1>4, <1>6, <1>7, <1>8, PutTypes, RowTypes, RowType
<1>10. Sends({"PREPREPARE"})
  BY <1>3 DEF Sends
<1> QED
  BY <1>1, <1>2, <1>6, <1>9, <1>10

LEMMA HandlePreprepareStep ==
    ASSUME TypeInv, NEW n \in Node, NEW m \in msgs, HandlePreprepare(n, m)
    PROVE  /\ m.sn \in SN /\ m.preprepare \in PrePrepare /\ m.preprepare.batch \in Value
           /\ view[n] = 0 /\ 0 \in View
           /\ batches[n][0][m.sn].preprepareMsg = None /\ ~batches[n][0][m.sn].committed
           /\ Put(n, 0, ProposedRow(batches[n][0], m.sn, m.preprepare), viewChange[n][0])
           /\ msgs' = msgs \cup {Vote("PREPARE", n, 0, m.sn, m.preprepare.batch)}
           /\ log' = log /\ TypeInv'
<1> DEFINE row == batches[n][0]
<1>1. m \in PrePrepareMsg
  BY MessageType, MessagesType DEF HandlePreprepare
<1>2. m.sn \in SN /\ m.preprepare \in PrePrepare /\ m.view = 0
  BY <1>1 DEF PrePrepareMsg
<1>3. m.preprepare.batch \in Value
  BY <1>2 DEF PrePrepare, Value
<1>4. 0 \in View /\ view[n] = 0 /\ row[m.sn].preprepareMsg = None /\ ~row[m.sn].committed /\ log' = log
  BY <1>2, Parameters DEF HandlePreprepare, Active
<1>5. msgs' = msgs \cup {Vote("PREPARE", n, 0, m.sn, m.preprepare.batch)}
  BY DEF HandlePreprepare, Send
<1>6. Row(row)
  BY <1>4, RowType
<1>7. batches' = [batches EXCEPT ![n][0] = ProposedRow(row, m.sn, m.preprepare)]
  <2>1. batches' = [batches EXCEPT ![n][0][m.sn] = [row[m.sn] EXCEPT !.preprepareMsg = m.preprepare,
                                                                     !.digest = m.preprepare.batch]]
    BY DEF HandlePreprepare
  <2> QED
    BY <1>2, <1>4, <2>1, RowUpdate DEF ProposedRow
<1>8. Put(n, 0, ProposedRow(row, m.sn, m.preprepare), viewChange[n][0])
  <2>1. view' = view /\ viewChange' = viewChange
    BY DEF HandlePreprepare
  <2>2. view \in [Node -> View] /\ viewChange \in [Node -> [View -> Info]]
    BY DEF TypeInv, Types
  <2> QED
    BY <1>4, <1>5, <1>7, <2>1, <2>2 DEF Put
<1>9. Others'
  BY OthersType DEF Others, HandlePreprepare
<1>10. msgs' \subseteq Message
  <2>1. Vote("PREPARE", n, 0, m.sn, m.preprepare.batch) \in VoteMsg
    BY <1>2, <1>3, <1>4, VoteType
  <2> QED
    BY <1>5, <2>1, MessagesType DEF Message
<1>11. TypeInv'
  BY <1>2, <1>4, <1>6, <1>8, <1>9, <1>10, PutTypes, RowTypes, RowType
<1> QED
  BY <1>2, <1>3, <1>4, <1>5, <1>8, <1>11

LEMMA HandlePrepareStep ==
    ASSUME TypeInv, NEW n \in Node, NEW s \in SN, HandlePrepare(n, s)
    PROVE  LET v == view[n]
               b == batches[n][v][s]
           IN  /\ v \in View /\ b.digest \in Value /\ b.preprepareMsg # None /\ ~b.prepared
               /\ Cardinality(Votes("PREPARE", v, s, b.digest)) >= 2 * Faults
               /\ Put(n, v, PreparedRow(batches[n][v], s), viewChange[n][v])
               /\ msgs' = msgs \cup {Vote("COMMIT", n, v, s, b.digest)}
               /\ log' = log /\ TypeInv'
<1> DEFINE v == view[n]
           row == batches[n][v]
           b == row[s]
<1>0. v \in View
  BY ViewType
<1>1. v \in View /\ Row(row)
  BY <1>0, RowType
<1>2. b.preprepareMsg # None /\ ~b.prepared /\ Cardinality(Votes("PREPARE", v, s, b.digest)) >= 2 * Faults
  BY DEF HandlePrepare, IsPrepared
<1>3. b.digest \in Value
  <2>1. b \in Slot /\ SlotShape(b)
    BY <1>1 DEF Row
  <2> QED
    BY <1>2, <2>1 DEF Slot, SlotShape, Value
<1>4. msgs' = msgs \cup {Vote("COMMIT", n, v, s, b.digest)}
  BY DEF HandlePrepare, Send
<1>5. batches' = [batches EXCEPT ![n][v] = PreparedRow(row, s)]
  <2>1. batches' = [batches EXCEPT ![n][v][s] = [row[s] EXCEPT !.prepared = TRUE]]
    BY DEF HandlePrepare
  <2> QED
    BY <1>1, <2>1, RowUpdate DEF PreparedRow
<1>6. Put(n, v, PreparedRow(row, s), viewChange[n][v])
  <2>1. view' = view /\ viewChange' = viewChange
    BY DEF HandlePrepare
  <2>2. view \in [Node -> View] /\ viewChange \in [Node -> [View -> Info]]
    BY DEF TypeInv, Types
  <2> QED
    BY <1>4, <1>5, <2>1, <2>2 DEF Put
<1>7. Others' /\ log' = log
  BY OthersType DEF Others, HandlePrepare
<1>8. msgs' \subseteq Message
  <2>1. Vote("COMMIT", n, v, s, b.digest) \in VoteMsg
    BY <1>1, <1>3, VoteType
  <2> QED
    BY <1>4, <2>1, MessagesType DEF Message
<1>9. TypeInv'
  BY <1>1, <1>2, <1>6, <1>7, <1>8, PutTypes, RowTypes, RowType
<1> QED
  BY <1>1, <1>2, <1>3, <1>4, <1>6, <1>7, <1>9

\* What announce does to its row, the log and the messages.
LEMMA AnnounceStep ==
    ASSUME TypeInv, NEW n \in Node, NEW s \in SN, NEW d \in Value, NEW e \in LogEntry,
           Announce(n, s, d, e), UNCHANGED <<view, viewChange, inViewChange, finalDigests>>,
           fetching' \in [Node -> SUBSET SN]
    PROVE  /\ view[n] \in View
           /\ Put(n, view[n], AnnouncedRow(batches[n][view[n]], s, d), viewChange[n][view[n]])
           /\ Sends({"CHECKPOINT"})
           /\ log' = [log EXCEPT ![n][s] = IF log[n][s] = None THEN e ELSE log[n][s]]
           /\ TypeInv'
<1> DEFINE v == view[n]
           row == batches[n][v]
           bs == AnnouncedRow(row, s, d)
           ckp == [type |-> "CHECKPOINT", from |-> n, digests |-> [t \in SN |-> bs[t].digest]]
<1>0. v \in View
  BY ViewType
<1>1. v \in View /\ Row(row) /\ Row(bs)
  BY <1>0, RowType, RowTypes
<1>2. batches' = [batches EXCEPT ![n][v] = bs]
  BY DEF Announce, AnnouncedRow
<1>3. log' = [log EXCEPT ![n][s] = IF log[n][s] = None THEN e ELSE log[n][s]]
  BY DEF Announce
<1>4. log' \in [Node -> [SN -> LogEntry \cup {None}]]
  BY <1>3 DEF TypeInv, Types
<1>5. timers' \in [Node -> SUBSET (SN \cup {NewViewTimer, CheckpointTimer})]
  <2> DEFINE T == IF Uncommitted(bs) = {} /\ finalDigests[n] = "none" THEN {CheckpointTimer} ELSE {}
  <2>1. timers' = [timers EXCEPT ![n] = (timers[n] \ {s}) \cup FirstTimer(bs) \cup T]
    BY DEF Announce, AnnouncedRow
  <2>2. FirstTimer(bs) \subseteq SN
    BY FirstTimerType
  <2>3. timers \in [Node -> SUBSET (SN \cup {NewViewTimer, CheckpointTimer})]
    BY DEF TypeInv, Types
  <2>4. (timers[n] \ {s}) \cup FirstTimer(bs) \cup T \subseteq SN \cup {NewViewTimer, CheckpointTimer}
    BY <2>2, <2>3
  <2> QED
    BY <2>1, <2>3, <2>4
<1>6. /\ msgs' = msgs \cup {ckp} \/ msgs' = msgs
      /\ down' = down \/ down' = down \cup {n}
  BY DEF Announce, Send, AnnouncedRow
<1>7. ckp \in CheckpointMsg /\ ckp.type = "CHECKPOINT"
  <2>1. \A t \in SN : bs[t].digest \in Value \cup {None}
    BY <1>1 DEF Row, Slot, Value
  <2> QED
    BY <2>1 DEF CheckpointMsg
<1> HIDE DEF ckp, bs
<1>8. msgs' \subseteq Message /\ msgs \subseteq msgs' /\ Sends({"CHECKPOINT"})
  BY <1>6, <1>7, MessagesType DEF Message, Sends
<1>9. Put(n, v, bs, viewChange[n][v])
  <2>1. view \in [Node -> View] /\ viewChange \in [Node -> [View -> Info]]
    BY DEF TypeInv, Types
  <2> QED
    BY <1>1, <1>2, <1>8, <2>1 DEF Put
<1>10. Others'
  BY <1>4, <1>5, <1>6, OthersType DEF Others
<1>11. TypeInv'
  BY <1>1, <1>8, <1>9, <1>10, PutTypes, RowType
<1> QED
  BY <1>1, <1>3, <1>8, <1>9, <1>11 DEF bs

LEMMA HandleCommitStep ==
    ASSUME TypeInv, NEW n \in Node, NEW s \in SN, HandleCommit(n, s)
    PROVE  LET v == view[n]
               b == batches[n][v][s]
           IN  \E e \in LogEntry :
               /\ v \in View /\ b.digest \in Value /\ b.preprepareMsg # None /\ b.prepared /\ ~b.committed
               /\ Cardinality(Votes("COMMIT", v, s, b.digest)) >= Quorum
               /\ Put(n, v, AnnouncedRow(batches[n][v], s, b.digest), viewChange[n][v])
               /\ Sends({"CHECKPOINT"}) /\ e.batch = b.preprepareMsg.batch
               /\ log' = [log EXCEPT ![n][s] = IF log[n][s] = None THEN e ELSE log[n][s]]
               /\ TypeInv'
<1> DEFINE v == view[n]
           b == batches[n][v][s]
           e == [batch |-> b.preprepareMsg.batch, aborted |-> b.preprepareMsg.aborted]
<1>0. v \in View
  BY ViewType
<1>1. v \in View /\ b \in Slot /\ SlotShape(b)
  BY <1>0, RowType DEF Row
<1>2. b.prepared /\ ~b.committed /\ Cardinality(Votes("COMMIT", v, s, b.digest)) >= Quorum
      /\ Announce(n, s, b.digest, e)
      /\ UNCHANGED <<view, inViewChange, viewChange, finalDigests, fetching>>
  BY DEF HandleCommit, CheckCommits
<1>3. b.preprepareMsg # None /\ b.digest \in Value /\ b.preprepareMsg \in PrePrepare
  BY <1>1, <1>2 DEF Slot, SlotShape, Value
<1>4. e \in LogEntry /\ e.batch = b.preprepareMsg.batch
  BY <1>3 DEF PrePrepare, LogEntry
<1>5. fetching' \in [Node -> SUBSET SN]
  BY <1>2 DEF TypeInv, Types
<1> HIDE DEF e
<1> QED
  BY <1>1, <1>2, <1>3, <1>4, <1>5, AnnounceStep

\* A step that changes nothing a safety property depends on.
Quiet ==
    /\ view' = view /\ batches' = batches /\ viewChange' = viewChange /\ log' = log
    /\ msgs \subseteq msgs' /\ Sends({"MISSINGREQ", "MISSINGPP"})

LEMMA QuietTypes ==
    ASSUME TypeInv, Quiet, Others', msgs' \subseteq Message
    PROVE  TypeInv'
<1>1. Types'
  BY DEF TypeInv, Types, Quiet, Others
<1>2. \A v \in View : ViewChanges(v) \subseteq ViewChanges(v)'
  BY DEF Quiet, ViewChanges
<1>3. Shapes'
  BY <1>2 DEF TypeInv, Shapes, SlotShape, InfoShape, Quiet
<1> QED
  BY <1>1, <1>3 DEF TypeInv

LEMMA HandlePBFTCheckpointStep ==
    ASSUME TypeInv, NEW n \in Node, HandlePBFTCheckpoint(n)
    PROVE  Quiet /\ TypeInv'
<1>1. Quiet
  BY DEF HandlePBFTCheckpoint, Quiet, Sends
<1>2. Others'
  <2>1. /\ finalDigests' \in [Node -> {"none", "known", "caughtup"}]
        /\ timers' \in [Node -> SUBSET (SN \cup {NewViewTimer, CheckpointTimer})]
    BY DEF TypeInv, Types, HandlePBFTCheckpoint
  <2> QED
    BY <2>1, OthersType DEF Others, HandlePBFTCheckpoint
<1> QED
  BY <1>1, <1>2, QuietTypes, MessagesType DEF HandlePBFTCheckpoint

LEMMA CatchUpStep ==
    ASSUME TypeInv, NEW n \in Node, CatchUp(n)
    PROVE  Quiet /\ TypeInv'
<1>1. Quiet
  BY DEF CatchUp, Quiet, Sends
<1>2. Others'
  <2>1. Uncommitted(batches[n][view[n]]) \subseteq SN
    BY DEF Uncommitted
  <2>2. /\ finalDigests' \in [Node -> {"none", "known", "caughtup"}]
        /\ fetching' \in [Node -> SUBSET SN]
    BY <2>1 DEF TypeInv, Types, CatchUp
  <2> QED
    BY <2>2, OthersType DEF Others, CatchUp
<1> QED
  BY <1>1, <1>2, QuietTypes, MessagesType DEF CatchUp

LEMMA StopStep ==
    ASSUME TypeInv, NEW n \in Node, Stop(n)
    PROVE  Quiet /\ TypeInv'
<1>1. Quiet
  BY DEF Stop, Quiet, Sends
<1>2. Others'
  BY OthersType DEF Others, Stop
<1> QED
  BY <1>1, <1>2, QuietTypes, MessagesType DEF Stop

LEMMA HandleMissingPreprepareRequestStep ==
    ASSUME TypeInv, NEW n \in Node, NEW m \in msgs, HandleMissingPreprepareRequest(n, m)
    PROVE  Quiet /\ TypeInv'
<1> DEFINE pp == batches[n][m.view][m.sn].preprepareMsg
           r == [type |-> "MISSINGPP", to |-> m.from, sn |-> m.sn, preprepare |-> pp]
<1>1. m \in MissingReqMsg
  BY MessageType, MessagesType DEF HandleMissingPreprepareRequest
<1>2. pp \in PrePrepare
  <2>1. m.view \in View /\ m.sn \in SN
    BY <1>1 DEF MissingReqMsg
  <2>2. batches[n][m.view][m.sn] \in Slot
    BY <2>1 DEF TypeInv, Types
  <2>3. pp # None
    BY DEF HandleMissingPreprepareRequest
  <2> QED
    BY <2>2, <2>3 DEF Slot
<1>3. msgs' = msgs \cup {r}
  BY DEF HandleMissingPreprepareRequest, Send
<1>4. r \in MissingPPMsg /\ r.type = "MISSINGPP"
  BY <1>1, <1>2 DEF MissingReqMsg, MissingPPMsg
<1> HIDE DEF r
<1>5. Quiet
  BY <1>3, <1>4 DEF HandleMissingPreprepareRequest, Quiet, Sends
<1>6. Others'
  BY OthersType DEF Others, HandleMissingPreprepareRequest
<1>7. msgs' \subseteq Message
  BY <1>3, <1>4, MessagesType DEF Message
<1> QED
  BY <1>5, <1>6, <1>7, QuietTypes

\* A fetched entry is announced, or not needed any more.
LEMMA HandleMissingEntryStep ==
    ASSUME TypeInv, NEW n \in Node, NEW s \in SN, NEW source \in Node, HandleMissingEntry(n, s, source)
    PROVE  \/ Quiet /\ TypeInv'
           \/ LET v == view[n]
                  e == log[source][s]
              IN  /\ v \in View /\ e \in LogEntry /\ e # None /\ e.batch \in Value
                  /\ ~batches[n][v][s].committed
                  /\ Put(n, v, AnnouncedRow(batches[n][v], s, e.batch), viewChange[n][v])
                  /\ Sends({"CHECKPOINT"})
                  /\ log' = [log EXCEPT ![n][s] = IF log[n][s] = None THEN e ELSE log[n][s]]
                  /\ TypeInv'
<1> DEFINE v == view[n]
           e == log[source][s]
<1>1. e \in LogEntry /\ e # None /\ e.batch \in Value
  <2>1. e \in LogEntry \cup {None} /\ e # None
    BY DEF HandleMissingEntry, TypeInv, Types
  <2> QED
    BY <2>1 DEF LogEntry, Value
<1>2. fetching' \in [Node -> SUBSET SN]
  BY DEF HandleMissingEntry, TypeInv, Types
<1>3. UNCHANGED <<view, inViewChange, viewChange, finalDigests>>
  BY DEF HandleMissingEntry
<1>4. CASE batches[n][v][s].committed
  <2>1. Quiet /\ msgs' = msgs
    BY <1>4 DEF HandleMissingEntry, Quiet, Sends
  <2>2. Others'
    BY <1>2, <1>4, OthersType DEF Others, HandleMissingEntry
  <2> QED
    BY <2>1, <2>2, QuietTypes, MessagesType
<1>5. CASE ~batches[n][v][s].committed
  <2>1. Announce(n, s, e.batch, e)
    BY <1>5 DEF HandleMissingEntry
  <2> HIDE DEF e
  <2> QED
    BY <1>1, <1>2, <1>3, <1>5, <2>1, AnnounceStep DEF e
<1> QED
  BY <1>4, <1>5

-----------------------------------------------------------------------------
(* Steps of the view change *)

ViewChangeOf(n, w) ==
    [type |-> "VIEWCHANGE", from |-> n, view |-> w, p |-> Pset(n, w), q |-> Qset(n, w)]

LEMMA SendViewChangeStep ==
    ASSUME TypeInv, NEW n \in Node, view[n] < MaxView, SendViewChange(n)
    PROVE  LET w == view[n] + 1
           IN  /\ w \in View \ {0} /\ 0 .. w - 1 \subseteq View
               /\ Put(n, w, StartView(n, w), viewChange[n][w])
               /\ ViewChangeOf(n, w) \in ViewChangeMsg
               /\ msgs' = msgs \cup {ViewChangeOf(n, w)}
               /\ log' = log /\ TypeInv'
<1> DEFINE w == view[n] + 1
<1>0. view[n] \in View
  BY ViewType
<1>1. w \in View \ {0} /\ 0 .. w - 1 \subseteq View
  BY <1>0, Parameters DEF View
<1>2. StartView(n, w) \in [SN -> Slot] /\ Row(StartView(n, w))
  BY <1>1, StartViewType DEF Row
<1>3. ViewChangeOf(n, w) \in ViewChangeMsg
  BY <1>1, PsetType DEF ViewChangeMsg, ViewChangeOf
<1>4. msgs' = msgs \cup {ViewChangeOf(n, w)} /\ log' = log
  BY DEF SendViewChange, Send, ViewChangeOf
<1>5. Put(n, w, StartView(n, w), viewChange[n][w])
  <2>1. viewChange \in [Node -> [View -> Info]]
    BY DEF TypeInv, Types
  <2> QED
    BY <1>1, <1>4, <2>1 DEF SendViewChange, Put
<1>6. Others'
  <2>1. StartTimers \cup {NewViewTimer} \subseteq SN \cup {NewViewTimer, CheckpointTimer}
    BY DEF StartTimers
  <2>2. timers' \in [Node -> SUBSET (SN \cup {NewViewTimer, CheckpointTimer})]
    BY <2>1 DEF TypeInv, Types, SendViewChange
  <2>3. inViewChange' \in [Node -> BOOLEAN]
    BY DEF TypeInv, Types, SendViewChange
  <2> QED
    BY <2>2, <2>3, OthersType DEF Others, SendViewChange
<1>7. msgs' \subseteq Message
  BY <1>3, <1>4, MessagesType DEF Message
<1>8. TypeInv'
  BY <1>1, <1>2, <1>5, <1>6, <1>7, PutTypes, RowType
<1> HIDE DEF w
<1> QED
  BY <1>1, <1>3, <1>4, <1>5, <1>8 DEF w

NewViewOf(n, w, i) ==
    [type |-> "NEWVIEW", from |-> n, view |-> w, s |-> i.s,
     x |-> [t \in SN |-> i.reproposeBatches[t].preprepareMsg]]

\* What the leader of w does: it waits, or gives up half-way, or starts the view.
LeaderStep(n, w, i) ==
    /\ log' = log /\ TypeInv'
    /\ \/ Put(n, w, StartRow(n, w), i) /\ Sends({"MISSINGREQ"})
       \/ /\ Put(n, w, ReproposedRow(StartRow(n, w), i.reproposeBatches), i)
          /\ i.newView /\ i.reproposeBatches \in [SN -> Reproposal]
          /\ \A s \in SN : i.reproposeBatches[s].preprepareMsg # None
          /\ NewViewOf(n, w, i) \in NewViewMsg
          /\ msgs' = msgs \cup {NewViewOf(n, w, i)}

LEMMA SendNewViewStep ==
    ASSUME TypeInv, NEW n \in Node, NEW w \in View, w # 0, NEW row, row = StartRow(n, w),
           NEW ts \in SUBSET (SN \cup {NewViewTimer, CheckpointTimer}),
           NEW info \in Info, InfoShape(n, w, info), info.s \subseteq ViewChanges(w),
           info.enoughViewChanges,
           info.reproposeBatches \in [SN -> Reproposal], Missing(info.reproposeBatches) = {},
           view' = [view EXCEPT ![n] = w], UNCHANGED <<finalDigests, fetching, log, down>>,
           NEW i, i = [info EXCEPT !.newView = TRUE],
           SendNewView(n, w, row, ts, info)
    PROVE  LeaderStep(n, w, i)
<1> DEFINE rs == info.reproposeBatches
           m == NewViewOf(n, w, i)
<1>0. Row(row)
  BY StartRowType
<1>1. /\ i \in Info /\ i.newView /\ i.s = info.s /\ i.reproposeBatches = rs
      /\ i.enoughViewChanges = info.enoughViewChanges
      /\ i.fetchingMissingPreprepares = info.fetchingMissingPreprepares
  BY DEF Info
<1>2. InfoShape(n, w, i) /\ i.s \subseteq ViewChanges(w)
  BY <1>1 DEF InfoShape
<1>3. viewChange' = [viewChange EXCEPT ![n][w] = i]
  BY DEF SendNewView
<1>4. \A s \in SN : rs[s].preprepareMsg # None
  BY DEF Missing
<1>5. m \in NewViewMsg /\ m.type = "NEWVIEW"
  <2>1. \A s \in SN : rs[s].preprepareMsg \in PrePrepare
    BY <1>4 DEF Reproposal
  <2>2. i.s \in SUBSET ViewChangeMsg
    BY <1>1 DEF Info
  <2> QED
    BY <1>1, <2>1, <2>2 DEF NewViewOf, NewViewMsg
<1>6. CASE /\ batches' = [batches EXCEPT ![n][w] = row]
           /\ timers' = [timers EXCEPT ![n] = ts]
           /\ inViewChange' = [inViewChange EXCEPT ![n] = TRUE]
           /\ UNCHANGED msgs
  <2>1. Put(n, w, row, i) /\ Sends({"MISSINGREQ"})
    BY <1>3, <1>6 DEF Put, Sends
  <2>2. Others'
    BY <1>6 DEF TypeInv, Types, Others
  <2>3. TypeInv'
    BY <1>0, <1>1, <1>2, <1>6, <2>1, <2>2, PutTypes, MessagesType
  <2> QED
    BY <2>1, <2>3 DEF LeaderStep
<1>7. CASE /\ batches' = [batches EXCEPT ![n][w] = ReproposedRow(row, rs)]
           /\ timers' = [timers EXCEPT ![n] = (ts \ {NewViewTimer}) \cup FirstTimer(row)]
           /\ inViewChange' = [inViewChange EXCEPT ![n] = FALSE]
           /\ msgs' = msgs \cup {m}
  <2>1. Put(n, w, ReproposedRow(row, rs), i)
    BY <1>3, <1>7 DEF Put
  <2>2. Others'
    <3>1. FirstTimer(row) \subseteq SN
      BY FirstTimerType
    <3>2. timers' \in [Node -> SUBSET (SN \cup {NewViewTimer, CheckpointTimer})]
      BY <1>7, <3>1 DEF TypeInv, Types
    <3>3. inViewChange' \in [Node -> BOOLEAN]
      BY <1>7 DEF TypeInv, Types
    <3> QED
      BY <3>2, <3>3, OthersType DEF Others
  <2>3. Row(ReproposedRow(row, rs))
    BY <1>0, <1>4, ReproposedRowType
  <2>4. msgs' \subseteq Message
    BY <1>5, <1>7, MessagesType DEF Message
  <2>5. TypeInv'
    BY <1>1, <1>2, <2>1, <2>2, <2>3, <2>4, PutTypes
  <2> QED
    BY <1>1, <1>4, <1>5, <1>7, <2>1, <2>5 DEF LeaderStep
<1>8. m = [type |-> "NEWVIEW", from |-> n, view |-> w, s |-> info.s,
           x |-> [t \in SN |-> info.reproposeBatches[t].preprepareMsg]]
  BY <1>1 DEF NewViewOf
<1> QED
  <2> HIDE DEF m
  <2> QED
    BY <1>6, <1>7, <1>8 DEF SendNewView, Send, ReproposedRow

\* The leader's own choices for all SNs, from a set of VIEWCHANGEs.
Chooses(n, w, S, choice, i) ==
    /\ S \subseteq ViewChanges(w) /\ i.s = S
    /\ \A s \in SN : choice[s] \in Choices(S, s)
    /\ i.reproposeBatches = [s \in SN |-> Repropose(n, w, s, choice[s])]

LEMMA MaybeSendNewViewStep ==
    ASSUME TypeInv, NEW n \in Node, NEW w \in View, NEW S, MaybeSendNewView(n, w, S)
    PROVE  /\ n = Leader(w) /\ w > 0 /\ w >= view[n]
           /\ ~viewChange[n][w].newView /\ ~viewChange[n][w].enoughViewChanges
           /\ S \in SUBSET ViewChangeMsg
           /\ \E choice, i : Chooses(n, w, S, choice, i) /\ i.enoughViewChanges /\ LeaderStep(n, w, i)
<1> DEFINE info == viewChange[n][w]
           row == StartRow(n, w)
           ts == IF w = view[n] THEN timers[n] ELSE StartTimers
<1>1. /\ n = Leader(w) /\ w > 0 /\ w >= view[n] /\ ~info.newView /\ ~info.enoughViewChanges
      /\ S \subseteq ViewChanges(w) /\ view' = [view EXCEPT ![n] = w]
      /\ UNCHANGED <<finalDigests, fetching, log, down>>
  BY DEF MaybeSendNewView
<1>2. S \in SUBSET ViewChangeMsg
  <2>1. \A m \in S : m \in msgs /\ m.type = "VIEWCHANGE"
    BY <1>1 DEF ViewChanges
  <2> QED
    BY <2>1, MessageType, MessagesType
<1>3. ts \in SUBSET (SN \cup {NewViewTimer, CheckpointTimer})
  BY DEF StartTimers, TypeInv, Types
<1>4. PICK choice \in [SN -> UNION {Choices(S, s) : s \in SN}] :
        /\ \A s \in SN : choice[s] \in Choices(S, s)
        /\ LET rs  == [s \in SN |-> Repropose(n, w, s, choice[s])]
               new == [info EXCEPT !.s = S, !.enoughViewChanges = TRUE,
                         !.fetchingMissingPreprepares = Missing(rs) # {},
                         !.reproposeBatches = rs]
           IN  IF Missing(rs) = {}
               THEN SendNewView(n, w, row, ts, new)
               ELSE /\ AskForMissingPrePrepares(n, S, choice, Missing(rs))
                    /\ viewChange' = [viewChange EXCEPT ![n][w] = new]
                    /\ batches' = [batches EXCEPT ![n][w] = row]
                    /\ timers' = [timers EXCEPT ![n] = ts]
                    /\ inViewChange' = [inViewChange EXCEPT ![n] = TRUE]
  BY DEF MaybeSendNewView, StartRow
<1> DEFINE rs == [s \in SN |-> Repropose(n, w, s, choice[s])]
<1>5. PICK new : new = [info EXCEPT !.s = S, !.enoughViewChanges = TRUE,
                          !.fetchingMissingPreprepares = Missing(rs) # {},
                          !.reproposeBatches = rs]
  OBVIOUS
<1>6. rs \in [SN -> Reproposal]
  <2>1. \A s \in SN : choice[s] \in Entry \cup {None}
    BY <1>2, <1>4, ChoiceType
  <2> QED
    BY <2>1, ReproposeType
<1>7. \A s \in SN : rs[s] # None
  BY <1>6, NoneAssumption
<1> HIDE DEF rs
<1>8. /\ new \in Info /\ new.s = S /\ new.enoughViewChanges /\ new.reproposeBatches = rs
      /\ new.newView = info.newView
  <2>1. info \in Info
    BY RowType
  <2>3. rs \in [SN -> Reproposal \cup {None}]
    BY <1>6
  <2> HIDE DEF info
  <2>4. PICK b \in BOOLEAN : b = (Missing(rs) # {})
    OBVIOUS
  <2>5. new = [info EXCEPT !.s = S, !.enoughViewChanges = TRUE,
                          !.fetchingMissingPreprepares = b,
                          !.reproposeBatches = rs]
    BY <1>5, <2>4
  <2> QED
    BY <1>2, <2>1, <2>3, <2>5 DEF Info
<1>9. InfoShape(n, w, new)
  BY <1>1, <1>7, <1>8 DEF InfoShape
<1>10. Chooses(n, w, S, choice, new)
  BY <1>1, <1>4, <1>8 DEF Chooses, rs
<1>11. CASE Missing(rs) = {}
  <2>1. SendNewView(n, w, row, ts, new)
    BY <1>4, <1>5, <1>11 DEF rs
  <2>2. PICK i : i = [new EXCEPT !.newView = TRUE]
    OBVIOUS
  <2>3. i.s = S /\ i.reproposeBatches = rs /\ i.enoughViewChanges
    BY <1>8, <2>2 DEF Info
  <2>4. Chooses(n, w, S, choice, i)
    BY <1>8, <1>10, <2>3 DEF Chooses
  <2>5. w # 0 /\ new.s \subseteq ViewChanges(w)
    BY <1>1, <1>8, Parameters
  <2>6. LeaderStep(n, w, i)
    BY <1>1, <1>3, <1>6, <1>8, <1>9, <1>11, <2>1, <2>2, <2>5, SendNewViewStep
  <2> QED
    BY <1>1, <1>2, <2>6, <2>3, <2>4, <2>5
<1>12. CASE Missing(rs) # {}
  <2>1. /\ AskForMissingPrePrepares(n, S, choice, Missing(rs))
        /\ viewChange' = [viewChange EXCEPT ![n][w] = new]
        /\ batches' = [batches EXCEPT ![n][w] = row]
        /\ timers' = [timers EXCEPT ![n] = ts]
        /\ inViewChange' = [inViewChange EXCEPT ![n] = TRUE]
    BY <1>4, <1>5, <1>12 DEF rs
  <2>2. PICK source \in [Missing(rs) -> Node] :
          msgs' = msgs \cup {[type |-> "MISSINGREQ", from |-> n, to |-> source[s], sn |-> s,
                              view |-> choice[s].view] : s \in Missing(rs)}
    BY <2>1 DEF AskForMissingPrePrepares
  <2>3. \A s \in Missing(rs) : choice[s].view \in View
    <3> TAKE s \in Missing(rs)
    <3>1. s \in SN /\ rs[s].preprepareMsg = None
      BY DEF Missing
    <3>2. choice[s] \in Entry \cup {None}
      BY <1>2, <1>4, <3>1, ChoiceType
    <3>3. choice[s] # None
      <4>1. ASSUME choice[s] = None PROVE FALSE
        <5>1. rs[s].preprepareMsg = [view |-> w, batch |-> Empty, aborted |-> TRUE]
          BY <3>1, <4>1 DEF rs, Repropose
        <5>2. rs[s].preprepareMsg \in PrePrepare
          BY <5>1 DEF PrePrepare
        <5> QED
          BY <3>1, <5>2, NoneAssumption
      <4> QED
        BY <4>1
    <3> QED
      BY <3>2, <3>3 DEF Entry
  <2>4. \A m \in msgs' : m \in msgs \/ (m \in MissingReqMsg /\ m.type = "MISSINGREQ")
    BY <2>2, <2>3 DEF Missing, MissingReqMsg
  <2>5. msgs' \subseteq Message /\ msgs \subseteq msgs' /\ Sends({"MISSINGREQ"})
    BY <2>2, <2>4, MessagesType DEF Message, Sends
  <2>6. Put(n, w, row, new)
    BY <1>1, <2>1, <2>5 DEF Put
  <2>7. Others'
    BY <1>1, <1>3, <2>1 DEF TypeInv, Types, Others
  <2>8. TypeInv'
    BY <1>1, <1>8, <1>9, <2>5, <2>6, <2>7, PutTypes, StartRowType
  <2>9. LeaderStep(n, w, new)
    BY <1>1, <2>5, <2>6, <2>8 DEF LeaderStep
  <2> QED
    BY <1>1, <1>2, <1>8, <1>10, <2>9
<1> QED
  BY <1>11, <1>12

\* One of the missing batches has come.
Receives(info, s, b, i) ==
    /\ i.s = info.s /\ i.enoughViewChanges = info.enoughViewChanges
    /\ i.reproposeBatches \in [SN -> Reproposal]
    /\ i.reproposeBatches[s].digest = info.reproposeBatches[s].digest
    /\ i.reproposeBatches[s].committed = info.reproposeBatches[s].committed
    /\ i.reproposeBatches[s].preprepareMsg.batch = b /\ i.reproposeBatches[s].digest = b
    /\ \A t \in SN \ {s} : i.reproposeBatches[t] = info.reproposeBatches[t]

LEMMA HandleMissingPreprepareStep ==
    ASSUME TypeInv, NEW n \in Node, NEW m \in msgs, HandleMissingPreprepare(n, m)
    PROVE  LET w == view[n]
           IN  /\ w \in View /\ m.sn \in SN /\ m.preprepare.batch \in Value
               /\ viewChange[n][w].enoughViewChanges /\ ~viewChange[n][w].newView
               /\ w > 0 /\ n = Leader(w)
               /\ \E i : Receives(viewChange[n][w], m.sn, m.preprepare.batch, i) /\ LeaderStep(n, w, i)
<1> DEFINE w == view[n]
           info == viewChange[n][w]
           row == batches[n][w]
           q == m.sn
           pp == [view |-> w, batch |-> m.preprepare.batch, aborted |-> m.preprepare.aborted]
<1>0. w \in View
  BY ViewType
<1>1. m \in MissingPPMsg
  BY MessageType, MessagesType DEF HandleMissingPreprepare
<1>2. q \in SN /\ m.preprepare \in PrePrepare /\ m.preprepare.batch \in Value
  BY <1>1 DEF MissingPPMsg, PrePrepare, Value
<1>3. pp \in PrePrepare /\ pp.batch = m.preprepare.batch
  BY <1>0, <1>2 DEF PrePrepare
<1> HIDE DEF pp
<1>4. /\ info \in Info /\ InfoShape(n, w, info) /\ info.s \subseteq ViewChanges(w)
      /\ info.fetchingMissingPreprepares /\ ~info.newView
      /\ info.reproposeBatches[q].digest = m.preprepare.batch
      /\ UNCHANGED <<view, finalDigests, fetching, log, down>>
  BY <1>0, RowType DEF HandleMissingPreprepare
<1>5. info.enoughViewChanges /\ w > 0 /\ n = Leader(w) /\ \A s \in SN : info.reproposeBatches[s] # None
  BY <1>4 DEF InfoShape
<1>6. PICK r : r = [info.reproposeBatches[q] EXCEPT !.preprepareMsg = pp]
  OBVIOUS
<1>7. PICK rs : rs = [info.reproposeBatches EXCEPT ![q] = r]
  OBVIOUS
<1>8. info.reproposeBatches \in [SN -> Reproposal]
  BY <1>4, <1>5 DEF Info
<1>9. /\ r \in Reproposal /\ r.preprepareMsg = pp
      /\ r.digest = info.reproposeBatches[q].digest /\ r.committed = info.reproposeBatches[q].committed
  <2>1. PICK c \in Reproposal : c = info.reproposeBatches[q]
    BY <1>2, <1>8
  <2> QED
    BY <1>3, <1>6, <2>1 DEF Reproposal
<1>10. rs \in [SN -> Reproposal]
  BY <1>7, <1>8, <1>9
<1>11. \A s \in SN : rs[s] # None
  BY <1>10, NoneAssumption
<1>12. PICK b \in BOOLEAN : b = (Missing(rs) # {})
  OBVIOUS
<1>13. PICK new : new = [info EXCEPT !.reproposeBatches = rs, !.fetchingMissingPreprepares = b]
  OBVIOUS
<1>14. /\ new \in Info /\ new.s = info.s /\ new.enoughViewChanges = info.enoughViewChanges
       /\ new.reproposeBatches = rs
  <2>1. rs \in [SN -> Reproposal \cup {None}]
    BY <1>10
  <2> QED
    BY <1>4, <1>13, <2>1 DEF Info
<1>15. InfoShape(n, w, new)
  BY <1>5, <1>11, <1>14 DEF InfoShape
<1>16. IF Missing(rs) = {}
       THEN SendNewView(n, w, row, timers[n], new)
       ELSE /\ viewChange' = [viewChange EXCEPT ![n][w] = new]
            /\ UNCHANGED <<batches, timers, inViewChange, msgs>>
  <2>1. rs = [info.reproposeBatches EXCEPT ![q].preprepareMsg = pp]
    BY <1>6, <1>7
  <2> QED
    BY <1>12, <1>13, <2>1 DEF HandleMissingPreprepare, pp
<1>17. Receives(info, q, m.preprepare.batch, new)
  <2>1. rs[q] = r /\ \A t \in SN \ {q} : rs[t] = info.reproposeBatches[t]
    BY <1>2, <1>7, <1>8
  <2> QED
    BY <1>3, <1>4, <1>9, <1>10, <1>14, <2>1 DEF Receives
<1>18. row = StartRow(n, w)
  BY DEF StartRow
<1>19. CASE Missing(rs) = {}
  <2>1. SendNewView(n, w, row, timers[n], new)
    BY <1>16, <1>19
  <2>2. PICK i : i = [new EXCEPT !.newView = TRUE]
    OBVIOUS
  <2>3. i.s = new.s /\ i.reproposeBatches = rs /\ i.enoughViewChanges = new.enoughViewChanges
    BY <1>14, <2>2 DEF Info
  <2>4. Receives(info, q, m.preprepare.batch, i)
    BY <1>14, <1>17, <2>3 DEF Receives
  <2>5. timers[n] \in SUBSET (SN \cup {NewViewTimer, CheckpointTimer})
    BY DEF TypeInv, Types
  <2>6. view' = [view EXCEPT ![n] = w]
    BY <1>4 DEF TypeInv, Types
  <2>7. w # 0 /\ new.s \subseteq ViewChanges(w) /\ new.enoughViewChanges
    BY <1>0, <1>4, <1>5, <1>14, Parameters
  <2>8. LeaderStep(n, w, i)
    BY <1>0, <1>4, <1>10, <1>14, <1>15, <1>18, <1>19, <2>1, <2>2, <2>5, <2>6, <2>7, SendNewViewStep
  <2> QED
    BY <1>0, <1>2, <1>4, <1>5, <2>4, <2>8
<1>20. CASE Missing(rs) # {}
  <2>1. viewChange' = [viewChange EXCEPT ![n][w] = new] /\ UNCHANGED <<batches, timers, inViewChange, msgs>>
    BY <1>16, <1>20
  <2>2. Put(n, w, row, new) /\ Sends({"MISSINGREQ"})
    <3>1. view \in [Node -> View] /\ batches \in [Node -> [View -> [SN -> Slot]]]
      BY DEF TypeInv, Types
    <3> QED
      BY <1>0, <1>4, <2>1, <3>1 DEF Put, Sends
  <2>3. Others'
    BY <1>4, <2>1, OthersType DEF Others
  <2>4. TypeInv'
    BY <1>0, <1>4, <1>14, <1>15, <2>1, <2>2, <2>3, PutTypes, RowType, MessagesType
  <2>5. LeaderStep(n, w, new)
    BY <1>4, <1>18, <2>2, <2>4 DEF LeaderStep
  <2> QED
    BY <1>0, <1>2, <1>4, <1>5, <1>17, <2>5
<1> QED
  BY <1>19, <1>20

LEMMA HandleNewViewStep ==
    ASSUME TypeInv, NEW n \in Node, NEW m \in msgs, HandleNewView(n, m)
    PROVE  LET w == m.view
               row == NewViewRow(StartRow(n, w), m.x)
           IN  /\ m.type = "NEWVIEW" /\ m \in NewViewMsg /\ m.from # n
               /\ w \in View /\ w > 0 /\ w >= view[n] /\ ~viewChange[n][w].newView
               /\ \A s \in SN : \E p \in Choices(m.s, s) : Matches(p, m.x[s])
               /\ \E i : /\ i.newView /\ i.enoughViewChanges = viewChange[n][w].enoughViewChanges
                         /\ i.s = viewChange[n][w].s
                         /\ i.reproposeBatches = viewChange[n][w].reproposeBatches
                         /\ Put(n, w, row, i)
               /\ \A s \in SN : row[s].digest \in Value
               /\ msgs' = msgs \cup {Vote("PREPARE", n, w, s, row[s].digest) :
                                        s \in IF n = Leader(w) THEN {} ELSE SN}
               /\ log' = log /\ TypeInv'
<1> DEFINE w == m.view
           sr == StartRow(n, w)
           row == NewViewRow(sr, m.x)
           ps == {Vote("PREPARE", n, w, s, row[s].digest) : s \in IF n = Leader(w) THEN {} ELSE SN}
<1>1. /\ m.type = "NEWVIEW" /\ m.from # n /\ ~viewChange[n][w].newView /\ w >= view[n]
      /\ \A s \in SN : \E p \in Choices(m.s, s) : Matches(p, m.x[s])
      /\ view' = [view EXCEPT ![n] = w] /\ inViewChange' = [inViewChange EXCEPT ![n] = FALSE]
      /\ UNCHANGED <<finalDigests, fetching, log, down>>
  BY DEF HandleNewView
<1>2. m \in NewViewMsg
  BY <1>1, MessageType, MessagesType
<1>3. w \in View /\ w # 0 /\ w > 0 /\ m.x \in [SN -> PrePrepare]
  <2>1. w \in View \ {0} /\ m.x \in [SN -> PrePrepare]
    BY <1>2 DEF NewViewMsg
  <2>2. w \in Nat
    BY <2>1, Parameters
  <2> HIDE DEF w
  <2> QED
    BY <2>1, <2>2
<1>4. Row(sr)
  BY <1>3, StartRowType
<1>5. Row(row)
  BY <1>3, <1>4, NewViewRowType
<1>6. \A s \in SN : row[s].digest \in Value
  <2> TAKE s \in SN
  <2>1. row[s] \in Slot /\ SlotShape(row[s])
    BY <1>5 DEF Row
  <2>2. row[s].preprepareMsg # None
    BY <1>3, <1>4, NewViewRowType
  <2> QED
    BY <2>1, <2>2 DEF Slot, SlotShape, Value
<1>7. PICK i : i = [viewChange[n][w] EXCEPT !.newView = TRUE]
  OBVIOUS
<1>8. PICK j \in Info : j = viewChange[n][w] /\ InfoShape(n, w, j) /\ j.s \subseteq ViewChanges(w)
  BY <1>3, RowType
<1>9. /\ i \in Info /\ i.newView /\ i.s = j.s /\ i.enoughViewChanges = j.enoughViewChanges
      /\ i.fetchingMissingPreprepares = j.fetchingMissingPreprepares
      /\ i.reproposeBatches = j.reproposeBatches
  BY <1>7, <1>8 DEF Info
<1>10. InfoShape(n, w, i) /\ i.s \subseteq ViewChanges(w)
  BY <1>8, <1>9 DEF InfoShape
<1>11. batches' = [batches EXCEPT ![n][w] = row]
  BY DEF HandleNewView, StartRow, NewViewRow
<1>12. msgs' = msgs \cup ps
  BY DEF HandleNewView, StartRow, NewViewRow
<1>13. viewChange' = [viewChange EXCEPT ![n][w] = i]
  <2>1. viewChange' = [viewChange EXCEPT ![n][w].newView = TRUE]
    BY DEF HandleNewView
  <2> QED
    BY <1>7, <2>1
<1>14. Put(n, w, row, i)
  BY <1>1, <1>11, <1>12, <1>13 DEF Put
<1>15. msgs' \subseteq Message
  <2>1. ps \subseteq VoteMsg
    BY <1>3, <1>6, VoteType
  <2> QED
    BY <1>12, <2>1, MessagesType DEF Message
<1>16. Others'
  <2> DEFINE ts == IF w = view[n] THEN timers[n] \ {NewViewTimer} ELSE StartTimers
  <2>1. timers' = [timers EXCEPT ![n] = ts \cup FirstTimer(sr)]
    BY DEF HandleNewView, StartRow
  <2>2. FirstTimer(sr) \subseteq SN
    BY FirstTimerType
  <2>3. ts \in SUBSET (SN \cup {NewViewTimer, CheckpointTimer})
    BY DEF StartTimers, TypeInv, Types
  <2> HIDE DEF ts
  <2>4. timers' \in [Node -> SUBSET (SN \cup {NewViewTimer, CheckpointTimer})]
    BY <2>1, <2>2, <2>3 DEF TypeInv, Types
  <2>5. inViewChange' \in [Node -> BOOLEAN]
    BY <1>1 DEF TypeInv, Types
  <2> QED
    BY <1>1, <2>4, <2>5, OthersType DEF Others
<1>17. TypeInv'
  BY <1>3, <1>5, <1>9, <1>10, <1>14, <1>15, <1>16, PutTypes
<1> HIDE DEF row
<1> QED
  BY <1>1, <1>2, <1>3, <1>6, <1>8, <1>9, <1>12, <1>14, <1>17 DEF row

LEMMA InitTypes == Init => TypeInv
<1> SUFFICES ASSUME Init PROVE TypeInv
  OBVIOUS
<1>1. NewSlot \in Slot /\ SlotShape(NewSlot)
  BY DEF NewSlot, Slot, SlotShape
<1>2. NewInfo \in Info /\ \A k, v : InfoShape(k, v, NewInfo)
  BY DEF NewInfo, Info, InfoShape
<1>3. First(SN) \in SN
  BY SegmentAssumption, HasFirst
<1>4. Types
  BY <1>1, <1>2, <1>3, Parameters DEF Init, Types
<1>5. Shapes
  BY <1>1, <1>2 DEF Init, Shapes, NewInfo
<1> QED
  BY <1>4, <1>5 DEF TypeInv

\* The steps of Next, with the view change that a timeout and a refused NEWVIEW start.
LEMMA Steps ==
    ASSUME TypeInv, Next
    PROVE  \E n \in Node :
             \/ \E s \in SN, b \in Batch : Propose(n, s, b)
             \/ \E m \in msgs : HandlePreprepare(n, m)
             \/ \E s \in SN : HandlePrepare(n, s)
             \/ \E s \in SN : HandleCommit(n, s)
             \/ \E s \in SN, source \in Node : HandleMissingEntry(n, s, source)
             \/ view[n] < MaxView /\ SendViewChange(n)
             \/ \E w \in View : \E S \in SUBSET ViewChanges(w) : MaybeSendNewView(n, w, S)
             \/ \E m \in msgs : HandleMissingPreprepare(n, m)
             \/ \E m \in msgs : HandleNewView(n, m)
             \/ Quiet /\ TypeInv'
<1>1. PICK n \in Node : Normal(n) \/ ChangeView(n) \/ Stop(n) \/ \E t \in timers[n] : Timeout(n, t)
  BY DEF Next
<1>2. \A t \in timers[n] : Timeout(n, t) => view[n] < MaxView /\ SendViewChange(n)
  BY ViewType, Parameters DEF Timeout, View
<1>3. \A m \in msgs : RefuseNewView(n, m) => view[n] < MaxView /\ SendViewChange(n)
  BY DEF RefuseNewView
<1>4. \/ HandlePBFTCheckpoint(n) \/ CatchUp(n) \/ Stop(n)
      \/ \E m \in msgs : HandleMissingPreprepareRequest(n, m)
      => Quiet /\ TypeInv'
  BY HandlePBFTCheckpointStep, CatchUpStep, StopStep, HandleMissingPreprepareRequestStep
<1>5. CASE Normal(n)
  BY <1>4, <1>5, Zenon DEF Normal
<1>6. CASE ChangeView(n)
  BY <1>3, <1>4, <1>6, Zenon DEF ChangeView
<1> QED
  BY <1>1, <1>2, <1>4, <1>5, <1>6, Zenon

LEMMA TypeInvInductive ==
    ASSUME TypeInv, [Next]_vars
    PROVE  TypeInv'
<1>1. CASE UNCHANGED vars
  BY <1>1 DEF vars, TypeInv, Types, Shapes, ViewChanges, SlotShape, InfoShape
<1>2. CASE Next
  <2>1. PICK n \in Node :
             \/ \E s \in SN, b \in Batch : Propose(n, s, b)
             \/ \E m \in msgs : HandlePreprepare(n, m)
             \/ \E s \in SN : HandlePrepare(n, s)
             \/ \E s \in SN : HandleCommit(n, s)
             \/ \E s \in SN, source \in Node : HandleMissingEntry(n, s, source)
             \/ view[n] < MaxView /\ SendViewChange(n)
             \/ \E w \in View : \E S \in SUBSET ViewChanges(w) : MaybeSendNewView(n, w, S)
             \/ \E m \in msgs : HandleMissingPreprepare(n, m)
             \/ \E m \in msgs : HandleNewView(n, m)
             \/ Quiet /\ TypeInv'
    BY <1>2, Steps, Zenon
  <2>2. ASSUME NEW s \in SN, NEW b \in Batch, Propose(n, s, b) PROVE TypeInv'
    BY <2>2, ProposeStep
  <2>3. ASSUME NEW m \in msgs, HandlePreprepare(n, m) PROVE TypeInv'
    BY <2>3, HandlePreprepareStep
  <2>4. ASSUME NEW s \in SN, HandlePrepare(n, s) PROVE TypeInv'
    BY <2>4, HandlePrepareStep
  <2>5. ASSUME NEW s \in SN, HandleCommit(n, s) PROVE TypeInv'
    BY <2>5, HandleCommitStep
  <2>6. ASSUME NEW s \in SN, NEW source \in Node, HandleMissingEntry(n, s, source) PROVE TypeInv'
    BY <2>6, HandleMissingEntryStep
  <2>7. ASSUME view[n] < MaxView, SendViewChange(n) PROVE TypeInv'
    BY <2>7, SendViewChangeStep
  <2>8. ASSUME NEW w \in View, NEW S, MaybeSendNewView(n, w, S) PROVE TypeInv'
    BY <2>8, MaybeSendNewViewStep DEF LeaderStep
  <2>9. ASSUME NEW m \in msgs, HandleMissingPreprepare(n, m) PROVE TypeInv'
    BY <2>9, HandleMissingPreprepareStep DEF LeaderStep
  <2>10. ASSUME NEW m \in msgs, HandleNewView(n, m) PROVE TypeInv'
    BY <2>10, HandleNewViewStep
  <2> QED
    BY <2>1, <2>2, <2>3, <2>4, <2>5, <2>6, <2>7, <2>8, <2>9, <2>10, Zenon
<1> QED
  BY <1>1, <1>2

\* Every state of the instance is of the types of TypeOK: no handler writes a slot, a
\* view change or a log entry that the others could not read.
THEOREM TypeCorrect == Spec => []TypeOK
<1>1. TypeInv /\ [Next]_vars => TypeInv'
  BY TypeInvInductive
<1>2. Spec => []TypeInv
  BY <1>1, InitTypes, PTL DEF Spec
<1> QED
  BY <1>2, TypeInvType, PTL

-----------------------------------------------------------------------------
(* Safety.  The proof is for a number of nodes for which the 2 * Faults PREPAREs of *)
(* isPrepared meet every quorum: 4, 7, 8, 10 and more nodes.                        *)

EnoughNodes == Cardinality(Node) < 4 * Faults + 1

Quorums == {Q \in SUBSET Node : Cardinality(Q) >= Quorum}

CommitAt(k, u, s, x) == Vote("COMMIT", k, u, s, x) \in msgs
PrepareAt(k, u, s, x) == Vote("PREPARE", k, u, s, x) \in msgs

\* A batch that a quorum has sent COMMITs for.
Chosen(u, s, d) == \E Q \in Quorums : \A k \in Q : CommitAt(k, u, s, d)

\* k has left view u without a COMMIT.
Past(k, u, s) == view[k] > u /\ \A y \in Value : ~CommitAt(k, u, s, y)

\* No other batch than x is or will be chosen in a view before v.
SafeAt(v, s, x) ==
    \A u \in 0 .. v - 1 : \E Q \in Quorums : \A k \in Q : CommitAt(k, u, s, x) \/ Past(k, u, s)

\* A slot: what is prepared is safe, what is proposed was proposed by the leader, and
\* only a fetched entry makes the digest that of another batch.
SlotOK(k, v, s) ==
    LET b == batches[k][v][s]
    IN  /\ b.prepared => SafeAt(v, s, b.digest)
        /\ b.preprepareMsg # None => v = 0 \/ viewChange[k][v].newView
        /\ b.preprepareMsg # None /\ ~b.committed => b.digest = b.preprepareMsg.batch
Slots == \A k \in Node, v \in View, s \in SN : SlotOK(k, v, s)

\* A view is started once, with a NEWVIEW; what is proposed again is the batch of the
\* digest.
InfoOK(k, v) ==
    LET i == viewChange[k][v]
    IN  /\ i.newView => v > 0 /\ v <= view[k]
        /\ i.newView /\ k # Leader(v) => \E m \in msgs : m.type = "NEWVIEW" /\ m.view = v
        /\ \A s \in SN : LET r == i.reproposeBatches[s]
                         IN  r # None /\ r.preprepareMsg # None => r.preprepareMsg.batch = r.digest
Infos == \A k \in Node, v \in View : InfoOK(k, v)

\* A COMMIT is for a safe batch, the only one of its sender in the view.
CommitOK(k, v, s, x) ==
    LET b == batches[k][v][s]
    IN  /\ b.prepared /\ v <= view[k]
        /\ SafeAt(v, s, x)
        /\ b.digest = x \/ \E u \in View : Chosen(u, s, b.digest)
        /\ \A y \in Value : CommitAt(k, v, s, y) => x = y
Commits == \A k \in Node, v \in View, s \in SN, x \in Value : CommitAt(k, v, s, x) => CommitOK(k, v, s, x)

\* A VIEWCHANGE names the last COMMIT of its sender, or what was chosen since.
NamesLast(k, w, s, p) ==
    /\ p = None => \A u \in 0 .. w - 1, y \in Value : ~CommitAt(k, u, s, y)
    /\ p # None =>
         /\ p.view < w /\ SafeAt(p.view, s, p.digest)
         /\ \A u \in p.view + 1 .. w - 1, y \in Value : ~CommitAt(k, u, s, y)
         /\ \A y \in Value : CommitAt(k, p.view, s, y) =>
                               y = p.digest \/ \E u \in View : Chosen(u, s, p.digest)
ViewChangeOK(m) ==
    /\ m.view <= view[m.from]
    /\ \A k \in msgs : k.type = "VIEWCHANGE" /\ k.from = m.from /\ k.view = m.view => k = m
    /\ \A s \in SN : NamesLast(m.from, m.view, s, m.p[s])
ViewChangesFit == \A m \in msgs : m.type = "VIEWCHANGE" => ViewChangeOK(m)

\* A NEWVIEW is the only one of its view, and safe if a second node has accepted it.
NewViewOK(m) ==
    /\ m.from = Leader(m.view) /\ viewChange[m.from][m.view].newView
    /\ m.s \subseteq ViewChanges(m.view)
    /\ \A k \in msgs : k.type = "NEWVIEW" /\ k.view = m.view => k = m
    /\ \A n \in Node \ {m.from} : viewChange[n][m.view].newView
                                    => \A s \in SN : SafeAt(m.view, s, m.x[s].batch)
NewViews == \A m \in msgs : m.type = "NEWVIEW" => NewViewOK(m)

\* Before the first commit of an SN what any node has is safe.
FreshAt(k, v, s) ==
    LET b == batches[k][v][s]  r == viewChange[k][v].reproposeBatches[s]
    IN  /\ ~b.committed
        /\ b.preprepareMsg # None => SafeAt(v, s, b.preprepareMsg.batch)
        /\ \A x \in Value : PrepareAt(k, v, s, x) => SafeAt(v, s, x)
        /\ \A x \in Value : CommitAt(k, v, s, x) => b.digest = x
        /\ r # None => ~r.committed /\ SafeAt(v, s, r.digest)
Fresh(s) == /\ \A n \in Node : log[n][s] = None
            /\ \A k \in Node, v \in View : FreshAt(k, v, s)

\* Afterwards this is so for the nodes of the quorum that sent the COMMITs: a node out
\* of it may fetch the batch into a slot where another one was proposed.
CleanAt(k, v, s, u, d) ==
    LET b == batches[k][v][s]  r == viewChange[k][v].reproposeBatches[s]
    IN  /\ b.committed => b.digest = d
        /\ v >= u /\ b.preprepareMsg # None => b.preprepareMsg.batch = d
        /\ \A x \in Value : PrepareAt(k, v, s, x) => SafeAt(v, s, x)
        /\ v > u /\ r # None => r.digest = d
Clean(k, s, u, d) == CommitAt(k, u, s, d) /\ \A v \in View : CleanAt(k, v, s, u, d)
Settled(s) == \E u \in View, d \in Value, C \in Quorums : \A k \in C : Clean(k, s, u, d)
Phases == \A s \in SN : Fresh(s) \/ Settled(s)

LogOK(n, s) == log[n][s] # None => \E u \in View : Chosen(u, s, log[n][s].batch)
Logs == \A n \in Node, s \in SN : LogOK(n, s)

IInv == Slots /\ Infos /\ Commits /\ ViewChangesFit /\ NewViews /\ Phases /\ Logs

-----------------------------------------------------------------------------
(* Quorums and what is chosen *)

LEMMA QuorumsMeet ==
    ASSUME EnoughNodes, NEW Q \in Quorums
    PROVE  /\ \A R \in Quorums : \E k \in Q : k \in R
           /\ \A P \in SUBSET Node : Cardinality(P) >= 2 * Faults => \E k \in Q : k \in P
           /\ \A P \in SUBSET Node : Cardinality(P) >= 2 * Faults => P # {}
<1>1. /\ Q \in SUBSET Node /\ Cardinality(Q) >= Quorum
      /\ IsFiniteSet(Node) /\ Cardinality(Node) \in Nat /\ Faults \in Nat
      /\ Quorum = 2 * Faults + 1 /\ Cardinality(Node) < 4 * Faults + 1
  BY Parameters DEF Quorums, EnoughNodes, Quorum
<1>2. \A P \in SUBSET Node : IsFiniteSet(P) /\ Cardinality(P) \in Nat
  BY <1>1, FS_Subset, FS_CardinalityType
<1>3. ASSUME NEW P \in SUBSET Node, Cardinality(P) >= 2 * Faults
      PROVE  \E k \in Q : k \in P
  <2>1. Cardinality(Q) + Cardinality(P) > Cardinality(Node)
    <3>1. Cardinality(Q) \in Nat /\ Cardinality(P) \in Nat
      BY <1>1, <1>2
    <3> QED
      BY <1>1, <1>3, <3>1
  <2>2. Q \cap P # {}
    BY <1>1, <2>1, FS_MajoritiesIntersect
  <2> QED
    BY <2>2
<1>4. \A R \in Quorums : R \in SUBSET Node /\ Cardinality(R) >= 2 * Faults
  BY <1>1, <1>2 DEF Quorums
<1> QED
  BY <1>3, <1>4

LEMMA VotesAreQuorum ==
    ASSUME TypeInv, NEW v \in View, NEW s \in SN, NEW d \in Value,
           Cardinality(Votes("COMMIT", v, s, d)) >= Quorum
    PROVE  Votes("COMMIT", v, s, d) \in Quorums /\ Chosen(v, s, d)
<1>1. Votes("COMMIT", v, s, d) \subseteq {k \in Node : CommitAt(k, v, s, d)}
  BY VotesType DEF CommitAt
<1> QED
  BY <1>1 DEF Quorums, Chosen

\* What is safe in a view is what was chosen before.
LEMMA SafeChosen ==
    ASSUME EnoughNodes, Commits, NEW v \in View, NEW u \in View, u < v, NEW s \in SN,
           NEW x \in Value, SafeAt(v, s, x), NEW d \in Value, Chosen(u, s, d)
    PROVE  x = d
<1>1. u \in 0 .. v - 1
  BY Parameters
<1>2. PICK Q \in Quorums : \A k \in Q : CommitAt(k, u, s, x) \/ Past(k, u, s)
  BY <1>1 DEF SafeAt
<1>3. PICK R \in Quorums : \A k \in R : CommitAt(k, u, s, d)
  BY DEF Chosen
<1>4. PICK k \in Q : k \in R
  BY QuorumsMeet
<1>5. CommitAt(k, u, s, d) /\ CommitAt(k, u, s, x)
  BY <1>2, <1>3, <1>4 DEF Past
<1>6. k \in Node
  BY <1>4 DEF Quorums
<1> QED
  BY <1>5, <1>6 DEF Commits, CommitOK

LEMMA SafeBefore ==
    ASSUME NEW v \in View, NEW u \in View, u <= v, NEW s, NEW x, SafeAt(v, s, x)
    PROVE  SafeAt(u, s, x)
<1>1. 0 .. u - 1 \subseteq 0 .. v - 1
  BY Parameters
<1> QED
  BY <1>1 DEF SafeAt

LEMMA ChosenIsSafe ==
    ASSUME EnoughNodes, Commits, NEW u \in View, NEW s \in SN, NEW d \in Value, Chosen(u, s, d)
    PROVE  SafeAt(u, s, d)
<1>1. PICK R \in Quorums : \A k \in R : CommitAt(k, u, s, d)
  BY DEF Chosen
<1>2. PICK k \in R : k \in R
  BY QuorumsMeet
<1>3. k \in Node
  BY <1>2 DEF Quorums
<1> QED
  BY <1>1, <1>3 DEF Commits, CommitOK

\* At most one batch is chosen for an SN.
LEMMA ChosenOnce ==
    ASSUME EnoughNodes, Commits, NEW u \in View, NEW v \in View, NEW s \in SN,
           NEW x \in Value, NEW y \in Value, Chosen(u, s, x), Chosen(v, s, y)
    PROVE  x = y
<1>1. CASE u = v
  <2>1. PICK Q \in Quorums : \A k \in Q : CommitAt(k, u, s, x)
    BY DEF Chosen
  <2>2. PICK R \in Quorums : \A k \in R : CommitAt(k, u, s, y)
    BY <1>1 DEF Chosen
  <2>3. PICK k \in Q : k \in R
    BY QuorumsMeet
  <2>4. k \in Node
    BY <2>3 DEF Quorums
  <2> QED
    BY <2>1, <2>2, <2>3, <2>4 DEF Commits, CommitOK
<1>2. CASE u < v
  BY <1>2, ChosenIsSafe, SafeChosen
<1>3. CASE v < u
  BY <1>3, ChosenIsSafe, SafeChosen
<1> QED
  <2>1. u = v \/ u < v \/ v < u
    BY Parameters
  <2> QED
    BY <2>1, <1>1, <1>2, <1>3

\* As many VIEWCHANGEs of a view as make a quorum come from a quorum.
LEMMA SendersAreQuorum ==
    ASSUME TypeInv, ViewChangesFit, NEW w \in View, NEW S, S \subseteq ViewChanges(w),
           Cardinality(S) >= Quorum
    PROVE  {m.from : m \in S} \in Quorums
<1> DEFINE T == {m.from : m \in S}
           f == [m \in S |-> m.from]
<1>1. \A m \in S : m \in msgs /\ m.type = "VIEWCHANGE" /\ m.view = w
  BY DEF ViewChanges
<1>2. \A m \in S : m \in ViewChangeMsg
  BY <1>1, MessageType, MessagesType
<1>3. T \subseteq Node
  BY <1>2 DEF ViewChangeMsg
<1>4. IsFiniteSet(T) /\ Cardinality(T) \in Nat
  BY <1>3, Parameters, FS_Subset, FS_CardinalityType
<1>5. f \in [S -> T] /\ \A m, k \in S : f[m] = f[k] => m = k
  <2>1. \A m, k \in S : m.from = k.from => m = k
    BY <1>1 DEF ViewChangesFit, ViewChangeOK
  <2> QED
    BY <2>1
<1>6. f \in Injection(S, T)
  BY <1>5, Fun_IsInj
<1>7. IsFiniteSet(S) /\ Cardinality(S) <= Cardinality(T)
  BY <1>4, <1>6, FS_Injection
<1>8. Cardinality(S) \in Nat
  BY <1>7, FS_CardinalityType
<1>9. Cardinality(T) >= Quorum
  BY <1>4, <1>7, <1>8, Parameters
<1> QED
  BY <1>3, <1>9 DEF Quorums

\* The heart of the view change: what maybeSendNewView chooses is safe.
LEMMA ChoiceIsSafe ==
    ASSUME EnoughNodes, TypeInv, Commits, ViewChangesFit, NEW w \in View, NEW S,
           S \subseteq ViewChanges(w), NEW s \in SN, NEW p \in Choices(S, s)
    PROVE  SafeAt(w, s, IF p = None THEN Empty ELSE p.digest)
<1>0. w \in Nat
  BY Parameters
<1>1. \A m \in S : m \in msgs /\ m \in ViewChangeMsg /\ m.view = w /\ m.type = "VIEWCHANGE" /\ m.from \in Node
  <2>1. \A m \in S : m \in msgs /\ m.type = "VIEWCHANGE" /\ m.view = w
    BY DEF ViewChanges
  <2>2. \A m \in S : m \in ViewChangeMsg
    BY <2>1, MessageType, MessagesType
  <2> QED
    BY <2>1, <2>2 DEF ViewChangeMsg
<1>2. \A m \in S : view[m.from] >= w /\ NamesLast(m.from, w, s, m.p[s])
  BY <1>1 DEF ViewChangesFit, ViewChangeOK
<1>3. \A m \in S : view[m.from] \in Nat
  BY <1>1, ViewType, Parameters
<1>4. CASE p = None
  <2> DEFINE R == {m \in S : m.p[s] = None}
  <2>0. None \notin Prepared(S, s)
    BY DEF Prepared
  <2>1. Cardinality(R) >= Quorum
    BY <1>4, <2>0 DEF Choices, ConditionB
  <2>2. {m.from : m \in R} \in Quorums
    BY <2>1, SendersAreQuorum
  <2>3. ASSUME NEW u \in 0 .. w - 1, NEW m \in R
        PROVE  Past(m.from, u, s)
    <3>1. view[m.from] > u
      BY <1>0, <1>2, <1>3
    <3> QED
      BY <1>2, <3>1 DEF Past, NamesLast
  <2> QED
    BY <2>2, <2>3 DEF SafeAt
<1>5. CASE p # None
  <2> DEFINE d == p.digest
             v == p.view
             R == {m \in S : m.p[s] = None \/ m.p[s].view < v \/ m.p[s] = p}
  <2>1. p \in Prepared(S, s) /\ Cardinality(R) >= Quorum
    BY <1>5 DEF Choices, ConditionA
  <2>2. PICK m0 \in S : m0.p[s] = p
    BY <2>1 DEF Prepared
  <2>3. p \in Entry
    BY <1>1, <1>5, <2>2 DEF ViewChangeMsg
  <2>4. d \in Value /\ v \in View /\ v \in Nat /\ v < w /\ SafeAt(v, s, d)
    BY <1>2, <1>5, <2>2, <2>3, Parameters DEF Entry, Value, NamesLast
  <2>5. {m.from : m \in R} \in Quorums
    BY <2>1, SendersAreQuorum
  <2>6. \A m \in R : m.p[s] = None \/ m.p[s] = p \/ (m.p[s] \in Entry /\ m.p[s].view \in Nat /\ m.p[s].view < v)
    <3> TAKE m \in R
    <3>1. m.p[s] \in Entry \cup {None}
      BY <1>1 DEF ViewChangeMsg
    <3> QED
      BY <3>1, Parameters DEF Entry
  <2>7. ASSUME NEW u \in 0 .. w - 1, NEW m \in R, u > v
        PROVE  Past(m.from, u, s)
    <3>1. view[m.from] > u
      BY <1>0, <1>2, <1>3
    <3>2. CASE m.p[s] = None
      BY <1>2, <3>1, <3>2 DEF Past, NamesLast
    <3>3. CASE m.p[s] # None
      <4>1. m.p[s].view \in Nat /\ m.p[s].view <= v
        BY <2>4, <2>6, <3>3
      <4>2. u \in m.p[s].view + 1 .. w - 1
        BY <1>0, <2>4, <2>7, <4>1
      <4> QED
        BY <1>2, <3>1, <3>3, <4>2 DEF Past, NamesLast
    <3> QED
      BY <3>2, <3>3
  <2>8. ASSUME NEW m \in R
        PROVE  \/ Past(m.from, v, s)
               \/ CommitAt(m.from, v, s, d)
               \/ \E y \in Value : y # d /\ CommitAt(m.from, v, s, y) /\ \E u \in View : Chosen(u, s, d)
    <3>1. view[m.from] > v /\ v \in 0 .. w - 1
      BY <1>0, <1>2, <1>3, <2>4
    <3>2. CASE m.p[s] = None
      BY <1>2, <3>1, <3>2 DEF Past, NamesLast
    <3>3. CASE m.p[s] = p
      BY <1>2, <1>5, <3>1, <3>3 DEF Past, NamesLast
    <3>4. CASE m.p[s] # None /\ m.p[s].view \in Nat /\ m.p[s].view < v
      <4>1. v \in m.p[s].view + 1 .. w - 1
        BY <1>0, <2>4, <3>1, <3>4
      <4> QED
        BY <1>2, <3>1, <3>4, <4>1 DEF Past, NamesLast
    <3> QED
      BY <1>5, <2>6, <3>2, <3>3, <3>4
  <2>9. \E Q \in Quorums : \A k \in Q : CommitAt(k, v, s, d) \/ Past(k, v, s)
    <3>1. CASE \A m \in R : Past(m.from, v, s) \/ CommitAt(m.from, v, s, d)
      BY <2>5, <3>1
    <3>2. ASSUME NEW m \in R, NEW y \in Value, y # d, CommitAt(m.from, v, s, y),
                 NEW u \in View, Chosen(u, s, d)
          PROVE  \E Q \in Quorums : \A k \in Q : CommitAt(k, v, s, d) \/ Past(k, v, s)
      <4>0. u \in Nat
        BY Parameters
      <4>1. SafeAt(v, s, y)
        BY <1>1, <2>4, <3>2 DEF Commits, CommitOK
      <4>2. ~(u < v)
        BY <2>4, <3>2, <4>1, SafeChosen
      <4>3. CASE u = v
        BY <3>2, <4>3 DEF Chosen
      <4>4. CASE v < u
        <5>1. SafeAt(u, s, d)
          BY <2>4, <3>2, ChosenIsSafe
        <5>2. v \in 0 .. u - 1
          BY <2>4, <4>0, <4>4
        <5> QED
          BY <5>1, <5>2 DEF SafeAt
      <4> QED
        BY <2>4, <4>0, <4>2, <4>3, <4>4
    <3> QED
      BY <2>8, <3>1, <3>2
  <2>10. ASSUME NEW u \in 0 .. w - 1
         PROVE  \E Q \in Quorums : \A k \in Q : CommitAt(k, u, s, d) \/ Past(k, u, s)
    <3>1. CASE u < v
      <4>1. u \in 0 .. v - 1
        BY <1>0, <2>4, <3>1
      <4> QED
        BY <2>4, <4>1 DEF SafeAt
    <3>2. CASE u = v
      BY <2>9, <3>2
    <3>3. CASE u > v
      BY <2>5, <2>7, <3>3
    <3> QED
      BY <1>0, <2>4, <3>1, <3>2, <3>3
  <2> QED
    BY <1>5, <2>10 DEF SafeAt
<1> QED
  BY <1>4, <1>5

-----------------------------------------------------------------------------
(* What a step of node n about view w leaves to be shown *)

Frame(n, w) ==
    /\ view[n] <= w /\ view'[n] = w
    /\ \A k \in Node : k # n => view'[k] = view[k]
    /\ \A k \in Node, v \in View : k # n \/ v # w =>
         batches'[k][v] = batches[k][v] /\ viewChange'[k][v] = viewChange[k][v]
    /\ msgs \subseteq msgs'
    /\ \A k \in Node, v \in View, s \in SN, x \in Value :
         /\ CommitAt(k, v, s, x)' => CommitAt(k, v, s, x) \/ (k = n /\ v = w /\ view[n] = w)
         /\ PrepareAt(k, v, s, x)' => PrepareAt(k, v, s, x) \/ (k = n /\ v = w)

\* What is safe or chosen stays so.
StaysSafe ==
    /\ \A u \in View, s \in SN, x \in Value :
         (SafeAt(u, s, x) => SafeAt(u, s, x)') /\ (Chosen(u, s, x) => Chosen(u, s, x)')
    /\ \A k \in Node, u \in View, s \in SN, x \in Value : CommitAt(k, u, s, x) => CommitAt(k, u, s, x)'

LEMMA FrameStable ==
    ASSUME TypeInv, NEW n \in Node, NEW w \in View, Frame(n, w)
    PROVE  StaysSafe
<1>1. \A k \in Node : \A u, s, x : CommitAt(k, u, s, x) => CommitAt(k, u, s, x)'
  BY DEF Frame, CommitAt
<1>2. ASSUME NEW k \in Node, NEW u \in View, NEW s \in SN, Past(k, u, s)
      PROVE  Past(k, u, s)'
  <2>1. view[k] \in Nat /\ u \in Nat /\ w \in Nat
    BY ViewType, Parameters
  <2>2. view[k] > u /\ \A y \in Value : ~CommitAt(k, u, s, y)
    BY <1>2 DEF Past
  <2>3. view'[k] > u
    BY <2>1, <2>2 DEF Frame
  <2>4. \A y \in Value : ~CommitAt(k, u, s, y)'
    BY <2>1, <2>2 DEF Frame
  <2> QED
    BY <2>3, <2>4 DEF Past
<1>3. ASSUME NEW v \in View, NEW s \in SN, NEW x \in Value, SafeAt(v, s, x)
      PROVE  SafeAt(v, s, x)'
  <2>1. ASSUME NEW u \in 0 .. v - 1
        PROVE  \E Q \in Quorums : \A k \in Q : CommitAt(k, u, s, x)' \/ Past(k, u, s)'
    <3>1. PICK Q \in Quorums : \A k \in Q : CommitAt(k, u, s, x) \/ Past(k, u, s)
      BY <1>3 DEF SafeAt
    <3>2. Q \subseteq Node /\ u \in View
      BY Parameters DEF Quorums, View
    <3> QED
      BY <1>1, <1>2, <3>1, <3>2
  <2> QED
    BY <2>1 DEF SafeAt
<1>4. ASSUME NEW u \in View, NEW s \in SN, NEW x \in Value, Chosen(u, s, x)
      PROVE  Chosen(u, s, x)'
  BY <1>1, <1>4 DEF Chosen, Quorums
<1> QED
  BY <1>1, <1>3, <1>4 DEF StaysSafe

\* What is to be shown for each SN.
LocalOK(n, w, s) ==
    /\ SlotOK(n, w, s)'
    /\ \A x \in Value : CommitAt(n, w, s, x)' => CommitOK(n, w, s, x)'
    /\ Fresh(s) => \/ (\A k \in Node : log'[k][s] = None) /\ FreshAt(n, w, s)'
                   \/ Settled(s)'
    /\ \A u \in View, d \in Value : Clean(n, s, u, d) /\ Chosen(u, s, d) => CleanAt(n, w, s, u, d)'

LEMMA SlotsKept ==
    ASSUME TypeInv, NEW n \in Node, NEW w \in View, Frame(n, w), Slots,
           \A s \in SN : LocalOK(n, w, s)
    PROVE  Slots'
<1> SUFFICES ASSUME NEW k \in Node, NEW v \in View, NEW s \in SN
             PROVE  SlotOK(k, v, s)'
  BY DEF Slots
<1>1. CASE k = n /\ v = w
  BY <1>1 DEF LocalOK
<1>2. CASE k # n \/ v # w
  <2>1. batches'[k][v] = batches[k][v] /\ viewChange'[k][v] = viewChange[k][v]
    BY <1>2 DEF Frame
  <2> DEFINE b == batches[k][v][s]
  <2>2. b.prepared => b.digest \in Value
    BY RowType DEF Row, Slot, SlotShape, Value
  <2>3. SlotOK(k, v, s)
    BY DEF Slots
  <2>4. StaysSafe
    BY FrameStable
  <2> QED
    BY <2>1, <2>2, <2>3, <2>4 DEF SlotOK, StaysSafe
<1> QED
  BY <1>1, <1>2

LEMMA ViewGrows ==
    ASSUME TypeInv, NEW n \in Node, NEW w \in View, Frame(n, w), NEW k \in Node
    PROVE  view[k] <= view'[k] /\ view[k] \in Nat /\ view'[k] \in Nat
<1>1. view[k] \in Nat /\ w \in Nat
  BY ViewType, Parameters
<1>2. CASE k = n
  BY <1>1, <1>2 DEF Frame
<1>3. CASE k # n
  BY <1>1, <1>3 DEF Frame
<1> QED
  BY <1>2, <1>3

LEMMA InfosKept ==
    ASSUME TypeInv, NEW n \in Node, NEW w \in View, Frame(n, w), Infos, InfoOK(n, w)'
    PROVE  Infos'
<1> SUFFICES ASSUME NEW k \in Node, NEW v \in View, k # n \/ v # w
             PROVE  InfoOK(k, v)'
  BY DEF Infos
<1>1. viewChange'[k][v] = viewChange[k][v] /\ InfoOK(k, v)
  BY DEF Frame, Infos
<1>2. view[k] <= view'[k] /\ view[k] \in Nat /\ view'[k] \in Nat /\ v \in Nat
  BY ViewGrows, Parameters
<1>3. msgs \subseteq msgs'
  BY DEF Frame
<1> QED
  BY <1>1, <1>2, <1>3 DEF InfoOK

LEMMA CommitsKept ==
    ASSUME TypeInv, NEW n \in Node, NEW w \in View, Frame(n, w), Commits,
           \A s \in SN : LocalOK(n, w, s)
    PROVE  Commits'
<1> SUFFICES ASSUME NEW k \in Node, NEW v \in View, NEW s \in SN, NEW x \in Value, CommitAt(k, v, s, x)'
             PROVE  CommitOK(k, v, s, x)'
  BY DEF Commits
<1>1. CASE k = n /\ v = w
  BY <1>1 DEF LocalOK
<1>2. CASE k # n \/ v # w
  <2>1. batches'[k][v] = batches[k][v]
    BY <1>2 DEF Frame
  <2>2. CommitAt(k, v, s, x) /\ \A y \in Value : CommitAt(k, v, s, y)' => CommitAt(k, v, s, y)
    BY <1>2 DEF Frame
  <2>3. CommitOK(k, v, s, x)
    BY <2>2 DEF Commits
  <2>4. StaysSafe
    BY FrameStable
  <2>5. v <= view'[k]
    <3>1. v \in Nat /\ v <= view[k]
      BY <2>3, Parameters DEF CommitOK
    <3>2. view[k] <= view'[k] /\ view[k] \in Nat /\ view'[k] \in Nat
      BY ViewGrows
    <3> QED
      BY <3>1, <3>2
  <2>6. batches[k][v][s].digest \in Value
    BY <2>3, RowType DEF Row, Slot, SlotShape, Value, CommitOK
  <2>7. SafeAt(v, s, x)'
    BY <2>3, <2>4 DEF CommitOK, StaysSafe
  <2>8. batches'[k][v][s].digest = x \/ \E u \in View : Chosen(u, s, batches[k][v][s].digest)'
    BY <2>1, <2>3, <2>4, <2>6 DEF CommitOK, StaysSafe
  <2>9. batches'[k][v][s].prepared /\ \A y \in Value : CommitAt(k, v, s, y)' => x = y
    BY <2>1, <2>2, <2>3 DEF CommitOK
  <2> QED
    BY <2>5, <2>7, <2>8, <2>9 DEF CommitOK
<1> QED
  BY <1>1, <1>2

LEMMA PhasesKept ==
    ASSUME TypeInv, NEW n \in Node, NEW w \in View, Frame(n, w), Phases,
           \A s \in SN : LocalOK(n, w, s)
    PROVE  Phases'
<1> SUFFICES ASSUME NEW s \in SN PROVE Fresh(s)' \/ Settled(s)'
  BY DEF Phases
<1>0. StaysSafe
  BY FrameStable
<1>1. CASE Fresh(s) /\ (\A k \in Node : log'[k][s] = None) /\ FreshAt(n, w, s)'
  <2>1. ASSUME NEW k \in Node, NEW v \in View, k # n \/ v # w
        PROVE  FreshAt(k, v, s)'
    <3> DEFINE b == batches[k][v][s]
               r == viewChange[k][v].reproposeBatches[s]
    <3>1. FreshAt(k, v, s)
      BY <1>1 DEF Fresh
    <3>2. batches'[k][v] = batches[k][v] /\ viewChange'[k][v] = viewChange[k][v]
      BY <2>1 DEF Frame
    <3>3. \A x \in Value : /\ CommitAt(k, v, s, x)' => CommitAt(k, v, s, x)
                           /\ PrepareAt(k, v, s, x)' => PrepareAt(k, v, s, x)
      BY <2>1 DEF Frame
    <3>4. /\ b.preprepareMsg # None => b.preprepareMsg.batch \in Value
          /\ r # None => r.digest \in Value
      BY RowType DEF Row, Slot, PrePrepare, Value, Info, Reproposal
    <3> QED
      BY <1>0, <3>1, <3>2, <3>3, <3>4 DEF FreshAt, StaysSafe
  <2> QED
    BY <1>1, <2>1 DEF Fresh
<1>2. CASE Settled(s)
  <2>1. PICK u \in View, d \in Value, C \in Quorums : \A k \in C : Clean(k, s, u, d)
    BY <1>2 DEF Settled
  <2>2. C \subseteq Node /\ C \in Quorums'
    BY DEF Quorums
  <2>3. Chosen(u, s, d)
    BY <2>1 DEF Chosen, Clean
  <2>4. ASSUME NEW k \in C, NEW v \in View
        PROVE  CleanAt(k, v, s, u, d)'
    <3>1. CASE k = n /\ v = w
      BY <2>1, <2>3, <3>1 DEF LocalOK
    <3>2. CASE k # n \/ v # w
      <4>1. CleanAt(k, v, s, u, d) /\ k \in Node
        BY <2>1, <2>2 DEF Clean
      <4>2. batches'[k][v] = batches[k][v] /\ viewChange'[k][v] = viewChange[k][v]
        BY <3>2, <4>1 DEF Frame
      <4>3. \A x \in Value : PrepareAt(k, v, s, x)' => PrepareAt(k, v, s, x)
        BY <3>2, <4>1 DEF Frame
      <4> QED
        BY <1>0, <4>1, <4>2, <4>3 DEF CleanAt, StaysSafe
    <3> QED
      BY <3>1, <3>2
  <2>5. \A k \in C : CommitAt(k, u, s, d)'
    BY <1>0, <2>1, <2>2 DEF StaysSafe, Clean
  <2> QED
    BY <2>2, <2>4, <2>5 DEF Settled, Clean
<1>3. CASE Fresh(s) /\ Settled(s)'
  BY <1>3
<1> QED
  BY <1>1, <1>2, <1>3 DEF Phases, LocalOK

\* The VIEWCHANGEs that are there.
LEMMA NamesLastKept ==
    ASSUME TypeInv, NEW n \in Node, NEW w \in View, Frame(n, w), ViewChangesFit,
           NEW m \in msgs, m.type = "VIEWCHANGE"
    PROVE  /\ m \in ViewChangeMsg /\ m.view <= view'[m.from]
           /\ \A s \in SN : NamesLast(m.from, m.view, s, m.p[s])'
<1>1. m \in ViewChangeMsg /\ m.from \in Node /\ m.view \in View /\ m.view \in Nat
  BY MessageType, MessagesType, Parameters DEF ViewChangeMsg
<1>2. m.view <= view[m.from] /\ \A s \in SN : NamesLast(m.from, m.view, s, m.p[s])
  BY DEF ViewChangesFit, ViewChangeOK
<1>3. m.view <= view'[m.from] /\ view[m.from] \in Nat
  BY <1>1, <1>2, ViewGrows
<1>4. StaysSafe
  BY FrameStable
<1>5. ASSUME NEW s \in SN PROVE NamesLast(m.from, m.view, s, m.p[s])'
  <2> DEFINE p == m.p[s]
  <2>1. \A u \in 0 .. m.view - 1, y \in Value : CommitAt(m.from, u, s, y)' => CommitAt(m.from, u, s, y)
    <3> TAKE u \in 0 .. m.view - 1, y \in Value
    <3>1. u \in View /\ (m.from = n => u # w \/ view[n] # w)
      BY <1>1, <1>2, Parameters DEF View
    <3> QED
      BY <1>1, <3>1 DEF Frame
  <2>2. p = None \/ (p \in Entry /\ p # None)
    BY <1>1 DEF ViewChangeMsg
  <2>3. CASE p = None
    BY <1>2, <2>1, <2>3 DEF NamesLast
  <2>4. CASE p \in Entry /\ p # None
    <3>1. p.view \in View /\ p.view \in Nat /\ p.digest \in Value /\ p.view < m.view
      BY <1>2, <2>4, Parameters DEF Entry, Value, NamesLast
    <3>2. SafeAt(p.view, s, p.digest)'
      BY <1>2, <1>4, <2>4, <3>1 DEF NamesLast, StaysSafe
    <3>3. p.view + 1 .. m.view - 1 \subseteq 0 .. m.view - 1 /\ p.view \in 0 .. m.view - 1
      BY <1>1, <3>1
    <3>4. \A u \in p.view + 1 .. m.view - 1, y \in Value : ~CommitAt(m.from, u, s, y)'
      BY <1>2, <2>1, <2>4, <3>3 DEF NamesLast
    <3>5. \A y \in Value : CommitAt(m.from, p.view, s, y)' =>
                             y = p.digest \/ \E u \in View : Chosen(u, s, p.digest)'
      BY <1>2, <1>4, <2>1, <2>4, <3>1, <3>3 DEF NamesLast, StaysSafe
    <3> QED
      BY <2>4, <3>1, <3>2, <3>4, <3>5 DEF NamesLast
  <2> QED
    BY <2>2, <2>3, <2>4
<1> QED
  BY <1>1, <1>3, <1>5

LEMMA ViewChangesKept ==
    ASSUME TypeInv, NEW n \in Node, NEW w \in View, Frame(n, w), ViewChangesFit,
           \A m \in msgs' : m.type = "VIEWCHANGE" => m \in msgs
    PROVE  ViewChangesFit'
BY NamesLastKept DEF ViewChangesFit, ViewChangeOK

\* The NEWVIEWs of other views, and of w when no one else starts it.
LEMMA NewViewKept ==
    ASSUME TypeInv, NEW n \in Node, NEW w \in View, Frame(n, w), NewViews,
           NEW m \in msgs, m.type = "NEWVIEW",
           \A k \in msgs' : k.type = "NEWVIEW" => k \in msgs \/ k.view # m.view,
           \A k \in Node : viewChange'[k][m.view].newView = viewChange[k][m.view].newView
    PROVE  NewViewOK(m)'
<1>1. m \in NewViewMsg /\ m.view \in View /\ m.from \in Node
  BY MessageType, MessagesType DEF NewViewMsg
<1>2. NewViewOK(m)
  BY DEF NewViews
<1>3. StaysSafe
  BY FrameStable
<1>4. m.s \subseteq ViewChanges(m.view)'
  BY <1>2 DEF Frame, NewViewOK, ViewChanges
<1>5. \A s \in SN : m.x[s].batch \in Value
  BY <1>1 DEF NewViewMsg, PrePrepare, Value
<1> QED
  BY <1>1, <1>2, <1>3, <1>4, <1>5 DEF NewViewOK, StaysSafe

LEMMA NewViewsKept ==
    ASSUME TypeInv, NEW n \in Node, NEW w \in View, Frame(n, w), NewViews,
           \A m \in msgs' : m.type = "NEWVIEW" => m \in msgs,
           viewChange'[n][w].newView = viewChange[n][w].newView
    PROVE  NewViews'
<1>1. \A k \in Node, v \in View : viewChange'[k][v].newView = viewChange[k][v].newView
  BY DEF Frame
<1>2. \A m \in msgs : m.type = "NEWVIEW" => m.view \in View
  BY MessageType, MessagesType DEF NewViewMsg
<1> QED
  BY <1>1, <1>2, NewViewKept DEF NewViews

LEMMA LogsKept ==
    ASSUME TypeInv, StaysSafe, Logs, log' = log
    PROVE  Logs'
<1> SUFFICES ASSUME NEW k \in Node, NEW s \in SN PROVE LogOK(k, s)'
  BY DEF Logs
<1>1. LogOK(k, s)
  BY DEF Logs
<1>2. log[k][s] # None => log[k][s].batch \in Value
  BY DEF TypeInv, Types, LogEntry, Value
<1> QED
  BY <1>1, <1>2 DEF LogOK, StaysSafe

\* An SN that the step does not touch.
LEMMA LocalSame ==
    ASSUME TypeInv, IInv, NEW n \in Node, NEW w \in View, Frame(n, w), NEW s \in SN,
           batches'[n][w][s] = batches[n][w][s], viewChange'[n][w] = viewChange[n][w],
           \A x \in Value : /\ CommitAt(n, w, s, x)' => CommitAt(n, w, s, x)
                            /\ PrepareAt(n, w, s, x)' => PrepareAt(n, w, s, x),
           \A k \in Node : log'[k][s] = log[k][s]
    PROVE  LocalOK(n, w, s)
<1> DEFINE b == batches[n][w][s]
           r == viewChange[n][w].reproposeBatches[s]
<1>0. StaysSafe
  BY FrameStable
<1>1. /\ b.prepared => b.digest \in Value
      /\ b.preprepareMsg # None => b.preprepareMsg.batch \in Value
      /\ r # None => r.digest \in Value
  BY RowType DEF Row, Slot, SlotShape, PrePrepare, Value, Info, Reproposal
<1>2. SlotOK(n, w, s)'
  <2>1. SlotOK(n, w, s)
    BY DEF IInv, Slots
  <2> QED
    BY <1>0, <1>1, <2>1 DEF SlotOK, StaysSafe
<1>3. ASSUME NEW x \in Value, CommitAt(n, w, s, x)' PROVE CommitOK(n, w, s, x)'
  <2>1. CommitOK(n, w, s, x)
    BY <1>3 DEF IInv, Commits
  <2>2. w <= view'[n]
    BY Parameters DEF Frame
  <2>3. SafeAt(w, s, x)' /\ b.digest \in Value
    BY <1>0, <1>1, <2>1 DEF CommitOK, StaysSafe
  <2>4. b.digest = x \/ \E u \in View : Chosen(u, s, b.digest)'
    BY <1>0, <2>1, <2>3 DEF CommitOK, StaysSafe
  <2>5. b.prepared /\ \A y \in Value : CommitAt(n, w, s, y)' => x = y
    BY <2>1 DEF CommitOK
  <2> QED
    BY <2>2, <2>3, <2>4, <2>5 DEF CommitOK
<1>4. Fresh(s) => (\A k \in Node : log'[k][s] = None) /\ FreshAt(n, w, s)'
  <2> SUFFICES ASSUME Fresh(s) PROVE (\A k \in Node : log'[k][s] = None) /\ FreshAt(n, w, s)'
    OBVIOUS
  <2>1. FreshAt(n, w, s) /\ \A k \in Node : log'[k][s] = None
    BY DEF Fresh
  <2> QED
    BY <1>0, <1>1, <2>1 DEF FreshAt, StaysSafe
<1>5. ASSUME NEW u \in View, NEW d \in Value, Clean(n, s, u, d) PROVE CleanAt(n, w, s, u, d)'
  <2>1. CleanAt(n, w, s, u, d)
    BY <1>5 DEF Clean
  <2> QED
    BY <1>0, <1>1, <2>1 DEF CleanAt, StaysSafe
<1> QED
  BY <1>2, <1>3, <1>4, <1>5 DEF LocalOK

LEMMA Assemble ==
    ASSUME TypeInv, IInv, NEW n \in Node, NEW w \in View, Frame(n, w),
           \A s \in SN : LocalOK(n, w, s), InfoOK(n, w)', ViewChangesFit', NewViews', Logs'
    PROVE  IInv'
BY SlotsKept, InfosKept, CommitsKept, PhasesKept DEF IInv

-----------------------------------------------------------------------------
(* Each step keeps the invariant *)

LEMMA PutIsFrame ==
    ASSUME TypeInv, NEW n \in Node, NEW w \in View, NEW f, NEW i, Put(n, w, f, i), view[n] <= w,
           \A m \in msgs' : m \in msgs \/ m.type \notin {"PREPARE", "COMMIT"}
                             \/ (m.from = n /\ m.view = w /\ (m.type = "COMMIT" => view[n] = w))
    PROVE  Frame(n, w)
<1>1. ASSUME NEW kind \in {"PREPARE", "COMMIT"}, NEW k \in Node, NEW v \in View, NEW s \in SN,
             NEW x \in Value, Vote(kind, k, v, s, x) \in msgs'
      PROVE  \/ Vote(kind, k, v, s, x) \in msgs
             \/ k = n /\ v = w /\ (kind = "COMMIT" => view[n] = w)
  <2> DEFINE m == Vote(kind, k, v, s, x)
  <2>1. m.type = kind /\ m.from = k /\ m.view = v
    BY DEF Vote
  <2> QED
    BY <1>1, <2>1
<1>2. \A k \in Node, v \in View, s \in SN, x \in Value :
         /\ CommitAt(k, v, s, x)' => CommitAt(k, v, s, x) \/ (k = n /\ v = w /\ view[n] = w)
         /\ PrepareAt(k, v, s, x)' => PrepareAt(k, v, s, x) \/ (k = n /\ v = w)
  BY <1>1 DEF CommitAt, PrepareAt
<1>3. msgs \subseteq msgs'
  BY DEF Put
<1> QED
  BY <1>2, <1>3, PutFrame DEF Frame

\* No vote is sent for an SN.
NoVote(n, w, s) ==
    \A x \in Value : /\ CommitAt(n, w, s, x)' => CommitAt(n, w, s, x)
                     /\ PrepareAt(n, w, s, x)' => PrepareAt(n, w, s, x)

LEMMA NoVoteSent ==
    ASSUME NEW n, NEW w, NEW s,
           \A m \in msgs' : m \in msgs \/ m.type \notin {"PREPARE", "COMMIT"} \/ m.sn # s
    PROVE  NoVote(n, w, s)
<1>1. ASSUME NEW kind \in {"PREPARE", "COMMIT"}, NEW x, Vote(kind, n, w, s, x) \in msgs'
      PROVE  Vote(kind, n, w, s, x) \in msgs
  <2>1. Vote(kind, n, w, s, x).type = kind /\ Vote(kind, n, w, s, x).sn = s
    BY DEF Vote
  <2> QED
    BY <1>1, <2>1
<1> QED
  BY <1>1 DEF NoVote, CommitAt, PrepareAt

\* A node that sent a COMMIT is in a view that was proposed to it.
LEMMA CommitsPrepared ==
    ASSUME TypeInv, IInv, NEW k \in Node, NEW v \in View, NEW s \in SN, NEW x \in Value, CommitAt(k, v, s, x)
    PROVE  /\ batches[k][v][s].prepared /\ batches[k][v][s].preprepareMsg # None
           /\ v = 0 \/ viewChange[k][v].newView
           /\ v <= view[k]
<1>1. batches[k][v][s].prepared /\ v <= view[k]
  BY DEF IInv, Commits, CommitOK
<1>2. batches[k][v][s].preprepareMsg # None
  BY <1>1, RowType DEF Row, SlotShape
<1> QED
  BY <1>1, <1>2 DEF IInv, Slots, SlotOK

LEMMA ProposedSafe ==
    ASSUME TypeInv, IInv, NEW n \in Node, NEW s \in SN, NEW pp \in PrePrepare,
           view[n] = 0, batches[n][0][s].preprepareMsg = None,
           Put(n, 0, ProposedRow(batches[n][0], s, pp), viewChange[n][0]), log' = log,
           \A m \in msgs' : m \in msgs \/ m.type = "PREPREPARE" \/ m = Vote("PREPARE", n, 0, s, pp.batch)
    PROVE  IInv'
<1> DEFINE row == batches[n][0]
           b == row[s]
<1>0. 0 \in View
  BY Parameters
<1>1. Vote("PREPARE", n, 0, s, pp.batch).type = "PREPARE" /\ Vote("PREPARE", n, 0, s, pp.batch).from = n
      /\ Vote("PREPARE", n, 0, s, pp.batch).view = 0 /\ Vote("PREPARE", n, 0, s, pp.batch).sn = s
  BY DEF Vote
<1>2. Frame(n, 0)
  <2>1. \A m \in msgs' : m \in msgs \/ m.type \notin {"PREPARE", "COMMIT"}
                           \/ (m.from = n /\ m.view = 0 /\ (m.type = "COMMIT" => view[n] = 0))
    BY <1>1
  <2>2. view[n] <= 0
    OBVIOUS
  <2> QED
    BY <1>0, <2>1, <2>2, PutIsFrame
<1>3. StaysSafe
  BY <1>0, <1>2, FrameStable
<1>4. batches'[n][0] = ProposedRow(row, s, pp) /\ viewChange'[n][0] = viewChange[n][0]
  BY <1>0, PutFrame
<1>5. row \in [SN -> Slot] /\ b \in Slot /\ SlotShape(b)
  BY <1>0, RowType DEF Row
<1>6. PICK c : c = batches'[n][0][s]
  OBVIOUS
<1>7. /\ c.preprepareMsg = pp /\ c.digest = pp.batch /\ c.prepared = b.prepared
      /\ c.committed = b.committed
  <2>1. c = [b EXCEPT !.preprepareMsg = pp, !.digest = pp.batch]
    BY <1>4, <1>5, <1>6 DEF ProposedRow
  <2>2. PICK a \in Slot : a = b
    BY <1>5
  <2>3. c = [a EXCEPT !.preprepareMsg = pp, !.digest = pp.batch]
    BY <2>1, <2>2
  <2>4. /\ c.preprepareMsg = pp /\ c.digest = pp.batch /\ c.prepared = a.prepared
        /\ c.committed = a.committed
    BY <2>3 DEF Slot, PrePrepare
  <2> QED
    BY <2>2, <2>4
<1>8. ~b.prepared
  BY <1>5 DEF SlotShape
<1>9. \A x \in Value : ~CommitAt(n, 0, s, x)'
  <2>1. \A m \in msgs' : m.type = "COMMIT" => m \in msgs
    BY <1>1
  <2>2. \A x \in Value : CommitAt(n, 0, s, x)' => CommitAt(n, 0, s, x)
    BY <2>1 DEF CommitAt, Vote
  <2>3. \A x \in Value : ~CommitAt(n, 0, s, x)
    BY <1>0, <1>8, CommitsPrepared
  <2> QED
    BY <2>2, <2>3
<1>10. \A x : SafeAt(0, s, x)'
  <2>1. 0 .. 0 - 1 = {}
    OBVIOUS
  <2> QED
    BY <2>1 DEF SafeAt
<1>11. LocalOK(n, 0, s)
  <2>1. SlotOK(n, 0, s)'
    BY <1>6, <1>7, <1>8 DEF SlotOK
  <2>2. \A x \in Value : CommitAt(n, 0, s, x)' => CommitOK(n, 0, s, x)'
    BY <1>9
  <2>3. Fresh(s) => (\A k \in Node : log'[k][s] = None) /\ FreshAt(n, 0, s)'
    <3> SUFFICES ASSUME Fresh(s) PROVE (\A k \in Node : log'[k][s] = None) /\ FreshAt(n, 0, s)'
      OBVIOUS
    <3>1. FreshAt(n, 0, s) /\ \A k \in Node : log'[k][s] = None
      BY <1>0 DEF Fresh
    <3> QED
      BY <1>4, <1>6, <1>7, <1>9, <1>10, <3>1 DEF FreshAt
  <2>4. ASSUME NEW u \in View, NEW d \in Value, Clean(n, s, u, d) PROVE FALSE
    <3>1. CommitAt(n, u, s, d)
      BY <2>4 DEF Clean
    <3>2. u <= 0
      BY <3>1, CommitsPrepared
    <3>3. u = 0
      BY <3>2, Parameters
    <3> QED
      BY <1>8, <3>1, <3>3, CommitsPrepared
  <2> QED
    BY <2>1, <2>2, <2>3, <2>4 DEF LocalOK
<1>12. ASSUME NEW t \in SN, t # s PROVE LocalOK(n, 0, t)
  <2>1. batches'[n][0][t] = batches[n][0][t]
    BY <1>4, <1>5, <1>12 DEF ProposedRow
  <2>2. NoVote(n, 0, t)
    BY <1>1, <1>12, NoVoteSent
  <2> QED
    BY <1>0, <1>2, <1>4, <2>1, <2>2, LocalSame DEF NoVote
<1>13. InfoOK(n, 0)'
  <2>1. InfoOK(n, 0)
    BY <1>0 DEF IInv, Infos
  <2> QED
    BY <1>2, <1>4, <2>1 DEF InfoOK, Frame
<1>14. ViewChangesFit' /\ NewViews' /\ Logs'
  <2>1. \A m \in msgs' : m.type \in {"VIEWCHANGE", "NEWVIEW"} => m \in msgs
    BY <1>1
  <2> QED
    BY <1>0, <1>2, <1>3, <1>4, <2>1, ViewChangesKept, NewViewsKept, LogsKept DEF IInv
<1> QED
  BY <1>0, <1>2, <1>11, <1>12, <1>13, <1>14, Assemble

LEMMA ProposeSafe ==
    ASSUME TypeInv, IInv, NEW n \in Node, NEW s \in SN, NEW b \in Batch, Propose(n, s, b)
    PROVE  IInv'
<1>1. PICK pp \in PrePrepare :
             /\ view[n] = 0 /\ batches[n][0][s].preprepareMsg = None
             /\ Put(n, 0, ProposedRow(batches[n][0], s, pp), viewChange[n][0])
             /\ Sends({"PREPREPARE"}) /\ log' = log
  BY ProposeStep
<1>2. \A m \in msgs' : m \in msgs \/ m.type = "PREPREPARE"
  BY <1>1 DEF Sends
<1> QED
  BY <1>1, <1>2, ProposedSafe

LEMMA HandlePreprepareSafe ==
    ASSUME TypeInv, IInv, NEW n \in Node, NEW m \in msgs, HandlePreprepare(n, m)
    PROVE  IInv'
<1>1. /\ m.sn \in SN /\ m.preprepare \in PrePrepare /\ view[n] = 0
      /\ batches[n][0][m.sn].preprepareMsg = None
      /\ Put(n, 0, ProposedRow(batches[n][0], m.sn, m.preprepare), viewChange[n][0])
      /\ msgs' = msgs \cup {Vote("PREPARE", n, 0, m.sn, m.preprepare.batch)}
      /\ log' = log
  BY HandlePreprepareStep
<1>2. \A k \in msgs' : k \in msgs \/ k = Vote("PREPARE", n, 0, m.sn, m.preprepare.batch)
  BY <1>1
<1> QED
  BY <1>1, <1>2, ProposedSafe

\* The 2 * Faults PREPAREs of a prepared batch are for a safe one.
LEMMA PreparedIsSafe ==
    ASSUME EnoughNodes, TypeInv, IInv, NEW v \in View, NEW s \in SN, NEW x \in Value,
           Cardinality(Votes("PREPARE", v, s, x)) >= 2 * Faults
    PROVE  SafeAt(v, s, x)
<1> DEFINE P == Votes("PREPARE", v, s, x)
<1>1. P \subseteq {k \in Node : PrepareAt(k, v, s, x)}
  BY VotesType DEF PrepareAt
<1>2. CASE Fresh(s)
  <2>1. Node \in Quorums
    BY Parameters DEF Quorums, Quorum, Faults
  <2>2. P # {}
    BY <1>1, <2>1, QuorumsMeet
  <2>3. PICK k \in Node : PrepareAt(k, v, s, x)
    BY <1>1, <2>2
  <2> QED
    BY <1>2, <2>3 DEF Fresh, FreshAt
<1>3. CASE Settled(s)
  <2>1. PICK u \in View, d \in Value, C \in Quorums : \A k \in C : Clean(k, s, u, d)
    BY <1>3 DEF Settled
  <2>2. PICK k \in C : k \in P
    BY <1>1, QuorumsMeet
  <2>3. CleanAt(k, v, s, u, d) /\ PrepareAt(k, v, s, x)
    BY <1>1, <2>1, <2>2 DEF Clean
  <2> QED
    BY <2>3 DEF CleanAt
<1> QED
  BY <1>2, <1>3 DEF IInv, Phases

LEMMA HandlePrepareSafe ==
    ASSUME EnoughNodes, TypeInv, IInv, NEW n \in Node, NEW s \in SN, HandlePrepare(n, s)
    PROVE  IInv'
<1>1. PICK v \in View : v = view[n]
  BY ViewType
<1> DEFINE row == batches[n][v]
           b == row[s]
<1>2. PICK x \in Value : x = b.digest /\ Cardinality(Votes("PREPARE", v, s, x)) >= 2 * Faults
  BY <1>1, HandlePrepareStep
<1>3. /\ b.preprepareMsg # None /\ ~b.prepared
      /\ Put(n, v, PreparedRow(row, s), viewChange[n][v])
      /\ msgs' = msgs \cup {Vote("COMMIT", n, v, s, x)} /\ log' = log
  BY <1>1, <1>2, HandlePrepareStep
<1>4. LET m == Vote("COMMIT", n, v, s, x)
      IN  m.type = "COMMIT" /\ m.from = n /\ m.view = v /\ m.sn = s /\ m.digest = x
  BY DEF Vote
<1>5. Frame(n, v)
  <2>1. \A m \in msgs' : m \in msgs \/ m.type \notin {"PREPARE", "COMMIT"}
                           \/ (m.from = n /\ m.view = v /\ (m.type = "COMMIT" => view[n] = v))
    BY <1>1, <1>3, <1>4
  <2>2. view[n] <= v
    BY <1>1, Parameters
  <2> QED
    BY <1>3, <2>1, <2>2, PutIsFrame
<1>6. StaysSafe
  BY <1>5, FrameStable
<1>7. batches'[n][v] = PreparedRow(row, s) /\ viewChange'[n][v] = viewChange[n][v]
  BY <1>3, PutFrame
<1>8. row \in [SN -> Slot] /\ b \in Slot
  BY RowType DEF Row
<1>9. PICK c : c = batches'[n][v][s]
  OBVIOUS
<1>10. /\ c.preprepareMsg = b.preprepareMsg /\ c.digest = x /\ c.prepared
       /\ c.committed = b.committed
  <2>1. c = [b EXCEPT !.prepared = TRUE]
    BY <1>7, <1>8, <1>9 DEF PreparedRow
  <2>2. PICK a \in Slot : a = b
    BY <1>8
  <2>3. c = [a EXCEPT !.prepared = TRUE]
    BY <2>1, <2>2
  <2>4. c.preprepareMsg = a.preprepareMsg /\ c.digest = a.digest /\ c.prepared /\ c.committed = a.committed
    BY <2>3 DEF Slot
  <2> QED
    BY <1>2, <2>2, <2>4
<1>11. SafeAt(v, s, x)'
  BY <1>2, <1>6, PreparedIsSafe DEF StaysSafe
<1>12. \A y \in Value : CommitAt(n, v, s, y)' => y = x
  <2>1. \A y \in Value : ~CommitAt(n, v, s, y)
    BY <1>3, CommitsPrepared
  <2>2. \A y \in Value : CommitAt(n, v, s, y)' => CommitAt(n, v, s, y) \/ y = x
    BY <1>3 DEF CommitAt, Vote
  <2> QED
    BY <2>1, <2>2
<1>13. \A y \in Value : PrepareAt(n, v, s, y)' => PrepareAt(n, v, s, y)
  BY <1>3 DEF PrepareAt, Vote
<1>14. LocalOK(n, v, s)
  <2>1. SlotOK(n, v, s)'
    <3>1. SlotOK(n, v, s)
      BY DEF IInv, Slots
    <3> QED
      BY <1>2, <1>7, <1>9, <1>10, <1>11, <3>1 DEF SlotOK
  <2>2. ASSUME NEW y \in Value, CommitAt(n, v, s, y)' PROVE CommitOK(n, v, s, y)'
    <3>1. y = x /\ v <= view'[n]
      BY <1>5, <1>12, <2>2, Parameters DEF Frame
    <3> QED
      BY <1>9, <1>10, <1>11, <1>12, <3>1 DEF CommitOK
  <2>3. Fresh(s) => (\A k \in Node : log'[k][s] = None) /\ FreshAt(n, v, s)'
    <3> SUFFICES ASSUME Fresh(s) PROVE (\A k \in Node : log'[k][s] = None) /\ FreshAt(n, v, s)'
      OBVIOUS
    <3>1. FreshAt(n, v, s) /\ \A k \in Node : log'[k][s] = None
      BY <1>3 DEF Fresh
    <3>2. /\ b.preprepareMsg # None => b.preprepareMsg.batch \in Value
          /\ viewChange[n][v].reproposeBatches[s] # None => viewChange[n][v].reproposeBatches[s].digest \in Value
      BY RowType DEF Row, Slot, PrePrepare, Value, Info, Reproposal
    <3> QED
      BY <1>6, <1>7, <1>9, <1>10, <1>12, <1>13, <3>1, <3>2 DEF FreshAt, StaysSafe
  <2>4. ASSUME NEW u \in View, NEW d \in Value, Clean(n, s, u, d) PROVE CleanAt(n, v, s, u, d)'
    <3>1. CleanAt(n, v, s, u, d)
      BY <2>4 DEF Clean
    <3> QED
      BY <1>2, <1>6, <1>7, <1>9, <1>10, <1>13, <3>1 DEF CleanAt, StaysSafe
  <2> QED
    BY <2>1, <2>2, <2>3, <2>4 DEF LocalOK
<1>15. ASSUME NEW t \in SN, t # s PROVE LocalOK(n, v, t)
  <2>1. batches'[n][v][t] = batches[n][v][t]
    BY <1>7, <1>8, <1>15 DEF PreparedRow
  <2>2. NoVote(n, v, t)
    BY <1>3, <1>4, <1>15, NoVoteSent
  <2> QED
    BY <1>3, <1>5, <1>7, <2>1, <2>2, LocalSame DEF NoVote
<1>16. InfoOK(n, v)'
  <2>1. InfoOK(n, v)
    BY DEF IInv, Infos
  <2> QED
    BY <1>1, <1>5, <1>7, <2>1 DEF InfoOK, Frame
<1>17. ViewChangesFit' /\ NewViews' /\ Logs'
  <2>1. \A m \in msgs' : m.type \in {"VIEWCHANGE", "NEWVIEW"} => m \in msgs
    BY <1>3, <1>4
  <2> QED
    BY <1>3, <1>5, <1>6, <1>7, <2>1, ViewChangesKept, NewViewsKept, LogsKept DEF IInv
<1> QED
  BY <1>5, <1>14, <1>15, <1>16, <1>17, Assemble

LEMMA QuietSafe ==
    ASSUME TypeInv, IInv, NEW n \in Node, Quiet
    PROVE  IInv'
<1>1. PICK v \in View : v = view[n]
  BY ViewType
<1>2. /\ view' = view /\ batches' = batches /\ viewChange' = viewChange /\ log' = log
      /\ msgs \subseteq msgs'
      /\ \A m \in msgs' : m \in msgs \/ m.type \in {"MISSINGREQ", "MISSINGPP"}
  BY DEF Quiet, Sends
<1>3. \A m \in msgs' : m.type \in {"PREPARE", "COMMIT", "VIEWCHANGE", "NEWVIEW"} => m \in msgs
  BY <1>2
<1>4. \A t : NoVote(n, v, t)
  BY <1>3, NoVoteSent
<1>5. Frame(n, v)
  <2>1. \A k, u, s, x : (CommitAt(k, u, s, x)' => CommitAt(k, u, s, x)) /\ (PrepareAt(k, u, s, x)' => PrepareAt(k, u, s, x))
    BY <1>3 DEF CommitAt, PrepareAt, Vote
  <2>2. view[n] <= v
    BY <1>1, Parameters
  <2> QED
    BY <1>1, <1>2, <2>1, <2>2 DEF Frame
<1>6. StaysSafe
  BY <1>5, FrameStable
<1>7. \A s \in SN : LocalOK(n, v, s)
  BY <1>2, <1>4, <1>5, LocalSame DEF NoVote
<1>8. InfoOK(n, v)'
  <2>1. InfoOK(n, v)
    BY DEF IInv, Infos
  <2> QED
    BY <1>2, <2>1 DEF InfoOK
<1>9. ViewChangesFit' /\ NewViews' /\ Logs'
  BY <1>2, <1>3, <1>5, <1>6, ViewChangesKept, NewViewsKept, LogsKept DEF IInv
<1> QED
  BY <1>5, <1>7, <1>8, <1>9, Assemble

LEMMA AnnouncedIsFrame ==
    ASSUME TypeInv, NEW n \in Node, NEW v \in View, v = view[n], NEW f,
           Put(n, v, f, viewChange[n][v]), Sends({"CHECKPOINT"})
    PROVE  /\ Frame(n, v) /\ StaysSafe
           /\ batches'[n][v] = f /\ viewChange'[n][v] = viewChange[n][v]
           /\ \A t : NoVote(n, v, t)
           /\ \A m \in msgs' : m.type \in {"VIEWCHANGE", "NEWVIEW"} => m \in msgs
<1>1. \A m \in msgs' : m \in msgs \/ m.type = "CHECKPOINT"
  BY DEF Sends
<1>2. view[n] <= v
  BY Parameters
<1>3. \A m \in msgs' : m.type \in {"PREPARE", "COMMIT", "VIEWCHANGE", "NEWVIEW"} => m \in msgs
  BY <1>1
<1>4. Frame(n, v)
  BY <1>2, <1>3, PutIsFrame
<1> QED
  BY <1>3, <1>4, FrameStable, PutFrame, NoVoteSent

\* A node announces a batch that was chosen.
LEMMA AnnouncedSafe ==
    ASSUME EnoughNodes, TypeInv, IInv, NEW n \in Node, NEW s \in SN, NEW v \in View, v = view[n],
           NEW d \in Value, NEW e \in LogEntry, e.batch = d, NEW u \in View, Chosen(u, s, d),
           Put(n, v, AnnouncedRow(batches[n][v], s, d), viewChange[n][v]), Sends({"CHECKPOINT"}),
           log' = [log EXCEPT ![n][s] = IF log[n][s] = None THEN e ELSE log[n][s]],
           Fresh(s) => Settled(s)'
    PROVE  IInv'
<1> DEFINE row == batches[n][v]
           b == row[s]
<1>1. /\ Frame(n, v) /\ StaysSafe
      /\ batches'[n][v] = AnnouncedRow(row, s, d) /\ viewChange'[n][v] = viewChange[n][v]
      /\ \A t : NoVote(n, v, t)
      /\ \A m \in msgs' : m.type \in {"VIEWCHANGE", "NEWVIEW"} => m \in msgs
  <2>1. PICK f : f = AnnouncedRow(row, s, d)
    OBVIOUS
  <2>2. Put(n, v, f, viewChange[n][v])
    BY <2>1
  <2>3. v = view[n] /\ Sends({"CHECKPOINT"}) /\ n \in Node /\ v \in View /\ TypeInv
    OBVIOUS
  <2>4. Frame(n, v) /\ StaysSafe
    BY <2>2, <2>3, AnnouncedIsFrame
  <2>5. batches'[n][v] = f /\ viewChange'[n][v] = viewChange[n][v]
    BY <2>2, <2>3, PutFrame
  <2>6. \A t : NoVote(n, v, t)
    BY <2>2, <2>3, AnnouncedIsFrame
  <2>7. \A m \in msgs' : m.type \in {"VIEWCHANGE", "NEWVIEW"} => m \in msgs
    BY <2>2, <2>3, AnnouncedIsFrame
  <2> QED
    BY <2>1, <2>4, <2>5, <2>6, <2>7
<1>2. Commits
  BY DEF IInv
<1>3. row \in [SN -> Slot] /\ b \in Slot /\ SlotShape(b)
  BY RowType DEF Row
<1>4. PICK c : c = batches'[n][v][s]
  OBVIOUS
<1>5. /\ c.preprepareMsg = b.preprepareMsg /\ c.digest = d /\ c.prepared = b.prepared
      /\ c.committed
  <2>1. c = [b EXCEPT !.committed = TRUE, !.digest = d]
    BY <1>1, <1>3, <1>4 DEF AnnouncedRow
  <2>2. PICK a \in Slot : a = b
    BY <1>3
  <2>3. c = [a EXCEPT !.committed = TRUE, !.digest = d]
    BY <2>1, <2>2
  <2>4. c.preprepareMsg = a.preprepareMsg /\ c.digest = d /\ c.prepared = a.prepared /\ c.committed
    BY <2>3 DEF Slot
  <2> QED
    BY <2>2, <2>4
<1>6. Chosen(u, s, d)'
  BY <1>1 DEF StaysSafe
<1>7. b.prepared => SafeAt(v, s, d)'
  <2> SUFFICES ASSUME b.prepared PROVE SafeAt(v, s, d)'
    OBVIOUS
  <2>1. SafeAt(v, s, b.digest) /\ b.digest \in Value
    BY <1>3 DEF IInv, Slots, SlotOK, Slot, SlotShape, Value
  <2>2. CASE u < v
    <3>1. b.digest = d
      BY <1>2, <2>1, <2>2, SafeChosen
    <3> QED
      BY <1>1, <2>1, <3>1 DEF StaysSafe
  <2>3. CASE v <= u
    <3>1. SafeAt(v, s, d)
      BY <1>2, <2>3, ChosenIsSafe, SafeBefore
    <3> QED
      BY <1>1, <3>1 DEF StaysSafe
  <2>4. u < v \/ v <= u
    BY Parameters
  <2> QED
    BY <2>2, <2>3, <2>4
<1>8. LocalOK(n, v, s)
  <2>1. SlotOK(n, v, s)'
    <3>1. SlotOK(n, v, s)
      BY DEF IInv, Slots
    <3> QED
      BY <1>1, <1>4, <1>5, <1>7, <3>1 DEF SlotOK
  <2>2. ASSUME NEW x \in Value, CommitAt(n, v, s, x)' PROVE CommitOK(n, v, s, x)'
    <3>1. CommitAt(n, v, s, x) /\ \A y \in Value : CommitAt(n, v, s, y)' => CommitAt(n, v, s, y)
      BY <1>1, <2>2 DEF NoVote
    <3>2. CommitOK(n, v, s, x)
      BY <1>2, <3>1 DEF Commits
    <3>3. v <= view'[n] /\ b.prepared /\ SafeAt(v, s, x)' /\ \A y \in Value : CommitAt(n, v, s, y)' => x = y
      BY <1>1, <3>1, <3>2, Parameters DEF Frame, CommitOK, StaysSafe
    <3> QED
      BY <1>4, <1>5, <1>6, <3>3 DEF CommitOK
  <2>3. ASSUME NEW u1 \in View, NEW d1 \in Value, Clean(n, s, u1, d1), Chosen(u1, s, d1)
        PROVE  CleanAt(n, v, s, u1, d1)'
    <3>1. d1 = d
      BY <1>2, <2>3, ChosenOnce
    <3>2. CleanAt(n, v, s, u1, d1)
      BY <2>3 DEF Clean
    <3>3. \A x \in Value : PrepareAt(n, v, s, x)' => PrepareAt(n, v, s, x)
      BY <1>1 DEF NoVote
    <3> QED
      BY <1>1, <1>4, <1>5, <3>1, <3>2, <3>3 DEF CleanAt, StaysSafe
  <2> QED
    BY <2>1, <2>2, <2>3 DEF LocalOK
<1>9. \A k \in Node, t \in SN : log'[k][t] = log[k][t] \/ (k = n /\ t = s /\ log'[k][t] = e)
  BY DEF TypeInv, Types
<1>10. ASSUME NEW t \in SN, t # s PROVE LocalOK(n, v, t)
  <2>1. batches'[n][v][t] = batches[n][v][t]
    BY <1>1, <1>3, <1>10 DEF AnnouncedRow
  <2>2. \A k \in Node : log'[k][t] = log[k][t]
    BY <1>9, <1>10
  <2>3. NoVote(n, v, t)
    BY <1>1
  <2> QED
    BY <1>1, <2>1, <2>2, <2>3, LocalSame DEF NoVote
<1>11. InfoOK(n, v)'
  <2>1. InfoOK(n, v)
    BY DEF IInv, Infos
  <2> QED
    BY <1>1, <2>1 DEF InfoOK, Frame
<1>12. Logs'
  <2> SUFFICES ASSUME NEW k \in Node, NEW t \in SN PROVE LogOK(k, t)'
    BY DEF Logs
  <2>1. CASE log'[k][t] = log[k][t]
    <3>1. LogOK(k, t) /\ (log[k][t] # None => log[k][t].batch \in Value)
      BY DEF IInv, Logs, TypeInv, Types, LogEntry, Value
    <3> QED
      BY <1>1, <2>1, <3>1 DEF LogOK, StaysSafe
  <2>2. CASE t = s /\ log'[k][t] = e
    BY <1>6, <2>2 DEF LogOK
  <2> QED
    BY <1>9, <2>1, <2>2
<1>13. ViewChangesFit' /\ NewViews'
  BY <1>1, ViewChangesKept, NewViewsKept DEF IInv
<1> QED
  BY <1>1, <1>8, <1>10, <1>11, <1>12, <1>13, Assemble

\* The first commit of an SN.
LEMMA CommitSettles ==
    ASSUME EnoughNodes, TypeInv, IInv, NEW n \in Node, NEW s \in SN, NEW v \in View, v = view[n],
           NEW d \in Value, d = batches[n][v][s].digest,
           NEW Q \in Quorums, \A k \in Q : CommitAt(k, v, s, d),
           Put(n, v, AnnouncedRow(batches[n][v], s, d), viewChange[n][v]), Sends({"CHECKPOINT"}),
           Fresh(s)
    PROVE  Settled(s)'
<1> DEFINE row == batches[n][v]
<1>1. /\ Frame(n, v) /\ StaysSafe
      /\ batches'[n][v] = AnnouncedRow(row, s, d) /\ viewChange'[n][v] = viewChange[n][v]
      /\ \A t : NoVote(n, v, t)
  <2>1. PICK f : f = AnnouncedRow(row, s, d)
    OBVIOUS
  <2>2. Put(n, v, f, viewChange[n][v])
    BY <2>1
  <2>3. v = view[n] /\ Sends({"CHECKPOINT"}) /\ n \in Node /\ v \in View /\ TypeInv
    OBVIOUS
  <2>4. Frame(n, v) /\ StaysSafe
    BY <2>2, <2>3, AnnouncedIsFrame
  <2>5. batches'[n][v] = f /\ viewChange'[n][v] = viewChange[n][v]
    BY <2>2, <2>3, PutFrame
  <2>6. \A t : NoVote(n, v, t)
    BY <2>2, <2>3, AnnouncedIsFrame
  <2>7. \A m \in msgs' : m.type \in {"VIEWCHANGE", "NEWVIEW"} => m \in msgs
    BY <2>2, <2>3, AnnouncedIsFrame
  <2> QED
    BY <2>1, <2>4, <2>5, <2>6, <2>7
<1>2. Commits /\ Chosen(v, s, d) /\ Q \subseteq Node
  BY DEF IInv, Chosen, Quorums
<1>3. row \in [SN -> Slot] /\ row[s] \in Slot
  BY RowType DEF Row
<1>4. /\ batches'[n][v][s].preprepareMsg = row[s].preprepareMsg
      /\ batches'[n][v][s].digest = d
  <2>1. PICK a \in Slot : a = row[s]
    BY <1>3
  <2>2. PICK c : c = batches'[n][v][s]
    OBVIOUS
  <2>3. c = [a EXCEPT !.committed = TRUE, !.digest = d]
    BY <1>1, <1>3, <2>1, <2>2 DEF AnnouncedRow
  <2>4. c.preprepareMsg = a.preprepareMsg /\ c.digest = d
    BY <2>3 DEF Slot
  <2> QED
    BY <2>1, <2>2, <2>4
<1>5. ASSUME NEW k \in Q, NEW w \in View
      PROVE  CleanAt(k, w, s, v, d)'
  <2> DEFINE b == batches[k][w][s]
             r == viewChange[k][w].reproposeBatches[s]
  <2>0. k \in Node /\ CommitAt(k, v, s, d)
    BY <1>2
  <2>1. FreshAt(k, w, s) /\ SlotOK(k, w, s)
    BY <2>0 DEF Fresh, IInv, Slots
  <2>2. viewChange'[k][w] = viewChange[k][w]
    BY <1>1, <2>0 DEF Frame
  <2>3. \/ k = n /\ w = v
        \/ batches'[k][w] = batches[k][w]
    BY <1>1, <2>0 DEF Frame
  <2>4. batches'[k][w][s].preprepareMsg = b.preprepareMsg
    BY <1>4, <2>3
  <2>5. batches'[k][w][s].committed => batches'[k][w][s].digest = d
    BY <1>4, <2>1, <2>3 DEF FreshAt
  <2>6. /\ b.preprepareMsg # None => b.preprepareMsg.batch \in Value
        /\ r # None => r.digest \in Value
    BY <2>0, RowType DEF Row, Slot, PrePrepare, Value, Info, Reproposal
  <2>7. w >= v /\ b.preprepareMsg # None => b.preprepareMsg.batch = d
    <3> SUFFICES ASSUME w >= v, b.preprepareMsg # None PROVE b.preprepareMsg.batch = d
      OBVIOUS
    <3>1. CASE w = v
      BY <2>0, <2>1, <3>1 DEF FreshAt, SlotOK
    <3>2. CASE v < w
      <4>1. SafeAt(w, s, b.preprepareMsg.batch)
        BY <2>1 DEF FreshAt
      <4> HIDE DEF b
      <4> QED
        BY <1>2, <2>6, <3>2, <4>1, SafeChosen
    <3>3. w = v \/ v < w
      BY Parameters
    <3> QED
      BY <3>1, <3>2, <3>3
  <2>8. w > v /\ r # None => r.digest = d
    <3> SUFFICES ASSUME w > v, r # None PROVE r.digest = d
      OBVIOUS
    <3>1. SafeAt(w, s, r.digest) /\ v < w
      BY <2>1, Parameters DEF FreshAt
    <3> HIDE DEF r
    <3> QED
      BY <1>2, <2>6, <3>1, SafeChosen
  <2>9. \A x \in Value : PrepareAt(k, w, s, x)' => SafeAt(w, s, x)'
    <3> TAKE x \in Value
    <3>1. PrepareAt(k, w, s, x)' => PrepareAt(k, w, s, x)
      BY <1>1, <2>0 DEF Frame, NoVote
    <3> QED
      BY <1>1, <2>1, <3>1 DEF FreshAt, StaysSafe
  <2> QED
    BY <2>2, <2>4, <2>5, <2>7, <2>8, <2>9 DEF CleanAt
<1>6. \A k \in Q : CommitAt(k, v, s, d)'
  BY <1>1, <1>2 DEF StaysSafe
<1>7. Q \in Quorums'
  BY DEF Quorums
<1> QED
  BY <1>5, <1>6, <1>7 DEF Settled, Clean

LEMMA HandleCommitSafe ==
    ASSUME EnoughNodes, TypeInv, IInv, NEW n \in Node, NEW s \in SN, HandleCommit(n, s)
    PROVE  IInv'
<1>1. PICK v \in View : v = view[n]
  BY ViewType
<1> DEFINE b == batches[n][v][s]
<1>2. PICK e \in LogEntry :
        /\ b.digest \in Value /\ b.preprepareMsg # None /\ b.prepared /\ ~b.committed
        /\ Cardinality(Votes("COMMIT", v, s, b.digest)) >= Quorum
        /\ Put(n, v, AnnouncedRow(batches[n][v], s, b.digest), viewChange[n][v])
        /\ Sends({"CHECKPOINT"}) /\ e.batch = b.preprepareMsg.batch
        /\ log' = [log EXCEPT ![n][s] = IF log[n][s] = None THEN e ELSE log[n][s]]
  BY <1>1, HandleCommitStep
<1>3. PICK d \in Value : d = b.digest
  BY <1>2
<1>4. e.batch = d
  <2>1. SlotOK(n, v, s)
    BY DEF IInv, Slots
  <2> QED
    BY <1>2, <1>3, <2>1 DEF SlotOK
<1>5. Votes("COMMIT", v, s, d) \in Quorums /\ Chosen(v, s, d)
  BY <1>2, <1>3, VotesAreQuorum
<1>6. \A k \in Votes("COMMIT", v, s, d) : CommitAt(k, v, s, d)
  BY VotesType DEF CommitAt
<1>7. Fresh(s) => Settled(s)'
  <2> HIDE DEF b
  <2> QED
    BY <1>1, <1>2, <1>3, <1>5, <1>6, CommitSettles DEF b
<1> QED
  BY <1>1, <1>2, <1>3, <1>4, <1>5, <1>7, AnnouncedSafe

LEMMA HandleMissingEntrySafe ==
    ASSUME EnoughNodes, TypeInv, IInv, NEW n \in Node, NEW s \in SN, NEW source \in Node,
           HandleMissingEntry(n, s, source)
    PROVE  IInv'
<1>1. PICK v \in View : v = view[n]
  BY ViewType
<1>2. CASE Quiet
  BY <1>2, QuietSafe
<1>3. CASE ~Quiet
  <2>1. PICK e \in LogEntry : e = log[source][s]
    BY <1>3, HandleMissingEntryStep
  <2>2. /\ e # None /\ e.batch \in Value
        /\ Put(n, v, AnnouncedRow(batches[n][v], s, e.batch), viewChange[n][v])
        /\ Sends({"CHECKPOINT"})
        /\ log' = [log EXCEPT ![n][s] = IF log[n][s] = None THEN e ELSE log[n][s]]
    BY <1>1, <1>3, <2>1, HandleMissingEntryStep
  <2>3. PICK u \in View : Chosen(u, s, e.batch)
    BY <2>1, <2>2 DEF IInv, Logs, LogOK
  <2>4. ~Fresh(s)
    BY <2>1, <2>2 DEF Fresh
  <2> QED
    BY <1>1, <2>2, <2>3, <2>4, AnnouncedSafe
<1> QED
  BY <1>2, <1>3

\* Where a node starts a view from: nothing is proposed, and what is committed comes
\* from the view it leaves.
LEMMA StartRowFacts ==
    ASSUME TypeInv, IInv, NEW n \in Node, NEW w \in View, w > 0, w >= view[n], ~viewChange[n][w].newView,
           NEW s \in SN, NEW b, b = StartRow(n, w)[s]
    PROVE  /\ b \in Slot /\ b.preprepareMsg = None /\ ~b.prepared
           /\ Fresh(s) => ~b.committed
           /\ \A u \in View, d \in Value : Clean(n, s, u, d) => (b.committed => b.digest = d)
<1> DEFINE a == batches[n][view[n]][s]
<1>0. view[n] \in View
  BY ViewType
<1>1. /\ b \in Slot /\ b.preprepareMsg = None /\ ~b.prepared
      /\ b.committed => a.committed /\ b.digest = a.digest
  <2>1. CASE w = view[n]
    <3>1. b = a /\ b \in Slot /\ SlotShape(b)
      BY <1>0, <2>1, RowType DEF StartRow, Row
    <3>2. b.preprepareMsg = None
      BY <2>1, <3>1, Parameters DEF IInv, Slots, SlotOK
    <3> QED
      BY <3>1, <3>2 DEF SlotShape
  <2>2. CASE w # view[n]
    <3>1. b = StartView(n, w)[s]
      BY <2>2 DEF StartRow
    <3>2. b \in Slot /\ b.preprepareMsg = None /\ ~b.prepared
      BY <3>1, StartViewType
    <3>3. b = IF a.committed THEN [NewSlot EXCEPT !.committed = TRUE, !.digest = a.digest] ELSE NewSlot
      BY <3>1 DEF StartView
    <3>4. b.committed => a.committed /\ b.digest = a.digest
      BY <3>3 DEF NewSlot
    <3> QED
      BY <3>2, <3>4
  <2> QED
    BY <2>1, <2>2
<1>2. Fresh(s) => ~a.committed
  BY <1>0 DEF Fresh, FreshAt
<1>3. \A u \in View, d \in Value : Clean(n, s, u, d) => (a.committed => a.digest = d)
  BY <1>0 DEF Clean, CleanAt
<1> QED
  BY <1>1, <1>2, <1>3

\* A node that starts a view has sent its COMMITs in earlier ones.
LEMMA CommitsBefore ==
    ASSUME TypeInv, IInv, NEW n \in Node, NEW w \in View, w > 0, w >= view[n], ~viewChange[n][w].newView,
           NEW s \in SN
    PROVE  /\ \A x \in Value : ~CommitAt(n, w, s, x)
           /\ \A u \in View, x \in Value : CommitAt(n, u, s, x) => u < w
<1>1. \A x \in Value : ~CommitAt(n, w, s, x)
  BY CommitsPrepared, Parameters
<1>2. ASSUME NEW u \in View, NEW x \in Value, CommitAt(n, u, s, x) PROVE u < w
  <2>1. u <= view[n] /\ u # w
    BY <1>1, <1>2, CommitsPrepared
  <2>2. u \in Nat /\ w \in Nat /\ view[n] \in Nat
    BY ViewType, Parameters
  <2> QED
    BY <2>1, <2>2
<1> QED
  BY <1>1, <1>2

\* What a node that starts a view gets in a slot and as a reproposal.
NewFresh(n, w, s, c, r) ==
    /\ ~c.committed
    /\ c.preprepareMsg # None => SafeAt(w, s, c.preprepareMsg.batch)
    /\ \A x \in Value : PrepareAt(n, w, s, x)' => PrepareAt(n, w, s, x) \/ SafeAt(w, s, x)
    /\ r # None => ~r.committed /\ SafeAt(w, s, r.digest)
NewClean(n, w, s, d, c, r) ==
    /\ c.committed => c.digest = d
    /\ c.preprepareMsg # None => c.preprepareMsg.batch = d
    /\ \A x \in Value : PrepareAt(n, w, s, x)' => PrepareAt(n, w, s, x) \/ SafeAt(w, s, x)
    /\ r # None => r.digest = d

LEMMA StartedLocal ==
    ASSUME TypeInv, IInv, NEW n \in Node, NEW w \in View, w > 0, w >= view[n], ~viewChange[n][w].newView,
           Frame(n, w), log' = log, \A m \in msgs' : m.type = "COMMIT" => m \in msgs,
           NEW s \in SN, NEW c \in Slot, c = batches'[n][w][s],
           NEW r \in Reproposal \cup {None}, r = viewChange'[n][w].reproposeBatches[s],
           ~c.prepared, c.preprepareMsg # None => viewChange'[n][w].newView,
           c.preprepareMsg # None /\ ~c.committed => c.digest = c.preprepareMsg.batch,
           Fresh(s) => NewFresh(n, w, s, c, r),
           \A u \in View, d \in Value : Clean(n, s, u, d) /\ Chosen(u, s, d) /\ u < w
                                          => NewClean(n, w, s, d, c, r)
    PROVE  LocalOK(n, w, s)
<1>0. StaysSafe
  BY FrameStable
<1>1. \A x \in Value : ~CommitAt(n, w, s, x)'
  <2>1. \A x \in Value : CommitAt(n, w, s, x)' => CommitAt(n, w, s, x)
    BY DEF CommitAt, Vote
  <2> QED
    BY <2>1, CommitsBefore
<1>2. /\ c.preprepareMsg # None => c.preprepareMsg.batch \in Value
      /\ r # None => r.digest \in Value
  BY DEF Slot, PrePrepare, Reproposal, Value
<1>3. SlotOK(n, w, s)'
  BY DEF SlotOK
<1>4. ASSUME Fresh(s) PROVE (\A k \in Node : log'[k][s] = None) /\ FreshAt(n, w, s)'
  <2>1. NewFresh(n, w, s, c, r) /\ FreshAt(n, w, s) /\ \A k \in Node : log'[k][s] = None
    BY <1>4 DEF Fresh
  <2>2. c.preprepareMsg # None => SafeAt(w, s, c.preprepareMsg.batch)'
    BY <1>0, <1>2, <2>1 DEF NewFresh, StaysSafe
  <2>3. \A x \in Value : PrepareAt(n, w, s, x)' => SafeAt(w, s, x)'
    BY <1>0, <2>1 DEF NewFresh, FreshAt, StaysSafe
  <2>4. r # None => ~r.committed /\ SafeAt(w, s, r.digest)'
    BY <1>0, <1>2, <2>1 DEF NewFresh, StaysSafe
  <2> QED
    BY <1>1, <2>1, <2>2, <2>3, <2>4 DEF NewFresh, FreshAt
<1>5. ASSUME NEW u \in View, NEW d \in Value, Clean(n, s, u, d), Chosen(u, s, d)
      PROVE  CleanAt(n, w, s, u, d)'
  <2>1. u < w
    BY <1>5, CommitsBefore DEF Clean
  <2>2. NewClean(n, w, s, d, c, r) /\ CleanAt(n, w, s, u, d)
    BY <1>5, <2>1 DEF Clean
  <2>3. \A x \in Value : PrepareAt(n, w, s, x)' => SafeAt(w, s, x)'
    BY <1>0, <2>2 DEF NewClean, CleanAt, StaysSafe
  <2> QED
    BY <2>2, <2>3 DEF NewClean, CleanAt
<1> QED
  BY <1>1, <1>3, <1>4, <1>5 DEF LocalOK

LEMMA SendViewChangeSafe ==
    ASSUME TypeInv, IInv, NEW n \in Node, view[n] < MaxView, SendViewChange(n)
    PROVE  IInv'
<1>1. PICK w : w = view[n] + 1
  OBVIOUS
<1>m. PICK m : m = ViewChangeOf(n, w)
  OBVIOUS
<1>2. /\ w \in View \ {0} /\ 0 .. w - 1 \subseteq View
      /\ Put(n, w, StartView(n, w), viewChange[n][w])
      /\ m \in ViewChangeMsg /\ msgs' = msgs \cup {m} /\ log' = log
  BY <1>1, <1>m, SendViewChangeStep
<1>3. w \in View /\ w \in Nat /\ view[n] \in Nat /\ w > 0 /\ w >= view[n] /\ view[n] <= w /\ ~(w <= view[n])
  <2>1. w \in View /\ view[n] \in View
    BY <1>2, ViewType
  <2>2. view[n] \in Nat
    BY <2>1, Parameters
  <2> QED
    BY <1>1, <2>1, <2>2
<1>4. m.type = "VIEWCHANGE" /\ m.from = n /\ m.view = w /\ m.p = Pset(n, w)
  BY <1>m DEF ViewChangeOf
<1>5. Frame(n, w)
  <2>1. \A k \in msgs' : k \in msgs \/ k.type \notin {"PREPARE", "COMMIT"}
    BY <1>2, <1>4
  <2> QED
    BY <1>2, <1>3, <2>1, PutIsFrame
<1>6. StaysSafe
  BY <1>3, <1>5, FrameStable
<1>7. batches'[n][w] = StartView(n, w) /\ viewChange'[n][w] = viewChange[n][w]
  BY <1>2, <1>3, PutFrame
<1>8. ~viewChange[n][w].newView
  BY <1>3 DEF IInv, Infos, InfoOK
<1>9. \A t : NoVote(n, w, t)
  <2>1. \A k \in msgs' : k \in msgs \/ k.type \notin {"PREPARE", "COMMIT"}
    BY <1>2, <1>4
  <2> QED
    BY <2>1, NoVoteSent
<1>10. ASSUME NEW s \in SN PROVE LocalOK(n, w, s)
  <2>1. PICK c : c = batches'[n][w][s]
    OBVIOUS
  <2>2. PICK r : r = viewChange'[n][w].reproposeBatches[s]
    OBVIOUS
  <2>3. c = StartRow(n, w)[s]
    BY <1>3, <1>7, <2>1 DEF StartRow
  <2>4. /\ c \in Slot /\ c.preprepareMsg = None /\ ~c.prepared
        /\ Fresh(s) => ~c.committed
        /\ \A u \in View, d \in Value : Clean(n, s, u, d) => (c.committed => c.digest = d)
    BY <1>3, <1>8, <2>3, StartRowFacts
  <2>5. r \in Reproposal \cup {None} /\ r = viewChange[n][w].reproposeBatches[s]
    BY <1>3, <1>7, <2>2, RowType DEF Info
  <2>6. Fresh(s) => NewFresh(n, w, s, c, r)
    <3> SUFFICES ASSUME Fresh(s) PROVE NewFresh(n, w, s, c, r)
      OBVIOUS
    <3>1. FreshAt(n, w, s)
      BY <1>3 DEF Fresh
    <3> QED
      BY <1>9, <2>4, <2>5, <3>1 DEF NewFresh, FreshAt, NoVote
  <2>7. ASSUME NEW u \in View, NEW d \in Value, Clean(n, s, u, d), u < w
        PROVE  NewClean(n, w, s, d, c, r)
    <3>1. CleanAt(n, w, s, u, d)
      BY <1>3, <2>7 DEF Clean
    <3>2. w > u
      BY <1>3, <2>7, Parameters
    <3> QED
      BY <1>9, <2>4, <2>5, <2>7, <3>1, <3>2 DEF NewClean, CleanAt, NoVote
  <2>8. \A k \in msgs' : k.type = "COMMIT" => k \in msgs
    BY <1>2, <1>4
  <2> QED
    BY <1>2, <1>3, <1>5, <1>8, <2>1, <2>2, <2>4, <2>5, <2>6, <2>7, <2>8, StartedLocal
<1>11. InfoOK(n, w)'
  <2>1. InfoOK(n, w)
    BY <1>3 DEF IInv, Infos
  <2> QED
    BY <1>7, <1>8, <2>1 DEF InfoOK
<1>12. ASSUME NEW s \in SN PROVE NamesLast(n, w, s, m.p[s])'
  <2> DEFINE V == {u \in 0 .. w - 1 : batches[n][u][s].prepared}
  <2>p. PICK p : p = m.p[s]
    OBVIOUS
  <2>0. SUFFICES NamesLast(n, w, s, p)'
    BY <2>p
  <2>1. p = LatestEntry(n, s, V)
    BY <1>4, <2>p DEF Pset
  <2>2. V \subseteq View
    BY <1>2
  <2>3. \A u \in V : batches[n][u][s].digest # None
    BY <2>2 DEF TypeInv, Shapes, SlotShape
  <2>4. \A u \in 0 .. w - 1, y \in Value : CommitAt(n, u, s, y)' => CommitAt(n, u, s, y) /\ u \in V
    <3> TAKE u \in 0 .. w - 1, y \in Value
    <3>1. u \in View /\ u # w
      BY <1>2, <1>3
    <3>2. CommitAt(n, u, s, y)' => CommitAt(n, u, s, y)
      BY <1>5, <3>1 DEF Frame
    <3> QED
      BY <3>1, <3>2, CommitsPrepared
  <2> HIDE DEF V
  <2>5. CASE V = {}
    <3>1. p = None
      BY <2>1, <2>2, <2>3, <2>5, LatestEntryType
    <3> QED
      BY <2>4, <2>5, <3>1 DEF NamesLast
  <2>6. CASE V # {}
    <3>1. PICK u \in V : /\ \A x \in V : x <= u
                         /\ p = [view |-> u, digest |-> batches[n][u][s].digest]
      BY <2>1, <2>2, <2>3, <2>6, LatestEntryType
    <3>2. PICK d : d = batches[n][u][s].digest
      OBVIOUS
    <3>3. p.view = u /\ p.digest = d
      BY <3>1, <3>2
    <3>4. u \in View /\ u \in 0 .. w - 1 /\ batches[n][u][s].prepared
      BY <2>2 DEF V
    <3>5. u < w /\ u \in Nat
      BY <1>3, <3>4
    <3>6. d \in Value
      BY <3>2, <3>4, RowType DEF Row, Slot, SlotShape, Value
    <3>7. SafeAt(u, s, d)'
      BY <1>6, <3>2, <3>4, <3>6 DEF IInv, Slots, SlotOK, StaysSafe
    <3>8. \A v \in u + 1 .. w - 1, y \in Value : ~CommitAt(n, v, s, y)'
      <4> TAKE v \in u + 1 .. w - 1, y \in Value
      <4>1. v \in 0 .. w - 1 /\ ~(v <= u)
        BY <1>3, <3>5
      <4> QED
        BY <2>4, <3>1, <4>1
    <3>9. \A y \in Value : CommitAt(n, u, s, y)' => y = d \/ \E v \in View : Chosen(v, s, d)'
      <4> TAKE y \in Value
      <4>1. CommitAt(n, u, s, y) => CommitOK(n, u, s, y)
        BY <3>4 DEF IInv, Commits
      <4>2. CommitAt(n, u, s, y) => y = d \/ \E v \in View : Chosen(v, s, d)
        BY <3>2, <4>1 DEF CommitOK
      <4> QED
        BY <1>6, <2>4, <3>4, <3>6, <4>2 DEF StaysSafe
    <3>10. p # None
      BY <2>1, <2>2, <2>3, <2>6, LatestEntryType
    <3> QED
      BY <3>3, <3>5, <3>7, <3>8, <3>9, <3>10 DEF NamesLast
  <2> QED
    BY <2>5, <2>6
<1>13. ViewChangesFit'
  <2>1. \A k \in msgs : k.type = "VIEWCHANGE" => k.from # n \/ k.view # w
    <3>1. \A k \in msgs : k.type = "VIEWCHANGE" => k.view <= view[k.from]
      BY DEF IInv, ViewChangesFit, ViewChangeOK
    <3> QED
      BY <1>3, <3>1
  <2>2. ASSUME NEW k \in msgs, k.type = "VIEWCHANGE" PROVE ViewChangeOK(k)'
    <3>1. k.view <= view'[k.from] /\ \A s \in SN : NamesLast(k.from, k.view, s, k.p[s])'
      BY <1>3, <1>5, <2>2, NamesLastKept DEF IInv
    <3>2. \A j \in msgs' : j.type = "VIEWCHANGE" /\ j.from = k.from /\ j.view = k.view => j = k
      BY <1>2, <1>4, <2>1, <2>2 DEF IInv, ViewChangesFit, ViewChangeOK
    <3> QED
      BY <3>1, <3>2 DEF ViewChangeOK
  <2>3. ViewChangeOK(m)'
    <3>1. m.view <= view'[m.from]
      BY <1>3, <1>4, <1>5 DEF Frame
    <3>2. \A j \in msgs' : j.type = "VIEWCHANGE" /\ j.from = m.from /\ j.view = m.view => j = m
      BY <1>2, <1>4, <2>1
    <3>3. \A s \in SN : NamesLast(m.from, m.view, s, m.p[s])'
      BY <1>4, <1>12
    <3> QED
      BY <3>1, <3>2, <3>3 DEF ViewChangeOK
  <2> QED
    BY <1>2, <2>2, <2>3 DEF ViewChangesFit
<1>14. NewViews' /\ Logs'
  <2>1. \A k \in msgs' : k.type = "NEWVIEW" => k \in msgs
    BY <1>2, <1>4
  <2> QED
    BY <1>2, <1>3, <1>5, <1>6, <1>7, <2>1, NewViewsKept, LogsKept DEF IInv
<1> QED
  BY <1>3, <1>5, <1>10, <1>11, <1>13, <1>14, Assemble

\* A reproposal of the leader n of w.
RSafe(n, w, s, r) ==
    /\ r \in Reproposal
    /\ r.preprepareMsg # None => r.preprepareMsg.batch = r.digest
    /\ Fresh(s) => ~r.committed /\ SafeAt(w, s, r.digest)
    /\ \A u \in View, d \in Value : Clean(n, s, u, d) /\ Chosen(u, s, d) /\ u < w => r.digest = d

LEMMA ChoiceValue ==
    ASSUME NEW p \in Entry \cup {None}
    PROVE  (IF p = None THEN Empty ELSE p.digest) \in Value
BY DEF Entry, Value

\* What it proposes again for the batches it has chosen.
LEMMA ReproposalIsSafe ==
    ASSUME EnoughNodes, TypeInv, IInv, NEW n \in Node, NEW w \in View, NEW S, S \subseteq ViewChanges(w),
           S \in SUBSET ViewChangeMsg, NEW s \in SN, NEW p \in Choices(S, s),
           NEW r, r = Repropose(n, w, s, p)
    PROVE  RSafe(n, w, s, r)
<1>1. p \in Entry \cup {None}
  BY ChoiceType
<1>2. PICK x \in Value : x = IF p = None THEN Empty ELSE p.digest
  BY <1>1, ChoiceValue
<1>3. SafeAt(w, s, x)
  BY <1>2, ChoiceIsSafe DEF IInv
<1>4. \A u \in View, d \in Value : Chosen(u, s, d) /\ u < w => d = x
  BY <1>3, SafeChosen DEF IInv
<1>5. r \in Reproposal
  BY <1>1, ReproposeType
<1>6. CASE p = None
  <2>1. r.digest = Empty /\ r.preprepareMsg.batch = Empty /\ ~r.committed
    BY <1>1, <1>6, ReproposeType
  <2> QED
    BY <1>2, <1>3, <1>4, <1>5, <1>6, <2>1 DEF RSafe
<1>7. CASE p # None /\ r.preprepareMsg = None
  <2>1. r.digest = p.digest /\ ~r.committed
    BY <1>1, <1>7, ReproposeType
  <2> QED
    BY <1>2, <1>3, <1>4, <1>5, <1>7, <2>1 DEF RSafe
<1>8. CASE p # None /\ r.preprepareMsg # None
  <2>1. PICK v \in 0 .. w - 1 :
          /\ batches[n][v][s].preprepareMsg # None
          /\ \A u \in 0 .. w - 1 : batches[n][u][s].preprepareMsg # None => u <= v
          /\ batches[n][v][s].digest = p.digest
          /\ r.preprepareMsg.batch = batches[n][v][s].preprepareMsg.batch
          /\ r.digest = batches[n][v][s].preprepareMsg.batch
          /\ r.committed = batches[n][v][s].committed
    BY <1>1, <1>8, ReproposeType
  <2>2. v \in View
    BY Parameters DEF View
  <2>3. Fresh(s) => ~r.committed /\ r.digest = x
    <3> SUFFICES ASSUME Fresh(s) PROVE ~r.committed /\ r.digest = x
      OBVIOUS
    <3>1. ~batches[n][v][s].committed
      BY <2>2 DEF Fresh, FreshAt
    <3>2. batches[n][v][s].digest = batches[n][v][s].preprepareMsg.batch
      BY <2>1, <2>2, <3>1 DEF IInv, Slots, SlotOK
    <3> QED
      BY <1>2, <1>8, <2>1, <3>1, <3>2
  <2>4. ASSUME NEW u \in View, NEW d \in Value, Clean(n, s, u, d), u < w
        PROVE  r.digest = d
    <3>1. u \in 0 .. w - 1
      BY <2>4, Parameters
    <3>2. batches[n][u][s].preprepareMsg # None
      BY <2>4, CommitsPrepared DEF Clean
    <3>3. v >= u
      BY <2>1, <2>2, <3>1, <3>2, Parameters
    <3>4. CleanAt(n, v, s, u, d)
      BY <2>2, <2>4 DEF Clean
    <3> QED
      BY <2>1, <3>3, <3>4 DEF CleanAt
  <2> QED
    BY <1>3, <1>5, <2>1, <2>3, <2>4 DEF RSafe
<1> QED
  BY <1>6, <1>7, <1>8

\* What the leader has chosen before.
LEMMA ReproposalStaysSafe ==
    ASSUME TypeInv, IInv, NEW n \in Node, NEW w \in View, NEW s \in SN,
           NEW r \in Reproposal, r = viewChange[n][w].reproposeBatches[s]
    PROVE  RSafe(n, w, s, r)
<1>0. r # None
  BY NoneAssumption
<1>1. r.preprepareMsg # None => r.preprepareMsg.batch = r.digest
  BY <1>0 DEF IInv, Infos, InfoOK
<1>2. Fresh(s) => ~r.committed /\ SafeAt(w, s, r.digest)
  BY <1>0 DEF Fresh, FreshAt
<1>3. ASSUME NEW u \in View, NEW d \in Value, Clean(n, s, u, d), u < w
      PROVE  r.digest = d
  <2>1. CleanAt(n, w, s, u, d) /\ w > u
    BY <1>3, Parameters DEF Clean
  <2> QED
    BY <1>0, <2>1 DEF CleanAt
<1> QED
  BY <1>1, <1>2, <1>3 DEF RSafe

\* The row that a leader step writes.
LEMMA LeaderRow ==
    ASSUME TypeInv, IInv, NEW n \in Node, NEW w \in View, w > 0, w >= view[n], ~viewChange[n][w].newView,
           NEW s \in SN, NEW r, RSafe(n, w, s, r), NoVote(n, w, s), NEW c,
           \/ c = StartRow(n, w)[s]
           \/ r.preprepareMsg # None /\ c = [preprepareMsg |-> r.preprepareMsg, digest |-> r.digest,
                                             prepared |-> StartRow(n, w)[s].prepared,
                                             committed |-> r.committed]
    PROVE  /\ c \in Slot /\ ~c.prepared
           /\ c.preprepareMsg # None => c = StartRow(n, w)[s] \/ c.preprepareMsg = r.preprepareMsg
           /\ c.preprepareMsg # None /\ ~c.committed => c.digest = c.preprepareMsg.batch
           /\ Fresh(s) => NewFresh(n, w, s, c, r)
           /\ \A u \in View, d \in Value : Clean(n, s, u, d) /\ Chosen(u, s, d) /\ u < w
                                             => NewClean(n, w, s, d, c, r)
<1>1. PICK b : b = StartRow(n, w)[s]
  OBVIOUS
<1>2. /\ b \in Slot /\ b.preprepareMsg = None /\ ~b.prepared
      /\ Fresh(s) => ~b.committed
      /\ \A u \in View, d \in Value : Clean(n, s, u, d) => (b.committed => b.digest = d)
  BY <1>1, StartRowFacts
<1>3. r \in Reproposal /\ r # None
  BY NoneAssumption DEF RSafe
<1>4. CASE c = b
  BY <1>1, <1>2, <1>3, <1>4 DEF NewFresh, NewClean, NoVote, RSafe
<1>5. CASE r.preprepareMsg # None /\ c = [preprepareMsg |-> r.preprepareMsg, digest |-> r.digest,
                                          prepared |-> b.prepared, committed |-> r.committed]
  <2>1. /\ c.preprepareMsg = r.preprepareMsg /\ c.digest = r.digest /\ c.prepared = b.prepared
        /\ c.committed = r.committed
    BY <1>5
  <2>2. c \in Slot
    BY <1>2, <1>3, <1>5 DEF Slot, Reproposal
  <2>3. r.preprepareMsg.batch = r.digest
    BY <1>5 DEF RSafe
  <2> QED
    BY <1>2, <1>3, <1>5, <2>1, <2>2, <2>3 DEF NewFresh, NewClean, NoVote, RSafe
<1> QED
  BY <1>1, <1>4, <1>5

LEMMA LeaderSafe ==
    ASSUME TypeInv, IInv, NEW n \in Node, NEW w \in View, w > 0, w >= view[n], n = Leader(w),
           ~viewChange[n][w].newView, NEW i, i.s \subseteq ViewChanges(w),
           \A s \in SN : RSafe(n, w, s, i.reproposeBatches[s]), LeaderStep(n, w, i)
    PROVE  IInv'
<1>1. w \in Nat /\ view[n] \in Nat /\ view[n] <= w
  BY ViewType, Parameters
<1>2. PICK f : /\ Put(n, w, f, i)
               /\ \/ f = StartRow(n, w) /\ Sends({"MISSINGREQ"})
                  \/ /\ f = ReproposedRow(StartRow(n, w), i.reproposeBatches) /\ i.newView
                     /\ \A s \in SN : i.reproposeBatches[s].preprepareMsg # None
                     /\ msgs' = msgs \cup {NewViewOf(n, w, i)}
  BY DEF LeaderStep
<1>3. PICK m : m = NewViewOf(n, w, i)
  OBVIOUS
<1>4. /\ m.type = "NEWVIEW" /\ m.from = n /\ m.view = w /\ m.s = i.s
  BY <1>3 DEF NewViewOf
<1>5. \A k \in msgs' : k \in msgs \/ k.type = "MISSINGREQ" \/ (k = m /\ i.newView)
  BY <1>2, <1>3 DEF Sends
<1>6. \A k \in msgs' : k \in msgs \/ k.type \notin {"PREPARE", "COMMIT", "VIEWCHANGE"}
  BY <1>4, <1>5
<1>7. Frame(n, w)
  BY <1>1, <1>2, <1>6, PutIsFrame
<1>8. StaysSafe
  BY <1>7, FrameStable
<1>9. batches'[n][w] = f /\ viewChange'[n][w] = i
  BY <1>2, PutFrame
<1>10. \A t : NoVote(n, w, t)
  BY <1>6, NoVoteSent
<1>11. log' = log
  BY DEF LeaderStep
<1>12. ASSUME NEW s \in SN PROVE LocalOK(n, w, s)
  <2>1. PICK c, r : c = f[s] /\ r = i.reproposeBatches[s]
    OBVIOUS
  <2>2. /\ \/ c = StartRow(n, w)[s]
           \/ r.preprepareMsg # None /\ c = [preprepareMsg |-> r.preprepareMsg, digest |-> r.digest,
                                             prepared |-> StartRow(n, w)[s].prepared,
                                             committed |-> r.committed]
        /\ c = StartRow(n, w)[s] \/ i.newView
    BY <1>2, <2>1 DEF ReproposedRow
  <2>3. RSafe(n, w, s, r) /\ NoVote(n, w, s)
    BY <1>10, <2>1
  <2>4. /\ c \in Slot /\ ~c.prepared
        /\ c.preprepareMsg # None /\ ~c.committed => c.digest = c.preprepareMsg.batch
        /\ Fresh(s) => NewFresh(n, w, s, c, r)
        /\ \A u \in View, d \in Value : Clean(n, s, u, d) /\ Chosen(u, s, d) /\ u < w
                                          => NewClean(n, w, s, d, c, r)
    BY <2>2, <2>3, LeaderRow
  <2>5. c.preprepareMsg # None => i.newView
    <3>1. StartRow(n, w)[s].preprepareMsg = None
      BY StartRowFacts
    <3> QED
      BY <2>2, <3>1
  <2>6. r \in Reproposal \cup {None}
    BY <2>3 DEF RSafe
  <2>7. \A k \in msgs' : k.type = "COMMIT" => k \in msgs
    BY <1>6
  <2>8. c = batches'[n][w][s] /\ r = viewChange'[n][w].reproposeBatches[s]
        /\ (c.preprepareMsg # None => viewChange'[n][w].newView)
    BY <1>9, <2>1, <2>5
  <2> QED
    BY <1>7, <1>11, <2>4, <2>6, <2>7, <2>8, StartedLocal
<1>13. InfoOK(n, w)'
  <2>1. w <= view'[n]
    BY <1>1, <1>7 DEF Frame
  <2>2. \A s \in SN : LET r == i.reproposeBatches[s]
                      IN  r # None /\ r.preprepareMsg # None => r.preprepareMsg.batch = r.digest
    BY DEF RSafe
  <2> QED
    BY <1>9, <2>1, <2>2 DEF InfoOK
<1>14. NewViews'
  <2>1. \A k \in msgs : k.type = "NEWVIEW" => k.view # w /\ k \in NewViewMsg /\ k.view \in View
    <3> TAKE k \in msgs
    <3>1. k.type = "NEWVIEW" => k \in NewViewMsg
      BY MessageType, MessagesType
    <3>2. k.type = "NEWVIEW" => k.from = Leader(k.view) /\ viewChange[k.from][k.view].newView
      BY DEF IInv, NewViews, NewViewOK
    <3> QED
      BY <3>1, <3>2 DEF NewViewMsg
  <2>2. ASSUME NEW k \in msgs, k.type = "NEWVIEW" PROVE NewViewOK(k)'
    <3>1. \A j \in msgs' : j.type = "NEWVIEW" => j \in msgs \/ j.view # k.view
      BY <1>4, <1>6, <1>5, <2>1, <2>2
    <3>2. \A j \in Node : viewChange'[j][k.view].newView = viewChange[j][k.view].newView
      BY <1>7, <2>1, <2>2 DEF Frame
    <3> QED
      BY <1>7, <2>2, <3>1, <3>2, NewViewKept DEF IInv
  <2>3. ASSUME m \in msgs', i.newView PROVE NewViewOK(m)'
    <3>1. m.from = Leader(m.view) /\ viewChange'[m.from][m.view].newView
      BY <1>4, <1>9, <2>3
    <3>2. m.s \subseteq ViewChanges(m.view)'
      BY <1>4, <1>7 DEF Frame, ViewChanges
    <3>3. \A j \in msgs' : j.type = "NEWVIEW" /\ j.view = m.view => j = m
      BY <1>4, <1>5, <2>1
    <3>4. ASSUME NEW k \in Node \ {m.from} PROVE ~viewChange'[k][m.view].newView
      <4>1. viewChange'[k][w] = viewChange[k][w]
        BY <1>4, <1>7 DEF Frame
      <4>2. viewChange[k][w].newView => \E j \in msgs : j.type = "NEWVIEW" /\ j.view = w
        BY <1>4 DEF IInv, Infos, InfoOK
      <4> QED
        BY <1>4, <2>1, <4>1, <4>2
    <3> QED
      BY <3>1, <3>2, <3>3, <3>4 DEF NewViewOK
  <2>4. ASSUME NEW k \in msgs', k.type = "NEWVIEW" PROVE NewViewOK(k)'
    <3>1. k \in msgs \/ (k = m /\ i.newView)
      BY <1>5, <2>4
    <3> QED
      BY <2>2, <2>3, <2>4, <3>1
  <2> QED
    BY <2>4 DEF NewViews
<1>15. ViewChangesFit' /\ Logs'
  BY <1>6, <1>7, <1>8, <1>11, ViewChangesKept, LogsKept DEF IInv
<1> QED
  BY <1>7, <1>12, <1>13, <1>14, <1>15, Assemble

LEMMA MaybeSendNewViewSafe ==
    ASSUME EnoughNodes, TypeInv, IInv, NEW n \in Node, NEW w \in View, NEW S, MaybeSendNewView(n, w, S)
    PROVE  IInv'
<1>1. /\ n = Leader(w) /\ w > 0 /\ w >= view[n] /\ ~viewChange[n][w].newView
      /\ S \in SUBSET ViewChangeMsg
  BY MaybeSendNewViewStep
<1>2. PICK choice, i : Chooses(n, w, S, choice, i) /\ LeaderStep(n, w, i)
  BY MaybeSendNewViewStep
<1>3. ASSUME NEW s \in SN PROVE RSafe(n, w, s, i.reproposeBatches[s])
  <2>1. PICK r : r = i.reproposeBatches[s]
    OBVIOUS
  <2>2. PICK p : p = choice[s]
    OBVIOUS
  <2>3. p \in Choices(S, s) /\ r = Repropose(n, w, s, p) /\ S \subseteq ViewChanges(w)
    BY <1>2, <2>1, <2>2 DEF Chooses
  <2> QED
    BY <1>1, <2>1, <2>3, ReproposalIsSafe
<1>4. i.s \subseteq ViewChanges(w)
  BY <1>2 DEF Chooses
<1> QED
  BY <1>1, <1>2, <1>3, <1>4, LeaderSafe

LEMMA HandleMissingPreprepareSafe ==
    ASSUME TypeInv, IInv, NEW n \in Node, NEW m \in msgs, HandleMissingPreprepare(n, m)
    PROVE  IInv'
<1>1. PICK w \in View : w = view[n]
  BY ViewType
<1>2. PICK i : Receives(viewChange[n][w], m.sn, m.preprepare.batch, i) /\ LeaderStep(n, w, i)
  BY <1>1, HandleMissingPreprepareStep
<1>3. /\ m.sn \in SN /\ m.preprepare.batch \in Value
      /\ viewChange[n][w].enoughViewChanges /\ ~viewChange[n][w].newView
      /\ w > 0 /\ n = Leader(w)
  BY <1>1, HandleMissingPreprepareStep
<1>4. PICK info \in Info : /\ info = viewChange[n][w] /\ InfoShape(n, w, info)
                           /\ info.s \subseteq ViewChanges(w)
  BY RowType
<1>5. \A s \in SN : info.reproposeBatches[s] \in Reproposal
  BY <1>3, <1>4 DEF Info, InfoShape
<1>6. \A s \in SN : RSafe(n, w, s, info.reproposeBatches[s])
  BY <1>4, <1>5, ReproposalStaysSafe
<1>7. i.s \subseteq ViewChanges(w)
  BY <1>2, <1>4 DEF Receives
<1>8. ASSUME NEW s \in SN PROVE RSafe(n, w, s, i.reproposeBatches[s])
  <2>1. PICK r, o : r = i.reproposeBatches[s] /\ o = info.reproposeBatches[s]
    OBVIOUS
  <2>2. RSafe(n, w, s, o) /\ r \in Reproposal
    BY <1>2, <1>6, <2>1 DEF Receives
  <2>3. r.digest = o.digest /\ r.committed = o.committed
        /\ (r.preprepareMsg # None => r.preprepareMsg.batch = r.digest)
    BY <1>2, <1>3, <1>4, <2>1, <2>2 DEF Receives, RSafe
  <2> QED
    BY <2>1, <2>2, <2>3 DEF RSafe
<1>9. w >= view[n]
  BY <1>1, Parameters
<1> QED
  BY <1>2, <1>3, <1>7, <1>8, <1>9, LeaderSafe

\* The slot in which a node accepts a safe batch.
LEMMA AcceptedRow ==
    ASSUME EnoughNodes, TypeInv, IInv, NEW n \in Node, NEW w \in View, w > 0, w >= view[n],
           ~viewChange[n][w].newView, NEW s \in SN, NEW b, b = StartRow(n, w)[s],
           NEW x \in PrePrepare, SafeAt(w, s, x.batch), NEW c \in Slot,
           c.preprepareMsg = x, c.digest = IF b.committed THEN b.digest ELSE x.batch,
           c.prepared = b.prepared, c.committed = b.committed,
           \A y \in Value : PrepareAt(n, w, s, y)' => PrepareAt(n, w, s, y) \/ y = c.digest,
           NEW r, r = viewChange[n][w].reproposeBatches[s]
    PROVE  /\ ~c.prepared
           /\ ~c.committed => c.digest = c.preprepareMsg.batch
           /\ Fresh(s) => NewFresh(n, w, s, c, r)
           /\ \A u \in View, d \in Value : Clean(n, s, u, d) /\ Chosen(u, s, d) /\ u < w
                                             => NewClean(n, w, s, d, c, r)
<1>1. /\ ~b.prepared
      /\ Fresh(s) => ~b.committed
      /\ \A u \in View, d \in Value : Clean(n, s, u, d) => (b.committed => b.digest = d)
  BY StartRowFacts
<1>2. x.batch \in Value
  BY DEF PrePrepare, Value
<1>3. ASSUME Fresh(s) PROVE NewFresh(n, w, s, c, r)
  <2>1. FreshAt(n, w, s)
    BY <1>3 DEF Fresh
  <2> QED
    BY <1>1, <1>3, <2>1 DEF NewFresh, FreshAt
<1>4. ASSUME NEW u \in View, NEW d \in Value, Clean(n, s, u, d), Chosen(u, s, d), u < w
      PROVE  NewClean(n, w, s, d, c, r)
  <2>1. CleanAt(n, w, s, u, d)
    BY <1>4 DEF Clean
  <2>2. x.batch = d
    BY <1>2, <1>4, SafeChosen DEF IInv
  <2>3. w > u
    BY <1>4, Parameters
  <2>4. b.committed => b.digest = d
    BY <1>1, <1>4
  <2>5. c.digest = d
    BY <2>2, <2>4
  <2> QED
    BY <2>1, <2>2, <2>3, <2>5 DEF NewClean, CleanAt
<1> QED
  BY <1>1, <1>3, <1>4

LEMMA HandleNewViewSafe ==
    ASSUME EnoughNodes, TypeInv, IInv, NEW n \in Node, NEW m \in msgs, HandleNewView(n, m)
    PROVE  IInv'
<1>1. PICK w : w = m.view
  OBVIOUS
<1>2. PICK row : row = NewViewRow(StartRow(n, w), m.x)
  OBVIOUS
<1>3. /\ m.type = "NEWVIEW" /\ m \in NewViewMsg /\ m.from # n
      /\ w \in View /\ w > 0 /\ w >= view[n] /\ ~viewChange[n][w].newView
      /\ \A s \in SN : \E p \in Choices(m.s, s) : Matches(p, m.x[s])
      /\ \A s \in SN : row[s].digest \in Value
      /\ msgs' = msgs \cup {Vote("PREPARE", n, w, s, row[s].digest) :
                               s \in IF n = Leader(w) THEN {} ELSE SN}
      /\ log' = log
  BY <1>1, <1>2, HandleNewViewStep
<1>4. PICK i : /\ i.newView /\ i.reproposeBatches = viewChange[n][w].reproposeBatches
               /\ Put(n, w, row, i)
  BY <1>1, <1>2, HandleNewViewStep
<1>5. w \in Nat /\ view[n] \in Nat /\ view[n] <= w
  BY <1>3, ViewType, Parameters
<1>6. \A k \in msgs' : k \in msgs \/ \E s \in SN : k = Vote("PREPARE", n, w, s, row[s].digest)
  BY <1>3
<1>7. \A k \in msgs' : k \in msgs \/ (k.type = "PREPARE" /\ k.from = n /\ k.view = w)
  BY <1>6 DEF Vote
<1>8. Frame(n, w)
  <2>1. \A k \in msgs' : k \in msgs \/ k.type \notin {"PREPARE", "COMMIT"}
                           \/ (k.from = n /\ k.view = w /\ (k.type = "COMMIT" => view[n] = w))
    BY <1>7
  <2> QED
    BY <1>3, <1>4, <1>5, <2>1, PutIsFrame
<1>9. StaysSafe
  BY <1>3, <1>8, FrameStable
<1>10. batches'[n][w] = row /\ viewChange'[n][w] = i
  BY <1>3, <1>4, PutFrame
<1>11. NewViewOK(m) /\ m.from = Leader(w) /\ m.s \subseteq ViewChanges(w)
  BY <1>1, <1>3 DEF IInv, NewViews, NewViewOK
<1>12. PICK x \in [SN -> PrePrepare] : x = m.x
  BY <1>3 DEF NewViewMsg
<1>13. ASSUME NEW s \in SN PROVE SafeAt(w, s, x[s].batch)
  <2>1. PICK p \in Choices(m.s, s) : Matches(p, x[s])
    BY <1>3, <1>12
  <2>2. x[s].batch = IF p = None THEN Empty ELSE p.digest
    BY <2>1 DEF Matches
  <2> QED
    BY <1>3, <1>11, <2>2, ChoiceIsSafe DEF IInv
<1>14. ASSUME NEW s \in SN PROVE LocalOK(n, w, s)
  <2>1. PICK b : b = StartRow(n, w)[s]
    OBVIOUS
  <2>2. PICK c : c = row[s]
    OBVIOUS
  <2>3. PICK r : r = viewChange[n][w].reproposeBatches[s]
    OBVIOUS
  <2>4. PICK pp \in PrePrepare : pp = x[s]
    BY <1>12
  <2>5. /\ c \in Slot /\ c.preprepareMsg = pp /\ c.preprepareMsg # None
        /\ c.digest = IF b.committed THEN b.digest ELSE pp.batch
        /\ c.prepared = b.prepared /\ c.committed = b.committed
    <3>1. PICK sr : sr = StartRow(n, w)
      OBVIOUS
    <3>2. Row(sr) /\ row = NewViewRow(sr, x)
      BY <1>2, <1>3, <1>12, <3>1, StartRowType
    <3> QED
      BY <2>1, <2>2, <2>4, <3>1, <3>2, NewViewRowType DEF Row
  <2>6. SafeAt(w, s, pp.batch)
    BY <1>13, <2>4
  <2>7. \A y \in Value : PrepareAt(n, w, s, y)' => PrepareAt(n, w, s, y) \/ y = c.digest
    <3> SUFFICES ASSUME NEW y \in Value, PrepareAt(n, w, s, y)', ~PrepareAt(n, w, s, y)
                 PROVE  y = c.digest
      OBVIOUS
    <3>1. PICK k : k = Vote("PREPARE", n, w, s, y)
      OBVIOUS
    <3>2. k \in msgs' /\ k \notin msgs
      BY <3>1 DEF PrepareAt
    <3>3. PICK t \in SN : k = Vote("PREPARE", n, w, t, row[t].digest)
      BY <1>6, <3>2
    <3>4. k.sn = s /\ k.digest = y /\ k.sn = t /\ k.digest = row[t].digest
      BY <3>1, <3>3 DEF Vote
    <3> QED
      BY <2>2, <3>4
  <2>8. /\ ~c.prepared
        /\ ~c.committed => c.digest = c.preprepareMsg.batch
        /\ Fresh(s) => NewFresh(n, w, s, c, r)
        /\ \A u \in View, d \in Value : Clean(n, s, u, d) /\ Chosen(u, s, d) /\ u < w
                                          => NewClean(n, w, s, d, c, r)
    BY <1>3, <2>1, <2>3, <2>5, <2>6, <2>7, AcceptedRow
  <2>9. r \in Reproposal \cup {None}
    BY <1>3, <2>3, RowType DEF Info
  <2>10. \A k \in msgs' : k.type = "COMMIT" => k \in msgs
    BY <1>7
  <2>11. c = batches'[n][w][s] /\ r = viewChange'[n][w].reproposeBatches[s]
         /\ viewChange'[n][w].newView
    BY <1>4, <1>10, <2>2, <2>3
  <2> QED
    BY <1>3, <1>8, <2>5, <2>8, <2>9, <2>10, <2>11, StartedLocal
<1>15. InfoOK(n, w)'
  <2>1. w <= view'[n]
    BY <1>5, <1>8 DEF Frame
  <2>2. \A s \in SN : LET r == i.reproposeBatches[s]
                      IN  r # None /\ r.preprepareMsg # None => r.preprepareMsg.batch = r.digest
    BY <1>3, <1>4 DEF IInv, Infos, InfoOK
  <2>3. m \in msgs'
    BY <1>8 DEF Frame
  <2> QED
    BY <1>1, <1>3, <1>10, <2>1, <2>2, <2>3 DEF InfoOK
<1>16. NewViews'
  <2>1. \A k \in msgs' : k.type = "NEWVIEW" => k \in msgs
    BY <1>7
  <2>2. ASSUME NEW k \in msgs, k.type = "NEWVIEW", k.view # w PROVE NewViewOK(k)'
    <3>1. k.view \in View
      BY <2>2, MessageType, MessagesType DEF NewViewMsg
    <3>2. \A j \in Node : viewChange'[j][k.view].newView = viewChange[j][k.view].newView
      BY <1>8, <2>2, <3>1 DEF Frame
    <3> QED
      BY <1>3, <1>8, <2>1, <2>2, <3>2, NewViewKept DEF IInv
  <2>3. NewViewOK(m)'
    <3>1. \A s \in SN : SafeAt(w, s, m.x[s].batch)'
      <4> TAKE s \in SN
      <4>1. PICK y : y = x[s].batch
        OBVIOUS
      <4>2. y \in Value /\ SafeAt(w, s, y)
        BY <1>13, <4>1 DEF PrePrepare, Value
      <4>3. SafeAt(w, s, y)'
        BY <1>3, <1>9, <4>2 DEF StaysSafe
      <4> QED
        BY <1>12, <4>1, <4>3
    <3>2. viewChange'[m.from][w].newView
      <4>1. viewChange'[m.from][w] = viewChange[m.from][w]
        BY <1>3, <1>8 DEF Frame, NewViewMsg
      <4> QED
        BY <1>1, <1>11, <4>1 DEF NewViewOK
    <3>3. m.s \subseteq ViewChanges(w)'
      BY <1>8, <1>11 DEF Frame, ViewChanges
    <3>4. \A k \in msgs' : k.type = "NEWVIEW" /\ k.view = w => k = m
      BY <1>1, <1>11, <2>1 DEF NewViewOK
    <3> QED
      BY <1>1, <1>11, <3>1, <3>2, <3>3, <3>4 DEF NewViewOK
  <2>4. ASSUME NEW k \in msgs', k.type = "NEWVIEW" PROVE NewViewOK(k)'
    <3>1. k.view = w => k = m
      BY <1>1, <1>11, <2>1, <2>4 DEF NewViewOK
    <3> QED
      BY <2>1, <2>2, <2>3, <2>4, <3>1
  <2> QED
    BY <2>4 DEF NewViews
<1>17. ViewChangesFit' /\ Logs'
  <2>1. \A k \in msgs' : k.type = "VIEWCHANGE" => k \in msgs
    BY <1>7
  <2> QED
    BY <1>3, <1>8, <1>9, <2>1, ViewChangesKept, LogsKept DEF IInv
<1> QED
  BY <1>3, <1>8, <1>14, <1>15, <1>16, <1>17, Assemble

-----------------------------------------------------------------------------
(* The invariant *)

LEMMA InitSafe == Init => IInv
<1> SUFFICES ASSUME Init PROVE IInv
  OBVIOUS
<1>1. /\ msgs = {} /\ log = [n \in Node |-> [s \in SN |-> None]]
      /\ batches = [n \in Node |-> [v \in View |-> [s \in SN |-> NewSlot]]]
      /\ viewChange = [n \in Node |-> [v \in View |-> NewInfo]]
  BY DEF Init
<1>2. ASSUME NEW k \in Node, NEW v \in View, NEW s \in SN
      PROVE  /\ batches[k][v][s].preprepareMsg = None
             /\ ~batches[k][v][s].prepared /\ ~batches[k][v][s].committed
             /\ viewChange[k][v].reproposeBatches[s] = None
             /\ ~viewChange[k][v].newView
  BY <1>1 DEF NewSlot, NewInfo
<1>3. \A k, u, s, x : ~CommitAt(k, u, s, x) /\ ~PrepareAt(k, u, s, x)
  BY <1>1 DEF CommitAt, PrepareAt
<1>4. Slots /\ Commits
  BY <1>2, <1>3 DEF Slots, SlotOK, Commits
<1>5. Infos
  <2> SUFFICES ASSUME NEW k \in Node, NEW v \in View PROVE InfoOK(k, v)
    BY DEF Infos
  <2>1. ~viewChange[k][v].newView
    BY <1>1 DEF NewInfo
  <2> QED
    BY <1>2, <2>1 DEF InfoOK
<1>6. ViewChangesFit /\ NewViews
  BY <1>1 DEF ViewChangesFit, NewViews
<1>7. Phases
  BY <1>1, <1>2, <1>3 DEF Phases, Fresh, FreshAt
<1>8. Logs
  BY <1>1 DEF Logs, LogOK
<1> QED
  BY <1>4, <1>5, <1>6, <1>7, <1>8 DEF IInv

LEMMA UnchangedSafe ==
    ASSUME TypeInv, IInv, UNCHANGED vars
    PROVE  IInv'
<1>1. /\ view' = view /\ batches' = batches /\ viewChange' = viewChange /\ log' = log
      /\ msgs' = msgs
  BY DEF vars
<1>2. Quiet
  BY <1>1 DEF Quiet, Sends
<1>3. PICK n \in Node : TRUE
  BY LeaderIsNode, Parameters
<1> QED
  BY <1>2, <1>3, QuietSafe

LEMMA SafeInductive ==
    ASSUME EnoughNodes, TypeInv, IInv, [Next]_vars
    PROVE  IInv'
<1>1. CASE UNCHANGED vars
  BY <1>1, UnchangedSafe
<1>2. CASE Next
  <2>1. PICK n \in Node :
             \/ \E s \in SN, b \in Batch : Propose(n, s, b)
             \/ \E m \in msgs : HandlePreprepare(n, m)
             \/ \E s \in SN : HandlePrepare(n, s)
             \/ \E s \in SN : HandleCommit(n, s)
             \/ \E s \in SN, source \in Node : HandleMissingEntry(n, s, source)
             \/ view[n] < MaxView /\ SendViewChange(n)
             \/ \E w \in View : \E S \in SUBSET ViewChanges(w) : MaybeSendNewView(n, w, S)
             \/ \E m \in msgs : HandleMissingPreprepare(n, m)
             \/ \E m \in msgs : HandleNewView(n, m)
             \/ Quiet /\ TypeInv'
    BY <1>2, Steps, Zenon
  <2>2. ASSUME NEW s \in SN, NEW b \in Batch, Propose(n, s, b) PROVE IInv'
    BY <2>2, ProposeSafe
  <2>3. ASSUME NEW m \in msgs, HandlePreprepare(n, m) PROVE IInv'
    BY <2>3, HandlePreprepareSafe
  <2>4. ASSUME NEW s \in SN, HandlePrepare(n, s) PROVE IInv'
    BY <2>4, HandlePrepareSafe
  <2>5. ASSUME NEW s \in SN, HandleCommit(n, s) PROVE IInv'
    BY <2>5, HandleCommitSafe
  <2>6. ASSUME NEW s \in SN, NEW source \in Node, HandleMissingEntry(n, s, source) PROVE IInv'
    BY <2>6, HandleMissingEntrySafe
  <2>7. ASSUME view[n] < MaxView, SendViewChange(n) PROVE IInv'
    BY <2>7, SendViewChangeSafe
  <2>8. ASSUME NEW w \in View, NEW S, MaybeSendNewView(n, w, S) PROVE IInv'
    BY <2>8, MaybeSendNewViewSafe
  <2>9. ASSUME NEW m \in msgs, HandleMissingPreprepare(n, m) PROVE IInv'
    BY <2>9, HandleMissingPreprepareSafe
  <2>10. ASSUME NEW m \in msgs, HandleNewView(n, m) PROVE IInv'
    BY <2>10, HandleNewViewSafe
  <2>11. Quiet => IInv'
    BY QuietSafe
  <2> QED
    BY <2>1, <2>2, <2>3, <2>4, <2>5, <2>6, <2>7, <2>8, <2>9, <2>10, <2>11, Zenon
<1> QED
  BY <1>1, <1>2

\* What every handler keeps: a COMMIT, a PREPARE and a Pset entry are for a batch that
\* no earlier view can contradict, before and after the first commit of the SN.
THEOREM Invariance ==
    ASSUME EnoughNodes
    PROVE  Spec => [](TypeInv /\ IInv)
<1>1. Init => TypeInv /\ IInv
  BY InitTypes, InitSafe
<1>2. TypeInv /\ IInv /\ [Next]_vars => TypeInv' /\ IInv'
  BY TypeInvInductive, SafeInductive
<1> QED
  BY <1>1, <1>2, PTL DEF Spec

\* A batch for which a quorum has sent COMMITs is what every later view that a node
\* other than its leader accepts starts with (sendViewChange, maybeSendNewView,
\* handleNewView).
THEOREM ChosenIsKept ==
    ASSUME EnoughNodes
    PROVE  Spec => []CommittedStays
<1>1. TypeInv /\ IInv => CommittedStays
  <2> SUFFICES ASSUME TypeInv, IInv, NEW c \in msgs, NEW m \in msgs,
                      c.type = "COMMIT", Cardinality(Votes("COMMIT", c.view, c.sn, c.digest)) >= Quorum,
                      m.type = "NEWVIEW", m.view > c.view,
                      NEW n \in Node \ {m.from}, viewChange[n][m.view].newView
               PROVE  m.x[c.sn].batch = c.digest
    BY DEF CommittedStays
  <2>1. c.view \in View /\ c.sn \in SN /\ c.digest \in Value
    BY MessageType, MessagesType DEF VoteMsg
  <2>2. m.view \in View /\ m.x \in [SN -> PrePrepare]
    BY MessageType, MessagesType DEF NewViewMsg
  <2>3. PICK u \in View, s \in SN, d \in Value : u = c.view /\ s = c.sn /\ d = c.digest
    BY <2>1
  <2>4. PICK w \in View : w = m.view
    BY <2>2
  <2>5. Chosen(u, s, d)
    BY <2>3, VotesAreQuorum
  <2>6. PICK x : x = m.x[s].batch
    OBVIOUS
  <2>7. x \in Value
    BY <2>2, <2>6 DEF PrePrepare, Value
  <2>8. SafeAt(w, s, x)
    BY <2>4, <2>6 DEF IInv, NewViews, NewViewOK
  <2>9. u < w
    BY <2>3, <2>4, Parameters
  <2>10. x = d
    BY <2>5, <2>7, <2>8, <2>9, SafeChosen DEF IInv
  <2> QED
    BY <2>3, <2>6, <2>10
<1> QED
  BY <1>1, Invariance, PTL

-----------------------------------------------------------------------------
(* The log *)

\* A step writes at most one entry, and none that is there already.
LEMMA LogStep ==
    ASSUME TypeInv, [Next]_vars
    PROVE  \/ log' = log
           \/ \E n \in Node, s \in SN, e \in LogEntry :
                log[n][s] = None /\ log' = [log EXCEPT ![n][s] = e]
<1>1. CASE UNCHANGED vars
  BY <1>1 DEF vars
<1>2. ASSUME NEW n \in Node, NEW s \in SN, NEW e \in LogEntry,
             log' = [log EXCEPT ![n][s] = IF log[n][s] = None THEN e ELSE log[n][s]]
      PROVE  log' = log \/ (log[n][s] = None /\ log' = [log EXCEPT ![n][s] = e])
  <2>1. CASE log[n][s] = None
    BY <1>2, <2>1
  <2>2. CASE log[n][s] # None
    <3>1. log \in [Node -> [SN -> LogEntry \cup {None}]]
      BY DEF TypeInv, Types
    <3> QED
      BY <1>2, <2>2, <3>1
  <2> QED
    BY <2>1, <2>2
<1>3. CASE Next
  <2>1. PICK n \in Node :
             \/ \E s \in SN, b \in Batch : Propose(n, s, b)
             \/ \E m \in msgs : HandlePreprepare(n, m)
             \/ \E s \in SN : HandlePrepare(n, s)
             \/ \E s \in SN : HandleCommit(n, s)
             \/ \E s \in SN, source \in Node : HandleMissingEntry(n, s, source)
             \/ view[n] < MaxView /\ SendViewChange(n)
             \/ \E w \in View : \E S \in SUBSET ViewChanges(w) : MaybeSendNewView(n, w, S)
             \/ \E m \in msgs : HandleMissingPreprepare(n, m)
             \/ \E m \in msgs : HandleNewView(n, m)
             \/ Quiet /\ TypeInv'
    BY <1>3, Steps, Zenon
  <2>2. ASSUME \/ \E s \in SN, b \in Batch : Propose(n, s, b)
               \/ \E m \in msgs : HandlePreprepare(n, m)
               \/ \E s \in SN : HandlePrepare(n, s)
        PROVE  log' = log
    BY <2>2 DEF Propose, HandlePreprepare, HandlePrepare
  <2>3. ASSUME \/ SendViewChange(n)
               \/ \E w \in View : \E S \in SUBSET ViewChanges(w) : MaybeSendNewView(n, w, S)
               \/ \E m \in msgs : HandleMissingPreprepare(n, m)
               \/ \E m \in msgs : HandleNewView(n, m)
               \/ Quiet
        PROVE  log' = log
    BY <2>3 DEF SendViewChange, MaybeSendNewView, HandleMissingPreprepare, HandleNewView, Quiet
  <2>4. ASSUME NEW s \in SN, HandleCommit(n, s)
        PROVE  \/ log' = log
               \/ \E e \in LogEntry : log[n][s] = None /\ log' = [log EXCEPT ![n][s] = e]
    <3>1. PICK e \in LogEntry :
            log' = [log EXCEPT ![n][s] = IF log[n][s] = None THEN e ELSE log[n][s]]
      BY <2>4, HandleCommitStep
    <3> QED
      BY <1>2, <3>1
  <2>5. ASSUME NEW s \in SN, NEW source \in Node, HandleMissingEntry(n, s, source)
        PROVE  \/ log' = log
               \/ \E e \in LogEntry : log[n][s] = None /\ log' = [log EXCEPT ![n][s] = e]
    <3>1. CASE Quiet
      BY <3>1 DEF Quiet
    <3>2. CASE ~Quiet
      <4>1. PICK e : e = log[source][s]
        OBVIOUS
      <4>2. /\ e \in LogEntry
            /\ log' = [log EXCEPT ![n][s] = IF log[n][s] = None THEN e ELSE log[n][s]]
        BY <2>5, <3>2, <4>1, HandleMissingEntryStep
      <4> QED
        BY <1>2, <4>2
    <3> QED
      BY <3>1, <3>2
  <2> QED
    BY <2>1, <2>2, <2>3, <2>4, <2>5, Zenon
<1> QED
  BY <1>1, <1>3

\* The batches of the log, as SegmentDecision has them.
Decided == [n \in Node |-> [s \in SN |-> IF log[n][s] = None THEN None ELSE log[n][s].batch]]

\* The logs of two nodes agree.
LogsAgree ==
    \A m, n \in Node, s \in SN : log[m][s] # None /\ log[n][s] # None
                                  => log[m][s].batch = log[n][s].batch

LEMMA LogsDoAgree ==
    ASSUME EnoughNodes, TypeInv, IInv
    PROVE  LogsAgree
<1> SUFFICES ASSUME NEW m \in Node, NEW n \in Node, NEW s \in SN, log[m][s] # None, log[n][s] # None
             PROVE  log[m][s].batch = log[n][s].batch
  BY DEF LogsAgree
<1>1. log[m][s] \in LogEntry /\ log[n][s] \in LogEntry
  BY DEF TypeInv, Types
<1>2. PICK x \in Value, y \in Value : x = log[m][s].batch /\ y = log[n][s].batch
  BY <1>1 DEF LogEntry, Value
<1>3. PICK u \in View, v \in View : Chosen(u, s, x) /\ Chosen(v, s, y)
  BY <1>2 DEF IInv, Logs, LogOK
<1> QED
  BY <1>2, <1>3, ChosenOnce DEF IInv

\* The segment implements SegmentDecision: an entry of a node's log is final, and all
\* nodes get the same batch for an SN, whether they commit it in the view of the first
\* leader, in a later one, or fetch it (announce, handleMissingEntry).
THEOREM Implements ==
    ASSUME EnoughNodes
    PROVE  Spec => ImplementsDecision
<1>1. Init => Decision!Init
  BY DEF Init, Decision!Init
<1>2. TypeInv /\ TypeInv' /\ LogsAgree' /\ [Next]_vars => [Decision!Next]_Decided
  <2> SUFFICES ASSUME TypeInv, TypeInv', LogsAgree', [Next]_vars
               PROVE  [Decision!Next]_Decided
    OBVIOUS
  <2>1. CASE log' = log
    BY <2>1 DEF Decided
  <2>2. CASE \E n \in Node, s \in SN, e \in LogEntry :
               log[n][s] = None /\ log' = [log EXCEPT ![n][s] = e]
    <3>1. PICK n \in Node, s \in SN, e \in LogEntry :
                 log[n][s] = None /\ log' = [log EXCEPT ![n][s] = e]
      BY <2>2
    <3>2. PICK row : row = [t \in SN |-> IF log'[n][t] = None THEN None ELSE log'[n][t].batch]
      OBVIOUS
    <3>3. /\ log \in [Node -> [SN -> LogEntry \cup {None}]]
          /\ log' \in [Node -> [SN -> LogEntry \cup {None}]]
      BY DEF TypeInv, Types
    <3>4. row \in Decision!Entries
      BY <3>2, <3>3 DEF Decision!Entries, LogEntry
    <3>5. \A t \in SN : Decided[n][t] # None => row[t] = Decided[n][t]
      <4> TAKE t \in SN
      <4>1. CASE t = s
        BY <3>1, <4>1 DEF Decided
      <4>2. CASE t # s
        BY <3>1, <3>2, <3>3, <4>2 DEF Decided
      <4> QED
        BY <4>1, <4>2
    <3>6. \A m \in Node, t \in SN : row[t] # None => Decided[m][t] \in {None, row[t]}
      <4> SUFFICES ASSUME NEW m \in Node, NEW t \in SN, row[t] # None, Decided[m][t] # None
                   PROVE  Decided[m][t] = row[t]
        OBVIOUS
      <4>1. log'[n][t] # None /\ row[t] = log'[n][t].batch
        BY <3>2
      <4>2. log[m][t] # None /\ Decided[m][t] = log[m][t].batch
        BY DEF Decided
      <4>3. log'[m][t] = log[m][t]
        BY <3>1, <3>3, <4>2
      <4>4. log'[m][t].batch = log'[n][t].batch
        BY <4>1, <4>2, <4>3 DEF LogsAgree
      <4> QED
        BY <4>1, <4>2, <4>3, <4>4
    <3>7. Decided' = [Decided EXCEPT ![n] = row]
      BY <3>1, <3>2, <3>3 DEF Decided
    <3>8. Decision!Decide(n, row)
      BY <3>5, <3>6, <3>7 DEF Decision!Decide, Decided
    <3> QED
      BY <3>4, <3>8 DEF Decision!Next
  <2> QED
    BY <2>1, <2>2, LogStep
<1> QED
  <2>1. TypeInv /\ IInv => LogsAgree
    BY LogsDoAgree
  <2>2. Spec => [](TypeInv /\ LogsAgree) /\ Init /\ [][Next]_vars
    BY <2>1, Invariance, PTL DEF Spec
  <2> QED
    BY <1>1, <1>2, <2>2, PTL DEF ImplementsDecision, Decision!Spec, Decided

=============================================================================
