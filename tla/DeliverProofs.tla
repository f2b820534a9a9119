---------------------------- MODULE DeliverProofs ----------------------------
(* Theorems about GroupDeliver, for any groups, replicas, requests and GSNs:  *)
(* a replica delivers the GSNs of its group in order and without a gap, a     *)
(* request without a GSN at its place, and all replicas of the group the same *)
(* sequence; a node in several groups delivers all their GSNs in order; and   *)
(* the drain loop ends only when there is nothing left to do.  The loop is    *)
(* proved turn by turn (Turn...), and any number of turns by Iterated.        *)
EXTENDS GroupDeliver, SequenceTheorems, FiniteSetTheorems, WellFoundedInduction, TLAPS

-----------------------------------------------------------------------------
(* The invariant *)

\* A groupDeliverer.
Deliverer ==
    [queue : Seq(Op), early : SUBSET GSN, meta : Metas, cursor : 0 .. MaxGsn, out : Seq(Op)]

\* A META that is known is that of the request with the GSN.
MetasRight(meta) ==
    \A o \in Op : Gsn[o] \in GSN /\ meta[Gsn[o]] # Unknown => meta[Gsn[o]] = Touched[o]

\* The requests in the queue touch the group, no cross-group one is in it twice, and
\* it is above the cursor unless it was brought forward.
QueueSound(d, g) ==
    /\ \A i \in DOMAIN d.queue :
          /\ g \in Touched[d.queue[i]]
          /\ IsCross(d.queue[i]) => Gsn[d.queue[i]] > d.cursor \/ Gsn[d.queue[i]] \in d.early
    /\ \A i, j \in DOMAIN d.queue : IsCross(d.queue[i]) /\ d.queue[i] = d.queue[j] => i = j
    /\ d.early \subseteq 1 .. d.cursor

\* The GSNs of the first n requests that went out.
SentIn(d, n) == {Gsn[d.out[j]] : j \in {k \in 1 .. n : IsCross(d.out[k])}}

\* What has gone out is what the group needs up to the cursor, in order.
SentInOrder(d, g) ==
    /\ SentIn(d, Len(d.out)) = {k \in Needed(g) : k <= d.cursor}
    /\ \A i \in DOMAIN d.out :
          IsCross(d.out[i]) => SentIn(d, i - 1) = {k \in Needed(g) : k < Gsn[d.out[i]]}

Sound(d, g) ==
    d \in Deliverer /\ MetasRight(d.meta) /\ QueueSound(d, g) /\ SentInOrder(d, g)

\* Batches are of requests that touch their group.
LogsSound ==
    /\ log \in [Group -> Seq(Seq(Op))]
    /\ \A g \in Group : \A n \in DOMAIN log[g] : \A i \in DOMAIN log[g][n] :
          g \in Touched[log[g][n][i]]

DeliverInv ==
    /\ dep \in Deployment
    /\ LogsSound
    /\ pushed \in [Replica -> Nat]
    /\ DOMAIN dlv = Replica
    /\ \A d \in Replica : pushed[d] <= Len(log[d[2]]) /\ Sound(dlv[d], d[2])

-----------------------------------------------------------------------------
(* Iterations *)

\* Along 0 .. n, a function stays in sets that each step goes from one to the next of.
LEMMA Iterated ==
    ASSUME NEW X, NEW n \in Nat, NEW f, f[0] \in X[0],
           \A k \in 1 .. n : f[k - 1] \in X[k - 1] => f[k] \in X[k]
    PROVE  \A k \in 0 .. n : f[k] \in X[k]
<1> DEFINE T == {k \in 0 .. n : f[k] \notin X[k]}
<1> SUFFICES ASSUME T # {} PROVE FALSE
  OBVIOUS
<1>1. T \subseteq Nat
  BY DEF T
<1>2. PICK k \in T : \A j \in T : ~ (<<j, k>> \in OpToRel(<, Nat))
  BY <1>1, WFMin, NatLessThanWellFounded
<1>3. k \in 0 .. n /\ f[k] \notin X[k]
  OBVIOUS
<1>4. k # 0
  BY <1>3
<1>5. k \in 1 .. n /\ k - 1 \in 0 .. n /\ k - 1 < k
  BY <1>3, <1>4
<1>6. k - 1 \notin T
  BY <1>1, <1>2, <1>5 DEF OpToRel
<1>7. f[k - 1] \in X[k - 1]
  BY <1>5, <1>6
<1> QED
  BY <1>3, <1>5, <1>7

\* Along 0 .. n steps can be iterated: F[k] is the k-th.
Steps(F, X) == F \in [Nat -> [X -> X]]
Iteration(f, F, X, x, n) ==
    f \in [0 .. n -> X] /\ f[0] = x /\ \A k \in 1 .. n : f[k] = F[k][f[k - 1]]

LEMMA Iterates ==
    ASSUME NEW X, NEW x \in X, NEW F, Steps(F, X), NEW n \in Nat
    PROVE  \E f : Iteration(f, F, X, x, n)
<1> USE DEF Steps
<1> DEFINE Good(m, f) == /\ f \in [0 .. m -> X] /\ f[0] = x
                         /\ \A k \in 1 .. m : f[k] = F[k][f[k - 1]]
           T == {m \in Nat : ~ \E f : Good(m, f)}
<1> HIDE DEF Good
<1>0. T \subseteq Nat
  OBVIOUS
<1> USE DEF Good
<1>1. T = {}
  <2> SUFFICES ASSUME T # {} PROVE FALSE
    OBVIOUS
  <2>1. PICK m \in T : \A j \in T : ~ (<<j, m>> \in OpToRel(<, Nat))
    BY WFMin, NatLessThanWellFounded
  <2>2. m # 0
    <3> DEFINE f == [k \in 0 .. 0 |-> x]
    <3>1. f \in [0 .. 0 -> X] /\ f[0] = x
      OBVIOUS
    <3>2. \A k \in 1 .. 0 : FALSE
      OBVIOUS
    <3> HIDE DEF f
    <3>3. Good(0, f)
      BY <3>1, <3>2
    <3>4. 0 \notin T /\ m \in T
      BY <3>3
    <3> HIDE DEF T
    <3> QED
      BY <3>4
  <2>3. m \in Nat /\ m - 1 \in Nat /\ m - 1 < m
    <3> HIDE DEF T
    <3> QED
      BY <1>0, <2>2
  <2>4. m - 1 \notin T
    BY <2>1, <2>3 DEF OpToRel
  <2>5. PICK f : Good(m - 1, f)
    BY <2>3, <2>4
  <2> DEFINE h == [k \in 0 .. m |-> IF k = m THEN F[m][f[m - 1]] ELSE f[k]]
  <2>6. f[m - 1] \in X /\ F[m][f[m - 1]] \in X
    BY <2>3, <2>5
  <2>7. h \in [0 .. m -> X] /\ \A k \in 0 .. m : h[k] = IF k = m THEN F[m][f[m - 1]] ELSE f[k]
    BY <2>3, <2>5, <2>6
  <2> HIDE DEF h
  <2>8. h[0] = x
    BY <2>2, <2>3, <2>5, <2>7
  <2>9. \A k \in 1 .. m : h[k] = F[k][h[k - 1]]
    <3> SUFFICES ASSUME NEW k \in 1 .. m PROVE h[k] = F[k][h[k - 1]]
      OBVIOUS
    <3>1. k - 1 \in 0 .. m - 1 /\ h[k - 1] = f[k - 1]
      BY <2>3, <2>7
    <3>2. CASE k = m
      BY <2>3, <2>7, <3>1, <3>2
    <3>3. CASE k # m
      BY <2>3, <2>5, <2>7, <3>1, <3>3
    <3> QED
      BY <3>2, <3>3
  <2>10. Good(m, h)
    BY <2>7, <2>8, <2>9
  <2> QED
    BY <2>1, <2>10
<1> QED
  BY <1>1 DEF Iteration

-----------------------------------------------------------------------------
(* The cursor *)

LEMMA Numbers ==
    /\ MaxGsn \in Nat /\ GSN = 1 .. MaxGsn
    /\ \A S \in SUBSET Group : Unknown # S
BY GroupAssumption DEF GSN

LEMMA OpFacts ==
    ASSUME dep \in Deployment
    PROVE  /\ \A o \in Op : /\ Gsn[o] \in 0 .. MaxGsn /\ Touched[o] \subseteq Group
                            /\ Touched[o] # {}
                            /\ IsCross(o) => Gsn[o] \in GSN /\ Cardinality(Touched[o]) > 1
           /\ \A o, p \in Op : Gsn[o] = Gsn[p] /\ Gsn[o] > 0 => o = p
           /\ \A d \in Replica : d[2] \in Group
           /\ Skip \subseteq GSN
<1>1. \A o \in Op : Gsn[o] \in 0 .. MaxGsn /\ Touched[o] \subseteq Group /\ Touched[o] # {}
  BY DeploymentAssumption DEF Op, Gsn, Touched
<1>2. \A o, p \in Op : Gsn[o] = Gsn[p] /\ Gsn[o] > 0 => o = p
  BY DeploymentAssumption DEF Op, Gsn
<1>3. (\A d \in Replica : d[2] \in Group) /\ Skip \subseteq GSN
  BY DeploymentAssumption DEF Replica, Skip
<1>4. \A o \in Op : IsCross(o) => Gsn[o] \in GSN /\ Cardinality(Touched[o]) > 1
  BY <1>1, Numbers DEF IsCross
<1> QED
  BY <1>1, <1>2, <1>3, <1>4

\* The least of some numbers.
LEMMA LeastOf ==
    ASSUME NEW T, T \subseteq Nat, T # {}
    PROVE  \E k \in T : \A j \in T : k <= j
<1>1. PICK k \in T : \A j \in T : ~ (<<j, k>> \in OpToRel(<, Nat))
  BY WFMin, NatLessThanWellFounded
<1>2. \A j \in T : ~ (j < k)
  BY <1>1 DEF OpToRel
<1> QED
  BY <1>2

\* The METAs of the prefix are known.
LEMMA PrefixIs ==
    ASSUME NEW meta \in Metas
    PROVE  /\ MetaPrefix(meta) \in 0 .. MaxGsn
           /\ \A j \in 1 .. MetaPrefix(meta) : meta[j] # Unknown
           /\ MetaPrefix(meta) < MaxGsn => meta[MetaPrefix(meta) + 1] = Unknown
<1> DEFINE T == {k \in 0 .. MaxGsn : k < MaxGsn => meta[k + 1] = Unknown}
<1>1. MaxGsn \in T /\ T \subseteq Nat
  BY Numbers
<1>2. PICK k \in T : \A j \in T : k <= j
  BY <1>1, LeastOf
<1>3. k \in 0 .. MaxGsn /\ (k < MaxGsn => meta[k + 1] = Unknown)
  OBVIOUS
<1>4. \A j \in 1 .. k : meta[j] # Unknown
  <2> SUFFICES ASSUME NEW j \in 1 .. k PROVE meta[j] # Unknown
    OBVIOUS
  <2>1. j - 1 \in 0 .. MaxGsn /\ j - 1 < MaxGsn /\ j - 1 < k /\ (j - 1) + 1 = j
    BY <1>3, Numbers
  <2>2. j - 1 \notin T
    BY <1>2, <2>1
  <2> QED
    BY <2>1, <2>2
<1> HIDE DEF T
<1>5. \E i \in 0 .. MaxGsn : /\ \A j \in 1 .. i : meta[j] # Unknown
                             /\ i < MaxGsn => meta[i + 1] = Unknown
  BY <1>3, <1>4
<1> QED
  BY <1>5 DEF MetaPrefix

LEMMA FirstIs ==
    ASSUME NEW from \in Nat, NEW prefix \in Nat, NEW some, NEW k, k = FirstAfter(from, prefix, some)
    PROVE  /\ k = 0 => some \cap (from + 1 .. prefix) = {}
           /\ k # 0 => k \in some /\ k \in from + 1 .. prefix
           /\ \A j \in some \cap (from + 1 .. prefix) : k <= j
<1> DEFINE S == some \cap (from + 1 .. prefix)
<1>1. CASE S = {}
  BY <1>1 DEF FirstAfter
<1>2. CASE S # {}
  <2>1. S \subseteq Nat /\ 0 \notin S
    OBVIOUS
  <2>2. \E i \in S : \A j \in S : i <= j
    BY <1>2, <2>1, LeastOf
  <2>3. k = CHOOSE i \in S : \A j \in S : i <= j
    BY <1>2 DEF FirstAfter
  <2> HIDE DEF S
  <2>4. k \in S /\ \A j \in S : k <= j
    BY <2>2, <2>3
  <2> QED
    BY <2>1, <2>4 DEF S
<1> QED
  BY <1>1, <1>2

\* What AdvanceCursor does: no GSN that the group needs is passed over.
CursorMoved(a, d, g, next) ==
    /\ a = [d EXCEPT !.cursor = a.cursor] /\ a.cursor \in d.cursor .. MaxGsn
    /\ next \in 0 .. MaxGsn
    /\ next # 0 => next \notin d.early /\ next = a.cursor + 1
    /\ \A k \in Needed(g) : k > d.cursor /\ k <= a.cursor => FALSE
    /\ \A k \in Needed(g) : k > a.cursor /\ next # 0 => next <= k

LEMMA AdvanceIs ==
    ASSUME dep \in Deployment, NEW g, NEW d, Sound(d, g)
    PROVE  CursorMoved(AdvanceCursor(d, g), d, g, Pending(d, g))
<1> DEFINE prefix == MetaPrefix(d.meta)
           next == Pending(d, g)
           a == AdvanceCursor(d, g)
           some == {k \in 1 .. prefix : Cardinality(d.meta[k]) >= 2 /\ g \in d.meta[k]} \ d.early
<1>1. d \in Deliverer /\ d.meta \in Metas /\ d.cursor \in 0 .. MaxGsn
  BY DEF Sound, Deliverer
<1>2. prefix \in 0 .. MaxGsn /\ \A j \in 1 .. prefix : d.meta[j] # Unknown
  BY <1>1, PrefixIs
<1>3. next = FirstAfter(d.cursor, prefix, some)
  BY DEF Pending
<1>4. a = [d EXCEPT !.cursor = IF next # 0 THEN next - 1 ELSE IF prefix > @ THEN prefix ELSE @]
  BY DEF AdvanceCursor
<1>5. \A k \in Needed(g) : k <= prefix /\ k > d.cursor => k \in some
  <2> SUFFICES ASSUME NEW o \in Op, IsCross(o), g \in Touched[o],
                      Gsn[o] <= prefix, Gsn[o] > d.cursor
               PROVE  Gsn[o] \in some
    BY DEF Needed
  <2>1. Gsn[o] \in 1 .. prefix /\ Gsn[o] \in GSN
    BY <1>1, <1>2, OpFacts
  <2>2. d.meta[Gsn[o]] = Touched[o]
    BY <1>2, <2>1 DEF Sound, MetasRight
  <2>3. Cardinality(Touched[o]) \in Nat /\ Cardinality(Touched[o]) > 1
    BY OpFacts, GroupAssumption, FS_Subset, FS_CardinalityType
  <2>4. Gsn[o] \notin d.early
    BY <1>1 DEF Sound, QueueSound
  <2> QED
    BY <2>1, <2>2, <2>3, <2>4
<1> HIDE DEF some, prefix, next
<1>6. /\ next = 0 => some \cap (d.cursor + 1 .. prefix) = {}
      /\ next # 0 => next \in some /\ next \in d.cursor + 1 .. prefix
      /\ \A j \in some \cap (d.cursor + 1 .. prefix) : next <= j
  BY <1>1, <1>2, <1>3, FirstIs
<1>7. some \cap d.early = {}
  BY DEF some
<1>8. /\ a = [d EXCEPT !.cursor = a.cursor]
      /\ a.cursor = IF next # 0 THEN next - 1 ELSE IF prefix > d.cursor THEN prefix ELSE d.cursor
  BY <1>1, <1>4 DEF Deliverer
<1> HIDE DEF a
<1>9. a.cursor \in d.cursor .. MaxGsn /\ next \in 0 .. MaxGsn
  <2>1. CASE next = 0
    BY <1>1, <1>2, <1>8, <2>1, Numbers
  <2>2. CASE next # 0
    <3>1. next \in d.cursor + 1 .. prefix /\ a.cursor = next - 1
      BY <1>6, <1>8, <2>2
    <3> QED
      BY <1>1, <1>2, <3>1, Numbers
  <2> QED
    BY <2>1, <2>2
<1>10. next # 0 => next \notin d.early /\ next = a.cursor + 1
  BY <1>6, <1>7, <1>8, <1>9
<1>11. \A k \in Needed(g) : k \in Nat
  BY OpFacts, Numbers DEF Needed
<1>12. \A k \in Needed(g) : ~ (k > d.cursor /\ k <= a.cursor)
  BY <1>1, <1>2, <1>5, <1>6, <1>8, <1>11
<1>13. \A k \in Needed(g) : k > a.cursor /\ next # 0 => next <= k
  BY <1>1, <1>9, <1>10, <1>11
<1> QED
  BY <1>8, <1>9, <1>10, <1>12, <1>13 DEF CursorMoved, a, next

-----------------------------------------------------------------------------
(* What goes out *)

\* A request after those that went out.
Appended(a, d, o) ==
    /\ \A n \in 0 .. Len(d.out) : SentIn(a, n) = SentIn(d, n)
    /\ Len(a.out) = Len(d.out) + 1 /\ a.out[Len(a.out)] = o
    /\ SentIn(a, Len(a.out))
         = SentIn(d, Len(d.out)) \cup (IF IsCross(o) THEN {Gsn[o]} ELSE {})
    /\ \A i \in DOMAIN a.out : i = Len(a.out) \/ (i \in DOMAIN d.out /\ a.out[i] = d.out[i])

LEMMA AppendIs ==
    ASSUME NEW d, NEW a, NEW o \in Op, d.out \in Seq(Op), a.out = Append(d.out, o)
    PROVE  Appended(a, d, o)
<1> DEFINE n == Len(d.out)
<1>1. /\ n \in Nat /\ DOMAIN d.out = 1 .. n /\ DOMAIN a.out = 1 .. n + 1
      /\ Len(a.out) = n + 1 /\ a.out[n + 1] = o /\ \A i \in 1 .. n : a.out[i] = d.out[i]
  OBVIOUS
<1> HIDE DEF n
<1>2. ASSUME NEW m \in 0 .. n PROVE SentIn(a, m) = SentIn(d, m)
  <2>1. \A k \in 1 .. m : k \in 1 .. n
    BY <1>1
  <2>2. {k \in 1 .. m : IsCross(a.out[k])} = {k \in 1 .. m : IsCross(d.out[k])}
    BY <1>1, <2>1
  <2> QED
    BY <1>1, <2>1, <2>2 DEF SentIn
<1>3. SentIn(a, n + 1) = SentIn(d, n) \cup (IF IsCross(o) THEN {Gsn[o]} ELSE {})
  <2>1. {k \in 1 .. n + 1 : IsCross(a.out[k])}
          = {k \in 1 .. n : IsCross(d.out[k])} \cup (IF IsCross(o) THEN {n + 1} ELSE {})
    <3>1. 1 .. n + 1 = (1 .. n) \cup {n + 1} /\ n + 1 \notin 1 .. n
      BY <1>1
    <3> QED
      BY <1>1, <3>1
  <2>2. \A k \in 1 .. n : a.out[k] = d.out[k]
    BY <1>1
  <2> QED
    BY <1>1, <2>1, <2>2 DEF SentIn
<1> QED
  BY <1>1, <1>2, <1>3 DEF Appended, n

\* A request of this group alone goes out.
LEMMA LocalSent ==
    ASSUME NEW g, NEW d \in Deliverer, NEW a, NEW o \in Op, ~IsCross(o), SentInOrder(d, g),
           a.out = Append(d.out, o), a.cursor = d.cursor
    PROVE  SentInOrder(a, g)
<1>1. d.out \in Seq(Op) /\ Len(d.out) \in Nat /\ DOMAIN d.out = 1 .. Len(d.out)
  BY DEF Deliverer
<1>2. Appended(a, d, o)
  BY <1>1, AppendIs
<1>3. SentIn(a, Len(a.out)) = {k \in Needed(g) : k <= a.cursor}
  BY <1>2 DEF Appended, SentInOrder
<1>4. ASSUME NEW i \in DOMAIN a.out, IsCross(a.out[i])
      PROVE  SentIn(a, i - 1) = {k \in Needed(g) : k < Gsn[a.out[i]]}
  <2>1. i \in DOMAIN d.out /\ a.out[i] = d.out[i]
    BY <1>2, <1>4 DEF Appended
  <2>2. i - 1 \in 0 .. Len(d.out)
    BY <1>1, <2>1
  <2> QED
    BY <1>2, <1>4, <2>1, <2>2 DEF Appended, SentInOrder
<1> QED
  BY <1>3, <1>4 DEF SentInOrder

\* The next GSN goes out.
LEMMA CrossSent ==
    ASSUME dep \in Deployment, NEW g, NEW d \in Deliverer, NEW a, NEW o \in Op,
           IsCross(o), g \in Touched[o], SentInOrder(d, g),
           a.out = Append(d.out, o), a.cursor = Gsn[o], Gsn[o] > d.cursor,
           \A k \in Needed(g) : k > d.cursor => Gsn[o] <= k
    PROVE  SentInOrder(a, g)
<1>1. /\ d.out \in Seq(Op) /\ Len(d.out) \in Nat /\ DOMAIN d.out = 1 .. Len(d.out)
      /\ d.cursor \in Nat
  BY Numbers DEF Deliverer
<1>2. Appended(a, d, o)
  BY <1>1, AppendIs
<1>3. Gsn[o] \in Needed(g) /\ \A k \in Needed(g) : k \in Nat
  BY OpFacts, Numbers DEF Needed
<1>4. {k \in Needed(g) : k < Gsn[o]} = {k \in Needed(g) : k <= d.cursor}
  BY <1>1, <1>3
<1>5. {k \in Needed(g) : k <= a.cursor} = {k \in Needed(g) : k <= d.cursor} \cup {Gsn[o]}
  BY <1>1, <1>3
<1>6. SentIn(a, Len(a.out)) = {k \in Needed(g) : k <= a.cursor}
  BY <1>2, <1>5 DEF Appended, SentInOrder
<1>7. ASSUME NEW i \in DOMAIN a.out, IsCross(a.out[i])
      PROVE  SentIn(a, i - 1) = {k \in Needed(g) : k < Gsn[a.out[i]]}
  <2>1. CASE i \in DOMAIN d.out /\ a.out[i] = d.out[i]
    <3>1. i - 1 \in 0 .. Len(d.out)
      BY <1>1, <2>1
    <3> QED
      BY <1>2, <1>7, <2>1, <3>1 DEF Appended, SentInOrder
  <2>2. CASE i = Len(a.out)
    <3>1. i - 1 = Len(d.out) /\ Len(d.out) \in 0 .. Len(d.out) /\ a.out[i] = o
      BY <1>1, <1>2, <2>2 DEF Appended
    <3> QED
      BY <1>2, <1>4, <3>1 DEF Appended, SentInOrder
  <2> QED
    BY <1>2, <2>1, <2>2 DEF Appended
<1> QED
  BY <1>6, <1>7 DEF SentInOrder

\* Only what the group does not need is passed over.
LEMMA NoneSent ==
    ASSUME NEW g, NEW d, NEW a, SentInOrder(d, g), a.out = d.out,
           {k \in Needed(g) : k <= a.cursor} = {k \in Needed(g) : k <= d.cursor}
    PROVE  SentInOrder(a, g)
BY DEF SentInOrder, SentIn

-----------------------------------------------------------------------------
(* The turns of the drain loop *)

LEMMA Sequences ==
    ASSUME NEW d \in Deliverer, NEW o \in Op
    PROVE  /\ Append(d.out, o) \in Seq(Op) /\ Append(d.queue, o) \in Seq(Op)
           /\ d.queue # << >> => Tail(d.queue) \in Seq(Op) /\ Head(d.queue) \in Op
           /\ d.early \subseteq GSN /\ d.cursor \in 0 .. MaxGsn
           /\ d.queue \in Seq(Op) /\ d.out \in Seq(Op) /\ d.meta \in Metas
BY DEF Deliverer

\* The head leaves the queue, and what is behind it stays above the cursor or early.
LEMMA QueueTail ==
    ASSUME NEW g, NEW d \in Deliverer, NEW a, QueueSound(d, g), d.queue # << >>,
           a.queue = Tail(d.queue), a.early \subseteq 1 .. a.cursor,
           \A o \in Op : /\ IsCross(o) /\ g \in Touched[o] /\ o # Head(d.queue)
                         /\ Gsn[o] > d.cursor \/ Gsn[o] \in d.early
                         => Gsn[o] > a.cursor \/ Gsn[o] \in a.early
    PROVE  QueueSound(a, g)
<1>1. /\ d.queue \in Seq(Op) /\ DOMAIN d.queue = 1 .. Len(d.queue) /\ Len(d.queue) \in Nat \ {0}
      /\ DOMAIN a.queue = 1 .. Len(d.queue) - 1 /\ Head(d.queue) = d.queue[1]
      /\ \A i \in 1 .. Len(d.queue) - 1 : a.queue[i] = d.queue[i + 1]
  BY DEF Deliverer
<1>2. ASSUME NEW i \in DOMAIN a.queue
      PROVE  /\ g \in Touched[a.queue[i]]
             /\ IsCross(a.queue[i])
                  => Gsn[a.queue[i]] > a.cursor \/ Gsn[a.queue[i]] \in a.early
  <2>1. i + 1 \in DOMAIN d.queue /\ 1 \in DOMAIN d.queue /\ i + 1 # 1 /\ a.queue[i] = d.queue[i + 1]
    BY <1>1
  <2>2. a.queue[i] \in Op
    BY <1>1, <2>1
  <2>3. g \in Touched[a.queue[i]]
    BY <2>1 DEF QueueSound
  <2>4. ASSUME IsCross(a.queue[i])
        PROVE  Gsn[a.queue[i]] > a.cursor \/ Gsn[a.queue[i]] \in a.early
    <3>1. a.queue[i] # Head(d.queue)
      BY <1>1, <2>1, <2>4 DEF QueueSound
    <3>2. Gsn[a.queue[i]] > d.cursor \/ Gsn[a.queue[i]] \in d.early
      BY <2>1, <2>4 DEF QueueSound
    <3> QED
      BY <2>2, <2>3, <2>4, <3>1, <3>2
  <2> QED
    BY <2>3, <2>4
<1>3. ASSUME NEW i \in DOMAIN a.queue, NEW j \in DOMAIN a.queue,
             IsCross(a.queue[i]), a.queue[i] = a.queue[j]
      PROVE  i = j
  <2>1. i + 1 \in DOMAIN d.queue /\ j + 1 \in DOMAIN d.queue
    BY <1>1
  <2>2. i + 1 = j + 1
    BY <1>1, <1>3, <2>1 DEF QueueSound
  <2> QED
    BY <1>1, <2>2
<1> QED
  BY <1>2, <1>3 DEF QueueSound

LEMMA QueueSame ==
    ASSUME NEW g, NEW d \in Deliverer, NEW a, QueueSound(d, g),
           a.queue = d.queue, a.early \subseteq 1 .. a.cursor,
           \A o \in Op : /\ IsCross(o) /\ g \in Touched[o]
                         /\ Gsn[o] > d.cursor \/ Gsn[o] \in d.early
                         => Gsn[o] > a.cursor \/ Gsn[o] \in a.early
    PROVE  QueueSound(a, g)
<1>1. \A i \in DOMAIN d.queue : d.queue[i] \in Op
  BY DEF Deliverer
<1> QED
  BY <1>1 DEF QueueSound

LEMMA CursorSound ==
    ASSUME dep \in Deployment, NEW g, NEW d, Sound(d, g)
    PROVE  Sound(AdvanceCursor(d, g), g)
<1>1. PICK a : a = AdvanceCursor(d, g)
  OBVIOUS
<1>2. PICK next : next = Pending(d, g)
  OBVIOUS
<1>3. CursorMoved(a, d, g, next)
  BY <1>1, <1>2, AdvanceIs
<1>4. d \in Deliverer /\ d.cursor \in Nat
  BY Numbers DEF Sound, Deliverer
<1>5. /\ a.queue = d.queue /\ a.early = d.early /\ a.meta = d.meta /\ a.out = d.out
      /\ a.cursor \in d.cursor .. MaxGsn /\ a \in Deliverer
  <2>1. a = [d EXCEPT !.cursor = a.cursor] /\ a.cursor \in d.cursor .. MaxGsn
    BY <1>3 DEF CursorMoved
  <2>2. a.cursor \in 0 .. MaxGsn
    BY <1>4, <2>1, Numbers
  <2> QED
    BY <1>4, <2>1, <2>2 DEF Deliverer
<1>6. \A k \in Needed(g) : k \in Nat /\ ~ (k > d.cursor /\ k <= a.cursor)
  BY <1>3, OpFacts, Numbers DEF CursorMoved, Needed
<1>7. QueueSound(a, g)
  <2>1. a.early \subseteq 1 .. a.cursor
    BY <1>4, <1>5, Numbers DEF Sound, QueueSound
  <2>2. \A o \in Op : IsCross(o) /\ g \in Touched[o] => Gsn[o] \in Needed(g)
    BY DEF Needed
  <2>3. \A o \in Op : IsCross(o) /\ g \in Touched[o] /\ Gsn[o] > d.cursor => Gsn[o] > a.cursor
    BY <1>4, <1>5, <1>6, <2>2, Numbers
  <2> QED
    BY <1>4, <1>5, <2>1, <2>3, QueueSame DEF Sound
<1>8. SentInOrder(a, g)
  <2>1. {k \in Needed(g) : k <= a.cursor} = {k \in Needed(g) : k <= d.cursor}
    BY <1>4, <1>5, <1>6, Numbers
  <2> QED
    BY <1>5, <2>1, NoneSent DEF Sound
<1> QED
  BY <1>1, <1>5, <1>7, <1>8 DEF Sound

\* A request of the group alone is at the head of the queue.
LEMMA LocalTurnSound ==
    ASSUME NEW g, NEW d, Sound(d, g), d.queue # << >>, ~IsCross(Head(d.queue))
    PROVE  Sound(LocalTurn(d, g), g)
<1>1. PICK a : a = LocalTurn(d, g)
  OBVIOUS
<1>2. d \in Deliverer /\ Head(d.queue) \in Op
  BY DEF Sound, Deliverer
<1>3. /\ a \in Deliverer /\ a.queue = Tail(d.queue) /\ a.early = d.early
      /\ a.meta = d.meta /\ a.cursor = d.cursor /\ a.out = Append(d.out, Head(d.queue))
  <2>1. PICK q, u : q = Tail(d.queue) /\ u = Append(d.out, Head(d.queue))
    OBVIOUS
  <2>2. a = [d EXCEPT !.out = u, !.queue = q]
    BY <1>1, <2>1 DEF LocalTurn, SendHead
  <2>3. q \in Seq(Op) /\ u \in Seq(Op)
    BY <1>2, <2>1, Sequences
  <2> QED
    BY <1>2, <1>1, <2>1, <2>2, <2>3 DEF Deliverer
<1>4. QueueSound(a, g)
  <2>1. a.early \subseteq 1 .. a.cursor
    BY <1>3 DEF Sound, QueueSound
  <2> QED
    BY <1>2, <1>3, <2>1, QueueTail DEF Sound
<1>5. SentInOrder(a, g)
  BY <1>2, <1>3, LocalSent DEF Sound
<1> QED
  BY <1>1, <1>3, <1>4, <1>5 DEF Sound

\* The head has been brought forward.
LEMMA EarlyTurnSound ==
    ASSUME dep \in Deployment, NEW g, NEW d, Sound(d, g), d.queue # << >>,
           IsCross(Head(d.queue))
    PROVE  Sound([d EXCEPT !.queue = Tail(@), !.early = @ \ {Gsn[Head(d.queue)]}], g)
<1>0. PICK a : a = [d EXCEPT !.queue = Tail(@), !.early = @ \ {Gsn[Head(d.queue)]}]
  OBVIOUS
<1>1. d \in Deliverer /\ Head(d.queue) \in Op
  BY DEF Sound, Deliverer
<1>2. /\ a \in Deliverer /\ a.queue = Tail(d.queue) /\ a.early = d.early \ {Gsn[Head(d.queue)]}
      /\ a.meta = d.meta /\ a.cursor = d.cursor /\ a.out = d.out
  <2>1. PICK q, u : q = Tail(d.queue) /\ u = d.out
    OBVIOUS
  <2>2. a = [d EXCEPT !.queue = q, !.early = @ \ {Gsn[Head(d.queue)]}]
    BY <1>0, <1>1, <2>1
  <2>3. q \in Seq(Op) /\ u \in Seq(Op)
    BY <1>1, <2>1, Sequences
  <2> QED
    BY <1>1, <2>1, <2>2, <2>3 DEF Deliverer
<1>3. QueueSound(a, g)
  <2>1. a.early \subseteq 1 .. a.cursor
    BY <1>2 DEF Sound, QueueSound
  <2>2. \A o \in Op : IsCross(o) /\ o # Head(d.queue) => Gsn[o] # Gsn[Head(d.queue)]
    BY <1>1, OpFacts DEF IsCross
  <2>3. QueueSound(d, g)
    BY DEF Sound
  <2>4. \A o \in Op : /\ IsCross(o) /\ g \in Touched[o] /\ o # Head(d.queue)
                      /\ Gsn[o] > d.cursor \/ Gsn[o] \in d.early
                      => Gsn[o] > a.cursor \/ Gsn[o] \in a.early
    BY <1>2, <2>2
  <2> QED
    BY <1>1, <1>2, <2>1, <2>3, <2>4, QueueTail
<1>4. SentInOrder(a, g)
  BY <1>2, NoneSent DEF Sound
<1> QED
  BY <1>0, <1>2, <1>3, <1>4 DEF Sound

\* The head is the next GSN that the group needs.
LEMMA NextTurnSound ==
    ASSUME dep \in Deployment, NEW g, NEW d, Sound(d, g), d.queue # << >>,
           IsCross(Head(d.queue)), Gsn[Head(d.queue)] = d.cursor + 1
    PROVE  Sound([SendHead(d) EXCEPT !.cursor = Gsn[Head(d.queue)]], g)
<1>0. PICK a : a = [SendHead(d) EXCEPT !.cursor = Gsn[Head(d.queue)]]
  OBVIOUS
<1>1. d \in Deliverer /\ d.cursor \in Nat /\ Head(d.queue) \in Op /\ g \in Touched[Head(d.queue)]
  <2>1. d \in Deliverer /\ d.cursor \in Nat /\ Head(d.queue) \in Op
    BY Numbers DEF Sound, Deliverer
  <2>2. Head(d.queue) = d.queue[1] /\ 1 \in DOMAIN d.queue
    BY <2>1 DEF Deliverer
  <2> QED
    BY <2>1, <2>2 DEF Sound, QueueSound
<1>2. Gsn[Head(d.queue)] \in 0 .. MaxGsn
  BY <1>1, OpFacts
<1>3. /\ a \in Deliverer /\ a.queue = Tail(d.queue) /\ a.early = d.early
      /\ a.meta = d.meta /\ a.cursor = Gsn[Head(d.queue)]
      /\ a.out = Append(d.out, Head(d.queue))
  <2>1. PICK q, u : q = Tail(d.queue) /\ u = Append(d.out, Head(d.queue))
    OBVIOUS
  <2>2. a = [d EXCEPT !.out = u, !.queue = q, !.cursor = Gsn[Head(d.queue)]]
    BY <1>0, <1>1, <2>1 DEF SendHead
  <2>3. q \in Seq(Op) /\ u \in Seq(Op)
    BY <1>1, <1>2, <2>1, Sequences
  <2> QED
    BY <1>1, <1>2, <2>1, <2>2, <2>3 DEF Deliverer
<1>4. QueueSound(a, g)
  <2>1. a.early \subseteq 1 .. a.cursor
    BY <1>1, <1>3 DEF Sound, QueueSound
  <2>2. \A o \in Op : IsCross(o) /\ o # Head(d.queue) => Gsn[o] # Gsn[Head(d.queue)]
    BY <1>1, OpFacts DEF IsCross
  <2>3. \A o \in Op : Gsn[o] \in Nat
    BY OpFacts, Numbers
  <2>4. \A o \in Op : IsCross(o) /\ o # Head(d.queue) /\ Gsn[o] > d.cursor => Gsn[o] > a.cursor
    BY <1>1, <1>3, <2>2, <2>3
  <2>5. QueueSound(d, g)
    BY DEF Sound
  <2>6. \A o \in Op : /\ IsCross(o) /\ g \in Touched[o] /\ o # Head(d.queue)
                      /\ Gsn[o] > d.cursor \/ Gsn[o] \in d.early
                      => Gsn[o] > a.cursor \/ Gsn[o] \in a.early
    BY <1>3, <2>4
  <2> QED
    BY <1>1, <1>3, <2>1, <2>5, <2>6, QueueTail
<1>5. SentInOrder(a, g)
  <2>1. \A k \in Needed(g) : k \in Nat
    BY OpFacts, Numbers DEF Needed
  <2>2. Gsn[Head(d.queue)] > d.cursor /\ \A k \in Needed(g) : k > d.cursor => Gsn[Head(d.queue)] <= k
    BY <1>0, <1>1, <2>1
  <2> QED
    BY <1>1, <1>3, <2>2, CrossSent DEF Sound
<1> QED
  BY <1>0, <1>3, <1>4, <1>5 DEF Sound

\* The next GSN is further down the queue.
LEMMA BringSound ==
    ASSUME dep \in Deployment, NEW g, NEW d, Sound(d, g),
           NEW i \in DOMAIN d.queue, IsCross(d.queue[i]),
           NEW next, next = Gsn[d.queue[i]], next = d.cursor + 1
    PROVE  Sound(Bring(d, next), g)
<1>1. PICK a : a = Bring(d, next)
  OBVIOUS
<1>2. PICK o : o = d.queue[i]
  OBVIOUS
<1>3. /\ d \in Deliverer /\ d.cursor \in Nat /\ o \in Op /\ g \in Touched[o]
      /\ IsCross(o) /\ Gsn[o] = next /\ next \in GSN
  <2>1. d \in Deliverer /\ d.cursor \in Nat /\ o \in Op
    BY <1>2, Numbers DEF Sound, Deliverer
  <2> QED
    BY <1>2, <2>1, OpFacts DEF Sound, QueueSound
<1>4. (CHOOSE p \in Op : Gsn[p] = next) = o
  BY <1>3, OpFacts, Numbers
<1>5. /\ a \in Deliverer /\ a.queue = d.queue /\ a.early = d.early \cup {next}
      /\ a.meta = d.meta /\ a.cursor = next /\ a.out = Append(d.out, o)
  <2>1. PICK q, u : q = d.queue /\ u = Append(d.out, o)
    OBVIOUS
  <2>2. a = [d EXCEPT !.out = u, !.early = @ \cup {next}, !.cursor = next]
    BY <1>1, <1>4, <2>1 DEF Bring
  <2>3. q \in Seq(Op) /\ u \in Seq(Op)
    BY <1>3, Numbers, <2>1, Sequences
  <2>4. next \in 0 .. MaxGsn
    BY <1>3, Numbers
  <2> QED
    BY <1>3, <2>1, <2>2, <2>3, <2>4 DEF Deliverer
<1>6. QueueSound(a, g)
  <2>1. a.early \subseteq 1 .. a.cursor
    BY <1>3, <1>5, Numbers DEF Sound, QueueSound
  <2>2. \A p \in Op : Gsn[p] \in Nat
    BY OpFacts, Numbers
  <2>3. \A p \in Op : Gsn[p] > d.cursor => Gsn[p] > a.cursor \/ Gsn[p] \in a.early
    BY <1>3, <1>5, <2>2
  <2> QED
    BY <1>3, <1>5, <2>1, <2>3, QueueSame DEF Sound
<1>7. SentInOrder(a, g)
  <2>1. \A k \in Needed(g) : k \in Nat
    BY OpFacts, Numbers DEF Needed
  <2>2. Gsn[o] > d.cursor /\ \A k \in Needed(g) : k > d.cursor => Gsn[o] <= k
    BY <1>3, <2>1
  <2> QED
    BY <1>3, <1>5, <2>2, CrossSent DEF Sound
<1> QED
  BY <1>1, <1>5, <1>6, <1>7 DEF Sound

\* What one turn does: after the cursor has moved (a), it sends the head, the next
\* GSN, or a later item, or it stops.  (The branch of a head that the cursor has
\* passed is not taken.)
StepShape(s, d, a, g) ==
    \/ s = d
    \/ d.queue # << >> /\ ~IsCross(Head(d.queue)) /\ s = LocalTurn(d, g)
    \/ /\ d.queue # << >> /\ IsCross(Head(d.queue)) /\ Gsn[Head(d.queue)] \in d.early
       /\ s = [d EXCEPT !.queue = Tail(@), !.early = @ \ {Gsn[Head(d.queue)]}]
    \/ s = a
    \/ /\ a.queue # << >> /\ IsCross(Head(a.queue)) /\ Gsn[Head(a.queue)] = a.cursor + 1
       /\ s = [SendHead(a) EXCEPT !.cursor = Gsn[Head(a.queue)]]
    \/ /\ a.queue # << >> /\ IsCross(Head(a.queue)) /\ Gsn[Head(a.queue)] > a.cursor
       /\ \E i \in DOMAIN a.queue :
            IsCross(a.queue[i]) /\ Gsn[a.queue[i]] = a.cursor + 1 /\ s = Bring(a, a.cursor + 1)

CursorOnly(a, d) ==
    a.queue = d.queue /\ a.early = d.early /\ a.meta = d.meta /\ a.out = d.out

LEMMA StepCases ==
    ASSUME dep \in Deployment, NEW g, NEW d, Sound(d, g)
    PROVE  \E a : /\ Sound(a, g) /\ CursorOnly(a, d)
                  /\ StepShape(DrainStep(d, g), d, a, g)
<1> DEFINE s == DrainStep(d, g)
<1>0. PICK a, next, c : a = AdvanceCursor(d, g) /\ next = Pending(d, g) /\ c = Gsn[Head(d.queue)]
  OBVIOUS
<1>1. Sound(a, g) /\ CursorMoved(a, d, g, next)
  BY <1>0, CursorSound, AdvanceIs
<1>2. CursorOnly(a, d)
  <2>1. a = [d EXCEPT !.cursor = a.cursor] /\ d \in Deliverer
    BY <1>1 DEF CursorMoved, Sound
  <2> QED
    BY <2>1 DEF Deliverer, CursorOnly
<1> SUFFICES StepShape(s, d, a, g)
  BY <1>1, <1>2
<1>3. CASE d.queue = << >>
  BY <1>3 DEF DrainStep, StepShape
<1>4. CASE d.queue # << >> /\ ~IsCross(Head(d.queue))
  <2>1. s = LocalTurn(d, g)
    BY <1>4 DEF DrainStep
  <2> QED
    BY <1>4, <2>1 DEF StepShape
<1>5. CASE d.queue # << >> /\ IsCross(Head(d.queue)) /\ Gsn[Head(d.queue)] \in d.early
  <2>1. s = [d EXCEPT !.queue = Tail(@), !.early = @ \ {Gsn[Head(d.queue)]}]
    BY <1>5 DEF DrainStep
  <2> HIDE DEF s
  <2> QED
    BY <1>5, <2>1 DEF StepShape
<1>6. CASE d.queue # << >> /\ IsCross(Head(d.queue)) /\ Gsn[Head(d.queue)] \notin d.early
  <2>1. a.queue = d.queue /\ a.early = d.early
    BY <1>2 DEF CursorOnly
  <2>2. Head(d.queue) \in Op /\ g \in Touched[Head(d.queue)] /\ c > a.cursor /\ c \in Nat \ {0}
    <3>1. a \in Deliverer /\ QueueSound(a, g)
      BY <1>1 DEF Sound
    <3>2. 1 \in DOMAIN a.queue /\ Head(d.queue) = a.queue[1] /\ Head(d.queue) \in Op
      BY <1>6, <2>1, <3>1 DEF Deliverer
    <3>3. c \in 1 .. MaxGsn
      BY <1>0, <1>6, <3>2, OpFacts, Numbers
    <3> QED
      BY <1>0, <1>6, <2>1, <3>1, <3>2, <3>3, Numbers DEF QueueSound
  <2>3. ~ (next > c)
    <3>1. c \in Needed(g)
      BY <1>0, <1>6, <2>2 DEF Needed
    <3>2. next \in Nat /\ next # 0 => next <= c
      BY <1>1, <2>2, <3>1, Numbers DEF CursorMoved
    <3> QED
      BY <1>1, <2>2, <3>2, Numbers DEF CursorMoved
  <2>4. s = CASE next = 0 -> a
              [] next = c -> [SendHead(a) EXCEPT !.cursor = c]
              [] next > c -> SendHead(a)
              [] next \in CrossInLog(d) /\ next < c /\ next > 0 -> Bring(a, next)
              [] OTHER -> a
    BY <1>0, <1>6 DEF DrainStep
  <2>5. next # 0 => next = a.cursor + 1
    BY <1>1 DEF CursorMoved
  <2> HIDE DEF s
  <2>6. CASE next = 0
    <3>1. s = a
      BY <2>2, <2>3, <2>4, <2>6
    <3> QED
      BY <3>1 DEF StepShape
  <2>7. CASE next # 0 /\ next = c
    <3>1. s = [SendHead(a) EXCEPT !.cursor = c]
      BY <2>2, <2>3, <2>4, <2>7
    <3>2. c = Gsn[Head(a.queue)] /\ c = a.cursor + 1
      BY <1>0, <2>1, <2>5, <2>7
    <3>3. a.queue # << >> /\ IsCross(Head(a.queue))
      BY <1>6, <2>1
    <3> QED
      BY <3>1, <3>2, <3>3 DEF StepShape
  <2>8. CASE next # 0 /\ next # c /\ next \in CrossInLog(d) /\ next < c /\ next > 0
    <3>1. s = Bring(a, next)
      BY <2>2, <2>3, <2>4, <2>8
    <3>2. \E i \in DOMAIN a.queue : IsCross(a.queue[i]) /\ Gsn[a.queue[i]] = next
      BY <2>1, <2>8 DEF CrossInLog
    <3>3. a.queue # << >> /\ IsCross(Head(a.queue)) /\ Gsn[Head(a.queue)] > a.cursor
      BY <1>0, <1>6, <2>1, <2>2
    <3> QED
      BY <2>5, <2>8, <3>1, <3>2, <3>3 DEF StepShape
  <2>9. CASE next # 0 /\ next # c /\ ~ (next \in CrossInLog(d) /\ next < c /\ next > 0)
    <3>1. s = a
      BY <2>3, <2>4, <2>9
    <3> QED
      BY <3>1 DEF StepShape
  <2> QED
    BY <2>6, <2>7, <2>8, <2>9
<1> QED
  BY <1>3, <1>4, <1>5, <1>6

LEMMA StepSound ==
    ASSUME dep \in Deployment, NEW g, NEW d, Sound(d, g)
    PROVE  Sound(DrainStep(d, g), g)
<1>1. PICK a : Sound(a, g) /\ CursorOnly(a, d) /\ StepShape(DrainStep(d, g), d, a, g)
  BY StepCases
<1>2. PICK s : s = DrainStep(d, g)
  OBVIOUS
<1> SUFFICES Sound(s, g)
  BY <1>2
<1>3. CASE d.queue # << >> /\ ~IsCross(Head(d.queue)) /\ s = LocalTurn(d, g)
  BY <1>3, LocalTurnSound
<1>4. CASE /\ d.queue # << >> /\ IsCross(Head(d.queue)) /\ Gsn[Head(d.queue)] \in d.early
           /\ s = [d EXCEPT !.queue = Tail(@), !.early = @ \ {Gsn[Head(d.queue)]}]
  BY <1>4, EarlyTurnSound
<1>5. CASE /\ a.queue # << >> /\ IsCross(Head(a.queue)) /\ Gsn[Head(a.queue)] = a.cursor + 1
           /\ s = [SendHead(a) EXCEPT !.cursor = Gsn[Head(a.queue)]]
  BY <1>1, <1>5, NextTurnSound
<1>6. CASE \E i \in DOMAIN a.queue :
             IsCross(a.queue[i]) /\ Gsn[a.queue[i]] = a.cursor + 1 /\ s = Bring(a, a.cursor + 1)
  <2>1. PICK i \in DOMAIN a.queue :
             IsCross(a.queue[i]) /\ Gsn[a.queue[i]] = a.cursor + 1 /\ s = Bring(a, a.cursor + 1)
    BY <1>6
  <2>2. PICK next : next = a.cursor + 1
    OBVIOUS
  <2> QED
    BY <1>1, <2>1, <2>2, BringSound
<1> QED
  BY <1>1, <1>2, <1>3, <1>4, <1>5, <1>6 DEF StepShape

\* drainLocked is some number of turns.
LEMMA DrainIs ==
    ASSUME dep \in Deployment, NEW g, NEW d, Sound(d, g)
    PROVE  \E n \in Nat : n = 2 * Len(d.queue) + 1 /\ \E h :
             /\ h[0] = d /\ Drain(d, g) = h[n]
             /\ \A k \in 1 .. n : h[k] = DrainStep(h[k - 1], g)
<1>1. PICK n : n = 2 * Len(d.queue) + 1
  OBVIOUS
<1> DEFINE X == {x \in Deliverer : Sound(x, g)}
           F == [k \in Nat |-> [x \in X |-> DrainStep(x, g)]]
<1>2. n \in Nat
  BY <1>1 DEF Sound, Deliverer
<1>3. \A x : Sound(x, g) <=> x \in X
  BY DEF Sound
<1>4. \A x \in X : DrainStep(x, g) \in X
  BY <1>3, StepSound
<1> HIDE DEF X
<1>5. d \in X /\ F \in [Nat -> [X -> X]]
  BY <1>3, <1>4
<1>6. \A k \in Nat : \A x \in X : F[k][x] = DrainStep(x, g)
  OBVIOUS
<1> HIDE DEF F
<1>7. PICK f \in [0 .. n -> X] : f[0] = d /\ \A k \in 1 .. n : f[k] = F[k][f[k - 1]]
  <2>1. PICK f : Iteration(f, F, X, d, n)
    BY <1>2, <1>5, Iterates DEF Steps
  <2> QED
    BY <2>1 DEF Iteration
<1> DEFINE Turn(x) == CHOOSE next \in {DrainStep(now, g) : now \in {x}} : TRUE
           After(h) == h = [k \in 0 .. n |-> IF k = 0 THEN d ELSE Turn(h[k - 1])]
<1>8. \A x : Turn(x) = DrainStep(x, g)
  OBVIOUS
<1>9. Drain(d, g) = (CHOOSE h : After(h))[n]
  BY <1>1 DEF Drain
<1> HIDE DEF Turn
<1>10. After(f)
  <2>1. \A k \in 1 .. n : k \in Nat /\ k - 1 \in 0 .. n
    BY <1>2
  <2>2. \A k \in 1 .. n : f[k] = Turn(f[k - 1])
    BY <1>6, <1>7, <1>8, <2>1
  <2>3. \A k \in 0 .. n : k # 0 => k \in 1 .. n
    BY <1>2
  <2>4. \A k \in 0 .. n : f[k] = IF k = 0 THEN d ELSE Turn(f[k - 1])
    BY <1>7, <2>2, <2>3
  <2> QED
    BY <1>7, <2>4
<1>11. PICK h : h = CHOOSE x : After(x)
  OBVIOUS
<1> HIDE DEF After
<1>12. After(h)
  BY <1>10, <1>11
<1>13. h[0] = d /\ \A k \in 1 .. n : h[k] = DrainStep(h[k - 1], g)
  BY <1>2, <1>8, <1>12 DEF After
<1>14. Drain(d, g) = h[n]
  BY <1>9, <1>11
<1>15. \E hh : /\ hh[0] = d /\ Drain(d, g) = hh[n]
               /\ \A k \in 1 .. n : hh[k] = DrainStep(hh[k - 1], g)
  BY <1>13, <1>14
<1> QED
  BY <1>1, <1>2, <1>15

LEMMA DrainSound ==
    ASSUME dep \in Deployment, NEW g, NEW d, Sound(d, g)
    PROVE  Sound(Drain(d, g), g)
<1>0. PICK n \in Nat : n = 2 * Len(d.queue) + 1 /\ \E h :
          /\ h[0] = d /\ Drain(d, g) = h[n]
          /\ \A k \in 1 .. n : h[k] = DrainStep(h[k - 1], g)
  BY DrainIs
<1>1. PICK h : /\ h[0] = d /\ Drain(d, g) = h[n]
               /\ \A k \in 1 .. n : h[k] = DrainStep(h[k - 1], g)
  BY <1>0
<1> DEFINE X == {x \in Deliverer : Sound(x, g)}
           Y == [k \in 0 .. n |-> X]
<1>2. \A x : Sound(x, g) <=> x \in X
  BY DEF Sound
<1> HIDE DEF X
<1>3. \A k \in 0 .. n : Y[k] = X
  OBVIOUS
<1> HIDE DEF Y
<1>4. h[0] \in Y[0]
  BY <1>1, <1>2, <1>3
<1>5. \A k \in 1 .. n : h[k - 1] \in Y[k - 1] => h[k] \in Y[k]
  <2>1. \A k \in 1 .. n : k \in 0 .. n /\ k - 1 \in 0 .. n
    OBVIOUS
  <2> QED
    BY <1>1, <1>2, <1>3, <2>1, StepSound
<1>6. \A k \in 0 .. n : h[k] \in Y[k]
  BY <1>4, <1>5, Iterated
<1> QED
  BY <1>1, <1>2, <1>3, <1>6

-----------------------------------------------------------------------------
(* What reaches a groupDeliverer *)

\* An item is filed, unless it is a further copy.
LEMMA EnqueueSound ==
    ASSUME dep \in Deployment, NEW g, NEW d, Sound(d, g), NEW o \in Op, g \in Touched[o]
    PROVE  Sound(Enqueue(d, o), g)
<1>1. CASE IsCross(o) /\ (Gsn[o] <= d.cursor \/ Gsn[o] \in d.early \/ Gsn[o] \in CrossInLog(d))
  BY <1>1 DEF Enqueue
<1>2. CASE ~ (IsCross(o) /\ (Gsn[o] <= d.cursor \/ Gsn[o] \in d.early \/ Gsn[o] \in CrossInLog(d)))
  <2>1. PICK a : a = Enqueue(d, o)
    OBVIOUS
  <2>2. d \in Deliverer /\ d.cursor \in Nat /\ Gsn[o] \in Nat /\ d.queue \in Seq(Op)
    BY OpFacts, Numbers DEF Sound, Deliverer
  <2>3. /\ a \in Deliverer /\ a.queue = Append(d.queue, o) /\ a.early = d.early
        /\ a.meta = d.meta /\ a.cursor = d.cursor /\ a.out = d.out
    <3>1. PICK q : q = Append(d.queue, o)
      OBVIOUS
    <3>2. a = [d EXCEPT !.queue = q]
      BY <1>2, <2>1, <3>1 DEF Enqueue
    <3>3. q \in Seq(Op)
      BY <2>2, <3>1, Sequences
    <3> QED
      BY <2>2, <3>1, <3>2, <3>3 DEF Deliverer
  <2>4. PICK n : n = Len(d.queue)
    OBVIOUS
  <2>5. /\ n \in Nat /\ DOMAIN d.queue = 1 .. n /\ DOMAIN a.queue = 1 .. n + 1
        /\ a.queue[n + 1] = o /\ \A i \in 1 .. n : a.queue[i] = d.queue[i]
    BY <2>2, <2>3, <2>4
  <2>6. \A i \in DOMAIN a.queue : i = n + 1 \/ i \in 1 .. n
    BY <2>5
  <2>7. IsCross(o) => Gsn[o] > d.cursor /\ \A i \in 1 .. n : d.queue[i] # o
    BY <1>2, <2>2, <2>5 DEF CrossInLog
  <2>8. QueueSound(d, g)
    BY DEF Sound
  <2>9. QueueSound(a, g)
    <3>1. ASSUME NEW i \in DOMAIN a.queue
          PROVE  /\ g \in Touched[a.queue[i]]
                 /\ IsCross(a.queue[i])
                      => Gsn[a.queue[i]] > a.cursor \/ Gsn[a.queue[i]] \in a.early
      <4>1. CASE i = n + 1
        BY <2>3, <2>5, <2>7, <4>1
      <4>2. CASE i \in 1 .. n
        BY <2>3, <2>5, <2>8, <4>2 DEF QueueSound
      <4> QED
        BY <2>6, <4>1, <4>2
    <3>2. ASSUME NEW i \in DOMAIN a.queue, NEW j \in DOMAIN a.queue,
                 IsCross(a.queue[i]), a.queue[i] = a.queue[j]
          PROVE  i = j
      <4>1. CASE i \in 1 .. n /\ j \in 1 .. n
        BY <2>5, <2>8, <3>2, <4>1 DEF QueueSound
      <4>2. CASE ~ (i \in 1 .. n /\ j \in 1 .. n)
        BY <2>5, <2>6, <2>7, <3>2, <4>2
      <4> QED
        BY <4>1, <4>2
    <3>3. a.early \subseteq 1 .. a.cursor
      BY <2>3, <2>8 DEF QueueSound
    <3> QED
      BY <3>1, <3>2, <3>3 DEF QueueSound
  <2>10. SentInOrder(a, g)
    BY <2>3, NoneSent DEF Sound
  <2> QED
    BY <2>1, <2>3, <2>9, <2>10 DEF Sound
<1> QED
  BY <1>1, <1>2

\* A batch is filed item by item.
LEMMA FileIs ==
    ASSUME dep \in Deployment, NEW g, NEW d, Sound(d, g),
           NEW batch \in Seq(Op), \A i \in DOMAIN batch : g \in Touched[batch[i]]
    PROVE  \E h : /\ h[0] = d /\ File(d, batch) = h[Len(batch)]
                  /\ \A k \in 1 .. Len(batch) : h[k] = Enqueue(h[k - 1], batch[k])
<1>1. PICK n : n = Len(batch)
  OBVIOUS
<1> DEFINE X == {x \in Deliverer : Sound(x, g)}
           F == [k \in Nat |-> [x \in X |-> IF k \in 1 .. n THEN Enqueue(x, batch[k]) ELSE x]]
<1>2. n \in Nat /\ DOMAIN batch = 1 .. n /\ \A k \in 1 .. n : batch[k] \in Op
  BY <1>1
<1>3. \A x : Sound(x, g) <=> x \in X
  BY DEF Sound
<1>4. \A k \in 1 .. n : \A x \in X : Enqueue(x, batch[k]) \in X
  BY <1>2, <1>3, EnqueueSound
<1> HIDE DEF X
<1>5. d \in X /\ F \in [Nat -> [X -> X]]
  BY <1>3, <1>4
<1>6. \A k \in 1 .. n : \A x \in X : F[k][x] = Enqueue(x, batch[k])
  BY <1>2
<1> HIDE DEF F
<1>7. PICK f \in [0 .. n -> X] : f[0] = d /\ \A k \in 1 .. n : f[k] = F[k][f[k - 1]]
  <2>1. PICK f : Iteration(f, F, X, d, n)
    BY <1>2, <1>5, Iterates DEF Steps
  <2> QED
    BY <2>1 DEF Iteration
<1> DEFINE After(h) == h = [k \in 0 .. n |-> IF k = 0 THEN d ELSE Enqueue(h[k - 1], batch[k])]
<1>8. File(d, batch) = (CHOOSE h : After(h))[n]
  BY <1>1 DEF File
<1>9. After(f)
  <2>1. \A k \in 1 .. n : k - 1 \in 0 .. n
    BY <1>2
  <2>2. \A k \in 1 .. n : f[k] = Enqueue(f[k - 1], batch[k])
    BY <1>6, <1>7, <2>1
  <2>3. \A k \in 0 .. n : k # 0 => k \in 1 .. n
    BY <1>2
  <2>4. \A k \in 0 .. n : f[k] = IF k = 0 THEN d ELSE Enqueue(f[k - 1], batch[k])
    BY <1>7, <2>2, <2>3
  <2> QED
    BY <1>7, <2>4
<1>10. PICK h : h = CHOOSE x : After(x)
  OBVIOUS
<1> HIDE DEF After
<1>11. After(h)
  BY <1>9, <1>10
<1>12. h[0] = d /\ \A k \in 1 .. n : h[k] = Enqueue(h[k - 1], batch[k])
  BY <1>2, <1>11 DEF After
<1> QED
  BY <1>1, <1>8, <1>10, <1>12

LEMMA FileSound ==
    ASSUME dep \in Deployment, NEW g, NEW d, Sound(d, g),
           NEW batch \in Seq(Op), \A i \in DOMAIN batch : g \in Touched[batch[i]]
    PROVE  Sound(File(d, batch), g)
<1>1. PICK h : /\ h[0] = d /\ File(d, batch) = h[Len(batch)]
               /\ \A k \in 1 .. Len(batch) : h[k] = Enqueue(h[k - 1], batch[k])
  BY FileIs
<1>2. PICK n \in Nat : n = Len(batch) /\ DOMAIN batch = 1 .. n /\ \A k \in 1 .. n : batch[k] \in Op
  OBVIOUS
<1> DEFINE X == {x \in Deliverer : Sound(x, g)}
           Y == [k \in 0 .. n |-> X]
<1>3. \A x : Sound(x, g) <=> x \in X
  BY DEF Sound
<1> HIDE DEF X
<1>4. \A k \in 0 .. n : Y[k] = X
  OBVIOUS
<1> HIDE DEF Y
<1>5. h[0] \in Y[0]
  BY <1>1, <1>3, <1>4
<1>6. \A k \in 1 .. n : h[k - 1] \in Y[k - 1] => h[k] \in Y[k]
  <2>1. \A k \in 1 .. n : k \in 0 .. n /\ k - 1 \in 0 .. n
    OBVIOUS
  <2> QED
    BY <1>1, <1>2, <1>3, <1>4, <2>1, EnqueueSound
<1>7. \A k \in 0 .. n : h[k] \in Y[k]
  BY <1>5, <1>6, Iterated
<1> QED
  BY <1>1, <1>2, <1>3, <1>4, <1>7

\* METAs arrive: that of a request, or those of the skipped GSNs.
LEMMA MetaSound ==
    ASSUME NEW g, NEW d, Sound(d, g), NEW meta \in Metas, MetasRight(meta)
    PROVE  Sound([d EXCEPT !.meta = meta], g)
<1>1. PICK a : a = [d EXCEPT !.meta = meta]
  OBVIOUS
<1>2. /\ a \in Deliverer /\ a.queue = d.queue /\ a.early = d.early
      /\ a.meta = meta /\ a.cursor = d.cursor /\ a.out = d.out
  BY <1>1 DEF Sound, Deliverer
<1>3. QueueSound(a, g)
  BY <1>2 DEF Sound, QueueSound
<1>4. SentInOrder(a, g)
  BY <1>2, NoneSent DEF Sound
<1> QED
  BY <1>1, <1>2, <1>3, <1>4 DEF Sound

LEMMA LearnRight ==
    ASSUME dep \in Deployment, NEW meta \in Metas, MetasRight(meta),
           NEW G, NEW groups \in SUBSET Group,
           \A o \in Op : Gsn[o] \in G => groups = Touched[o]
    PROVE  Learn(meta, G, groups) \in Metas /\ MetasRight(Learn(meta, G, groups))
<1>1. Learn(meta, G, groups) \in Metas
  BY DEF Learn, Metas
<1>2. ASSUME NEW o \in Op, Gsn[o] \in GSN, Learn(meta, G, groups)[Gsn[o]] # Unknown
      PROVE  Learn(meta, G, groups)[Gsn[o]] = Touched[o]
  BY <1>2 DEF Learn, MetasRight
<1> QED
  BY <1>1, <1>2 DEF MetasRight

-----------------------------------------------------------------------------
(* The invariant holds *)

\* The GSNs that a new sequencer leader declares skipped are those of no request.
SkipsAreFree == \A c \in Deployment : \A o \in c.op : c.gsn[o] \notin c.skip

\* The deployment is fixed.
LEMMA SoundSame ==
    ASSUME dep' = dep, NEW d, NEW g, Sound(d, g)
    PROVE  Sound(d, g)'
<1>1. Op' = Op /\ Gsn' = Gsn /\ Touched' = Touched
  BY DEF Op, Gsn, Touched
<1>2. Deliverer' = Deliverer
  BY <1>1 DEF Deliverer
<1>3. MetasRight(d.meta)'
  BY <1>1 DEF Sound, MetasRight
<1>4. QueueSound(d, g)'
  BY <1>1 DEF Sound, QueueSound, IsCross
<1>5. Needed(g)' = Needed(g)
  BY <1>1 DEF Needed, IsCross
<1>6. SentInOrder(d, g)'
  BY <1>1, <1>5 DEF Sound, SentInOrder, SentIn, IsCross
<1> QED
  BY <1>2, <1>3, <1>4, <1>6 DEF Sound

LEMMA InitSound ==
    ASSUME Init
    PROVE  DeliverInv
<1>1. dep \in Deployment
  BY DEF Init
<1>2. LogsSound
  BY DEF Init, LogsSound
<1>3. pushed \in [Replica -> Nat] /\ DOMAIN dlv = Replica
  BY DEF Init
<1>4. ASSUME NEW r \in Replica
      PROVE  pushed[r] <= Len(log[r[2]]) /\ Sound(dlv[r], r[2])
  <2>1. PICK d, g : d = dlv[r] /\ g = r[2]
    OBVIOUS
  <2>2. /\ d.queue = << >> /\ d.early = {} /\ d.meta = NoMeta /\ d.cursor = 0 /\ d.out = << >>
        /\ d \in Deliverer
    <3>1. NoMeta \in Metas /\ 0 \in 0 .. MaxGsn
      BY Numbers DEF NoMeta, Metas
    <3> QED
      BY <2>1, <3>1 DEF Init, Deliverer
  <2>3. MetasRight(d.meta)
    BY <2>2 DEF MetasRight, NoMeta
  <2>4. QueueSound(d, g)
    BY <2>2 DEF QueueSound
  <2>5. SentInOrder(d, g)
    <3>1. \A k \in Needed(g) : k \in Nat /\ k > 0
      BY <1>1, OpFacts, Numbers DEF Needed, IsCross
    <3>2. {k \in Needed(g) : k <= 0} = {}
      BY <3>1
    <3>3. SentIn(d, Len(d.out)) = {}
      BY <2>2 DEF SentIn
    <3> QED
      BY <2>2, <3>2, <3>3 DEF SentInOrder
  <2>6. pushed[r] <= Len(log[r[2]])
    BY <1>1, OpFacts DEF Init
  <2> QED
    BY <2>1, <2>2, <2>3, <2>4, <2>5, <2>6 DEF Sound
<1> QED
  BY <1>1, <1>2, <1>3, <1>4 DEF DeliverInv

\* What is left as it was stays right.
LEMMA SameDeliverers ==
    ASSUME DeliverInv, dep' = dep, log' = log, pushed' = pushed,
           NEW r \in Replica, NEW a, Sound(a, r[2]), dlv' = [dlv EXCEPT ![r] = a]
    PROVE  DeliverInv'
<1>1. Replica' = Replica
  BY DEF Replica
<1>2. LogsSound'
  BY DEF DeliverInv, LogsSound, Op, Touched
<1>3. ASSUME NEW s \in Replica PROVE Sound(dlv[s], s[2])'
  <2>1. PICK d : d = dlv'[s]
    OBVIOUS
  <2>2. Sound(d, s[2])
    BY <2>1 DEF DeliverInv
  <2> QED
    BY <2>1, <2>2, SoundSame
<1> QED
  BY <1>1, <1>2, <1>3 DEF DeliverInv

LEMMA OnMetaSound ==
    ASSUME DeliverInv, NEW r \in Replica, NEW o \in Op, OnMeta(r, o)
    PROVE  DeliverInv'
<1>1. PICK d, g : d = dlv[r] /\ g = r[2]
  OBVIOUS
<1>2. dep \in Deployment /\ Sound(d, g) /\ d.meta \in Metas /\ MetasRight(d.meta)
  BY <1>1 DEF DeliverInv, Sound, Deliverer
<1>3. PICK meta : meta = Learn(d.meta, {Gsn[o]}, Touched[o])
  OBVIOUS
<1>4. Touched[o] \in SUBSET Group /\ Gsn[o] > 0
  BY <1>2, OpFacts DEF OnMeta
<1>5. \A p \in Op : Gsn[p] \in {Gsn[o]} => Touched[o] = Touched[p]
  BY <1>2, <1>4, OpFacts
<1>6. meta \in Metas /\ MetasRight(meta)
  BY <1>2, <1>3, <1>4, <1>5, LearnRight
<1>7. PICK a : a = Drain(Hear(d, {Gsn[o]}, Touched[o]), g)
  OBVIOUS
<1>8. Sound(a, g)
  BY <1>2, <1>3, <1>6, <1>7, MetaSound, DrainSound DEF Hear
<1>9. /\ dlv' = [dlv EXCEPT ![r] = a]
      /\ dep' = dep /\ log' = log /\ pushed' = pushed
  BY <1>1, <1>3, <1>7 DEF OnMeta
<1> QED
  BY <1>1, <1>8, <1>9, SameDeliverers

LEMMA OnSkipSound ==
    ASSUME DeliverInv, SkipsAreFree, NEW r \in Replica, OnSkip(r)
    PROVE  DeliverInv'
<1>1. PICK d, g : d = dlv[r] /\ g = r[2]
  OBVIOUS
<1>2. dep \in Deployment /\ Sound(d, g) /\ d.meta \in Metas /\ MetasRight(d.meta)
  BY <1>1 DEF DeliverInv, Sound, Deliverer
<1>3. PICK meta : meta = Learn(d.meta, Skip, {})
  OBVIOUS
<1>4. \A p \in Op : Gsn[p] \notin Skip
  BY <1>2 DEF SkipsAreFree, Op, Gsn, Skip
<1>5. meta \in Metas /\ MetasRight(meta)
  BY <1>2, <1>3, <1>4, LearnRight
<1>6. PICK a : a = Drain(Hear(d, Skip, {}), g)
  OBVIOUS
<1>7. Sound(a, g)
  BY <1>2, <1>3, <1>5, <1>6, MetaSound, DrainSound DEF Hear
<1>8. /\ dlv' = [dlv EXCEPT ![r] = a]
      /\ dep' = dep /\ log' = log /\ pushed' = pushed
  BY <1>1, <1>3, <1>6 DEF OnSkip
<1> QED
  BY <1>1, <1>7, <1>8, SameDeliverers

\* The log of the group may have got a new batch.
LEMMA PushedLog ==
    ASSUME DeliverInv, NEW r \in Replica, Push(r)
    PROVE  /\ LogsSound' /\ pushed[r] + 1 \in DOMAIN log'[r[2]]
           /\ \A g \in Group : Len(log[g]) <= Len(log'[g])
           /\ \A g \in Group : \A m \in DOMAIN log[g] : log'[g][m] = log[g][m]
<1>1. PICK g, n : g = r[2] /\ n = pushed[r] + 1
  OBVIOUS
<1>2. g \in Group /\ n \in Nat \ {0} /\ n <= Len(log[g]) + 1 /\ LogsSound
  BY <1>1, OpFacts DEF DeliverInv, LogsSound
<1>3. Op' = Op /\ Touched' = Touched
  BY DEF Push, Op, Touched
<1>4. \A h \in Group : /\ log[h] \in Seq(Seq(Op)) /\ Len(log[h]) \in Nat
                       /\ DOMAIN log[h] = 1 .. Len(log[h])
  BY <1>2 DEF LogsSound
<1>5. CASE log' = log /\ n <= Len(log[g])
  BY <1>1, <1>2, <1>3, <1>4, <1>5 DEF LogsSound
<1>6. CASE n > Len(log[g]) /\ \E b \in Batches(g) : log' = [log EXCEPT ![g] = Append(@, b)]
  <2>1. PICK b \in Batches(g) : log' = [log EXCEPT ![g] = Append(@, b)]
    BY <1>6
  <2>2. b \in Seq(Op) /\ \A i \in DOMAIN b : g \in Touched[b[i]]
    <3>1. BatchSize \in Nat
      BY DeploymentAssumption DEF DeliverInv, BatchSize
    <3>2. PICK k \in 1 .. BatchSize : b \in [1 .. k -> {o \in Op : g \in Touched[o]}]
      BY DEF Batches
    <3> QED
      BY <3>1, <3>2
  <2>3. PICK new : new = Append(log[g], b)
    OBVIOUS
  <2>4. /\ new \in Seq(Seq(Op)) /\ Len(new) = Len(log[g]) + 1
        /\ DOMAIN new = 1 .. Len(log[g]) + 1 /\ new[Len(log[g]) + 1] = b
        /\ \A m \in 1 .. Len(log[g]) : new[m] = log[g][m]
    BY <1>2, <1>4, <2>2, <2>3
  <2>5. /\ log' \in [Group -> Seq(Seq(Op))] /\ log'[g] = new
        /\ \A h \in Group : h # g => log'[h] = log[h]
    BY <1>2, <2>1, <2>3, <2>4 DEF LogsSound
  <2>6. ASSUME NEW h \in Group, NEW m \in DOMAIN log'[h], NEW i \in DOMAIN log'[h][m]
        PROVE  h \in Touched[log'[h][m][i]]
    <3>1. CASE h # g
      BY <1>2, <2>5, <2>6, <3>1 DEF LogsSound
    <3>2. CASE h = g /\ m = Len(log[g]) + 1
      BY <2>2, <2>4, <2>5, <2>6, <3>2
    <3>3. CASE h = g /\ m # Len(log[g]) + 1
      <4>1. m \in DOMAIN log[g] /\ log'[h][m] = log[g][m]
        <5>1. DOMAIN log'[h] = 1 .. Len(log[g]) + 1 /\ Len(log[g]) \in Nat
          BY <1>2, <1>4, <2>4, <2>5, <3>3
        <5>2. m \in 1 .. Len(log[g])
          BY <3>3, <5>1
        <5> QED
          BY <1>2, <1>4, <2>4, <2>5, <3>3, <5>2
      <4> QED
        BY <1>2, <2>6, <3>3, <4>1 DEF LogsSound
    <3> QED
      BY <3>1, <3>2, <3>3
  <2>7. LogsSound'
    BY <1>3, <2>5, <2>6 DEF LogsSound
  <2>8. n \in DOMAIN log'[g] /\ \A h \in Group : Len(log[h]) <= Len(log'[h])
    BY <1>2, <1>4, <1>6, <2>4, <2>5
  <2>9. \A h \in Group : \A m \in DOMAIN log[h] : log'[h][m] = log[h][m]
    BY <1>4, <2>4, <2>5
  <2> QED
    BY <1>1, <2>7, <2>8, <2>9
<1> QED
  BY <1>1, <1>5, <1>6 DEF Push

LEMMA PushSound ==
    ASSUME DeliverInv, NEW r \in Replica, Push(r)
    PROVE  DeliverInv'
<1>1. PICK d, g, n : d = dlv[r] /\ g = r[2] /\ n = pushed[r] + 1
  OBVIOUS
<1>2. /\ LogsSound' /\ n \in DOMAIN log'[g] /\ \A h \in Group : Len(log[h]) <= Len(log'[h])
      /\ g \in Group
  BY <1>1, PushedLog, OpFacts DEF DeliverInv
<1>3. dep' = dep /\ dep \in Deployment /\ Replica' = Replica /\ Op' = Op /\ Touched' = Touched
  BY DEF DeliverInv, Push, Replica, Op, Touched
<1>4. PICK batch : batch = log'[g][n]
  OBVIOUS
<1>5. batch \in Seq(Op) /\ \A i \in DOMAIN batch : g \in Touched[batch[i]]
  BY <1>2, <1>3, <1>4 DEF LogsSound
<1>6. PICK a : a = Drain(File(d, batch), g)
  OBVIOUS
<1>7. Sound(d, g) /\ Sound(a, g)
  BY <1>1, <1>3, <1>5, <1>6, FileSound, DrainSound DEF DeliverInv
<1>8. dlv' = dlv \/ dlv' = [dlv EXCEPT ![r] = a]
  BY <1>1, <1>4, <1>6 DEF Push
<1>9. /\ pushed' = [pushed EXCEPT ![r] = n] /\ n \in Nat
      /\ \A h \in Group : Len(log'[h]) \in Nat /\ Len(log[h]) \in Nat
      /\ DOMAIN log'[g] = 1 .. Len(log'[g])
  BY <1>1, <1>2 DEF Push, DeliverInv, LogsSound
<1>10. pushed' \in [Replica -> Nat] /\ DOMAIN dlv' = Replica
  BY <1>8, <1>9 DEF DeliverInv
<1>11. ASSUME NEW s \in Replica
       PROVE  pushed'[s] <= Len(log'[s[2]]) /\ Sound(dlv[s], s[2])'
  <2>1. s[2] \in Group
    BY <1>3, OpFacts
  <2>2. pushed'[s] <= Len(log'[s[2]])
    <3>1. CASE s = r
      BY <1>1, <1>2, <1>9, <3>1 DEF DeliverInv
    <3>2. CASE s # r
      <4>1. pushed'[s] = pushed[s] /\ pushed[s] <= Len(log[s[2]]) /\ pushed[s] \in Nat
        BY <1>9, <3>2 DEF DeliverInv
      <4> QED
        BY <1>2, <1>9, <2>1, <4>1
    <3> QED
      BY <3>1, <3>2
  <2>3. PICK x : x = dlv'[s]
    OBVIOUS
  <2>4. Sound(x, s[2])
    BY <1>1, <1>7, <1>8, <2>3 DEF DeliverInv
  <2> QED
    BY <1>3, <2>2, <2>3, <2>4, SoundSame
<1> QED
  BY <1>2, <1>3, <1>10, <1>11 DEF DeliverInv

\* Nothing that the invariant is about changes.
LEMMA RestSound ==
    ASSUME DeliverInv, dep' = dep, log' = log, pushed' = pushed, dlv' = dlv
    PROVE  DeliverInv'
<1>1. Replica' = Replica
  BY DEF Replica
<1>2. LogsSound'
  BY DEF DeliverInv, LogsSound, Op, Touched
<1>3. ASSUME NEW s \in Replica PROVE Sound(dlv[s], s[2])'
  <2>1. PICK d : d = dlv'[s]
    OBVIOUS
  <2>2. Sound(d, s[2])
    BY <2>1 DEF DeliverInv
  <2> QED
    BY <2>1, <2>2, SoundSame
<1> QED
  BY <1>1, <1>2, <1>3 DEF DeliverInv

LEMMA NextSound ==
    ASSUME DeliverInv, SkipsAreFree, [Next]_vars
    PROVE  DeliverInv'
<1>1. ASSUME NEW r \in Replica, Push(r) PROVE DeliverInv'
  BY <1>1, PushSound
<1>2. ASSUME NEW r \in Replica, OnSkip(r) PROVE DeliverInv'
  BY <1>2, OnSkipSound
<1>3. ASSUME NEW r \in Replica, DeliverGroup(r) PROVE DeliverInv'
  <2>1. dep' = dep /\ log' = log /\ pushed' = pushed /\ dlv' = dlv
    BY <1>3 DEF DeliverGroup
  <2> QED
    BY <2>1, RestSound
<1>4. ASSUME NEW r \in Replica, NEW o \in Op, OnMeta(r, o) PROVE DeliverInv'
  BY <1>4, OnMetaSound
<1>5. ASSUME NEW n \in Global, GlobalOnSkip(n) PROVE DeliverInv'
  BY <1>5, RestSound DEF GlobalOnSkip
<1>6. ASSUME NEW n \in Global, NEW o \in Op, GlobalOnMeta(n, o) PROVE DeliverInv'
  BY <1>6, RestSound DEF GlobalOnMeta
<1>7. CASE UNCHANGED vars
  BY <1>7, RestSound DEF vars
<1> QED
  BY <1>1, <1>2, <1>3, <1>4, <1>5, <1>6, <1>7 DEF Next

-----------------------------------------------------------------------------
(* The theorems *)

\* globaldeliver.go, drainLocked: whatever the order in which batches, METAs and skips
\* arrive, a replica delivers the GSNs of its group in order and without a gap.
THEOREM DeliveredInOrder ==
    ASSUME SkipsAreFree
    PROVE  Spec => []GsnOrder
<1>1. Init => DeliverInv
  BY InitSound
<1>2. DeliverInv /\ [Next]_vars => DeliverInv'
  BY NextSound
<1>3. DeliverInv => GsnOrder
  BY DEF DeliverInv, Sound, SentInOrder, SentIn, GsnOrder
<1> QED
  BY <1>1, <1>2, <1>3, PTL DEF Spec

\* Two replicas, of one group or of two, that deliver the same two cross-group requests
\* deliver them in the same order.
SharedOrder ==
    \A d, e \in Replica :
        \A i, j \in DOMAIN dlv[d].out : \A k, l \in DOMAIN dlv[e].out :
            /\ IsCross(dlv[d].out[i]) /\ IsCross(dlv[d].out[j])
            /\ dlv[d].out[i] = dlv[e].out[k] /\ dlv[d].out[j] = dlv[e].out[l]
            => (i < j <=> k < l)

\* What a replica delivers has growing GSNs.
LEMMA Growing ==
    ASSUME DeliverInv, GsnOrder, NEW d \in Replica,
           NEW i \in DOMAIN dlv[d].out, NEW j \in DOMAIN dlv[d].out,
           IsCross(dlv[d].out[i]), IsCross(dlv[d].out[j])
    PROVE  i < j <=> Gsn[dlv[d].out[i]] < Gsn[dlv[d].out[j]]
<1>1. PICK out : out = dlv[d].out
  OBVIOUS
<1>2. out \in Seq(Op) /\ i \in Nat \ {0} /\ j \in Nat \ {0}
  BY <1>1 DEF DeliverInv, Sound, Deliverer
<1>3. Gsn[out[i]] \in Nat /\ Gsn[out[j]] \in Nat
  BY <1>1, <1>2, OpFacts, Numbers DEF DeliverInv
<1>4. ASSUME NEW m \in {i, j}, NEW n \in {i, j}, m < n
      PROVE  Gsn[out[m]] < Gsn[out[n]]
  <2>1. m \in {k \in 1 .. n - 1 : IsCross(out[k])}
    BY <1>1, <1>2, <1>4
  <2>2. {Gsn[out[k]] : k \in {h \in 1 .. n - 1 : IsCross(out[h])}}
          = {k \in Needed(d[2]) : k < Gsn[out[n]]}
    BY <1>1, <1>4 DEF GsnOrder
  <2> QED
    BY <2>1, <2>2
<1> QED
  BY <1>1, <1>2, <1>3, <1>4

\* globaldeliver.go: the order that the GSNs give is the same in all groups.
THEOREM SharedInOrder ==
    ASSUME SkipsAreFree
    PROVE  Spec => []SharedOrder
<1>1. Init => DeliverInv
  BY InitSound
<1>2. DeliverInv /\ [Next]_vars => DeliverInv'
  BY NextSound
<1>3. DeliverInv => SharedOrder
  <2> SUFFICES ASSUME DeliverInv, NEW d \in Replica, NEW e \in Replica,
                      NEW i \in DOMAIN dlv[d].out, NEW j \in DOMAIN dlv[d].out,
                      NEW k \in DOMAIN dlv[e].out, NEW l \in DOMAIN dlv[e].out,
                      IsCross(dlv[d].out[i]), IsCross(dlv[d].out[j]),
                      dlv[d].out[i] = dlv[e].out[k], dlv[d].out[j] = dlv[e].out[l]
               PROVE  i < j <=> k < l
    BY DEF SharedOrder
  <2>1. GsnOrder
    BY DEF DeliverInv, Sound, SentInOrder, SentIn, GsnOrder
  <2>2. i < j <=> Gsn[dlv[d].out[i]] < Gsn[dlv[d].out[j]]
    BY <2>1, Growing
  <2>3. k < l <=> Gsn[dlv[e].out[k]] < Gsn[dlv[e].out[l]]
    BY <2>1, Growing
  <2> QED
    BY <2>2, <2>3
<1> QED
  BY <1>1, <1>2, <1>3, PTL DEF Spec

-----------------------------------------------------------------------------
(* The order of the log *)

\* Place p of the log L is done when n requests have gone out: its request has gone, by
\* its own place if it has no GSN, and otherwise wherever it was brought from.
Done(d, L, place, n, p) ==
    IF IsCross(ItemAt(L, p)) THEN Gsn[ItemAt(L, p)] \in SentIn(d, n)
    ELSE \E k \in 1 .. n : ~IsCross(d.out[k]) /\ place[k] = p

\* When the i-th request went out, place[i] was the first of the places P that was not done.
\* Its request went, or, if it has a GSN, one with a GSN.
HeadAt(d, P, L, place, i) ==
    /\ place[i] \in P
    /\ ~Done(d, L, place, i - 1, place[i])
    /\ \A q \in P : Before(q, place[i]) => Done(d, L, place, i - 1, q)
    /\ IsCross(d.out[i]) <=> IsCross(ItemAt(L, place[i]))
    /\ ~IsCross(d.out[i]) => d.out[i] = ItemAt(L, place[i])
OutAt(d, P, L, place) == \A i \in DOMAIN d.out : HeadAt(d, P, L, place, i)

\* The queue holds, in order, the places at[i]; what is not in it is done, or is a copy
\* of a request that is in it.
QueueAt(d, P, L, place, at) ==
    /\ \A i \in DOMAIN d.queue :
         /\ at[i] \in P /\ ItemAt(L, at[i]) = d.queue[i]
         /\ \A k \in DOMAIN d.out : ~IsCross(d.out[k]) => Before(place[k], at[i])
    /\ \A i, j \in DOMAIN d.queue : i < j => Before(at[i], at[j])
    /\ \A p \in P : \/ \E i \in DOMAIN d.queue : at[i] = p
                    \/ Done(d, L, place, Len(d.out), p)
                    \/ \E i \in DOMAIN d.queue : /\ IsCross(d.queue[i]) /\ d.queue[i] = ItemAt(L, p)
                                                 /\ Before(at[i], p)

Placed(d, P, L) == \E place, at : OutAt(d, P, L, place) /\ QueueAt(d, P, L, place, at)

LEMMA BeforeOrder ==
    ASSUME NEW p \in Nat \X Nat, NEW q \in Nat \X Nat
    PROVE  /\ ~Before(p, p) /\ ~ (Before(p, q) /\ Before(q, p))
           /\ Before(p, q) \/ Before(q, p) \/ p = q
           /\ \A r \in Nat \X Nat : Before(p, q) /\ Before(q, r) => Before(p, r)
<1>1. /\ p = <<p[1], p[2]>> /\ p[1] \in Nat /\ p[2] \in Nat
      /\ q = <<q[1], q[2]>> /\ q[1] \in Nat /\ q[2] \in Nat
      /\ \A r \in Nat \X Nat : r[1] \in Nat /\ r[2] \in Nat
  OBVIOUS
<1>2. ~Before(p, p) /\ ~ (Before(p, q) /\ Before(q, p))
  BY <1>1 DEF Before
<1>3. Before(p, q) \/ Before(q, p) \/ p = q
  <2>1. p[1] = q[1] /\ p[2] = q[2] => p = q
    BY <1>1
  <2> QED
    BY <1>1, <2>1 DEF Before
<1>4. \A r \in Nat \X Nat : Before(p, q) /\ Before(q, r) => Before(p, r)
  BY <1>1 DEF Before
<1> QED
  BY <1>2, <1>3, <1>4

\* All that is before the head of the queue is done.
LEMMA HeadFirst ==
    ASSUME NEW d \in Deliverer, NEW P, P \subseteq Nat \X Nat, NEW L, NEW place, NEW at,
           QueueAt(d, P, L, place, at), d.queue # << >>,
           NEW q \in P, Before(q, at[1])
    PROVE  Done(d, L, place, Len(d.out), q)
<1>1. 1 \in DOMAIN d.queue /\ \A i \in DOMAIN d.queue : i = 1 \/ 1 < i
  BY DEF Deliverer
<1>2. at[1] \in P /\ \A i \in DOMAIN d.queue : at[i] \in P /\ (i = 1 \/ Before(at[1], at[i]))
  BY <1>1 DEF QueueAt
<1>3. ASSUME NEW i \in DOMAIN d.queue, Before(at[i], at[1]) PROVE FALSE
  BY <1>2, <1>3, BeforeOrder
<1>4. ASSUME NEW i \in DOMAIN d.queue, Before(at[i], q) PROVE FALSE
  <2>1. at[i] \in Nat \X Nat /\ q \in Nat \X Nat /\ at[1] \in Nat \X Nat
    BY <1>2
  <2>2. Before(at[i], at[1])
    BY <1>4, <2>1, BeforeOrder
  <2> QED
    BY <1>3, <2>2
<1> QED
  BY <1>3, <1>4 DEF QueueAt

\* A request goes out when `first` is the first place that is not done.
SentAt(a, d, P, L, place, place2, x, first) ==
    /\ OutAt(a, P, L, place2)
    /\ \A k \in DOMAIN a.out :
         ~IsCross(a.out[k]) =>
            \/ k \in DOMAIN d.out /\ ~IsCross(d.out[k]) /\ place2[k] = place[k]
            \/ ~IsCross(x) /\ place2[k] = first
    /\ \A p \in P : /\ Done(d, L, place, Len(d.out), p) => Done(a, L, place2, Len(a.out), p)
                    /\ IsCross(x) /\ ItemAt(L, p) = x => Done(a, L, place2, Len(a.out), p)
                    /\ ~IsCross(x) /\ p = first => Done(a, L, place2, Len(a.out), p)

LEMMA SendAt ==
    ASSUME NEW g, NEW d, Sound(d, g), NEW a, NEW x \in Op,
           NEW P, P \subseteq Nat \X Nat, NEW L, NEW place, NEW at,
           OutAt(d, P, L, place), QueueAt(d, P, L, place, at), d.queue # << >>,
           a.out = Append(d.out, x),
           IsCross(x) <=> IsCross(Head(d.queue)),
           ~IsCross(x) => x = Head(d.queue),
           IsCross(Head(d.queue)) => ~ (Gsn[Head(d.queue)] <= d.cursor)
    PROVE  \E place2 : SentAt(a, d, P, L, place, place2, x, at[1])
<1>1. PICK n \in Nat : n = Len(d.out)
  BY DEF Sound, Deliverer
<1>2. /\ d \in Deliverer /\ d.out \in Seq(Op) /\ DOMAIN d.out = 1 .. n /\ DOMAIN a.out = 1 .. n + 1
      /\ Len(a.out) = n + 1 /\ a.out[n + 1] = x /\ \A i \in 1 .. n : a.out[i] = d.out[i]
  BY <1>1 DEF Sound, Deliverer
<1>3. Appended(a, d, x)
  BY <1>2, AppendIs
<1>4. PICK place2 : place2 = [k \in 1 .. n + 1 |-> IF k = n + 1 THEN at[1] ELSE place[k]]
  OBVIOUS
<1>5. place2[n + 1] = at[1] /\ \A k \in 1 .. n : place2[k] = place[k]
  BY <1>4
<1>6. ASSUME NEW m \in 0 .. n, NEW p
      PROVE  Done(a, L, place2, m, p) <=> Done(d, L, place, m, p)
  <2>1. SentIn(a, m) = SentIn(d, m)
    BY <1>1, <1>3 DEF Appended
  <2>2. \A k \in 1 .. m : a.out[k] = d.out[k] /\ place2[k] = place[k]
    BY <1>2, <1>5
  <2> QED
    BY <2>1, <2>2 DEF Done
<1>7. /\ Head(d.queue) = d.queue[1] /\ 1 \in DOMAIN d.queue
      /\ at[1] \in P /\ ItemAt(L, at[1]) = Head(d.queue)
      /\ \A k \in 1 .. n : ~IsCross(d.out[k]) => Before(place[k], at[1])
  BY <1>2 DEF QueueAt, Deliverer
<1>8. ~Done(d, L, place, n, at[1])
  <2>1. CASE IsCross(Head(d.queue))
    <3>1. Gsn[Head(d.queue)] \notin SentIn(d, n)
      BY <1>1, <2>1 DEF Sound, SentInOrder
    <3> QED
      BY <1>7, <2>1, <3>1 DEF Done
  <2>2. CASE ~IsCross(Head(d.queue))
    <3>1. \A k \in 1 .. n : ~IsCross(d.out[k]) => place[k] # at[1]
      BY <1>7, BeforeOrder
    <3> QED
      BY <1>7, <2>2, <3>1 DEF Done
  <2> QED
    BY <2>1, <2>2
<1>9. \A q \in P : Before(q, at[1]) => Done(d, L, place, n, q)
  BY <1>1, <1>2, HeadFirst
<1>10. OutAt(a, P, L, place2)
  <2> SUFFICES ASSUME NEW i \in 1 .. n + 1 PROVE HeadAt(a, P, L, place2, i)
    BY <1>2 DEF OutAt
  <2>1. CASE i = n + 1
    <3>1. place2[i] = at[1] /\ i - 1 = n /\ n \in 0 .. n /\ a.out[i] = x
      BY <1>2, <1>5, <2>1
    <3> QED
      BY <1>6, <1>7, <1>8, <1>9, <3>1 DEF HeadAt
  <2>2. CASE i \in 1 .. n
    <3>1. i - 1 \in 0 .. n /\ place2[i] = place[i] /\ a.out[i] = d.out[i]
      BY <1>2, <1>5, <2>2
    <3>2. HeadAt(d, P, L, place, i)
      BY <1>2, <2>2 DEF OutAt
    <3> QED
      BY <1>6, <3>1, <3>2 DEF HeadAt
  <2> QED
    BY <2>1, <2>2
<1>11. ASSUME NEW k \in DOMAIN a.out, ~IsCross(a.out[k])
       PROVE  \/ k \in DOMAIN d.out /\ ~IsCross(d.out[k]) /\ place2[k] = place[k]
              \/ ~IsCross(x) /\ place2[k] = at[1]
  <2>1. k = n + 1 \/ k \in 1 .. n
    BY <1>2
  <2> QED
    BY <1>2, <1>5, <1>11, <2>1
<1>12. SentIn(a, n + 1) = SentIn(d, n) \cup (IF IsCross(x) THEN {Gsn[x]} ELSE {})
  BY <1>1, <1>2, <1>3 DEF Appended
<1>13. ASSUME NEW p \in P
       PROVE  /\ Done(d, L, place, n, p) => Done(a, L, place2, n + 1, p)
              /\ IsCross(x) /\ ItemAt(L, p) = x => Done(a, L, place2, n + 1, p)
              /\ ~IsCross(x) /\ p = at[1] => Done(a, L, place2, n + 1, p)
  <2>1. \A k \in 1 .. n : k \in 1 .. n + 1 /\ a.out[k] = d.out[k] /\ place2[k] = place[k]
    BY <1>2, <1>5
  <2>2. Done(d, L, place, n, p) => Done(a, L, place2, n + 1, p)
    BY <1>12, <2>1 DEF Done
  <2>3. IsCross(x) /\ ItemAt(L, p) = x => Done(a, L, place2, n + 1, p)
    BY <1>12 DEF Done
  <2>4. ~IsCross(x) /\ p = at[1] => Done(a, L, place2, n + 1, p)
    <3>1. n + 1 \in 1 .. n + 1 /\ place2[n + 1] = at[1] /\ a.out[n + 1] = x
      BY <1>2, <1>5
    <3> QED
      BY <1>7, <3>1 DEF Done
  <2> QED
    BY <2>2, <2>3, <2>4
<1> QED
  BY <1>1, <1>2, <1>10, <1>11, <1>13 DEF SentAt

\* The head leaves the queue when its place is done.
LEMMA TailAt ==
    ASSUME NEW d \in Deliverer, NEW a, NEW P, P \subseteq Nat \X Nat, NEW L,
           NEW place, NEW at, NEW place2,
           QueueAt(d, P, L, place, at), d.queue # << >>, a.queue = Tail(d.queue),
           \A p \in P : \/ Done(d, L, place, Len(d.out), p) \/ p = at[1]
                        \/ IsCross(Head(d.queue)) /\ Head(d.queue) = ItemAt(L, p)
                        => Done(a, L, place2, Len(a.out), p),
           \A k \in DOMAIN a.out :
             ~IsCross(a.out[k]) => \/ k \in DOMAIN d.out /\ ~IsCross(d.out[k]) /\ place2[k] = place[k]
                                   \/ place2[k] = at[1]
    PROVE  \E at2 : QueueAt(a, P, L, place2, at2)
<1>1. PICK n \in Nat : n = Len(d.queue) - 1
  BY DEF Deliverer
<1>2. /\ DOMAIN d.queue = 1 .. n + 1 /\ DOMAIN a.queue = 1 .. n /\ Head(d.queue) = d.queue[1]
      /\ \A i \in 1 .. n : a.queue[i] = d.queue[i + 1]
  BY <1>1 DEF Deliverer
<1>3. PICK at2 : at2 = [i \in 1 .. n |-> at[i + 1]]
  OBVIOUS
<1>4. \A i \in 1 .. n : at2[i] = at[i + 1] /\ i + 1 \in DOMAIN d.queue /\ 1 \in DOMAIN d.queue /\ 1 < i + 1
  BY <1>2, <1>3
<1>5. \A i \in DOMAIN d.queue : i = 1 \/ (i - 1 \in 1 .. n /\ at2[i - 1] = at[i]
                                          /\ a.queue[i - 1] = d.queue[i])
  <2>1. \A i \in DOMAIN d.queue : i = 1 \/ (i - 1 \in 1 .. n /\ (i - 1) + 1 = i)
    BY <1>2
  <2> QED
    BY <1>2, <1>4, <2>1
<1>6. ASSUME NEW i \in DOMAIN a.queue
      PROVE  /\ at2[i] \in P /\ ItemAt(L, at2[i]) = a.queue[i]
             /\ \A k \in DOMAIN a.out : ~IsCross(a.out[k]) => Before(place2[k], at2[i])
  <2>1. i \in 1 .. n
    BY <1>2
  <2>2. at2[i] = at[i + 1] /\ i + 1 \in DOMAIN d.queue /\ 1 \in DOMAIN d.queue /\ a.queue[i] = d.queue[i + 1]
        /\ Before(at[1], at[i + 1])
    BY <1>2, <1>4, <2>1 DEF QueueAt
  <2> QED
    BY <2>2 DEF QueueAt
<1>7. ASSUME NEW i \in DOMAIN a.queue, NEW j \in DOMAIN a.queue, i < j
      PROVE  Before(at2[i], at2[j])
  <2>1. /\ i + 1 \in DOMAIN d.queue /\ j + 1 \in DOMAIN d.queue /\ i + 1 < j + 1
        /\ at2[i] = at[i + 1] /\ at2[j] = at[j + 1]
    BY <1>2, <1>4, <1>7
  <2> QED
    BY <2>1 DEF QueueAt
<1>8. ASSUME NEW p \in P
      PROVE  \/ \E i \in DOMAIN a.queue : at2[i] = p
             \/ Done(a, L, place2, Len(a.out), p)
             \/ \E i \in DOMAIN a.queue : /\ IsCross(a.queue[i]) /\ a.queue[i] = ItemAt(L, p)
                                          /\ Before(at2[i], p)
  <2>1. CASE \E i \in DOMAIN d.queue : at[i] = p
    BY <1>2, <1>5, <2>1
  <2>2. CASE Done(d, L, place, Len(d.out), p)
    BY <2>2
  <2>3. CASE \E i \in DOMAIN d.queue : /\ IsCross(d.queue[i]) /\ d.queue[i] = ItemAt(L, p)
                                       /\ Before(at[i], p)
    <3>1. PICK i \in DOMAIN d.queue : IsCross(d.queue[i]) /\ d.queue[i] = ItemAt(L, p) /\ Before(at[i], p)
      BY <2>3
    <3>2. CASE i = 1
      BY <1>2, <3>1, <3>2
    <3>3. CASE i # 1
      BY <1>2, <1>5, <3>1, <3>3
    <3> QED
      BY <3>2, <3>3
  <2> QED
    BY <2>1, <2>2, <2>3 DEF QueueAt
<1> QED
  BY <1>6, <1>7, <1>8 DEF QueueAt

\* The places depend on what went out, the queue and the log.
LEMMA SameAt ==
    ASSUME NEW d, NEW a, a.out = d.out, a.queue = d.queue, NEW P, NEW L, NEW place, NEW at
    PROVE  /\ \A n, p : Done(a, L, place, n, p) <=> Done(d, L, place, n, p)
           /\ OutAt(d, P, L, place) => OutAt(a, P, L, place)
           /\ QueueAt(d, P, L, place, at) => QueueAt(a, P, L, place, at)
<1>1. \A n, p : Done(a, L, place, n, p) <=> Done(d, L, place, n, p)
  BY DEF Done, SentIn
<1>2. OutAt(d, P, L, place) => OutAt(a, P, L, place)
  BY <1>1 DEF OutAt, HeadAt
<1>3. QueueAt(d, P, L, place, at) => QueueAt(a, P, L, place, at)
  BY <1>1 DEF QueueAt
<1> QED
  BY <1>1, <1>2, <1>3

LEMMA SamePlaced ==
    ASSUME NEW d, NEW a, a.out = d.out, a.queue = d.queue, NEW P, NEW L, Placed(d, P, L)
    PROVE  Placed(a, P, L)
BY SameAt DEF Placed

\* The request is done if the cursor has passed it.
LEMMA PassedDone ==
    ASSUME NEW g, NEW d, Sound(d, g), NEW o \in Op, IsCross(o), g \in Touched[o],
           Gsn[o] <= d.cursor,
           NEW L, NEW place, NEW p, ItemAt(L, p) = o
    PROVE  Done(d, L, place, Len(d.out), p)
<1>1. Gsn[o] \in Needed(g)
  BY DEF Needed
<1> QED
  BY <1>1 DEF Sound, SentInOrder, Done

LEMMA StepPlaced ==
    ASSUME dep \in Deployment, NEW g, NEW d, Sound(d, g),
           NEW P, P \subseteq Nat \X Nat, NEW L, Placed(d, P, L)
    PROVE  Placed(DrainStep(d, g), P, L)
<1>1. PICK a : Sound(a, g) /\ CursorOnly(a, d) /\ StepShape(DrainStep(d, g), d, a, g)
  BY StepCases
<1>2. PICK s : s = DrainStep(d, g)
  OBVIOUS
<1> SUFFICES Placed(s, P, L)
  BY <1>2
<1>3. Placed(a, P, L)
  BY <1>1, SamePlaced DEF CursorOnly
<1>4. CASE d.queue # << >> /\ ~IsCross(Head(d.queue)) /\ s = LocalTurn(d, g)
  <2>1. PICK place, at : OutAt(d, P, L, place) /\ QueueAt(d, P, L, place, at)
    BY DEF Placed
  <2>2. d \in Deliverer /\ Head(d.queue) \in Op
    BY <1>4 DEF Sound, Deliverer
  <2>3. s.out = Append(d.out, Head(d.queue)) /\ s.queue = Tail(d.queue)
    <3>1. PICK q, u : q = Tail(d.queue) /\ u = Append(d.out, Head(d.queue))
      OBVIOUS
    <3>2. s = [d EXCEPT !.out = u, !.queue = q]
      BY <1>4, <3>1 DEF LocalTurn, SendHead
    <3> QED
      BY <2>2, <3>1, <3>2 DEF Deliverer
  <2>4. PICK place2 : SentAt(s, d, P, L, place, place2, Head(d.queue), at[1])
    BY <1>4, <2>1, <2>2, <2>3, SendAt
  <2>5. \E at2 : QueueAt(s, P, L, place2, at2)
    <3>1. \A p \in P : \/ Done(d, L, place, Len(d.out), p) \/ p = at[1]
                       \/ IsCross(Head(d.queue)) /\ Head(d.queue) = ItemAt(L, p)
                       => Done(s, L, place2, Len(s.out), p)
      BY <1>4, <2>4 DEF SentAt
    <3>2. \A k \in DOMAIN s.out :
            ~IsCross(s.out[k]) => \/ k \in DOMAIN d.out /\ ~IsCross(d.out[k]) /\ place2[k] = place[k]
                                  \/ place2[k] = at[1]
      BY <2>4 DEF SentAt
    <3> QED
      BY <1>4, <2>1, <2>2, <2>3, <3>1, <3>2, TailAt
  <2> QED
    BY <2>4, <2>5 DEF SentAt, Placed
<1>5. CASE /\ d.queue # << >> /\ IsCross(Head(d.queue)) /\ Gsn[Head(d.queue)] \in d.early
           /\ s = [d EXCEPT !.queue = Tail(@), !.early = @ \ {Gsn[Head(d.queue)]}]
  <2>1. PICK place, at : OutAt(d, P, L, place) /\ QueueAt(d, P, L, place, at)
    BY DEF Placed
  <2>2. d \in Deliverer /\ Head(d.queue) \in Op /\ Head(d.queue) = d.queue[1] /\ 1 \in DOMAIN d.queue
    BY <1>5 DEF Sound, Deliverer
  <2>3. s.out = d.out /\ s.queue = Tail(d.queue)
    <3>1. PICK q : q = Tail(d.queue)
      OBVIOUS
    <3>2. s = [d EXCEPT !.queue = q, !.early = @ \ {Gsn[Head(d.queue)]}]
      BY <1>5, <2>2, <3>1
    <3> QED
      BY <2>2, <3>1, <3>2 DEF Deliverer
  <2>4. g \in Touched[Head(d.queue)] /\ Gsn[Head(d.queue)] <= d.cursor
    BY <1>5, <2>2, Numbers DEF Sound, QueueSound, Deliverer
  <2>5. \A p \in P : Done(d, L, place, Len(d.out), p) => Done(s, L, place, Len(s.out), p)
    BY <2>3 DEF Done, SentIn
  <2>6. \A p \in P : ItemAt(L, p) = Head(d.queue) => Done(s, L, place, Len(s.out), p)
    BY <1>5, <2>2, <2>4, <2>5, PassedDone
  <2>7. ItemAt(L, at[1]) = Head(d.queue)
    BY <2>1, <2>2 DEF QueueAt
  <2>8. \E at2 : QueueAt(s, P, L, place, at2)
    <3>1. \A k \in DOMAIN s.out :
            ~IsCross(s.out[k]) => \/ k \in DOMAIN d.out /\ ~IsCross(d.out[k]) /\ place[k] = place[k]
                                  \/ place[k] = at[1]
      BY <2>3
    <3> QED
      BY <1>5, <2>1, <2>2, <2>3, <2>5, <2>6, <2>7, <3>1, TailAt
  <2>9. OutAt(s, P, L, place)
    <3>1. \A n, p : Done(s, L, place, n, p) <=> Done(d, L, place, n, p)
      BY <2>3 DEF Done, SentIn
    <3> QED
      BY <2>1, <2>3, <3>1 DEF OutAt, HeadAt
  <2> QED
    BY <2>8, <2>9 DEF Placed
<1>6. CASE /\ a.queue # << >> /\ IsCross(Head(a.queue)) /\ Gsn[Head(a.queue)] = a.cursor + 1
           /\ s = [SendHead(a) EXCEPT !.cursor = Gsn[Head(a.queue)]]
  <2>1. PICK place, at : OutAt(a, P, L, place) /\ QueueAt(a, P, L, place, at)
    BY <1>3 DEF Placed
  <2>2. a \in Deliverer /\ Head(a.queue) \in Op /\ a.cursor \in Nat
    BY <1>1, <1>6, Numbers DEF Sound, Deliverer
  <2>3. s.out = Append(a.out, Head(a.queue)) /\ s.queue = Tail(a.queue)
    <3>1. PICK q, u : q = Tail(a.queue) /\ u = Append(a.out, Head(a.queue))
      OBVIOUS
    <3>2. s = [a EXCEPT !.out = u, !.queue = q, !.cursor = Gsn[Head(a.queue)]]
      BY <1>6, <2>2, <3>1 DEF SendHead
    <3> QED
      BY <2>2, <3>1, <3>2 DEF Deliverer
  <2>4. PICK place2 : SentAt(s, a, P, L, place, place2, Head(a.queue), at[1])
    <3>1. ~ (Gsn[Head(a.queue)] <= a.cursor)
      BY <1>6, <2>2
    <3> QED
      BY <1>1, <1>6, <2>1, <2>2, <2>3, <3>1, SendAt
  <2>5. ItemAt(L, at[1]) = Head(a.queue)
    <3>1. Head(a.queue) = a.queue[1] /\ 1 \in DOMAIN a.queue
      BY <1>6, <2>2 DEF Deliverer
    <3> QED
      BY <2>1, <3>1 DEF QueueAt
  <2>6. \E at2 : QueueAt(s, P, L, place2, at2)
    <3>1. \A p \in P : \/ Done(a, L, place, Len(a.out), p) \/ p = at[1]
                       \/ IsCross(Head(a.queue)) /\ Head(a.queue) = ItemAt(L, p)
                       => Done(s, L, place2, Len(s.out), p)
      BY <1>6, <2>4, <2>5 DEF SentAt
    <3>2. \A k \in DOMAIN s.out :
            ~IsCross(s.out[k]) => \/ k \in DOMAIN a.out /\ ~IsCross(a.out[k]) /\ place2[k] = place[k]
                                  \/ place2[k] = at[1]
      BY <2>4 DEF SentAt
    <3> QED
      BY <1>6, <2>1, <2>2, <2>3, <3>1, <3>2, TailAt
  <2> QED
    BY <2>4, <2>6 DEF SentAt, Placed
<1>7. CASE /\ a.queue # << >> /\ IsCross(Head(a.queue)) /\ Gsn[Head(a.queue)] > a.cursor
           /\ \E i \in DOMAIN a.queue :
                IsCross(a.queue[i]) /\ Gsn[a.queue[i]] = a.cursor + 1 /\ s = Bring(a, a.cursor + 1)
  <2>1. PICK place, at : OutAt(a, P, L, place) /\ QueueAt(a, P, L, place, at)
    BY <1>3 DEF Placed
  <2>2. PICK i \in DOMAIN a.queue :
             IsCross(a.queue[i]) /\ Gsn[a.queue[i]] = a.cursor + 1 /\ s = Bring(a, a.cursor + 1)
    BY <1>7
  <2>3. PICK x, next : x = a.queue[i] /\ next = a.cursor + 1
    OBVIOUS
  <2>4. /\ a \in Deliverer /\ x \in Op /\ IsCross(x) /\ Gsn[x] = next
        /\ Head(a.queue) \in Op /\ a.cursor \in Nat /\ Gsn[Head(a.queue)] \in Nat
    <3>1. a \in Deliverer /\ x \in Op /\ Head(a.queue) \in Op /\ a.cursor \in Nat
      BY <1>1, <1>7, <2>2, <2>3, Numbers DEF Sound, Deliverer
    <3> QED
      BY <2>2, <2>3, <3>1, OpFacts, Numbers
  <2>5. (CHOOSE p \in Op : Gsn[p] = next) = x
    BY <2>4, OpFacts, Numbers DEF IsCross
  <2>6. s.out = Append(a.out, x) /\ s.queue = a.queue
    <3>1. PICK u : u = Append(a.out, x)
      OBVIOUS
    <3>2. s = [a EXCEPT !.out = u, !.early = @ \cup {next}, !.cursor = next]
      BY <2>2, <2>3, <2>5, <3>1 DEF Bring
    <3> QED
      BY <2>4, <3>1, <3>2 DEF Deliverer
  <2>7. PICK place2 : SentAt(s, a, P, L, place, place2, x, at[1])
    <3>1. ~ (Gsn[Head(a.queue)] <= a.cursor)
      BY <1>7, <2>4
    <3> QED
      BY <1>1, <1>7, <2>1, <2>4, <2>6, <3>1, SendAt
  <2>8. \A k \in DOMAIN s.out :
          ~IsCross(s.out[k]) => k \in DOMAIN a.out /\ ~IsCross(a.out[k]) /\ place2[k] = place[k]
    BY <2>4, <2>7 DEF SentAt
  <2>9. \A p \in P : Done(a, L, place, Len(a.out), p) => Done(s, L, place2, Len(s.out), p)
    BY <2>7 DEF SentAt
  <2>10. QueueAt(s, P, L, place2, at)
    BY <2>1, <2>6, <2>8, <2>9 DEF QueueAt
  <2> QED
    BY <2>7, <2>10 DEF SentAt, Placed
<1> QED
  BY <1>1, <1>2, <1>3, <1>4, <1>5, <1>6, <1>7 DEF StepShape

LEMMA DrainPlaced ==
    ASSUME dep \in Deployment, NEW g, NEW d, Sound(d, g),
           NEW P, P \subseteq Nat \X Nat, NEW L, Placed(d, P, L)
    PROVE  Placed(Drain(d, g), P, L)
<1>0. PICK n \in Nat : n = 2 * Len(d.queue) + 1 /\ \E h :
          /\ h[0] = d /\ Drain(d, g) = h[n]
          /\ \A k \in 1 .. n : h[k] = DrainStep(h[k - 1], g)
  BY DrainIs
<1>1. PICK h : /\ h[0] = d /\ Drain(d, g) = h[n]
               /\ \A k \in 1 .. n : h[k] = DrainStep(h[k - 1], g)
  BY <1>0
<1> DEFINE X == {x \in Deliverer : Sound(x, g) /\ Placed(x, P, L)}
           Y == [k \in 0 .. n |-> X]
<1>2. \A x : Sound(x, g) /\ Placed(x, P, L) <=> x \in X
  BY DEF Sound
<1> HIDE DEF X
<1>3. \A k \in 0 .. n : Y[k] = X
  OBVIOUS
<1> HIDE DEF Y
<1>4. h[0] \in Y[0]
  BY <1>1, <1>2, <1>3
<1>5. \A k \in 1 .. n : h[k - 1] \in Y[k - 1] => h[k] \in Y[k]
  <2>1. \A k \in 1 .. n : k \in 0 .. n /\ k - 1 \in 0 .. n
    OBVIOUS
  <2>2. \A x \in X : DrainStep(x, g) \in X
    BY <1>2, StepSound, StepPlaced
  <2> QED
    BY <1>1, <1>3, <2>1, <2>2
<1>6. \A k \in 0 .. n : h[k] \in Y[k]
  BY <1>4, <1>5, Iterated
<1> QED
  BY <1>1, <1>2, <1>3, <1>6


\* A request is filed at a place after all the others, unless it is a copy.
LEMMA EnqueuePlaced ==
    ASSUME dep \in Deployment, NEW g, NEW d, Sound(d, g), NEW o \in Op, g \in Touched[o],
           NEW P, P \subseteq Nat \X Nat, NEW L, Placed(d, P, L),
           NEW q \in Nat \X Nat, \A p \in P : Before(p, q), ItemAt(L, q) = o
    PROVE  Placed(Enqueue(d, o), P \cup {q}, L)
<1>1. PICK place, at : OutAt(d, P, L, place) /\ QueueAt(d, P, L, place, at)
  BY DEF Placed
<1>2. PICK n \in Nat : n = Len(d.queue) /\ DOMAIN d.queue = 1 .. n
  BY DEF Sound, Deliverer
<1>3. OutAt(d, P \cup {q}, L, place)
  <2> SUFFICES ASSUME NEW i \in DOMAIN d.out PROVE HeadAt(d, P \cup {q}, L, place, i)
    BY DEF OutAt
  <2>1. HeadAt(d, P, L, place, i)
    BY <1>1 DEF OutAt
  <2>2. ~Before(q, place[i])
    BY <2>1, BeforeOrder DEF HeadAt
  <2> QED
    BY <2>1, <2>2 DEF HeadAt
<1>4. \A k \in DOMAIN d.out : Before(place[k], q)
  BY <1>1 DEF OutAt, HeadAt
<1>5. CASE IsCross(o) /\ (Gsn[o] <= d.cursor \/ Gsn[o] \in d.early \/ Gsn[o] \in CrossInLog(d))
  <2>1. \/ Done(d, L, place, Len(d.out), q)
        \/ \E i \in DOMAIN d.queue : /\ IsCross(d.queue[i]) /\ d.queue[i] = ItemAt(L, q)
                                     /\ Before(at[i], q)
    <3>1. CASE Gsn[o] <= d.cursor \/ Gsn[o] \in d.early
      <4>1. Gsn[o] <= d.cursor
        BY <3>1, Numbers DEF Sound, QueueSound, Deliverer
      <4> QED
        BY <1>5, <4>1, PassedDone
    <3>2. CASE Gsn[o] \in CrossInLog(d)
      <4>1. PICK i \in DOMAIN d.queue : IsCross(d.queue[i]) /\ Gsn[d.queue[i]] = Gsn[o]
        BY <3>2 DEF CrossInLog
      <4>2. d.queue[i] \in Op
        BY <4>1 DEF Sound, Deliverer
      <4>3. d.queue[i] = o
        BY <1>5, <4>1, <4>2, OpFacts DEF IsCross
      <4>4. at[i] \in P
        BY <1>1 DEF QueueAt
      <4> QED
        BY <4>1, <4>3, <4>4
    <3> QED
      BY <1>5, <3>1, <3>2
  <2>2. QueueAt(d, P \cup {q}, L, place, at)
    BY <1>1, <2>1 DEF QueueAt
  <2> QED
    BY <1>3, <1>5, <2>2 DEF Enqueue, Placed
<1>6. CASE ~ (IsCross(o) /\ (Gsn[o] <= d.cursor \/ Gsn[o] \in d.early \/ Gsn[o] \in CrossInLog(d)))
  <2>1. PICK a : a = Enqueue(d, o)
    OBVIOUS
  <2>2. a.out = d.out /\ a.queue = Append(d.queue, o)
    <3>1. PICK u : u = Append(d.queue, o)
      OBVIOUS
    <3>2. a = [d EXCEPT !.queue = u]
      BY <1>6, <2>1, <3>1 DEF Enqueue
    <3> QED
      BY <3>1, <3>2 DEF Sound, Deliverer
  <2>3. /\ DOMAIN a.queue = 1 .. n + 1 /\ a.queue[n + 1] = o
        /\ \A i \in 1 .. n : a.queue[i] = d.queue[i]
    BY <1>2, <2>2 DEF Sound, Deliverer
  <2>4. PICK at2 : at2 = [i \in 1 .. n + 1 |-> IF i = n + 1 THEN q ELSE at[i]]
    OBVIOUS
  <2>5. at2[n + 1] = q /\ \A i \in 1 .. n : at2[i] = at[i]
    BY <2>4
  <2>6. /\ \A m, p : Done(a, L, place, m, p) <=> Done(d, L, place, m, p)
        /\ OutAt(a, P \cup {q}, L, place)
    <3>1. \A m, p : Done(a, L, place, m, p) <=> Done(d, L, place, m, p)
      BY <2>2 DEF Done, SentIn
    <3> QED
      BY <1>3, <2>2, <3>1 DEF OutAt, HeadAt
  <2>7. \A i \in DOMAIN a.queue : i = n + 1 \/ i \in 1 .. n
    BY <2>3
  <2>8. ASSUME NEW i \in DOMAIN a.queue
        PROVE  /\ at2[i] \in P \cup {q} /\ ItemAt(L, at2[i]) = a.queue[i]
               /\ \A k \in DOMAIN a.out : ~IsCross(a.out[k]) => Before(place[k], at2[i])
    <3>1. CASE i = n + 1
      BY <1>4, <2>2, <2>3, <2>5, <3>1
    <3>2. CASE i \in 1 .. n
      BY <1>1, <1>2, <2>2, <2>3, <2>5, <3>2 DEF QueueAt
    <3> QED
      BY <2>7, <3>1, <3>2
  <2>9. ASSUME NEW i \in DOMAIN a.queue, NEW j \in DOMAIN a.queue, i < j
        PROVE  Before(at2[i], at2[j])
    <3>1. i \in 1 .. n
      BY <2>3, <2>9
    <3>2. CASE j = n + 1
      BY <1>1, <1>2, <2>5, <3>1, <3>2 DEF QueueAt
    <3>3. CASE j \in 1 .. n
      BY <1>1, <1>2, <2>5, <2>9, <3>1, <3>3 DEF QueueAt
    <3> QED
      BY <2>7, <3>2, <3>3
  <2>10. ASSUME NEW p \in P \cup {q}
         PROVE  \/ \E i \in DOMAIN a.queue : at2[i] = p
                \/ Done(a, L, place, Len(a.out), p)
                \/ \E i \in DOMAIN a.queue : /\ IsCross(a.queue[i]) /\ a.queue[i] = ItemAt(L, p)
                                             /\ Before(at2[i], p)
    <3>1. CASE p = q
      BY <1>2, <2>3, <2>5, <3>1
    <3>2. CASE p \in P
      <4>1. \A i \in DOMAIN d.queue : i \in DOMAIN a.queue /\ at2[i] = at[i] /\ a.queue[i] = d.queue[i]
        BY <1>2, <2>3, <2>5
      <4>2. \/ \E i \in DOMAIN d.queue : at[i] = p
            \/ Done(d, L, place, Len(d.out), p)
            \/ \E i \in DOMAIN d.queue : /\ IsCross(d.queue[i]) /\ d.queue[i] = ItemAt(L, p)
                                         /\ Before(at[i], p)
        BY <1>1, <3>2 DEF QueueAt
      <4> QED
        BY <2>2, <2>6, <4>1, <4>2
    <3> QED
      BY <3>1, <3>2
  <2>11. QueueAt(a, P \cup {q}, L, place, at2)
    BY <2>8, <2>9, <2>10 DEF QueueAt
  <2> QED
    BY <2>1, <2>6, <2>11 DEF Placed
<1> QED
  BY <1>5, <1>6

\* The places of a batch are filed in order.
FirstOf(P, n, k) == P \cup {<<n, i>> : i \in 1 .. k}

LEMMA FilePlaced ==
    ASSUME dep \in Deployment, NEW g, NEW d, Sound(d, g),
           NEW P, P \subseteq Nat \X Nat, NEW L, Placed(d, P, L), NEW n \in Nat,
           L[n] \in Seq(Op), \A i \in DOMAIN L[n] : g \in Touched[L[n][i]],
           \A p \in P : p[1] < n
    PROVE  Placed(File(d, L[n]), FirstOf(P, n, Len(L[n])), L)
<1>1. PICK h : /\ h[0] = d /\ File(d, L[n]) = h[Len(L[n])]
               /\ \A k \in 1 .. Len(L[n]) : h[k] = Enqueue(h[k - 1], L[n][k])
  BY FileIs
<1>2. PICK m \in Nat : m = Len(L[n]) /\ DOMAIN L[n] = 1 .. m /\ \A k \in 1 .. m : L[n][k] \in Op
  OBVIOUS
<1> DEFINE Y == [k \in 0 .. m |-> {x \in Deliverer : Sound(x, g) /\ Placed(x, FirstOf(P, n, k), L)}]
<1>3. \A k \in 0 .. m : \A x : x \in Y[k] <=> Sound(x, g) /\ Placed(x, FirstOf(P, n, k), L)
  BY DEF Sound
<1> HIDE DEF Y
<1>4. FirstOf(P, n, 0) = P
  BY DEF FirstOf
<1>5. h[0] \in Y[0]
  BY <1>1, <1>3, <1>4
<1>6. ASSUME NEW k \in 1 .. m, h[k - 1] \in Y[k - 1]
      PROVE  h[k] \in Y[k]
  <2>1. k - 1 \in 0 .. m /\ k \in 0 .. m /\ k \in Nat /\ (k - 1) + 1 = k
    OBVIOUS
  <2>2. PICK Q : Q = FirstOf(P, n, k - 1)
    OBVIOUS
  <2>3. Sound(h[k - 1], g) /\ Placed(h[k - 1], Q, L)
    BY <1>3, <1>6, <2>1, <2>2
  <2>4. L[n][k] \in Op /\ g \in Touched[L[n][k]] /\ h[k] = Enqueue(h[k - 1], L[n][k])
    BY <1>1, <1>2
  <2>5. Q \subseteq Nat \X Nat /\ \A p \in Q : Before(p, <<n, k>>)
    <3>1. \A i \in 1 .. k - 1 : i \in Nat /\ i < k
      BY <2>1
    <3>2. \A p \in Q : p \in P \/ \E i \in 1 .. k - 1 : p = <<n, i>>
      BY <2>2 DEF FirstOf
    <3> QED
      BY <3>1, <3>2 DEF Before
  <2>6. ItemAt(L, <<n, k>>) = L[n][k] /\ <<n, k>> \in Nat \X Nat
    BY <2>1 DEF ItemAt
  <2>7. FirstOf(P, n, k) = Q \cup {<<n, k>>}
    <3>1. \A i : i \in 1 .. k <=> i \in 1 .. k - 1 \/ i = k
      BY <2>1
    <3> QED
      BY <2>2, <3>1 DEF FirstOf
  <2>8. Sound(h[k], g)
    BY <2>3, <2>4, EnqueueSound
  <2>9. Placed(h[k], Q \cup {<<n, k>>}, L)
    BY <2>3, <2>4, <2>5, <2>6, EnqueuePlaced
  <2> QED
    BY <1>3, <2>1, <2>7, <2>8, <2>9
<1>7. \A k \in 0 .. m : h[k] \in Y[k]
  BY <1>5, <1>6, Iterated
<1> QED
  BY <1>1, <1>2, <1>3, <1>7


\* The places of the first n batches of a log L that are filed: the code takes the
\* batch at SN 0 for one that it has had.
Taken(L, g, n) ==
    {p \in Nat \X Nat : p[1] \in 1 .. n /\ SnOf(g, p[1]) > 0 /\ p[2] \in DOMAIN L[p[1]]}
InOrder(d, g, n, L) == Placed(d, Taken(L, g, n), L)

LEMMA Dropped ==
    ASSUME DeliverInv, NEW r \in Replica
    PROVE  SnOf(r[2], pushed[r] + 1) <= LastApplied(r) <=> ~ (SnOf(r[2], pushed[r] + 1) > 0)
<1>1. PICK g, m, c, off : /\ g = r[2] /\ m = pushed[r] /\ c = Cardinality(Group)
                          /\ off = dep.offset[g]
  OBVIOUS
<1>2. g \in Group /\ m \in Nat /\ off \in Nat
  BY <1>1, OpFacts, DeploymentAssumption DEF DeliverInv
<1>3. c \in Nat /\ c # 0
  BY <1>1, <1>2, GroupAssumption, FS_CardinalityType, FS_EmptySet
<1>4. SnOf(g, m + 1) = off + m * c
  BY <1>1, <1>2 DEF SnOf
<1>5. CASE m = 0
  <2>1. LastApplied(r) = 0 /\ SnOf(g, m + 1) = off
    BY <1>1, <1>2, <1>3, <1>4, <1>5 DEF LastApplied
  <2> QED
    BY <1>1, <1>2, <2>1
<1>6. CASE m # 0
  <2>1. LastApplied(r) = off + (m - 1) * c
    BY <1>1, <1>6 DEF LastApplied, SnOf
  <2>2. PICK k \in Nat : k = m - 1
    BY <1>2, <1>6
  <2>3. PICK y \in Nat : y = k * c
    BY <1>3, <2>2
  <2>4. m * c = y + c
    <3>1. m = k + 1
      BY <1>2, <2>2
    <3> QED
      BY <1>3, <2>2, <2>3, <3>1
  <2> QED
    BY <1>1, <1>2, <1>3, <1>4, <2>1, <2>2, <2>3, <2>4
<1> QED
  BY <1>5, <1>6

\* A longer log has the same places and requests in its first batches.
LEMMA TakenGrown ==
    ASSUME NEW g, NEW n \in Nat, NEW L, NEW L2, \A m \in 1 .. n : L2[m] = L[m]
    PROVE  /\ Taken(L2, g, n) = Taken(L, g, n)
           /\ \A p \in Taken(L, g, n) : ItemAt(L2, p) = ItemAt(L, p)
BY DEF Taken, ItemAt

LEMMA PlacedGrown ==
    ASSUME NEW d, NEW P, NEW L, NEW L2, \A p \in P : ItemAt(L2, p) = ItemAt(L, p), Placed(d, P, L)
    PROVE  Placed(d, P, L2)
<1>1. PICK place, at : OutAt(d, P, L, place) /\ QueueAt(d, P, L, place, at)
  BY DEF Placed
<1>2. \A n : \A p \in P : Done(d, L2, place, n, p) <=> Done(d, L, place, n, p)
  BY DEF Done
<1>3. OutAt(d, P, L2, place)
  BY <1>1, <1>2 DEF OutAt, HeadAt
<1>4. QueueAt(d, P, L2, place, at)
  BY <1>1, <1>2 DEF QueueAt
<1> QED
  BY <1>3, <1>4 DEF Placed

LEMMA InOrderGrown ==
    ASSUME NEW d, NEW g, NEW n \in Nat, NEW L, NEW L2, \A m \in 1 .. n : L2[m] = L[m],
           InOrder(d, g, n, L)
    PROVE  InOrder(d, g, n, L2)
BY TakenGrown, PlacedGrown DEF InOrder

\* The places of one more batch.
LEMMA TakenNext ==
    ASSUME NEW g, NEW n \in Nat, NEW L, L[n + 1] \in Seq(Op)
    PROVE  Taken(L, g, n + 1) = IF SnOf(g, n + 1) > 0
                                THEN FirstOf(Taken(L, g, n), n + 1, Len(L[n + 1]))
                                ELSE Taken(L, g, n)
<1>1. DOMAIN L[n + 1] = 1 .. Len(L[n + 1]) /\ Len(L[n + 1]) \in Nat
  OBVIOUS
<1>2. \A m : m \in 1 .. n + 1 <=> m \in 1 .. n \/ m = n + 1
  OBVIOUS
<1>3. ASSUME NEW p
      PROVE  p \in Taken(L, g, n + 1)
               <=> \/ p \in Taken(L, g, n)
                   \/ SnOf(g, n + 1) > 0 /\ p \in {<<n + 1, i>> : i \in 1 .. Len(L[n + 1])}
  <2>1. p \in {<<n + 1, i>> : i \in 1 .. Len(L[n + 1])}
          <=> p \in Nat \X Nat /\ p[1] = n + 1 /\ p[2] \in DOMAIN L[n + 1]
    <3>1. \A i \in 1 .. Len(L[n + 1]) : i \in Nat
      BY <1>1
    <3>2. ASSUME p \in Nat \X Nat, p[1] = n + 1, p[2] \in DOMAIN L[n + 1]
          PROVE  p \in {<<n + 1, i>> : i \in 1 .. Len(L[n + 1])}
      <4>1. p = <<n + 1, p[2]>>
        BY <3>2
      <4> QED
        BY <1>1, <3>2, <4>1
    <3> QED
      BY <1>1, <3>1, <3>2
  <2> QED
    BY <1>2, <2>1 DEF Taken
<1> QED
  BY <1>3 DEF FirstOf

\* The deployment is fixed.
LEMMA InOrderSame ==
    ASSUME dep' = dep, NEW d, NEW g, NEW n, NEW L, InOrder(d, g, n, L)
    PROVE  InOrder(d, g, n, L)'
<1>1. Gsn' = Gsn /\ (\A o : IsCross(o)' = IsCross(o)) /\ (\A k : SnOf(g, k)' = SnOf(g, k))
  BY DEF Gsn, Touched, IsCross, SnOf
<1>2. Taken(L, g, n)' = Taken(L, g, n)
  BY <1>1 DEF Taken
<1>3. PICK P : P = Taken(L, g, n)
  OBVIOUS
<1>4. PICK place, at : OutAt(d, P, L, place) /\ QueueAt(d, P, L, place, at)
  BY <1>3 DEF InOrder, Placed
<1>5. \A k, p : Done(d, L, place, k, p)' <=> Done(d, L, place, k, p)
  BY <1>1 DEF Done, SentIn, IsCross
<1>6. OutAt(d, P, L, place)'
  BY <1>1, <1>4, <1>5 DEF OutAt, HeadAt
<1>7. QueueAt(d, P, L, place, at)'
  BY <1>1, <1>4, <1>5 DEF QueueAt
<1> QED
  BY <1>2, <1>3, <1>6, <1>7 DEF InOrder, Placed


\* The places of all replicas.
OrderInv ==
    /\ DeliverInv
    /\ \A r \in Replica : InOrder(dlv[r], r[2], pushed[r], log[r[2]])

LEMMA InitOrder ==
    ASSUME Init
    PROVE  OrderInv
<1>1. DeliverInv
  BY InitSound
<1>2. ASSUME NEW r \in Replica
      PROVE  InOrder(dlv[r], r[2], pushed[r], log[r[2]])
  <2>1. PICK d, L : d = dlv[r] /\ L = log[r[2]]
    OBVIOUS
  <2>2. d.queue = << >> /\ d.out = << >> /\ pushed[r] = 0
    BY <2>1 DEF Init
  <2>3. Taken(L, r[2], 0) = {}
    BY DEF Taken
  <2>4. PICK none : none = << >>
    OBVIOUS
  <2>5. OutAt(d, {}, L, none) /\ QueueAt(d, {}, L, none, none)
    BY <2>2, <2>4 DEF OutAt, QueueAt
  <2> QED
    BY <2>1, <2>2, <2>3, <2>5 DEF InOrder, Placed
<1> QED
  BY <1>1, <1>2 DEF OrderInv

LEMMA MetaInOrder ==
    ASSUME dep \in Deployment, NEW g, NEW d, Sound(d, g),
           NEW meta \in Metas, MetasRight(meta), NEW n, NEW L, InOrder(d, g, n, L)
    PROVE  InOrder(Drain([d EXCEPT !.meta = meta], g), g, n, L)
<1>1. PICK a : a = [d EXCEPT !.meta = meta]
  OBVIOUS
<1>2. Sound(a, g)
  BY <1>1, MetaSound
<1>3. a.queue = d.queue /\ a.out = d.out
  BY <1>1 DEF Sound, Deliverer
<1>4. PICK P : P = Taken(L, g, n)
  OBVIOUS
<1>5. P \subseteq Nat \X Nat /\ Placed(d, P, L)
  BY <1>4 DEF InOrder, Taken
<1>6. Placed(a, P, L)
  BY <1>3, <1>5, SamePlaced
<1> QED
  BY <1>1, <1>2, <1>4, <1>5, <1>6, DrainPlaced DEF InOrder

LEMMA PushInOrder ==
    ASSUME dep \in Deployment, NEW g, NEW d, Sound(d, g), NEW n \in Nat, NEW L,
           L[n + 1] \in Seq(Op), \A i \in DOMAIN L[n + 1] : g \in Touched[L[n + 1][i]],
           SnOf(g, n + 1) > 0, InOrder(d, g, n, L)
    PROVE  InOrder(Drain(File(d, L[n + 1]), g), g, n + 1, L)
<1>1. PICK P, Q, m : /\ P = Taken(L, g, n) /\ m = n + 1
                     /\ Q = FirstOf(P, m, Len(L[m]))
  OBVIOUS
<1>2. P \subseteq Nat \X Nat /\ Placed(d, P, L) /\ m \in Nat /\ \A p \in P : p[1] < m
  BY <1>1 DEF InOrder, Taken
<1>3. PICK a : a = File(d, L[m])
  OBVIOUS
<1>4. Sound(a, g)
  BY <1>1, <1>3, FileSound
<1>5. Placed(a, Q, L)
  BY <1>1, <1>2, <1>3, FilePlaced
<1>6. Taken(L, g, m) = Q
  BY <1>1, TakenNext
<1>7. Q \subseteq Nat \X Nat
  BY <1>6 DEF Taken
<1> QED
  BY <1>1, <1>3, <1>4, <1>5, <1>6, <1>7, DrainPlaced DEF InOrder

\* One replica's deliverer has changed.
LEMMA OneInOrder ==
    ASSUME OrderInv, DeliverInv', dep' = dep, log' = log, pushed' = pushed,
           NEW r \in Replica, NEW a, InOrder(a, r[2], pushed[r], log[r[2]]),
           dlv' = [dlv EXCEPT ![r] = a]
    PROVE  OrderInv'
<1>1. Replica' = Replica
  BY DEF Replica
<1>2. ASSUME NEW s \in Replica
      PROVE  InOrder(dlv[s], s[2], pushed[s], log[s[2]])'
  <2>1. PICK d, L, n : d = dlv'[s] /\ L = log[s[2]] /\ n = pushed[s]
    OBVIOUS
  <2>2. InOrder(d, s[2], n, L)
    BY <2>1 DEF OrderInv, DeliverInv
  <2>3. InOrder(d, s[2], n, L)'
    BY <2>2, InOrderSame
  <2> QED
    BY <2>1, <2>3
<1> QED
  BY <1>1, <1>2 DEF OrderInv

LEMMA OnMetaOrder ==
    ASSUME OrderInv, NEW r \in Replica, NEW o \in Op, OnMeta(r, o)
    PROVE  OrderInv'
<1>1. PICK d, g : d = dlv[r] /\ g = r[2]
  OBVIOUS
<1>2. dep \in Deployment /\ Sound(d, g) /\ d.meta \in Metas /\ MetasRight(d.meta)
  BY <1>1 DEF OrderInv, DeliverInv, Sound, Deliverer
<1>3. PICK meta : meta = Learn(d.meta, {Gsn[o]}, Touched[o])
  OBVIOUS
<1>4. Touched[o] \in SUBSET Group /\ Gsn[o] > 0
  BY <1>2, OpFacts DEF OnMeta
<1>5. \A p \in Op : Gsn[p] \in {Gsn[o]} => Touched[o] = Touched[p]
  BY <1>2, <1>4, OpFacts
<1>6. meta \in Metas /\ MetasRight(meta)
  BY <1>2, <1>3, <1>4, <1>5, LearnRight
<1>7. PICK a : a = Drain(Hear(d, {Gsn[o]}, Touched[o]), g)
  OBVIOUS
<1>8. InOrder(a, g, pushed[r], log[g])
  BY <1>1, <1>2, <1>3, <1>6, <1>7, MetaInOrder DEF Hear, OrderInv
<1>9. /\ dlv' = [dlv EXCEPT ![r] = a]
      /\ dep' = dep /\ log' = log /\ pushed' = pushed
  BY <1>1, <1>3, <1>7 DEF OnMeta
<1>10. DeliverInv'
  BY OnMetaSound DEF OrderInv
<1> QED
  BY <1>1, <1>8, <1>9, <1>10, OneInOrder

LEMMA OnSkipOrder ==
    ASSUME OrderInv, SkipsAreFree, NEW r \in Replica, OnSkip(r)
    PROVE  OrderInv'
<1>1. PICK d, g : d = dlv[r] /\ g = r[2]
  OBVIOUS
<1>2. dep \in Deployment /\ Sound(d, g) /\ d.meta \in Metas /\ MetasRight(d.meta)
  BY <1>1 DEF OrderInv, DeliverInv, Sound, Deliverer
<1>3. PICK meta : meta = Learn(d.meta, Skip, {})
  OBVIOUS
<1>4. \A p \in Op : Gsn[p] \notin Skip
  BY <1>2 DEF SkipsAreFree, Op, Gsn, Skip
<1>5. meta \in Metas /\ MetasRight(meta)
  BY <1>2, <1>3, <1>4, LearnRight
<1>6. PICK a : a = Drain(Hear(d, Skip, {}), g)
  OBVIOUS
<1>7. InOrder(a, g, pushed[r], log[g])
  BY <1>1, <1>2, <1>3, <1>5, <1>6, MetaInOrder DEF Hear, OrderInv
<1>8. /\ dlv' = [dlv EXCEPT ![r] = a]
      /\ dep' = dep /\ log' = log /\ pushed' = pushed
  BY <1>1, <1>3, <1>6 DEF OnSkip
<1>9. DeliverInv'
  BY OnSkipSound DEF OrderInv
<1> QED
  BY <1>1, <1>7, <1>8, <1>9, OneInOrder

LEMMA PushOrder ==
    ASSUME OrderInv, NEW r \in Replica, Push(r)
    PROVE  OrderInv'
<1>1. PICK d, g, n : d = dlv[r] /\ g = r[2] /\ n = pushed[r]
  OBVIOUS
<1>2. /\ LogsSound' /\ n + 1 \in DOMAIN log'[g] /\ g \in Group /\ n \in Nat
      /\ \A h \in Group : \A m \in DOMAIN log[h] : log'[h][m] = log[h][m]
  BY <1>1, PushedLog, OpFacts DEF OrderInv, DeliverInv
<1>3. dep' = dep /\ dep \in Deployment /\ Replica' = Replica /\ Op' = Op /\ Touched' = Touched
  BY DEF OrderInv, DeliverInv, Push, Replica, Op, Touched
<1>4. PICK L : L = log'[g]
  OBVIOUS
<1>5. L[n + 1] \in Seq(Op) /\ \A i \in DOMAIN L[n + 1] : g \in Touched[L[n + 1][i]]
  BY <1>2, <1>3, <1>4 DEF LogsSound
<1>6. ASSUME NEW s \in Replica
      PROVE  /\ InOrder(dlv[s], s[2], pushed[s], log'[s[2]]) /\ pushed[s] \in Nat
  <2>1. PICK h, k, K, K2 : h = s[2] /\ k = pushed[s] /\ K = log[h] /\ K2 = log'[h]
    OBVIOUS
  <2>2. h \in Group /\ k \in Nat /\ DOMAIN K = 1 .. Len(K) /\ k <= Len(K) /\ Len(K) \in Nat
    BY <1>3, <2>1, OpFacts DEF OrderInv, DeliverInv, LogsSound
  <2>3. \A m \in 1 .. k : K2[m] = K[m]
    BY <1>2, <2>1, <2>2
  <2>4. InOrder(dlv[s], h, k, K)
    BY <2>1 DEF OrderInv
  <2> QED
    BY <2>1, <2>2, <2>3, <2>4, InOrderGrown
<1>7. Sound(d, g) /\ InOrder(d, g, n, L)
  BY <1>1, <1>4, <1>6 DEF OrderInv, DeliverInv
<1>8. pushed' = [pushed EXCEPT ![r] = n + 1] /\ DOMAIN pushed = Replica /\ DOMAIN dlv = Replica
  BY <1>1 DEF Push, OrderInv, DeliverInv
<1>9. PICK x : x = dlv'[r]
  OBVIOUS
<1>10. InOrder(x, g, n + 1, L)
  <2>1. CASE SnOf(g, n + 1) > 0
    <3>1. x = Drain(File(d, L[n + 1]), g)
      <4>1. ~ (SnOf(g, n + 1) <= LastApplied(r))
        BY <1>1, <2>1, Dropped DEF OrderInv
      <4> QED
        BY <1>1, <1>4, <1>8, <1>9, <4>1 DEF Push
    <3> QED
      BY <1>2, <1>3, <1>5, <1>7, <2>1, <3>1, PushInOrder
  <2>2. CASE ~ (SnOf(g, n + 1) > 0)
    <3>1. x = d
      <4>1. SnOf(g, n + 1) <= LastApplied(r)
        BY <1>1, <2>2, Dropped DEF OrderInv
      <4> QED
        BY <1>1, <1>9, <4>1 DEF Push
    <3>2. Taken(L, g, n + 1) = Taken(L, g, n)
      BY <1>2, <1>5, <2>2, TakenNext
    <3> QED
      BY <1>7, <3>1, <3>2 DEF InOrder
  <2> QED
    BY <2>1, <2>2
<1>11. \A s \in Replica : s # r => dlv'[s] = dlv[s]
  BY <1>8 DEF Push
<1>12. ASSUME NEW s \in Replica
       PROVE  InOrder(dlv[s], s[2], pushed[s], log[s[2]])'
  <2>1. PICK e, k, K : e = dlv'[s] /\ k = pushed'[s] /\ K = log'[s[2]]
    OBVIOUS
  <2>2. InOrder(e, s[2], k, K)
    <3>1. CASE s = r
      BY <1>1, <1>4, <1>8, <1>9, <1>10, <2>1, <3>1
    <3>2. CASE s # r
      BY <1>6, <1>8, <1>11, <2>1, <3>2
    <3> QED
      BY <3>1, <3>2
  <2>3. InOrder(e, s[2], k, K)'
    BY <1>3, <2>2, InOrderSame
  <2> QED
    BY <2>1, <2>3
<1>13. DeliverInv'
  BY PushSound DEF OrderInv
<1> QED
  BY <1>3, <1>12, <1>13 DEF OrderInv

LEMMA RestOrder ==
    ASSUME OrderInv, dep' = dep, log' = log, pushed' = pushed, dlv' = dlv
    PROVE  OrderInv'
<1>1. Replica' = Replica
  BY DEF Replica
<1>2. DeliverInv'
  BY RestSound DEF OrderInv
<1>3. ASSUME NEW s \in Replica
      PROVE  InOrder(dlv[s], s[2], pushed[s], log[s[2]])'
  <2>1. PICK d, L, n : d = dlv[s] /\ L = log[s[2]] /\ n = pushed[s]
    OBVIOUS
  <2>2. InOrder(d, s[2], n, L)
    BY <2>1 DEF OrderInv
  <2>3. InOrder(d, s[2], n, L)'
    BY <2>2, InOrderSame
  <2> QED
    BY <2>1, <2>3
<1> QED
  BY <1>1, <1>2, <1>3 DEF OrderInv

LEMMA NextOrder ==
    ASSUME OrderInv, SkipsAreFree, [Next]_vars
    PROVE  OrderInv'
<1>1. ASSUME NEW r \in Replica, Push(r) PROVE OrderInv'
  BY <1>1, PushOrder
<1>2. ASSUME NEW r \in Replica, OnSkip(r) PROVE OrderInv'
  BY <1>2, OnSkipOrder
<1>3. ASSUME NEW r \in Replica, DeliverGroup(r) PROVE OrderInv'
  <2>1. dep' = dep /\ log' = log /\ pushed' = pushed /\ dlv' = dlv
    BY <1>3 DEF DeliverGroup
  <2> QED
    BY <2>1, RestOrder
<1>4. ASSUME NEW r \in Replica, NEW o \in Op, OnMeta(r, o) PROVE OrderInv'
  BY <1>4, OnMetaOrder
<1>5. ASSUME NEW n \in Global, GlobalOnSkip(n) PROVE OrderInv'
  BY <1>5, RestOrder DEF GlobalOnSkip
<1>6. ASSUME NEW n \in Global, NEW o \in Op, GlobalOnMeta(n, o) PROVE OrderInv'
  BY <1>6, RestOrder DEF GlobalOnMeta
<1>7. CASE UNCHANGED vars
  BY <1>7, RestOrder DEF vars
<1> QED
  BY <1>1, <1>2, <1>3, <1>4, <1>5, <1>6, <1>7 DEF Next


\* Two replicas of a group find the same place first, and send the same request for it.
LEMMA SamePlaces ==
    ASSUME dep \in Deployment, NEW g, NEW L, NEW n \in Nat, NEW m \in Nat,
           NEW d, Sound(d, g), InOrder(d, g, n, L),
           NEW e, Sound(e, g), InOrder(e, g, m, L)
    PROVE  \A k \in DOMAIN d.out \cap DOMAIN e.out : d.out[k] = e.out[k]
<1>1. PICK P, Q : P = Taken(L, g, n) /\ Q = Taken(L, g, m)
  OBVIOUS
<1>2. PICK pd : OutAt(d, P, L, pd)
  BY <1>1 DEF InOrder, Placed
<1>3. PICK pe : OutAt(e, Q, L, pe)
  BY <1>1 DEF InOrder, Placed
<1>4. d.out \in Seq(Op) /\ e.out \in Seq(Op)
  BY DEF Sound, Deliverer
<1> DEFINE T == {k \in DOMAIN d.out \cap DOMAIN e.out :
                   ~ (d.out[k] = e.out[k] /\ pd[k] = pe[k])}
<1>5. T \subseteq Nat
  BY <1>4
<1>6. ASSUME NEW i \in T, \A j \in T : i <= j
      PROVE  FALSE
  <2>1. i \in DOMAIN d.out /\ i \in DOMAIN e.out /\ i \in Nat \ {0}
    BY <1>4
  <2>2. \A k \in 1 .. i - 1 : d.out[k] = e.out[k] /\ pd[k] = pe[k]
    <3>1. \A k \in 1 .. i - 1 : k \in DOMAIN d.out /\ k \in DOMAIN e.out /\ ~ (i <= k)
      BY <1>4, <2>1
    <3> QED
      BY <1>6, <3>1
  <2>3. SentIn(d, i - 1) = SentIn(e, i - 1)
    BY <2>2 DEF SentIn
  <2>4. \A p : Done(d, L, pd, i - 1, p) <=> Done(e, L, pe, i - 1, p)
    BY <2>2, <2>3 DEF Done
  <2>5. PICK p, q : p = pd[i] /\ q = pe[i]
    OBVIOUS
  <2>6. HeadAt(d, P, L, pd, i) /\ HeadAt(e, Q, L, pe, i)
    BY <1>2, <1>3, <2>1 DEF OutAt
  <2>7. p \in P /\ q \in Q /\ p \in Nat \X Nat /\ q \in Nat \X Nat
    BY <1>1, <2>5, <2>6 DEF HeadAt, Taken
  <2>8. (Before(p, q) => p \in Q) /\ (Before(q, p) => q \in P)
    BY <1>1, <2>7 DEF Taken, Before
  <2>9. p = q
    <3>1. ~Before(p, q)
      BY <2>4, <2>5, <2>6, <2>8 DEF HeadAt
    <3>2. ~Before(q, p)
      BY <2>4, <2>5, <2>6, <2>8 DEF HeadAt
    <3> QED
      BY <2>7, <3>1, <3>2, BeforeOrder
  <2>10. PICK x, y : x = d.out[i] /\ y = e.out[i]
    OBVIOUS
  <2>11. (IsCross(x) <=> IsCross(y)) /\ (~IsCross(x) => x = y)
    BY <2>5, <2>6, <2>9, <2>10 DEF HeadAt
  <2>12. ASSUME IsCross(x)
         PROVE  x = y
    <3>1. x \in Op /\ y \in Op /\ IsCross(y)
      BY <1>4, <2>1, <2>10, <2>11, <2>12
    <3>2. Gsn[x] \in Nat /\ Gsn[y] \in Nat
      BY <3>1, OpFacts, Numbers
    <3>3. Gsn[x] \in Needed(g) /\ Gsn[y] \in Needed(g)
      <4>1. Gsn[x] \in SentIn(d, Len(d.out)) /\ Gsn[y] \in SentIn(e, Len(e.out))
        <5>1. i \in 1 .. Len(d.out) /\ i \in 1 .. Len(e.out)
          BY <1>4, <2>1
        <5>2. Gsn[x] \in SentIn(d, Len(d.out))
          BY <2>10, <2>12, <5>1 DEF SentIn
        <5>3. Gsn[y] \in SentIn(e, Len(e.out))
          BY <2>10, <3>1, <5>1 DEF SentIn
        <5> QED
          BY <5>2, <5>3
      <4> QED
        BY <4>1 DEF Sound, SentInOrder
    <3>4. {k \in Needed(g) : k < Gsn[x]} = {k \in Needed(g) : k < Gsn[y]}
      BY <2>1, <2>3, <2>10, <2>12, <3>1 DEF Sound, SentInOrder
    <3>5. ~ (Gsn[x] < Gsn[y]) /\ ~ (Gsn[y] < Gsn[x])
      BY <3>2, <3>3, <3>4
    <3>6. Gsn[x] = Gsn[y] /\ Gsn[x] > 0
      BY <2>12, <3>2, <3>5 DEF IsCross
    <3> QED
      BY <3>1, <3>6, OpFacts
  <2> QED
    BY <2>5, <2>9, <2>10, <2>11, <2>12
<1>7. T = {}
  BY <1>5, <1>6, LeastOf
<1> QED
  BY <1>7

\* Sequences that agree where both are defined.
LEMMA PrefixOf ==
    ASSUME NEW s \in Seq(Op), NEW t \in Seq(Op),
           \A k \in DOMAIN s \cap DOMAIN t : s[k] = t[k]
    PROVE  IsPrefix(s, t) \/ IsPrefix(t, s)
<1>1. ASSUME NEW u \in Seq(Op), NEW v \in Seq(Op), Len(u) <= Len(v),
             \A k \in DOMAIN u \cap DOMAIN v : u[k] = v[k]
      PROVE  IsPrefix(u, v)
  <2>1. PICK n \in Nat : n = Len(u) /\ DOMAIN u = 1 .. n
    OBVIOUS
  <2>2. \A k \in 1 .. n : u[k] \in Op /\ v[k] \in Op /\ u[k] = v[k]
    BY <1>1, <2>1
  <2>3. PICK a, b : a = SubSeq(u, 1, n) /\ b = SubSeq(v, 1, n)
    OBVIOUS
  <2>4. /\ a \in Seq(Op) /\ Len(a) = n /\ \A k \in 1 .. n : a[k] = u[k]
        /\ b \in Seq(Op) /\ Len(b) = n /\ \A k \in 1 .. n : b[k] = v[k]
    BY <2>1, <2>2, <2>3
  <2>5. a = b
    BY <2>2, <2>4
  <2> QED
    BY <1>1, <2>1, <2>3, <2>5 DEF IsPrefix
<1>2. Len(s) \in Nat /\ Len(t) \in Nat
  OBVIOUS
<1> QED
  BY <1>1, <1>2

\* globaldeliver.go, groupDeliverer: "toda réplica do grupo entrega a mesma sequência".
\* Of two replicas of a group, one has delivered a prefix of what the other has.
THEOREM ReplicasInStep ==
    ASSUME SkipsAreFree
    PROVE  Spec => []ReplicasAgree
<1>1. Init => OrderInv
  BY InitOrder
<1>2. OrderInv /\ [Next]_vars => OrderInv'
  BY NextOrder
<1>3. OrderInv => ReplicasAgree
  <2> SUFFICES ASSUME OrderInv, NEW r \in Replica, NEW s \in Replica, r[2] = s[2]
               PROVE  \/ IsPrefix(dlv[r].out, dlv[s].out)
                      \/ IsPrefix(dlv[s].out, dlv[r].out)
    BY DEF ReplicasAgree
  <2>1. PICK d, e, g, L : d = dlv[r] /\ e = dlv[s] /\ g = r[2] /\ L = log[g]
    OBVIOUS
  <2>2. /\ dep \in Deployment /\ Sound(d, g) /\ Sound(e, g)
        /\ InOrder(d, g, pushed[r], L) /\ InOrder(e, g, pushed[s], L)
        /\ pushed[r] \in Nat /\ pushed[s] \in Nat
    BY <2>1 DEF OrderInv, DeliverInv
  <2>3. \A k \in DOMAIN d.out \cap DOMAIN e.out : d.out[k] = e.out[k]
    BY <2>2, SamePlaces
  <2>4. d.out \in Seq(Op) /\ e.out \in Seq(Op)
    BY <2>2 DEF Sound, Deliverer
  <2> QED
    BY <2>1, <2>3, <2>4, PrefixOf
<1> QED
  BY <1>1, <1>2, <1>3, PTL DEF Spec

\* globaldeliver.go, drainLocked: a request without a GSN goes out after everything that
\* the group's log has before it, but for the batch at SN 0, which the code drops.
THEOREM LocalInPlace ==
    ASSUME SkipsAreFree
    PROVE  Spec => []LocalOrder
<1>1. Init => OrderInv
  BY InitOrder
<1>2. OrderInv /\ [Next]_vars => OrderInv'
  BY NextOrder
<1>3. OrderInv => LocalOrder
  <2> SUFFICES ASSUME OrderInv, NEW r \in Replica, NEW i \in DOMAIN dlv[r].out,
                      ~IsCross(dlv[r].out[i])
               PROVE  \E p \in Places(r[2], pushed[r]) :
                        /\ ItemAt(log[r[2]], p) = dlv[r].out[i]
                        /\ \A q \in Places(r[2], pushed[r]) :
                             Before(q, p) =>
                               \E j \in 1 .. i - 1 : dlv[r].out[j] = ItemAt(log[r[2]], q)
    BY DEF LocalOrder
  <2>1. PICK d, g, L, n : d = dlv[r] /\ g = r[2] /\ L = log[g] /\ n = pushed[r]
    OBVIOUS
  <2>2. /\ dep \in Deployment /\ Sound(d, g) /\ InOrder(d, g, n, L) /\ g \in Group
        /\ n \in Nat /\ L \in Seq(Seq(Op)) /\ n <= Len(L)
    BY <2>1, OpFacts DEF OrderInv, DeliverInv, LogsSound
  <2>3. PICK P : P = Taken(L, g, n)
    OBVIOUS
  <2>4. PICK place : OutAt(d, P, L, place)
    BY <2>2, <2>3 DEF InOrder, Placed
  <2>5. \A m \in 1 .. n : m \in Nat /\ L[m] \in Seq(Op) /\ DOMAIN L[m] \subseteq Nat
    BY <2>2
  <2>6. Places(g, n) = P
    <3>1. Places(g, n) \subseteq P
      BY <2>1, <2>3, <2>5 DEF Places, Taken
    <3>2. ASSUME NEW p \in P PROVE p \in Places(g, n)
      <4>1. p = <<p[1], p[2]>> /\ p[1] \in 1 .. n /\ SnOf(g, p[1]) > 0
            /\ p[2] \in DOMAIN L[p[1]]
        BY <2>3 DEF Taken
      <4> QED
        BY <2>1, <4>1 DEF Places
    <3> QED
      BY <3>1, <3>2
  <2>7. d.out \in Seq(Op) /\ i \in DOMAIN d.out /\ i \in Nat /\ i <= Len(d.out)
    BY <2>1, <2>2 DEF Sound, Deliverer
  <2>8. HeadAt(d, P, L, place, i) /\ \A k \in 1 .. i - 1 : HeadAt(d, P, L, place, k)
    BY <2>4, <2>7 DEF OutAt
  <2>9. place[i] \in P /\ ItemAt(L, place[i]) = d.out[i]
    BY <2>1, <2>8 DEF HeadAt
  <2>10. ASSUME NEW q \in P, Before(q, place[i])
         PROVE  \E j \in 1 .. i - 1 : d.out[j] = ItemAt(L, q)
    <3>1. Done(d, L, place, i - 1, q)
      BY <2>8, <2>10 DEF HeadAt
    <3>2. CASE IsCross(ItemAt(L, q))
      <4>1. PICK j \in 1 .. i - 1 : IsCross(d.out[j]) /\ Gsn[d.out[j]] = Gsn[ItemAt(L, q)]
        BY <3>1, <3>2 DEF Done, SentIn
      <4>2. ItemAt(L, q) \in Op /\ d.out[j] \in Op
        BY <2>3, <2>5, <2>7 DEF Taken, ItemAt
      <4> QED
        BY <2>2, <3>2, <4>1, <4>2, OpFacts DEF IsCross
    <3>3. CASE ~IsCross(ItemAt(L, q))
      BY <2>8, <3>1, <3>3 DEF Done, HeadAt
    <3> QED
      BY <3>2, <3>3
  <2> QED
    BY <2>1, <2>6, <2>9, <2>10
<1> QED
  BY <1>1, <1>2, <1>3, PTL DEF Spec


-----------------------------------------------------------------------------
(* The GlobalDeliverer *)

GlobalD == [meta : Metas, committed : SUBSET GSN, last : 0 .. MaxGsn, out : Seq(GSN)]

\* The GSNs of a node's groups, and those its groups have applied.
MineOf(n) == {k \in GSN : \E o \in Op : Gsn[o] = k /\ Mine(n, Touched[o])}
AppliedAt(n) ==
    {k \in GSN : \E d \in Replica : d[1] = n /\ \E j \in 1 .. applied[d] : Gsn[dlv[d].out[j]] = k}

\* A META with groups is that of some request.
MetasNamed(meta) ==
    \A k \in GSN : meta[k] # Unknown /\ meta[k] # {} => \E o \in Op : Gsn[o] = k /\ meta[k] = Touched[o]

\* What has gone out up to m, in order.
SentUpTo(s, n, m) ==
    /\ s \in Seq(GSN)
    /\ {s[i] : i \in DOMAIN s} = {k \in MineOf(n) : k <= m}
    /\ \A i, j \in DOMAIN s : i < j => s[i] < s[j]

\* The METAs up to m are known.
KnownUpTo(meta, m) == \A k \in 1 .. m : meta[k] # Unknown

\* All that has gone out or is about to is in A.
GlobalSound(d, n, A) ==
    /\ d \in GlobalD /\ MetasRight(d.meta) /\ MetasNamed(d.meta) /\ KnownUpTo(d.meta, d.last)
    /\ SentUpTo(d.out, n, d.last)
    /\ d.committed \subseteq A /\ {k \in MineOf(n) : k <= d.last} \subseteq A

LEMMA MineKnown ==
    ASSUME NEW n, NEW meta, MetasRight(meta), MetasNamed(meta), NEW k \in GSN, meta[k] # Unknown
    PROVE  Mine(n, meta[k]) <=> k \in MineOf(n)
<1>1. Mine(n, meta[k]) => meta[k] # {}
  BY DEF Mine
<1>2. Mine(n, meta[k]) => k \in MineOf(n)
  BY <1>1 DEF MetasNamed, MineOf
<1>3. k \in MineOf(n) => Mine(n, meta[k])
  BY DEF MetasRight, MineOf
<1> QED
  BY <1>2, <1>3

\* One GSN more goes out, or is passed over.
LEMMA SentOne ==
    ASSUME NEW n, NEW s, NEW m \in Nat, m + 1 \in GSN, SentUpTo(s, n, m)
    PROVE  SentUpTo(IF m + 1 \in MineOf(n) THEN Append(s, m + 1) ELSE s, n, m + 1)
<1>1. \A k \in MineOf(n) : k \in Nat /\ (k <= m + 1 <=> k <= m \/ k = m + 1)
  BY Numbers DEF MineOf
<1>2. CASE m + 1 \notin MineOf(n)
  <2>1. {k \in MineOf(n) : k <= m + 1} = {k \in MineOf(n) : k <= m}
    BY <1>1, <1>2
  <2> QED
    BY <1>2, <2>1 DEF SentUpTo
<1>3. CASE m + 1 \in MineOf(n)
  <2>1. PICK l, a : l = Len(s) /\ a = Append(s, m + 1)
    OBVIOUS
  <2>2. /\ s \in Seq(GSN) /\ l \in Nat /\ DOMAIN s = 1 .. l
        /\ a \in Seq(GSN) /\ DOMAIN a = 1 .. l + 1 /\ a[l + 1] = m + 1
        /\ \A i \in 1 .. l : a[i] = s[i]
    <3>1. s \in Seq(GSN)
      BY DEF SentUpTo
    <3> QED
      BY <2>1, <3>1
  <2>3. \A i \in DOMAIN a : i = l + 1 \/ i \in DOMAIN s
    BY <2>2
  <2>4. \A i \in DOMAIN s : i \in DOMAIN a /\ a[i] = s[i] /\ s[i] \in MineOf(n) /\ s[i] <= m
    <3>1. \A i \in DOMAIN s : s[i] \in {k \in MineOf(n) : k <= m}
      BY DEF SentUpTo
    <3> QED
      BY <2>2, <3>1
  <2>5. {a[i] : i \in DOMAIN a} = {k \in MineOf(n) : k <= m + 1}
    <3>1. \A i \in DOMAIN a : a[i] \in MineOf(n) /\ a[i] <= m + 1
      BY <1>1, <1>3, <2>2, <2>3, <2>4
    <3>2. ASSUME NEW k \in MineOf(n), k <= m + 1 PROVE \E i \in DOMAIN a : a[i] = k
      <4>1. CASE k = m + 1
        BY <2>2, <4>1
      <4>2. CASE k <= m
        <5>1. \E i \in DOMAIN s : s[i] = k
          BY <4>2 DEF SentUpTo
        <5> QED
          BY <2>4, <5>1
      <4> QED
        BY <1>1, <3>2, <4>1, <4>2
    <3> QED
      BY <3>1, <3>2
  <2>6. ASSUME NEW i \in DOMAIN a, NEW j \in DOMAIN a, i < j PROVE a[i] < a[j]
    <3>1. i \in DOMAIN s
      BY <2>2, <2>6
    <3>2. CASE j = l + 1
      BY <1>1, <2>2, <2>4, <3>1, <3>2
    <3>3. CASE j \in DOMAIN s
      BY <2>4, <2>6, <3>1, <3>3 DEF SentUpTo
    <3> QED
      BY <2>3, <3>2, <3>3
  <2> QED
    BY <1>3, <2>1, <2>2, <2>5, <2>6 DEF SentUpTo
<1> QED
  BY <1>2, <1>3

\* What goes out, as an iteration.
Sending(h, d, n, upto) ==
    /\ h[0] = d.out
    /\ SendUpTo(d, n, upto) = [d EXCEPT !.out = h[upto - d.last], !.last = upto]
    /\ \A i \in 1 .. upto - d.last :
          h[i] = IF Mine(n, d.meta[d.last + i]) THEN Append(h[i - 1], d.last + i) ELSE h[i - 1]

LEMMA SendIs ==
    ASSUME NEW n, NEW d \in GlobalD, NEW upto \in d.last .. MaxGsn
    PROVE  \E h : Sending(h, d, n, upto)
<1>1. PICK m \in Nat : m = upto - d.last
  BY Numbers DEF GlobalD
<1> DEFINE X == Seq(GSN)
           Turn(k, s) == IF Mine(n, d.meta[d.last + k]) THEN Append(s, d.last + k) ELSE s
           F == [k \in Nat |-> [s \in X |-> IF k \in 1 .. m THEN Turn(k, s) ELSE s]]
<1>2. \A k \in 1 .. m : d.last + k \in GSN
  BY <1>1, Numbers DEF GlobalD
<1>3. \A k \in 1 .. m : \A s \in X : Turn(k, s) \in X
  BY <1>2
<1> HIDE DEF X, Turn
<1>4. F \in [Nat -> [X -> X]]
  BY <1>3
<1>5. \A k \in 1 .. m : \A s \in X : F[k][s] = Turn(k, s)
  BY <1>1
<1> HIDE DEF F
<1>6. d.out \in X
  BY DEF GlobalD, X
<1>7. PICK f \in [0 .. m -> X] : f[0] = d.out /\ \A k \in 1 .. m : f[k] = F[k][f[k - 1]]
  <2>1. PICK f : Iteration(f, F, X, d.out, m)
    BY <1>1, <1>4, <1>6, Iterates DEF Steps
  <2> QED
    BY <2>1 DEF Iteration
<1> DEFINE After(h) == h = [i \in 0 .. m |-> IF i = 0 THEN d.out ELSE Turn(i, h[i - 1])]
<1>8. PICK h : h = CHOOSE x : After(x)
  OBVIOUS
<1>9. SendUpTo(d, n, upto) = [d EXCEPT !.out = h[m], !.last = upto]
  BY <1>1, <1>8 DEF SendUpTo, Turn
<1>10. After(f)
  <2>1. \A k \in 1 .. m : k \in Nat /\ k - 1 \in 0 .. m
    BY <1>1
  <2>2. \A k \in 1 .. m : f[k] = Turn(k, f[k - 1])
    BY <1>5, <1>7, <2>1
  <2>3. \A k \in 0 .. m : k # 0 => k \in 1 .. m
    BY <1>1
  <2>4. \A k \in 0 .. m : f[k] = IF k = 0 THEN d.out ELSE Turn(k, f[k - 1])
    BY <1>7, <2>2, <2>3
  <2> QED
    BY <1>7, <2>4
<1> HIDE DEF After
<1>11. After(h)
  BY <1>8, <1>10
<1>12. h[0] = d.out /\ \A i \in 1 .. m : h[i] = Turn(i, h[i - 1])
  BY <1>1, <1>11 DEF After
<1> QED
  BY <1>1, <1>9, <1>12 DEF Turn, Sending

LEMMA SendSound ==
    ASSUME NEW n, NEW d \in GlobalD, MetasRight(d.meta), MetasNamed(d.meta),
           SentUpTo(d.out, n, d.last), NEW upto \in d.last .. MaxGsn,
           \A k \in d.last + 1 .. upto : d.meta[k] # Unknown
    PROVE  \E s : /\ SendUpTo(d, n, upto) = [d EXCEPT !.out = s, !.last = upto]
                  /\ SentUpTo(s, n, upto)
<1>1. PICK h : Sending(h, d, n, upto)
  BY SendIs
<1>2. PICK m \in Nat : m = upto - d.last
  BY Numbers DEF GlobalD
<1>3. d.last \in Nat /\ d.last + m = upto /\ d.last + 0 = d.last
      /\ \A i \in 1 .. m : /\ d.last + i \in d.last + 1 .. upto /\ d.last + i \in GSN
                           /\ d.last + (i - 1) \in Nat /\ d.last + (i - 1) + 1 = d.last + i
                           /\ i - 1 \in 0 .. m /\ i \in 0 .. m
  BY <1>2, Numbers DEF GlobalD
<1> DEFINE Y == [i \in 0 .. m |-> {s \in Seq(GSN) : SentUpTo(s, n, d.last + i)}]
<1>4. \A i \in 0 .. m : \A s : s \in Y[i] <=> SentUpTo(s, n, d.last + i)
  BY DEF SentUpTo
<1> HIDE DEF Y
<1>5. h[0] \in Y[0]
  BY <1>1, <1>3, <1>4 DEF Sending
<1>6. ASSUME NEW i \in 1 .. m, h[i - 1] \in Y[i - 1]
      PROVE  h[i] \in Y[i]
  <2>1. PICK k : k = d.last + i
    OBVIOUS
  <2>2. /\ k \in GSN /\ d.meta[k] # Unknown
        /\ h[i] = IF Mine(n, d.meta[k]) THEN Append(h[i - 1], k) ELSE h[i - 1]
    BY <1>1, <1>2, <1>3, <2>1 DEF Sending
  <2>3. h[i] = IF k \in MineOf(n) THEN Append(h[i - 1], k) ELSE h[i - 1]
    BY <2>2, MineKnown
  <2>4. PICK j, s : j = d.last + (i - 1) /\ s = h[i - 1]
    OBVIOUS
  <2>5. SentUpTo(s, n, j) /\ j \in Nat /\ j + 1 = k
    BY <1>3, <1>4, <1>6, <2>1, <2>4
  <2>6. SentUpTo(IF k \in MineOf(n) THEN Append(s, k) ELSE s, n, k)
    BY <2>2, <2>5, SentOne
  <2> QED
    BY <1>3, <1>4, <2>1, <2>3, <2>4, <2>6
<1>7. \A i \in 0 .. m : h[i] \in Y[i]
  BY <1>5, <1>6, Iterated
<1>8. SentUpTo(h[m], n, upto)
  <2>1. m \in 0 .. m /\ d.last + m = upto
    BY <1>2, <1>3
  <2> QED
    BY <1>4, <1>7, <2>1
<1> QED
  BY <1>1, <1>2, <1>8 DEF Sending

LEMMA GlobalDrainSound ==
    ASSUME NEW n, NEW A, NEW d, GlobalSound(d, n, A)
    PROVE  GlobalSound(GlobalDrain(d, n), n, A)
<1>1. PICK prefix, some, last : /\ prefix = MetaPrefix(d.meta) /\ last = d.last
                                /\ some = {k \in 1 .. prefix : Mine(n, d.meta[k])} \ d.committed
  OBVIOUS
<1>2. d \in GlobalD /\ d.meta \in Metas /\ last \in Nat /\ last <= MaxGsn /\ MaxGsn \in Nat
  BY <1>1, Numbers DEF GlobalSound, GlobalD
<1>3. prefix \in Nat /\ prefix <= MaxGsn /\ \A j \in 1 .. prefix : d.meta[j] # Unknown
  BY <1>1, <1>2, PrefixIs
<1>4. PICK stop, upto : /\ stop = FirstAfter(last, prefix, some)
                        /\ upto = IF stop # 0 THEN stop - 1
                                  ELSE IF prefix > last THEN prefix ELSE last
  OBVIOUS
<1>5. /\ stop = 0 => some \cap (last + 1 .. prefix) = {}
      /\ stop # 0 => stop \in some /\ stop \in last + 1 .. prefix
      /\ \A j \in some \cap (last + 1 .. prefix) : stop <= j
  BY <1>2, <1>3, <1>4, FirstIs
<1>6. upto \in last .. MaxGsn /\ upto \in Nat
      /\ \A k \in last + 1 .. upto : k \in 1 .. prefix /\ k \notin some
  <2>1. CASE stop = 0
    BY <1>2, <1>3, <1>4, <1>5, <2>1
  <2>2. CASE stop # 0
    <3>1. stop \in last + 1 .. prefix /\ upto = stop - 1
      BY <1>4, <1>5, <2>2
    <3>2. upto \in last .. MaxGsn /\ upto \in Nat
          /\ \A k \in last + 1 .. upto : k \in last + 1 .. prefix /\ k \in 1 .. prefix /\ ~ (stop <= k)
      BY <1>2, <1>3, <3>1
    <3> QED
      BY <1>5, <3>2
  <2> QED
    BY <2>1, <2>2
<1>7. \A k \in last + 1 .. upto : d.meta[k] # Unknown
  BY <1>3, <1>6
<1>8. PICK s : SendUpTo(d, n, upto) = [d EXCEPT !.out = s, !.last = upto] /\ SentUpTo(s, n, upto)
  BY <1>1, <1>2, <1>6, <1>7, SendSound DEF GlobalSound
<1>9. PICK a, c : a = GlobalDrain(d, n) /\ c = d.committed \ (1 .. upto)
  OBVIOUS
<1>10. a = [d EXCEPT !.out = s, !.last = upto, !.committed = c]
  <2>1. a = [SendUpTo(d, n, upto) EXCEPT !.committed = @ \ (1 .. upto)]
    BY <1>1, <1>4, <1>9 DEF GlobalDrain
  <2>2. a = [[d EXCEPT !.out = s, !.last = upto] EXCEPT !.committed = @ \ (1 .. upto)]
    BY <1>8, <2>1
  <2> QED
    BY <1>2, <1>9, <2>2 DEF GlobalD
<1>11. /\ a \in GlobalD /\ a.meta = d.meta /\ a.out = s /\ a.last = upto
       /\ a.committed \subseteq d.committed
  <2>1. s \in Seq(GSN) /\ upto \in 0 .. MaxGsn /\ c \in SUBSET GSN
    BY <1>2, <1>6, <1>8, <1>9 DEF SentUpTo, GlobalD
  <2> QED
    BY <1>2, <1>9, <1>10, <2>1 DEF GlobalD
<1>12. ASSUME NEW k \in MineOf(n), k <= upto PROVE k \in A
  <2>1. k \in GSN /\ k \in Nat
    BY Numbers DEF MineOf
  <2>2. CASE k <= last
    BY <1>1, <2>2 DEF GlobalSound
  <2>3. CASE ~ (k <= last)
    <3>1. k \in last + 1 .. upto
      BY <1>2, <1>6, <1>12, <2>1, <2>3
    <3>2. Mine(n, d.meta[k])
      BY <1>7, <2>1, <3>1, MineKnown DEF GlobalSound
    <3>3. k \in d.committed
      BY <1>1, <1>6, <3>1, <3>2
    <3> QED
      BY <3>3 DEF GlobalSound
  <2> QED
    BY <2>2, <2>3
<1>13. KnownUpTo(a.meta, a.last)
  <2>1. \A k \in 1 .. upto : k \in 1 .. last \/ k \in last + 1 .. upto
    BY <1>2, <1>6
  <2>2. \A k \in 1 .. last : d.meta[k] # Unknown
    BY <1>1 DEF GlobalSound, KnownUpTo
  <2> QED
    BY <1>7, <1>11, <2>1, <2>2 DEF KnownUpTo
<1> QED
  BY <1>8, <1>9, <1>11, <1>12, <1>13 DEF GlobalSound


\* What went out stays out.
Grows(a, d) == Len(d.out) <= Len(a.out) /\ \A k \in DOMAIN d.out : a.out[k] = d.out[k]

LEMMA AppendGrows ==
    ASSUME NEW d, NEW a, NEW o, d.out \in Seq(Op), o \in Op, a.out = Append(d.out, o)
    PROVE  Grows(a, d)
BY DEF Grows

LEMMA SameGrows ==
    ASSUME NEW d, NEW a, d.out \in Seq(Op), a.out = d.out
    PROVE  Grows(a, d)
BY DEF Grows

LEMMA GrowsOn ==
    ASSUME NEW d, NEW a, NEW b, d.out \in Seq(Op), a.out \in Seq(Op), b.out \in Seq(Op),
           Grows(a, d), Grows(b, a)
    PROVE  Grows(b, d)
<1>1. PICK k \in Nat, l \in Nat, m \in Nat : /\ k = Len(d.out) /\ DOMAIN d.out = 1 .. k
                                             /\ l = Len(a.out) /\ DOMAIN a.out = 1 .. l
                                             /\ m = Len(b.out)
  OBVIOUS
<1>2. k <= l /\ l <= m
  BY <1>1 DEF Grows
<1> QED
  BY <1>1, <1>2 DEF Grows

LEMMA StepGrows ==
    ASSUME dep \in Deployment, NEW g, NEW d, Sound(d, g)
    PROVE  Grows(DrainStep(d, g), d)
<1>1. PICK a : Sound(a, g) /\ CursorOnly(a, d) /\ StepShape(DrainStep(d, g), d, a, g)
  BY StepCases
<1>2. PICK s : s = DrainStep(d, g)
  OBVIOUS
<1> SUFFICES Grows(s, d)
  BY <1>2
<1>3. d \in Deliverer /\ a \in Deliverer /\ d.out \in Seq(Op) /\ a.out = d.out
  BY <1>1 DEF Sound, Deliverer, CursorOnly
<1>4. CASE s.out = d.out
  BY <1>3, <1>4, SameGrows
<1>5. CASE d.queue # << >> /\ ~IsCross(Head(d.queue)) /\ s = LocalTurn(d, g)
  <2>1. PICK q, u : q = Tail(d.queue) /\ u = Append(d.out, Head(d.queue))
    OBVIOUS
  <2>2. s = [d EXCEPT !.out = u, !.queue = q]
    BY <1>5, <2>1 DEF LocalTurn, SendHead
  <2>3. s.out = Append(d.out, Head(d.queue)) /\ Head(d.queue) \in Op
    BY <1>3, <1>5, <2>1, <2>2 DEF Deliverer
  <2> QED
    BY <1>3, <2>3, AppendGrows
<1>6. CASE s = [d EXCEPT !.queue = Tail(@), !.early = @ \ {Gsn[Head(d.queue)]}]
  <2>1. PICK q : q = Tail(d.queue)
    OBVIOUS
  <2>2. s = [d EXCEPT !.queue = q, !.early = @ \ {Gsn[Head(d.queue)]}]
    BY <1>3, <1>6, <2>1
  <2> QED
    BY <1>3, <1>4, <2>2 DEF Deliverer
<1>7. CASE /\ a.queue # << >> /\ IsCross(Head(a.queue)) /\ Gsn[Head(a.queue)] = a.cursor + 1
           /\ s = [SendHead(a) EXCEPT !.cursor = Gsn[Head(a.queue)]]
  <2>1. PICK q, u : q = Tail(a.queue) /\ u = Append(a.out, Head(a.queue))
    OBVIOUS
  <2>2. s = [a EXCEPT !.out = u, !.queue = q, !.cursor = Gsn[Head(a.queue)]]
    BY <1>3, <1>7, <2>1 DEF SendHead
  <2>3. s.out = u
    BY <1>3, <2>2 DEF Deliverer
  <2>4. s.out = Append(d.out, Head(a.queue)) /\ Head(a.queue) \in Op
    BY <1>3, <1>7, <2>1, <2>3 DEF Deliverer
  <2> QED
    BY <1>3, <2>4, AppendGrows
<1>8. CASE \E i \in DOMAIN a.queue :
             IsCross(a.queue[i]) /\ Gsn[a.queue[i]] = a.cursor + 1 /\ s = Bring(a, a.cursor + 1)
  <2>1. PICK i \in DOMAIN a.queue :
             IsCross(a.queue[i]) /\ Gsn[a.queue[i]] = a.cursor + 1 /\ s = Bring(a, a.cursor + 1)
    BY <1>8
  <2>2. PICK next, o, u : /\ next = a.cursor + 1 /\ u = Append(a.out, o)
                          /\ o = CHOOSE p \in Op : Gsn[p] = next
    OBVIOUS
  <2>3. a.queue[i] \in Op /\ Gsn[a.queue[i]] = next
    BY <1>3, <2>1, <2>2 DEF Deliverer
  <2>4. o \in Op
    BY <2>2, <2>3
  <2>5. s = [a EXCEPT !.out = u, !.early = @ \cup {next}, !.cursor = next]
    BY <2>1, <2>2 DEF Bring
  <2>6. s.out = Append(d.out, o)
    BY <1>3, <2>2, <2>5 DEF Deliverer
  <2> QED
    BY <1>3, <2>4, <2>6, AppendGrows
<1> QED
  BY <1>1, <1>2, <1>3, <1>4, <1>5, <1>6, <1>7, <1>8 DEF StepShape

LEMMA DrainGrows ==
    ASSUME dep \in Deployment, NEW g, NEW d, Sound(d, g)
    PROVE  Grows(Drain(d, g), d)
<1>0. PICK n \in Nat : n = 2 * Len(d.queue) + 1 /\ \E h :
          /\ h[0] = d /\ Drain(d, g) = h[n]
          /\ \A k \in 1 .. n : h[k] = DrainStep(h[k - 1], g)
  BY DrainIs
<1>1. PICK h : /\ h[0] = d /\ Drain(d, g) = h[n]
               /\ \A k \in 1 .. n : h[k] = DrainStep(h[k - 1], g)
  BY <1>0
<1> DEFINE X == {x \in Deliverer : Sound(x, g) /\ Grows(x, d)}
           Y == [k \in 0 .. n |-> X]
<1>2. \A x : Sound(x, g) /\ Grows(x, d) <=> x \in X
  BY DEF Sound
<1> HIDE DEF X
<1>3. \A k \in 0 .. n : Y[k] = X
  OBVIOUS
<1> HIDE DEF Y
<1>4. h[0] \in Y[0]
  <2>1. Grows(d, d)
    BY SameGrows DEF Sound, Deliverer
  <2> QED
    BY <1>1, <1>2, <1>3, <2>1
<1>5. \A k \in 1 .. n : h[k - 1] \in Y[k - 1] => h[k] \in Y[k]
  <2>1. \A k \in 1 .. n : k \in 0 .. n /\ k - 1 \in 0 .. n
    OBVIOUS
  <2>2. ASSUME NEW x \in X PROVE DrainStep(x, g) \in X
    <3>1. Sound(x, g) /\ Grows(x, d)
      BY <1>2
    <3>2. PICK s : s = DrainStep(x, g)
      OBVIOUS
    <3>3. Sound(s, g) /\ Grows(s, x)
      BY <3>1, <3>2, StepSound, StepGrows
    <3>4. d.out \in Seq(Op) /\ x.out \in Seq(Op) /\ s.out \in Seq(Op)
      BY <3>1, <3>3 DEF Sound, Deliverer
    <3>5. Grows(s, d)
      BY <3>1, <3>3, <3>4, GrowsOn
    <3> QED
      BY <1>2, <3>2, <3>3, <3>5
  <2> QED
    BY <1>1, <1>3, <2>1, <2>2
<1>6. \A k \in 0 .. n : h[k] \in Y[k]
  BY <1>4, <1>5, Iterated
<1> QED
  BY <1>1, <1>2, <1>3, <1>6

LEMMA FileSame ==
    ASSUME dep \in Deployment, NEW g, NEW d, Sound(d, g),
           NEW batch \in Seq(Op), \A i \in DOMAIN batch : g \in Touched[batch[i]]
    PROVE  File(d, batch).out = d.out
<1>1. PICK h : /\ h[0] = d /\ File(d, batch) = h[Len(batch)]
               /\ \A k \in 1 .. Len(batch) : h[k] = Enqueue(h[k - 1], batch[k])
  BY FileIs
<1>2. PICK n \in Nat : n = Len(batch) /\ DOMAIN batch = 1 .. n
  OBVIOUS
<1> DEFINE X == {x \in Deliverer : x.out = d.out}
           Y == [k \in 0 .. n |-> X]
<1>3. h[0] \in X
  BY <1>1 DEF Sound
<1>4. ASSUME NEW x \in X, NEW o \in Op PROVE Enqueue(x, o) \in X
  <2>1. PICK q, a : q = Append(x.queue, o) /\ a = Enqueue(x, o)
    OBVIOUS
  <2>2. a = x \/ a = [x EXCEPT !.queue = q]
    BY <2>1 DEF Enqueue
  <2>3. q \in Seq(Op)
    BY <2>1 DEF Deliverer
  <2>4. a \in Deliverer /\ a.out = x.out
    BY <2>2, <2>3 DEF Deliverer
  <2> QED
    BY <2>1, <2>4
<1>5. \A x \in X : x.out = d.out
  OBVIOUS
<1> HIDE DEF X
<1>6. \A k \in 0 .. n : Y[k] = X
  OBVIOUS
<1> HIDE DEF Y
<1>7. ASSUME NEW k \in 1 .. n, h[k - 1] \in Y[k - 1] PROVE h[k] \in Y[k]
  <2>1. k \in 0 .. n /\ k - 1 \in 0 .. n /\ batch[k] \in Op
    BY <1>2
  <2>2. h[k - 1] \in X /\ h[k] = Enqueue(h[k - 1], batch[k])
    BY <1>1, <1>2, <1>6, <1>7, <2>1
  <2>3. h[k] \in X
    BY <1>4, <2>1, <2>2
  <2> QED
    BY <1>6, <2>1, <2>3
<1>8. \A k \in 0 .. n : h[k] \in Y[k]
  BY <1>3, <1>6, <1>7, Iterated
<1> QED
  BY <1>1, <1>2, <1>5, <1>6, <1>8

LEMMA HearGrows ==
    ASSUME dep \in Deployment, NEW g, NEW d, Sound(d, g), NEW meta \in Metas, MetasRight(meta)
    PROVE  Grows(Drain([d EXCEPT !.meta = meta], g), d)
<1>1. PICK a, b : a = [d EXCEPT !.meta = meta] /\ b = Drain(a, g)
  OBVIOUS
<1>2. Sound(a, g) /\ a.out = d.out
  BY <1>1, MetaSound DEF Sound, Deliverer
<1>3. Grows(b, a)
  BY <1>1, <1>2, DrainGrows
<1> QED
  BY <1>1, <1>2, <1>3 DEF Grows

\* What a replica has sent stays as a beginning of what it will have sent.
LEMMA OutGrows ==
    ASSUME DeliverInv, SkipsAreFree, [Next]_vars
    PROVE  \A r \in Replica : Grows(dlv'[r], dlv[r])
<1>1. \A r \in Replica : /\ dlv[r].out \in Seq(Op) /\ Sound(dlv[r], r[2])
                         /\ dlv[r].meta \in Metas /\ MetasRight(dlv[r].meta)
  BY DEF DeliverInv, Sound, Deliverer
<1>2. dep \in Deployment /\ DOMAIN dlv = Replica
  BY DEF DeliverInv
<1>3. CASE dlv' = dlv
  BY <1>1, <1>3, SameGrows
<1>4. ASSUME NEW r \in Replica, NEW a, Grows(a, dlv[r]), dlv' = [dlv EXCEPT ![r] = a]
      PROVE  \A s \in Replica : Grows(dlv'[s], dlv[s])
  BY <1>1, <1>2, <1>4, SameGrows
<1>5. ASSUME NEW r \in Replica, Push(r) PROVE \A s \in Replica : Grows(dlv'[s], dlv[s])
  <2>1. PICK d, g, batch : d = dlv[r] /\ g = r[2] /\ batch = log'[g][pushed[r] + 1]
    OBVIOUS
  <2>2. batch \in Seq(Op) /\ \A i \in DOMAIN batch : g \in Touched[batch[i]]
    <3>1. LogsSound' /\ pushed[r] + 1 \in DOMAIN log'[g] /\ g \in Group
      BY <1>2, <1>5, <2>1, PushedLog, OpFacts
    <3>2. Op' = Op /\ Touched' = Touched
      BY <1>5 DEF Push, Op, Touched
    <3> QED
      BY <2>1, <3>1, <3>2 DEF LogsSound
  <2>3. PICK f, a : f = File(d, batch) /\ a = Drain(f, g)
    OBVIOUS
  <2>4. Sound(d, g) /\ Sound(f, g) /\ f.out = d.out
    BY <1>1, <1>2, <2>1, <2>2, <2>3, FileSound, FileSame
  <2>5. Grows(a, f)
    BY <1>2, <2>3, <2>4, DrainGrows
  <2>6. Grows(a, d)
    BY <2>4, <2>5 DEF Grows
  <2>7. dlv' = dlv \/ dlv' = [dlv EXCEPT ![r] = a]
    BY <1>5, <2>1, <2>3 DEF Push
  <2> QED
    BY <1>3, <1>4, <2>1, <2>6, <2>7
<1>6. ASSUME NEW r \in Replica, NEW meta \in Metas, MetasRight(meta),
             dlv' = [dlv EXCEPT ![r] = Drain([dlv[r] EXCEPT !.meta = meta], r[2])]
      PROVE  \A s \in Replica : Grows(dlv'[s], dlv[s])
  <2>1. PICK a : a = Drain([dlv[r] EXCEPT !.meta = meta], r[2])
    OBVIOUS
  <2>2. Grows(a, dlv[r])
    BY <1>1, <1>2, <1>6, <2>1, HearGrows
  <2> QED
    BY <1>4, <1>6, <2>1, <2>2
<1>7. ASSUME NEW r \in Replica, NEW o \in Op, OnMeta(r, o)
      PROVE  \A s \in Replica : Grows(dlv'[s], dlv[s])
  <2>1. PICK meta : meta = Learn(dlv[r].meta, {Gsn[o]}, Touched[o])
    OBVIOUS
  <2>2. Touched[o] \in SUBSET Group /\ Gsn[o] > 0
    BY <1>2, <1>7, OpFacts DEF OnMeta
  <2>3. \A p \in Op : Gsn[p] \in {Gsn[o]} => Touched[o] = Touched[p]
    BY <1>2, <2>2, OpFacts
  <2>4. meta \in Metas /\ MetasRight(meta)
    BY <1>1, <1>2, <2>1, <2>2, <2>3, LearnRight
  <2>5. PICK a : a = Drain(Hear(dlv[r], {Gsn[o]}, Touched[o]), r[2])
    OBVIOUS
  <2>6. a = Drain([dlv[r] EXCEPT !.meta = meta], r[2])
    BY <2>1, <2>5 DEF Hear
  <2>7. dlv' = [dlv EXCEPT ![r] = a]
    BY <1>7, <2>5 DEF OnMeta
  <2> QED
    BY <1>6, <2>4, <2>6, <2>7
<1>8. ASSUME NEW r \in Replica, OnSkip(r) PROVE \A s \in Replica : Grows(dlv'[s], dlv[s])
  <2>1. PICK meta : meta = Learn(dlv[r].meta, Skip, {})
    OBVIOUS
  <2>2. \A p \in Op : Gsn[p] \notin Skip
    BY <1>2 DEF SkipsAreFree, Op, Gsn, Skip
  <2>3. meta \in Metas /\ MetasRight(meta)
    BY <1>1, <1>2, <2>1, <2>2, LearnRight
  <2>4. PICK a : a = Drain(Hear(dlv[r], Skip, {}), r[2])
    OBVIOUS
  <2>5. a = Drain([dlv[r] EXCEPT !.meta = meta], r[2])
    BY <2>1, <2>4 DEF Hear
  <2>6. dlv' = [dlv EXCEPT ![r] = a]
    BY <1>8, <2>4 DEF OnSkip
  <2> QED
    BY <1>6, <2>3, <2>5, <2>6
<1>9. ASSUME NEW r \in Replica, DeliverGroup(r) PROVE dlv' = dlv
  BY <1>9 DEF DeliverGroup
<1>10. ASSUME NEW n \in Global, GlobalOnSkip(n) PROVE dlv' = dlv
  BY <1>10 DEF GlobalOnSkip
<1>11. ASSUME NEW n \in Global, NEW o \in Op, GlobalOnMeta(n, o) PROVE dlv' = dlv
  BY <1>11 DEF GlobalOnMeta
<1>12. CASE UNCHANGED vars
  BY <1>3, <1>12 DEF vars
<1> QED
  BY <1>3, <1>5, <1>7, <1>8, <1>9, <1>10, <1>11, <1>12 DEF Next


\* The invariant of the GlobalDeliverers.
GlobalInv ==
    /\ DeliverInv
    /\ applied \in [Replica -> Nat]
    /\ \A d \in Replica : applied[d] <= Len(dlv[d].out)
    /\ DOMAIN glb = Node
    /\ \A n \in Node : GlobalSound(glb[n], n, AppliedAt(n))

LEMMA GlobalSame ==
    ASSUME dep' = dep, NEW d, NEW n, NEW A, NEW B, A \subseteq B, GlobalSound(d, n, A)
    PROVE  GlobalSound(d, n, B)'
<1>1. Op' = Op /\ Gsn' = Gsn /\ Touched' = Touched /\ Replica' = Replica
  BY DEF Op, Gsn, Touched, Replica
<1>2. MineOf(n)' = MineOf(n)
  BY <1>1 DEF MineOf, Mine
<1>3. MetasRight(d.meta)' /\ MetasNamed(d.meta)'
  BY <1>1 DEF GlobalSound, MetasRight, MetasNamed
<1>4. SentUpTo(d.out, n, d.last)'
  BY <1>2 DEF GlobalSound, SentUpTo
<1> QED
  BY <1>2, <1>3, <1>4 DEF GlobalSound, GlobalD, KnownUpTo

\* A step that keeps all that was applied keeps the invariant.
LEMMA GlobalKept ==
    ASSUME GlobalInv, DeliverInv', dep' = dep, applied' \in [Replica -> Nat],
           \A d \in Replica : /\ Grows(dlv'[d], dlv[d])
                              /\ applied[d] <= applied'[d] /\ applied'[d] <= Len(dlv'[d].out),
           DOMAIN glb' = Node,
           \A n \in Node : glb'[n] = glb[n] \/ GlobalSound(glb'[n], n, AppliedAt(n)')
    PROVE  GlobalInv'
<1>1. Gsn' = Gsn /\ Replica' = Replica /\ Node' = Node
  BY DEF Gsn, Replica, Node
<1>2. \A d \in Replica : /\ DOMAIN dlv[d].out = 1 .. Len(dlv[d].out) /\ Len(dlv[d].out) \in Nat
                         /\ applied[d] \in Nat /\ applied'[d] \in Nat
  BY DEF GlobalInv, DeliverInv, Sound, Deliverer
<1>3. ASSUME NEW d \in Replica, NEW j \in 1 .. applied[d]
      PROVE  j \in 1 .. applied'[d] /\ dlv'[d].out[j] = dlv[d].out[j]
  <2>1. applied[d] <= applied'[d] /\ applied[d] <= Len(dlv[d].out)
    BY DEF GlobalInv
  <2>2. j \in 1 .. applied'[d] /\ j \in DOMAIN dlv[d].out
    BY <1>2, <2>1
  <2> QED
    BY <2>2 DEF Grows
<1>4. \A n : AppliedAt(n) \subseteq AppliedAt(n)'
  BY <1>1, <1>3 DEF AppliedAt
<1>5. ASSUME NEW n \in Node PROVE GlobalSound(glb[n], n, AppliedAt(n))'
  <2>1. PICK d, A, B : d = glb'[n] /\ A = AppliedAt(n) /\ B = AppliedAt(n)'
    OBVIOUS
  <2>2. A \subseteq B /\ B \subseteq B /\ (GlobalSound(d, n, A) \/ GlobalSound(d, n, B))
    BY <1>4, <2>1 DEF GlobalInv
  <2>3. GlobalSound(d, n, B)'
    BY <2>2, GlobalSame
  <2> QED
    BY <2>1, <2>3
<1> QED
  BY <1>1, <1>5 DEF GlobalInv

\* METAs and skips reach a GlobalDeliverer.
LEMMA GlobalHears ==
    ASSUME NEW n, NEW A, NEW d, GlobalSound(d, n, A),
           NEW meta \in Metas, MetasRight(meta), MetasNamed(meta), KnownUpTo(meta, d.last)
    PROVE  GlobalSound(GlobalDrain([d EXCEPT !.meta = meta], n), n, A)
<1>1. PICK a : a = [d EXCEPT !.meta = meta]
  OBVIOUS
<1>2. /\ a \in GlobalD /\ a.meta = meta /\ a.committed = d.committed
      /\ a.last = d.last /\ a.out = d.out
  BY <1>1 DEF GlobalSound, GlobalD
<1>3. GlobalSound(a, n, A)
  BY <1>2 DEF GlobalSound
<1> QED
  BY <1>1, <1>3, GlobalDrainSound

LEMMA LearnNamed ==
    ASSUME NEW meta \in Metas, MetasNamed(meta), NEW G, NEW groups \in SUBSET Group,
           groups = {} \/ \A k \in G : \E o \in Op : Gsn[o] = k /\ groups = Touched[o]
    PROVE  MetasNamed(Learn(meta, G, groups))
BY DEF MetasNamed, Learn

LEMMA LearnKnown ==
    ASSUME NEW meta \in Metas, NEW m \in 0 .. MaxGsn, KnownUpTo(meta, m),
           NEW G, NEW groups \in SUBSET Group
    PROVE  KnownUpTo(Learn(meta, G, groups), m)
BY Numbers DEF KnownUpTo, Learn

\* A request is applied: it is counted, and committed if its GSN is still to come.
LEMMA DeliverGroupGlobal ==
    ASSUME GlobalInv, SkipsAreFree, NEW r \in Replica, DeliverGroup(r)
    PROVE  GlobalInv'
<1>1. PICK n, k, o, out : /\ n = r[1] /\ k = applied[r] + 1 /\ out = dlv[r].out /\ o = out[k]
  OBVIOUS
<1>2. /\ dep' = dep /\ log' = log /\ pushed' = pushed /\ dlv' = dlv
      /\ applied' = [applied EXCEPT ![r] = @ + 1] /\ applied[r] < Len(dlv[r].out)
      /\ glb' = IF Gsn[o] > glb[n].last
                THEN [glb EXCEPT ![n] = GlobalDrain(Commit(@, Gsn[o]), n)] ELSE glb
  BY <1>1 DEF DeliverGroup
<1>3. /\ n \in Node /\ out \in Seq(Op) /\ k \in DOMAIN out /\ o \in Op /\ Gsn[o] \in 0 .. MaxGsn
      /\ dep \in Deployment /\ \A s \in Replica : Len(dlv[s].out) \in Nat /\ applied[s] \in Nat
  <2>1. /\ out \in Seq(Op) /\ dep \in Deployment
        /\ \A s \in Replica : Len(dlv[s].out) \in Nat /\ applied[s] \in Nat
    BY <1>1 DEF GlobalInv, DeliverInv, Sound, Deliverer
  <2>2. k \in DOMAIN out
    BY <1>1, <1>2, <2>1
  <2> QED
    BY <1>1, <2>1, <2>2, OpFacts DEF Node
<1>4. DeliverInv'
  BY <1>2, RestSound DEF GlobalInv
<1>5. applied' \in [Replica -> Nat]
  BY <1>2, <1>3 DEF GlobalInv
<1>6. \A d \in Replica : /\ Grows(dlv'[d], dlv[d])
                         /\ applied[d] <= applied'[d] /\ applied'[d] <= Len(dlv'[d].out)
  BY <1>2, <1>3 DEF Grows, GlobalInv
<1>7. ASSUME NEW m \in Node PROVE glb'[m] = glb[m] \/ GlobalSound(glb'[m], m, AppliedAt(m)')
  <2>1. CASE Gsn[o] > glb[n].last /\ m = n
    <3>1. PICK d, A, B, a : /\ d = glb[n] /\ A = AppliedAt(n) /\ B = AppliedAt(n)'
                            /\ a = Commit(d, Gsn[o])
      OBVIOUS
    <3>2. GlobalSound(d, n, A)
      BY <1>3, <3>1 DEF GlobalInv
    <3>3. Gsn[o] \in GSN
      BY <1>3, <2>1, <3>1, <3>2, Numbers DEF GlobalSound, GlobalD
    <3>4. A \subseteq B
      <4>1. Gsn' = Gsn /\ Replica' = Replica
        BY <1>2 DEF Gsn, Replica
      <4>2. \A s \in Replica : \A j \in 1 .. applied[s] : j \in 1 .. applied'[s]
        BY <1>3, <1>5, <1>6
      <4> QED
        BY <1>2, <3>1, <4>1, <4>2 DEF AppliedAt
    <3>5. Gsn[o] \in B
      <4>1. Gsn' = Gsn /\ Replica' = Replica /\ applied'[r] = k /\ k \in 1 .. k
        BY <1>1, <1>2, <1>3 DEF Gsn, Replica, GlobalInv
      <4> QED
        BY <1>1, <1>2, <3>1, <3>3, <4>1 DEF AppliedAt
    <3>6. a = [d EXCEPT !.committed = @ \cup {Gsn[o]}]
      BY <3>1 DEF Commit
    <3>7. /\ a \in GlobalD /\ a.meta = d.meta /\ a.last = d.last /\ a.out = d.out
          /\ a.committed = d.committed \cup {Gsn[o]}
      BY <3>2, <3>3, <3>6 DEF GlobalSound, GlobalD
    <3>8. GlobalSound(a, n, B)
      BY <3>2, <3>4, <3>5, <3>7 DEF GlobalSound
    <3>9. glb'[n] = GlobalDrain(a, n)
      BY <1>2, <1>3, <2>1, <3>1 DEF GlobalInv
    <3> QED
      BY <2>1, <3>1, <3>8, <3>9, GlobalDrainSound
  <2>2. CASE ~ (Gsn[o] > glb[n].last /\ m = n)
    BY <1>2, <2>2 DEF GlobalInv
  <2> QED
    BY <2>1, <2>2
<1>8. DOMAIN glb' = Node
  BY <1>2 DEF GlobalInv
<1> QED
  BY <1>2, <1>4, <1>5, <1>6, <1>7, <1>8, GlobalKept

\* Only a GlobalDeliverer changes.
LEMMA GlobalOne ==
    ASSUME GlobalInv, dep' = dep, log' = log, pushed' = pushed, dlv' = dlv, applied' = applied,
           NEW n \in Node, NEW a, GlobalSound(a, n, AppliedAt(n)),
           glb' = [glb EXCEPT ![n] = a]
    PROVE  GlobalInv'
<1>1. Replica' = Replica /\ Gsn' = Gsn
  BY DEF Replica, Gsn
<1>2. DeliverInv'
  BY RestSound DEF GlobalInv
<1>3. \A d \in Replica : /\ dlv[d].out \in Seq(Op) /\ applied[d] \in Nat
  BY DEF GlobalInv, DeliverInv, Sound, Deliverer
<1>4. applied' \in [Replica -> Nat] /\ \A d \in Replica :
         /\ Grows(dlv'[d], dlv[d])
         /\ applied[d] <= applied'[d] /\ applied'[d] <= Len(dlv'[d].out)
  BY <1>3 DEF Grows, GlobalInv
<1>5. \A m : AppliedAt(m)' = AppliedAt(m)
  BY <1>1 DEF AppliedAt
<1>6. DOMAIN glb' = Node
  BY DEF GlobalInv
<1>7. \A m \in Node : glb'[m] = glb[m] \/ GlobalSound(glb'[m], m, AppliedAt(m)')
  <2>1. glb'[n] = a /\ \A m \in Node : m # n => glb'[m] = glb[m]
    BY DEF GlobalInv
  <2> QED
    BY <1>5, <2>1
<1> QED
  BY <1>2, <1>4, <1>6, <1>7, GlobalKept

LEMMA GlobalNodes ==
    ASSUME dep \in Deployment
    PROVE  Global \subseteq Node
BY DeploymentAssumption DEF Global, Node, Replica

LEMMA NextGlobal ==
    ASSUME GlobalInv, SkipsAreFree, [Next]_vars
    PROVE  GlobalInv'
<1>1. /\ dep \in Deployment /\ Global \subseteq Node
      /\ \A n \in Node : /\ glb[n].meta \in Metas /\ MetasRight(glb[n].meta)
                         /\ MetasNamed(glb[n].meta) /\ GlobalSound(glb[n], n, AppliedAt(n))
  BY GlobalNodes DEF GlobalInv, DeliverInv, GlobalSound, GlobalD
<1>2. ASSUME dep' = dep, applied' = applied, glb' = glb PROVE GlobalInv'
  <2>1. DeliverInv' /\ \A r \in Replica : Grows(dlv'[r], dlv[r])
    BY NextSound, OutGrows DEF GlobalInv
  <2>2. \A r \in Replica : /\ dlv[r].out \in Seq(Op) /\ dlv'[r].out \in Seq(Op)
                           /\ applied[r] \in Nat /\ applied[r] <= Len(dlv[r].out)
    <3>1. Replica' = Replica /\ Op' = Op
      BY <1>2 DEF Replica, Op
    <3> QED
      BY <2>1, <3>1 DEF GlobalInv, DeliverInv, Sound, Deliverer
  <2>3. \A r \in Replica : applied[r] <= applied'[r] /\ applied'[r] <= Len(dlv'[r].out)
    <3> SUFFICES ASSUME NEW r \in Replica
                 PROVE  applied[r] <= applied'[r] /\ applied'[r] <= Len(dlv'[r].out)
      OBVIOUS
    <3>1. PICK k \in Nat, l \in Nat, m \in Nat : /\ k = applied[r] /\ l = Len(dlv[r].out)
                                                /\ m = Len(dlv'[r].out)
      BY <2>2
    <3> QED
      BY <1>2, <2>1, <2>2, <3>1 DEF Grows
  <2> QED
    BY <1>2, <2>1, <2>3, GlobalKept DEF GlobalInv
<1>3. ASSUME NEW r \in Replica, Push(r) \/ OnSkip(r) PROVE GlobalInv'
  BY <1>2, <1>3 DEF Push, OnSkip
<1>4. ASSUME NEW r \in Replica, NEW o \in Op, OnMeta(r, o) PROVE GlobalInv'
  BY <1>2, <1>4 DEF OnMeta
<1>5. ASSUME NEW r \in Replica, DeliverGroup(r) PROVE GlobalInv'
  BY <1>5, DeliverGroupGlobal
<1>6. ASSUME NEW n \in Global, NEW o \in Op, GlobalOnMeta(n, o) PROVE GlobalInv'
  <2>1. PICK d, meta, a : /\ d = glb[n] /\ meta = Learn(d.meta, {Gsn[o]}, Touched[o])
                          /\ a = GlobalDrain(Hear(d, {Gsn[o]}, Touched[o]), n)
    OBVIOUS
  <2>2. n \in Node /\ d.meta \in Metas /\ MetasRight(d.meta) /\ MetasNamed(d.meta)
        /\ GlobalSound(d, n, AppliedAt(n))
    BY <1>1, <2>1
  <2>3. Touched[o] \in SUBSET Group /\ Gsn[o] > 0
    BY <1>1, <1>6, OpFacts DEF GlobalOnMeta
  <2>4. \A p \in Op : Gsn[p] \in {Gsn[o]} => Touched[o] = Touched[p]
    BY <1>1, <2>3, OpFacts
  <2>5. meta \in Metas /\ MetasRight(meta)
    BY <1>1, <2>1, <2>2, <2>3, <2>4, LearnRight
  <2>6. MetasNamed(meta)
    BY <2>1, <2>2, <2>3, LearnNamed
  <2>7. a = GlobalDrain([d EXCEPT !.meta = meta], n)
    BY <2>1 DEF Hear
  <2>8. GlobalSound(a, n, AppliedAt(n))
    <3>1. KnownUpTo(meta, d.last)
      BY <2>1, <2>2, <2>3, LearnKnown DEF GlobalSound, GlobalD
    <3> QED
      BY <2>2, <2>5, <2>6, <2>7, <3>1, GlobalHears
  <2>9. glb' = [glb EXCEPT ![n] = a]
    BY <1>6, <2>1 DEF GlobalOnMeta
  <2> QED
    BY <1>6, <2>2, <2>8, <2>9, GlobalOne DEF GlobalOnMeta
<1>7. ASSUME NEW n \in Global, GlobalOnSkip(n) PROVE GlobalInv'
  <2>1. PICK d, meta, a : /\ d = glb[n] /\ meta = Learn(d.meta, Skip, {})
                          /\ a = GlobalDrain(Hear(d, Skip, {}), n)
    OBVIOUS
  <2>2. n \in Node /\ d.meta \in Metas /\ MetasRight(d.meta) /\ MetasNamed(d.meta)
        /\ GlobalSound(d, n, AppliedAt(n))
    BY <1>1, <2>1
  <2>3. \A p \in Op : Gsn[p] \notin Skip
    BY <1>1 DEF SkipsAreFree, Op, Gsn, Skip
  <2>4. meta \in Metas /\ MetasRight(meta)
    BY <1>1, <2>1, <2>2, <2>3, LearnRight
  <2>5. MetasNamed(meta)
    BY <2>1, <2>2, LearnNamed
  <2>6. a = GlobalDrain([d EXCEPT !.meta = meta], n)
    BY <2>1 DEF Hear
  <2>7. GlobalSound(a, n, AppliedAt(n))
    <3>1. KnownUpTo(meta, d.last)
      <4>1. {} \in SUBSET Group
        OBVIOUS
      <4> QED
        BY <2>1, <2>2, <4>1, LearnKnown DEF GlobalSound, GlobalD
    <3> QED
      BY <2>2, <2>4, <2>5, <2>6, <3>1, GlobalHears
  <2>8. glb' = [glb EXCEPT ![n] = a]
    BY <1>7, <2>1 DEF GlobalOnSkip
  <2> QED
    BY <1>7, <2>2, <2>7, <2>8, GlobalOne DEF GlobalOnSkip
<1>8. CASE UNCHANGED vars
  BY <1>2, <1>8 DEF vars
<1> QED
  BY <1>3, <1>4, <1>5, <1>6, <1>7, <1>8 DEF Next

LEMMA InitGlobal ==
    ASSUME Init
    PROVE  GlobalInv
<1>1. DeliverInv
  BY InitSound
<1>2. applied \in [Replica -> Nat] /\ DOMAIN glb = Node
  BY DEF Init
<1>3. \A d \in Replica : applied[d] <= Len(dlv[d].out)
  BY DEF Init
<1>4. ASSUME NEW n \in Node PROVE GlobalSound(glb[n], n, AppliedAt(n))
  <2>1. PICK d : d = glb[n]
    OBVIOUS
  <2>2. d = [meta |-> NoMeta, committed |-> {}, last |-> 0, out |-> << >>]
    BY <2>1 DEF Init
  <2>3. NoMeta \in Metas /\ \A k \in GSN : NoMeta[k] = Unknown
    BY DEF NoMeta, Metas
  <2>4. d \in GlobalD
    BY <2>2, <2>3, Numbers DEF GlobalD
  <2>5. MetasRight(d.meta) /\ MetasNamed(d.meta)
    BY <2>2, <2>3 DEF MetasRight, MetasNamed
  <2>6. {k \in MineOf(n) : k <= 0} = {}
    BY Numbers DEF MineOf
  <2>7. SentUpTo(d.out, n, d.last)
    BY <2>2, <2>6 DEF SentUpTo
  <2>8. KnownUpTo(d.meta, d.last)
    BY <2>2 DEF KnownUpTo
  <2> QED
    BY <2>1, <2>2, <2>4, <2>5, <2>6, <2>7, <2>8 DEF GlobalSound
<1> QED
  BY <1>1, <1>2, <1>3, <1>4 DEF GlobalInv

\* globaldeliver.go, GlobalDeliverer: a node delivers every GSN of its groups, in order and
\* without a gap, and only what one of its groups has applied.
THEOREM DeliveredGlobally ==
    ASSUME SkipsAreFree
    PROVE  Spec => []GlobalOrder
<1>1. Init => GlobalInv
  BY InitGlobal
<1>2. GlobalInv /\ [Next]_vars => GlobalInv'
  BY NextGlobal
<1>3. GlobalInv => GlobalOrder
  <2> SUFFICES ASSUME GlobalInv, NEW n \in Node
               PROVE  /\ {glb[n].out[i] : i \in DOMAIN glb[n].out}
                            = {k \in MineOf(n) : k <= glb[n].last}
                      /\ \A i, j \in DOMAIN glb[n].out : i < j => glb[n].out[i] < glb[n].out[j]
                      /\ \A i \in DOMAIN glb[n].out :
                           \E d \in Replica : d[1] = n /\ \E k \in 1 .. applied[d] :
                               Gsn[dlv[d].out[k]] = glb[n].out[i]
    BY DEF GlobalOrder, MineOf
  <2>1. GlobalSound(glb[n], n, AppliedAt(n))
    BY DEF GlobalInv
  <2>2. \A i \in DOMAIN glb[n].out : glb[n].out[i] \in AppliedAt(n)
    BY <2>1 DEF GlobalSound, SentUpTo
  <2> QED
    BY <2>1, <2>2 DEF GlobalSound, SentUpTo, AppliedAt
<1> QED
  BY <1>1, <1>2, <1>3, PTL DEF Spec


-----------------------------------------------------------------------------
(* The drain loop comes to an end *)

\* The GSNs that have gone out before their place, and the turns that are left at most.
Brought(d) == {k \in d.early : \E i \in DOMAIN d.queue : IsCross(d.queue[i]) /\ Gsn[d.queue[i]] = k}
Load(d) == 2 * Len(d.queue) - Cardinality(Brought(d))

LEMMA LoadIs ==
    ASSUME NEW d \in Deliverer
    PROVE  /\ IsFiniteSet(Brought(d)) /\ Cardinality(Brought(d)) \in Nat
           /\ Len(d.queue) \in Nat /\ Cardinality(Brought(d)) <= Len(d.queue)
           /\ Load(d) \in Nat /\ Load(d) <= 2 * Len(d.queue)
<1>1. PICK n \in Nat : n = Len(d.queue) /\ DOMAIN d.queue = 1 .. n
  BY DEF Deliverer
<1>2. PICK B : B = Brought(d)
  OBVIOUS
<1>3. IsFiniteSet(1 .. MaxGsn) /\ IsFiniteSet(1 .. n) /\ Cardinality(1 .. n) = n
  BY Numbers, FS_Interval
<1>4. B \subseteq 1 .. MaxGsn
  BY <1>2, Numbers DEF Brought, Deliverer
<1>5. IsFiniteSet(B)
  BY <1>3, <1>4, FS_Subset
<1>6. Cardinality(B) \in Nat
  BY <1>5, FS_CardinalityType
<1>7. Cardinality(B) <= n
  <2> SUFFICES ASSUME n < Cardinality(B) PROVE FALSE
    BY <1>6
  <2> DEFINE f == [k \in B |-> CHOOSE i \in 1 .. n : Gsn[d.queue[i]] = k]
  <2>1. \A k \in B : f[k] \in 1 .. n /\ Gsn[d.queue[f[k]]] = k
    BY <1>1, <1>2 DEF Brought
  <2>2. f \in [B -> 1 .. n]
    BY <2>1
  <2> HIDE DEF f
  <2>3. PICK x, y \in B : x # y /\ f[x] = f[y]
    BY <1>3, <1>5, <2>2, FS_PigeonHole
  <2> QED
    BY <2>1, <2>3
<1> QED
  BY <1>1, <1>2, <1>5, <1>6, <1>7 DEF Load

\* Once the cursor has moved as far as it can, it stays.
LEMMA CursorSettles ==
    ASSUME dep \in Deployment, NEW g, NEW d, Sound(d, g), NEW a, a = AdvanceCursor(d, g)
    PROVE  /\ a \in Deliverer /\ CursorOnly(a, d)
           /\ Pending(a, g) = Pending(d, g) /\ AdvanceCursor(a, g) = a
<1>1. PICK prefix, some, next : /\ prefix = MetaPrefix(d.meta) /\ next = Pending(d, g)
          /\ some = {k \in 1 .. prefix : Cardinality(d.meta[k]) >= 2 /\ g \in d.meta[k]} \ d.early
  OBVIOUS
<1>2. /\ d \in Deliverer /\ d.cursor \in Nat /\ d.meta \in Metas /\ prefix \in Nat
      /\ Sound(a, g) /\ CursorMoved(a, d, g, next)
  <2>1. d \in Deliverer /\ d.cursor \in Nat /\ d.meta \in Metas
    BY Numbers DEF Sound, Deliverer
  <2>2. prefix \in Nat
    BY <1>1, <2>1, PrefixIs, Numbers
  <2> QED
    BY <1>1, <2>1, <2>2, CursorSound, AdvanceIs
<1>3. PICK c : c = IF next # 0 THEN next - 1 ELSE IF prefix > d.cursor THEN prefix ELSE d.cursor
  OBVIOUS
<1>4. a = [d EXCEPT !.cursor = c]
  <2>1. a = [d EXCEPT !.cursor = IF next # 0 THEN next - 1 ELSE IF prefix > @ THEN prefix ELSE @]
    BY <1>1 DEF AdvanceCursor
  <2> QED
    BY <1>2, <1>3, <2>1 DEF Deliverer
<1>5. /\ a \in Deliverer /\ a.queue = d.queue /\ a.early = d.early /\ a.meta = d.meta
      /\ a.out = d.out /\ a.cursor = c
  BY <1>2, <1>4 DEF Sound, Deliverer
<1>6. PICK again : again = Pending(a, g)
  OBVIOUS
<1>7. /\ next = 0 => some \cap (d.cursor + 1 .. prefix) = {}
      /\ next # 0 => next \in some /\ next \in d.cursor + 1 .. prefix
      /\ \A j \in some \cap (d.cursor + 1 .. prefix) : next <= j
  <2>1. next = FirstAfter(d.cursor, prefix, some)
    BY <1>1 DEF Pending
  <2> QED
    BY <1>2, <2>1, FirstIs
<1>8. c \in Nat
  BY <1>2, <1>3, <1>7
<1>9. /\ again = 0 => some \cap (c + 1 .. prefix) = {}
      /\ again # 0 => again \in some /\ again \in c + 1 .. prefix
      /\ \A j \in some \cap (c + 1 .. prefix) : again <= j
  <2>1. again = FirstAfter(c, prefix, some)
    BY <1>1, <1>5, <1>6 DEF Pending
  <2> QED
    BY <1>2, <1>8, <2>1, FirstIs
<1>10. again = next /\ c = IF next # 0 THEN next - 1 ELSE IF prefix > c THEN prefix ELSE c
  <2>1. CASE next = 0
    <3>1. ~ (prefix > c)
      BY <1>2, <1>3, <2>1
    <3>2. again = 0
      BY <1>2, <1>8, <1>9, <3>1
    <3> QED
      BY <2>1, <3>1, <3>2
  <2>2. CASE next # 0
    <3>1. next \in Nat /\ next > 0 /\ c = next - 1 /\ next \in c + 1 .. prefix /\ next \in some
      BY <1>2, <1>3, <1>7, <2>2
    <3>2. again # 0 /\ again <= next /\ again \in c + 1 .. prefix
      BY <1>9, <3>1
    <3> QED
      BY <2>2, <3>1, <3>2
  <2> QED
    BY <2>1, <2>2
<1>11. AdvanceCursor(a, g) = a
  <2>1. AdvanceCursor(a, g)
          = [a EXCEPT !.cursor = IF again # 0 THEN again - 1 ELSE IF prefix > @ THEN prefix ELSE @]
    BY <1>1, <1>5, <1>6 DEF AdvanceCursor
  <2>2. AdvanceCursor(a, g) = [a EXCEPT !.cursor = c]
    BY <1>5, <1>10, <2>1 DEF Deliverer
  <2> QED
    BY <1>5, <2>2 DEF Deliverer
<1> QED
  BY <1>1, <1>5, <1>6, <1>10, <1>11 DEF CursorOnly

\* The head leaves the queue: one less, and at most one less was brought forward.
LEMMA TailLoad ==
    ASSUME NEW d \in Deliverer, NEW s \in Deliverer, d.queue # << >>, s.queue = Tail(d.queue),
           d.early \ {Gsn[Head(d.queue)]} \subseteq s.early
    PROVE  Load(s) < Load(d)
<1>0. d.queue \in Seq(Op) /\ Len(d.queue) \in Nat /\ Len(d.queue) # 0
  BY DEF Deliverer
<1>1. PICK n \in Nat : n = Len(d.queue) - 1
  <2>1. Len(d.queue) - 1 \in Nat
    BY <1>0
  <2> QED
    BY <2>1
<1>2. /\ DOMAIN d.queue = 1 .. n + 1 /\ DOMAIN s.queue = 1 .. n /\ Head(d.queue) = d.queue[1]
      /\ Len(d.queue) = n + 1 /\ Len(s.queue) = n /\ \A i \in 1 .. n : s.queue[i] = d.queue[i + 1]
  BY <1>1 DEF Deliverer
<1>3. \A i \in DOMAIN d.queue : i = 1 \/ (i - 1 \in DOMAIN s.queue /\ s.queue[i - 1] = d.queue[i])
  <2>1. \A i \in 1 .. n + 1 : i = 1 \/ (i - 1 \in 1 .. n /\ (i - 1) + 1 = i)
    OBVIOUS
  <2> QED
    BY <1>2, <2>1
<1>4. PICK k, B, C, D : /\ k = Gsn[Head(d.queue)] /\ B = Brought(d) /\ C = Brought(s)
                       /\ D = B \ {k}
  OBVIOUS
<1>5. D \subseteq C
  <2> SUFFICES ASSUME NEW x \in D PROVE x \in C
    OBVIOUS
  <2>1. PICK i \in DOMAIN d.queue : IsCross(d.queue[i]) /\ Gsn[d.queue[i]] = x
    BY <1>4 DEF Brought
  <2>2. x # k /\ x \in d.early /\ x \in s.early
    BY <1>4 DEF Brought
  <2>3. i - 1 \in DOMAIN s.queue /\ s.queue[i - 1] = d.queue[i]
    BY <1>2, <1>3, <1>4, <2>1, <2>2
  <2>4. \E j \in DOMAIN s.queue : IsCross(s.queue[j]) /\ Gsn[s.queue[j]] = x
    BY <2>1, <2>3
  <2> QED
    BY <1>4, <2>2, <2>4 DEF Brought
<1>6. IsFiniteSet(B) /\ IsFiniteSet(C) /\ Cardinality(B) \in Nat /\ Cardinality(C) \in Nat
  BY <1>4, LoadIs
<1>7. Cardinality(B) - 1 <= Cardinality(D)
  <2>1. Cardinality(B \ {k}) = IF k \in B THEN Cardinality(B) - 1 ELSE Cardinality(B)
    BY <1>6, FS_RemoveElement
  <2> QED
    BY <1>4, <1>6, <2>1
<1>8. Cardinality(D) <= Cardinality(C)
  BY <1>5, <1>6, FS_Subset
<1>9. Cardinality(D) \in Nat
  <2>1. IsFiniteSet(D)
    BY <1>5, <1>6, FS_Subset
  <2> QED
    BY <2>1, FS_CardinalityType
<1> QED
  BY <1>2, <1>4, <1>6, <1>7, <1>8, <1>9 DEF Load

\* A turn leaves the loop, or there is less to do.
LEMMA StepSettles ==
    ASSUME dep \in Deployment, NEW g, NEW d, Sound(d, g), NEW s, s = DrainStep(d, g)
    PROVE  DrainStep(s, g) = s \/ Load(s) < Load(d)
<1>1. PICK a, next, c : a = AdvanceCursor(d, g) /\ next = Pending(d, g) /\ c = Gsn[Head(d.queue)]
  OBVIOUS
<1>2. /\ a \in Deliverer /\ CursorOnly(a, d) /\ d \in Deliverer
      /\ Pending(a, g) = next /\ AdvanceCursor(a, g) = a
  BY <1>1, CursorSettles DEF Sound
<1>3. Sound(a, g) /\ CursorMoved(a, d, g, next) /\ Sound(s, g) /\ s \in Deliverer
  BY <1>1, CursorSound, AdvanceIs, StepSound DEF Sound
<1>4. a.queue = d.queue /\ a.early = d.early /\ CrossInLog(a) = CrossInLog(d)
  BY <1>2 DEF CursorOnly, CrossInLog
<1>5. CASE d.queue = << >>
  BY <1>5 DEF DrainStep
<1>6. CASE d.queue # << >> /\ ~IsCross(Head(d.queue))
  <2>1. PICK q, u : q = Tail(d.queue) /\ u = Append(d.out, Head(d.queue))
    OBVIOUS
  <2>2. s = [d EXCEPT !.out = u, !.queue = q]
    BY <1>6, <2>1 DEF DrainStep, LocalTurn, SendHead
  <2>3. s.queue = Tail(d.queue) /\ s.early = d.early
    BY <1>2, <2>1, <2>2 DEF Deliverer
  <2> QED
    BY <1>2, <1>3, <1>6, <2>3, TailLoad
<1>7. CASE d.queue # << >> /\ IsCross(Head(d.queue)) /\ c \in d.early
  <2>1. PICK q : q = Tail(d.queue)
    OBVIOUS
  <2>2. s = [d EXCEPT !.queue = Tail(@), !.early = @ \ {c}]
    BY <1>1, <1>7 DEF DrainStep
  <2>3. s = [d EXCEPT !.queue = q, !.early = @ \ {c}]
    BY <1>2, <2>1, <2>2 DEF Deliverer
  <2>4. s.queue = Tail(d.queue) /\ s.early = d.early \ {c}
    BY <1>2, <2>1, <2>3 DEF Deliverer
  <2> QED
    BY <1>1, <1>2, <1>3, <1>7, <2>4, TailLoad
<1>8. CASE d.queue # << >> /\ IsCross(Head(d.queue)) /\ c \notin d.early
  <2>1. s = CASE next = 0 -> a
              [] next = c -> [SendHead(a) EXCEPT !.cursor = c]
              [] next > c -> SendHead(a)
              [] next \in CrossInLog(d) /\ next < c /\ next > 0 -> Bring(a, next)
              [] OTHER -> a
    BY <1>1, <1>8 DEF DrainStep
  <2>2. next \in Nat /\ c \in Nat /\ c > 0
    <3>1. Head(d.queue) \in Op
      BY <1>2, <1>8 DEF Deliverer
    <3>2. c \in GSN /\ next \in 0 .. MaxGsn
      BY <1>1, <1>3, <1>8, <3>1, OpFacts DEF CursorMoved
    <3> QED
      BY <3>2, Numbers
  <2>3. CASE next # 0 /\ ~ (next < c)
    <3>1. PICK q, u : q = Tail(a.queue) /\ u = Append(a.out, Head(a.queue))
      OBVIOUS
    <3>2. s = [a EXCEPT !.out = u, !.queue = q, !.cursor = c] \/ s = [a EXCEPT !.out = u, !.queue = q]
      <4>1. CASE next = c
        BY <1>2, <2>1, <2>2, <2>3, <3>1, <4>1 DEF SendHead
      <4>2. CASE next # c
        BY <1>2, <2>1, <2>2, <2>3, <3>1, <4>2 DEF SendHead
      <4> QED
        BY <4>1, <4>2
    <3>3. s.queue = Tail(d.queue) /\ s.early = d.early
      BY <1>2, <1>4, <3>1, <3>2 DEF Deliverer
    <3> QED
      BY <1>2, <1>3, <1>8, <3>3, TailLoad
  <2>4. CASE next \in CrossInLog(d) /\ next < c /\ next > 0
    <3>1. s = Bring(a, next)
      BY <2>1, <2>2, <2>4
    <3>2. PICK u : u = Append(a.out, CHOOSE o \in Op : Gsn[o] = next)
      OBVIOUS
    <3>3. s = [a EXCEPT !.out = u, !.early = @ \cup {next}, !.cursor = next]
      BY <3>1, <3>2 DEF Bring
    <3>4. s.queue = d.queue /\ s.early = d.early \cup {next}
      BY <1>2, <1>4, <3>3 DEF Deliverer
    <3>5. PICK B, C : B = Brought(d) /\ C = Brought(s)
      OBVIOUS
    <3>6. next \notin d.early /\ \E i \in DOMAIN d.queue : IsCross(d.queue[i]) /\ Gsn[d.queue[i]] = next
      BY <2>4 DEF CrossInLog
    <3>7. C = B \cup {next} /\ next \notin B
      BY <3>4, <3>5, <3>6 DEF Brought
    <3>8. IsFiniteSet(B) /\ Cardinality(B) \in Nat /\ Len(d.queue) \in Nat
      BY <1>2, <3>5, LoadIs
    <3>9. Cardinality(C) = Cardinality(B) + 1
      BY <3>7, <3>8, FS_AddElement
    <3> QED
      BY <3>4, <3>5, <3>8, <3>9 DEF Load
  <2>5. CASE /\ next = 0 \/ next < c
             /\ ~ (next \in CrossInLog(d) /\ next < c /\ next > 0)
    <3>1. s = a
      BY <2>1, <2>2, <2>5
    <3>2. /\ a.queue # << >> /\ IsCross(Head(a.queue)) /\ Gsn[Head(a.queue)] = c
          /\ c \notin a.early
      BY <1>1, <1>4, <1>8
    <3>3. DrainStep(a, g)
            = CASE next = 0 -> a
                [] next = c -> [SendHead(a) EXCEPT !.cursor = c]
                [] next > c -> SendHead(a)
                [] next \in CrossInLog(d) /\ next < c /\ next > 0 -> Bring(a, next)
                [] OTHER -> a
      BY <1>2, <1>4, <3>2 DEF DrainStep
    <3>4. DrainStep(a, g) = a
      BY <2>2, <2>5, <3>3
    <3> QED
      BY <3>1, <3>4
  <2> QED
    BY <2>2, <2>3, <2>4, <2>5
<1> QED
  BY <1>1, <1>5, <1>6, <1>7, <1>8

\* What drainLocked leaves, one more turn leaves too.
LEMMA DrainSettles ==
    ASSUME dep \in Deployment, NEW g, NEW d, Sound(d, g)
    PROVE  DrainStep(Drain(d, g), g) = Drain(d, g)
<1>0. PICK n \in Nat : n = 2 * Len(d.queue) + 1 /\ \E h :
          /\ h[0] = d /\ Drain(d, g) = h[n]
          /\ \A k \in 1 .. n : h[k] = DrainStep(h[k - 1], g)
  BY DrainIs
<1>1. PICK h : /\ h[0] = d /\ Drain(d, g) = h[n]
               /\ \A k \in 1 .. n : h[k] = DrainStep(h[k - 1], g)
  BY <1>0
<1> DEFINE Left(x, k) == DrainStep(x, g) = x \/ Load(x) + k <= 2 * Len(d.queue)
           Y == [k \in 0 .. n |-> {x \in Deliverer : Sound(x, g) /\ Left(x, k)}]
<1>2. \A k \in 0 .. n : \A x : x \in Y[k] <=> Sound(x, g) /\ Left(x, k)
  BY DEF Sound
<1> HIDE DEF Y
<1>3. h[0] \in Y[0]
  <2>1. Load(d) \in Nat /\ Load(d) <= 2 * Len(d.queue)
    BY LoadIs DEF Sound
  <2> QED
    BY <1>1, <1>2, <2>1
<1>4. ASSUME NEW k \in 1 .. n, h[k - 1] \in Y[k - 1]
      PROVE  h[k] \in Y[k]
  <2>1. k \in 0 .. n /\ k - 1 \in 0 .. n /\ k \in Nat
    OBVIOUS
  <2>2. PICK x, s : x = h[k - 1] /\ s = h[k]
    OBVIOUS
  <2>3. Sound(x, g) /\ Left(x, k - 1) /\ s = DrainStep(x, g)
    BY <1>1, <1>2, <1>4, <2>1, <2>2
  <2>4. Sound(s, g) /\ (DrainStep(s, g) = s \/ Load(s) < Load(x))
    BY <2>3, StepSound, StepSettles
  <2>5. Load(s) \in Nat /\ Load(x) \in Nat /\ 2 * Len(d.queue) \in Nat
    BY <2>3, <2>4, LoadIs DEF Sound, Deliverer
  <2>6. Left(s, k)
    <3>1. CASE DrainStep(x, g) = x
      BY <2>3, <3>1
    <3>2. CASE Load(x) + (k - 1) <= 2 * Len(d.queue)
      BY <2>1, <2>4, <2>5, <3>2
    <3> QED
      BY <2>3, <3>1, <3>2
  <2> QED
    BY <1>2, <2>1, <2>2, <2>4, <2>6
<1>5. \A k \in 0 .. n : h[k] \in Y[k]
  BY <1>3, <1>4, Iterated
<1>6. PICK x : x = h[n]
  OBVIOUS
<1>7. Sound(x, g) /\ Left(x, n)
  BY <1>2, <1>5, <1>6
<1>8. Load(x) \in Nat /\ 2 * Len(d.queue) \in Nat
  BY <1>7, LoadIs DEF Sound, Deliverer
<1> QED
  BY <1>0, <1>1, <1>6, <1>7, <1>8

-----------------------------------------------------------------------------
(* The types *)

\* A group's batches have a request or more, and are not too long.
BatchesFit == \A g \in Group : \A n \in DOMAIN log[g] : Len(log[g][n]) \in 1 .. BatchSize

\* The drain loop has run to its end.
Settled == \A d \in Replica : DrainStep(dlv[d], d[2]) = dlv[d]

TypesInv == GlobalInv /\ BatchesFit /\ Settled

\* The deployment is fixed.
LEMMA StepSame ==
    ASSUME dep' = dep, NEW d, NEW g
    PROVE  DrainStep(d, g)' = DrainStep(d, g)
<1>1. Op' = Op /\ Gsn' = Gsn /\ Touched' = Touched
  BY DEF Op, Gsn, Touched
<1>2. IsCross(Head(d.queue))' = IsCross(Head(d.queue)) /\ CrossInLog(d)' = CrossInLog(d)
  BY <1>1 DEF IsCross, CrossInLog
<1>3. PICK a, next : a = AdvanceCursor(d, g) /\ next = Pending(d, g)
  OBVIOUS
<1>4. AdvanceCursor(d, g)' = a /\ Pending(d, g)' = next
  BY <1>3 DEF AdvanceCursor, Pending, MetaPrefix, FirstAfter
<1>5. Bring(a, next)' = Bring(a, next)
  BY <1>1 DEF Bring
<1>6. LocalTurn(d, g)' = LocalTurn(d, g) /\ SendHead(a)' = SendHead(a)
  BY DEF LocalTurn, SendHead
<1> QED
  BY <1>1, <1>2, <1>3, <1>4, <1>5, <1>6 DEF DrainStep

\* A step leaves a groupDeliverer alone, or drains it.
LEMMA Drained ==
    ASSUME DeliverInv, SkipsAreFree, [Next]_vars, NEW s \in Replica
    PROVE  dlv'[s] = dlv[s] \/ \E x : Sound(x, s[2]) /\ dlv'[s] = Drain(x, s[2])
<1>1. dep \in Deployment /\ DOMAIN dlv = Replica
  BY DEF DeliverInv
<1>2. ASSUME NEW r \in Replica, NEW x, Sound(x, r[2]), dlv' = [dlv EXCEPT ![r] = Drain(x, r[2])]
      PROVE  dlv'[s] = dlv[s] \/ \E y : Sound(y, s[2]) /\ dlv'[s] = Drain(y, s[2])
  <2>1. PICK a : a = Drain(x, r[2])
    OBVIOUS
  <2>2. CASE s = r
    BY <1>1, <1>2, <2>1, <2>2
  <2>3. CASE s # r
    BY <1>1, <1>2, <2>1, <2>3
  <2> QED
    BY <2>2, <2>3
<1>3. ASSUME NEW r \in Replica, Push(r)
      PROVE  dlv'[s] = dlv[s] \/ \E x : Sound(x, s[2]) /\ dlv'[s] = Drain(x, s[2])
  <2>1. PICK d, g, n, batch : /\ d = dlv[r] /\ g = r[2] /\ n = pushed[r] + 1
                              /\ batch = log'[g][n]
    OBVIOUS
  <2>2. LogsSound' /\ n \in DOMAIN log'[g] /\ g \in Group
    BY <1>1, <1>3, <2>1, PushedLog, OpFacts
  <2>3. Op' = Op /\ Touched' = Touched
    BY <1>3 DEF Push, Op, Touched
  <2>4. batch \in Seq(Op) /\ \A i \in DOMAIN batch : g \in Touched[batch[i]]
    BY <2>1, <2>2, <2>3 DEF LogsSound
  <2>5. PICK x : x = File(d, batch)
    OBVIOUS
  <2>6. Sound(x, g)
    BY <1>1, <2>1, <2>4, <2>5, FileSound DEF DeliverInv
  <2>7. dlv' = dlv \/ dlv' = [dlv EXCEPT ![r] = Drain(x, g)]
    BY <1>3, <2>1, <2>5 DEF Push
  <2> QED
    BY <1>2, <2>1, <2>6, <2>7
<1>4. ASSUME NEW r \in Replica, OnSkip(r)
      PROVE  dlv'[s] = dlv[s] \/ \E x : Sound(x, s[2]) /\ dlv'[s] = Drain(x, s[2])
  <2>1. PICK d, meta, x : /\ d = dlv[r] /\ meta = Learn(d.meta, Skip, {})
                          /\ x = [d EXCEPT !.meta = meta]
    OBVIOUS
  <2>2. Sound(d, r[2]) /\ d.meta \in Metas /\ MetasRight(d.meta)
    BY <2>1 DEF DeliverInv, Sound, Deliverer
  <2>3. \A p \in Op : Gsn[p] \notin Skip
    BY <1>1 DEF SkipsAreFree, Op, Gsn, Skip
  <2>4. meta \in Metas /\ MetasRight(meta)
    BY <1>1, <2>1, <2>2, <2>3, LearnRight
  <2>5. Sound(x, r[2])
    BY <2>1, <2>2, <2>4, MetaSound
  <2>6. dlv' = [dlv EXCEPT ![r] = Drain(x, r[2])]
    BY <1>4, <2>1 DEF OnSkip, Hear
  <2> QED
    BY <1>2, <2>5, <2>6
<1>5. ASSUME NEW r \in Replica, NEW o \in Op, OnMeta(r, o)
      PROVE  dlv'[s] = dlv[s] \/ \E x : Sound(x, s[2]) /\ dlv'[s] = Drain(x, s[2])
  <2>1. PICK d, meta, x : /\ d = dlv[r] /\ meta = Learn(d.meta, {Gsn[o]}, Touched[o])
                          /\ x = [d EXCEPT !.meta = meta]
    OBVIOUS
  <2>2. Sound(d, r[2]) /\ d.meta \in Metas /\ MetasRight(d.meta)
    BY <2>1 DEF DeliverInv, Sound, Deliverer
  <2>3. Touched[o] \in SUBSET Group /\ Gsn[o] > 0
    BY <1>1, <1>5, OpFacts DEF OnMeta
  <2>4. \A p \in Op : Gsn[p] \in {Gsn[o]} => Touched[o] = Touched[p]
    BY <1>1, <2>3, OpFacts
  <2>5. meta \in Metas /\ MetasRight(meta)
    BY <1>1, <2>1, <2>2, <2>3, <2>4, LearnRight
  <2>6. Sound(x, r[2])
    BY <2>1, <2>2, <2>5, MetaSound
  <2>7. dlv' = [dlv EXCEPT ![r] = Drain(x, r[2])]
    BY <1>5, <2>1 DEF OnMeta, Hear
  <2> QED
    BY <1>2, <2>6, <2>7
<1>6. ASSUME NEW r \in Replica, DeliverGroup(r) PROVE dlv' = dlv
  BY <1>6 DEF DeliverGroup
<1>7. ASSUME NEW n \in Global, GlobalOnSkip(n) PROVE dlv' = dlv
  BY <1>7 DEF GlobalOnSkip
<1>8. ASSUME NEW n \in Global, NEW o \in Op, GlobalOnMeta(n, o) PROVE dlv' = dlv
  BY <1>8 DEF GlobalOnMeta
<1>9. CASE UNCHANGED vars
  BY <1>9 DEF vars
<1> QED
  BY <1>3, <1>4, <1>5, <1>6, <1>7, <1>8, <1>9 DEF Next

LEMMA NextSettled ==
    ASSUME DeliverInv, Settled, SkipsAreFree, [Next]_vars
    PROVE  dep' = dep /\ Settled'
<1>1. dep' = dep /\ Replica' = Replica
  BY DEF Next, Push, OnSkip, OnMeta, DeliverGroup, GlobalOnSkip, GlobalOnMeta, vars, Replica
<1>2. ASSUME NEW s \in Replica PROVE (DrainStep(dlv[s], s[2]) = dlv[s])'
  <2>1. PICK a : a = dlv'[s]
    OBVIOUS
  <2>2. DrainStep(a, s[2]) = a
    <3>1. CASE a = dlv[s]
      BY <3>1 DEF Settled
    <3>2. CASE \E x : Sound(x, s[2]) /\ a = Drain(x, s[2])
      BY <3>2, DrainSettles DEF DeliverInv
    <3> QED
      BY <2>1, <3>1, <3>2, Drained
  <2>3. DrainStep(a, s[2])' = a
    BY <1>1, <2>2, StepSame
  <2> QED
    BY <2>1, <2>3
<1> QED
  BY <1>1, <1>2 DEF Settled

LEMMA NextFits ==
    ASSUME DeliverInv, BatchesFit, [Next]_vars
    PROVE  BatchesFit'
<1>1. ASSUME dep' = dep, log' = log PROVE BatchesFit'
  BY <1>1 DEF BatchesFit, BatchSize
<1>2. ASSUME NEW r \in Replica, Push(r) PROVE BatchesFit'
  <2>1. PICK g : g = r[2]
    OBVIOUS
  <2>2. /\ g \in Group /\ BatchSize \in Nat /\ BatchSize' = BatchSize /\ dep' = dep
        /\ \A h \in Group : log[h] \in Seq(Seq(Op))
    <3>1. dep \in Deployment /\ dep' = dep
      BY <1>2 DEF DeliverInv, Push
    <3> QED
      BY <2>1, <3>1, OpFacts, DeploymentAssumption DEF DeliverInv, LogsSound, BatchSize
  <2>3. CASE log' = log
    BY <1>1, <2>2, <2>3
  <2>4. CASE \E b \in Batches(g) : log' = [log EXCEPT ![g] = Append(@, b)]
    <3>1. PICK b \in Batches(g) : log' = [log EXCEPT ![g] = Append(@, b)]
      BY <2>4
    <3>2. PICK k \in 1 .. BatchSize : b \in [1 .. k -> {o \in Op : g \in Touched[o]}]
      BY DEF Batches
    <3>3. b \in Seq(Op) /\ Len(b) \in 1 .. BatchSize
      BY <2>2, <3>2
    <3>4. PICK new : new = Append(log[g], b)
      OBVIOUS
    <3>5. /\ Len(log[g]) \in Nat /\ DOMAIN log[g] = 1 .. Len(log[g])
          /\ DOMAIN new = 1 .. Len(log[g]) + 1 /\ new[Len(log[g]) + 1] = b
          /\ \A m \in 1 .. Len(log[g]) : new[m] = log[g][m]
      BY <2>2, <3>3, <3>4
    <3>6. log'[g] = new /\ \A h \in Group : h # g => log'[h] = log[h]
      BY <2>2, <3>1, <3>4 DEF DeliverInv, LogsSound
    <3>7. ASSUME NEW h \in Group, NEW m \in DOMAIN log'[h]
          PROVE  Len(log'[h][m]) \in 1 .. BatchSize
      <4>1. CASE h # g
        BY <3>6, <3>7, <4>1 DEF BatchesFit
      <4>2. CASE h = g
        <5>1. m \in 1 .. Len(log[g]) \/ m = Len(log[g]) + 1
          BY <3>5, <3>6, <4>2
        <5>2. CASE m \in 1 .. Len(log[g])
          BY <2>2, <3>5, <3>6, <4>2, <5>2 DEF BatchesFit
        <5>3. CASE m = Len(log[g]) + 1
          BY <3>3, <3>5, <3>6, <4>2, <5>3
        <5> QED
          BY <5>1, <5>2, <5>3
      <4> QED
        BY <4>1, <4>2
    <3> QED
      BY <2>2, <3>7 DEF BatchesFit
  <2> QED
    BY <1>2, <2>1, <2>3, <2>4 DEF Push
<1>3. ASSUME NEW r \in Replica, OnSkip(r) \/ DeliverGroup(r) PROVE BatchesFit'
  BY <1>1, <1>3 DEF OnSkip, DeliverGroup
<1>4. ASSUME NEW r \in Replica, NEW o \in Op, OnMeta(r, o) PROVE BatchesFit'
  BY <1>1, <1>4 DEF OnMeta
<1>5. ASSUME NEW n \in Global, GlobalOnSkip(n) PROVE BatchesFit'
  BY <1>1, <1>5 DEF GlobalOnSkip
<1>6. ASSUME NEW n \in Global, NEW o \in Op, GlobalOnMeta(n, o) PROVE BatchesFit'
  BY <1>1, <1>6 DEF GlobalOnMeta
<1>7. CASE UNCHANGED vars
  BY <1>1, <1>7 DEF vars
<1> QED
  BY <1>2, <1>3, <1>4, <1>5, <1>6, <1>7 DEF Next

LEMMA InitTypes ==
    ASSUME Init
    PROVE  TypesInv
<1>1. GlobalInv
  BY InitGlobal
<1>2. BatchesFit
  BY DEF Init, BatchesFit
<1>3. Settled
  <2>1. ASSUME NEW d \in Replica PROVE dlv[d].queue = << >>
    BY DEF Init
  <2> QED
    BY <2>1 DEF Settled, DrainStep
<1> QED
  BY <1>1, <1>2, <1>3 DEF TypesInv

LEMMA TypesOK ==
    ASSUME TypesInv
    PROVE  TypeOK
<1>1. dep \in Deployment /\ LogsSound /\ GlobalInv /\ DeliverInv
  BY DEF TypesInv, GlobalInv, DeliverInv
<1>2. \A g \in Group : \A n \in DOMAIN log[g] :
          log[g][n] \in Seq(Op) /\ Len(log[g][n]) \in 1 .. BatchSize
  BY <1>1 DEF TypesInv, BatchesFit, LogsSound
<1>3. ASSUME NEW d \in Replica
      PROVE  /\ pushed[d] \in 0 .. Len(log[d[2]])
             /\ dlv[d].queue \in Seq(Op) /\ dlv[d].out \in Seq(Op)
             /\ dlv[d].meta \in Metas /\ dlv[d].early \subseteq GSN
             /\ dlv[d].cursor \in 0 .. MaxGsn
             /\ applied[d] \in 0 .. Len(dlv[d].out)
             /\ DrainStep(dlv[d], d[2]) = dlv[d]
  <2>1. dlv[d] \in Deliverer /\ d[2] \in Group
    BY <1>1, OpFacts DEF DeliverInv, Sound
  <2>2. pushed[d] \in Nat /\ pushed[d] <= Len(log[d[2]]) /\ Len(log[d[2]]) \in Nat
    BY <1>1, <2>1 DEF DeliverInv, LogsSound
  <2>3. applied[d] \in Nat /\ applied[d] <= Len(dlv[d].out) /\ Len(dlv[d].out) \in Nat
    BY <1>1, <2>1 DEF GlobalInv, Deliverer
  <2> QED
    BY <2>1, <2>2, <2>3 DEF TypesInv, Settled, Deliverer
<1>4. ASSUME NEW n \in Node
      PROVE  /\ glb[n].meta \in Metas /\ glb[n].committed \subseteq GSN
             /\ glb[n].last \in 0 .. MetaPrefix(glb[n].meta) /\ glb[n].out \in Seq(GSN)
  <2>1. PICK d, prefix : d = glb[n] /\ prefix = MetaPrefix(d.meta)
    OBVIOUS
  <2>2. d \in GlobalD /\ KnownUpTo(d.meta, d.last)
    BY <1>1, <2>1 DEF GlobalInv, GlobalSound
  <2>3. d.meta \in Metas /\ d.last \in 0 .. MaxGsn
    BY <2>2 DEF GlobalD
  <2>4. prefix \in 0 .. MaxGsn /\ (prefix < MaxGsn => d.meta[prefix + 1] = Unknown)
    BY <2>1, <2>3, PrefixIs
  <2>5. ~ (d.last > prefix)
    <3> SUFFICES ASSUME d.last > prefix PROVE FALSE
      OBVIOUS
    <3>1. prefix < MaxGsn /\ prefix + 1 \in 1 .. d.last
      BY <2>3, <2>4, Numbers
    <3> QED
      BY <2>2, <2>4, <3>1 DEF KnownUpTo
  <2>6. d.last \in 0 .. prefix
    BY <2>3, <2>4, <2>5, Numbers
  <2> QED
    BY <2>1, <2>2, <2>6 DEF GlobalD
<1> QED
  BY <1>1, <1>2, <1>3, <1>4 DEF TypeOK

\* globaldeliver.go, groupDeliverer.drainLocked: "falta META de alguma GSN menor: esperar".
\* The types hold, and the loop stops only when one more turn would change nothing: what
\* a groupDeliverer keeps back waits for a META or for the log.
THEOREM NothingKeptBack ==
    ASSUME SkipsAreFree
    PROVE  Spec => []TypeOK
<1>1. Init => TypesInv
  BY InitTypes
<1>2. TypesInv /\ [Next]_vars => TypesInv'
  BY NextGlobal, NextSettled, NextFits DEF TypesInv, GlobalInv
<1>3. TypesInv => TypeOK
  BY TypesOK
<1> QED
  BY <1>1, <1>2, <1>3, PTL DEF Spec

=============================================================================
