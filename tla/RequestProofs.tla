---------------------------- MODULE RequestProofs ----------------------------
(* Theorems about RequestPath, for any number of requests, buckets, peers    *)
(* and epochs in rotation, and any window, backlog and batch size.  Peers of *)
(* one epoch have committed the same requests, so that what one may propose  *)
(* is new to all of them; who leads a bucket changes with the epoch only.    *)
EXTENDS RequestPath, WellFoundedInduction, TLAPS

-----------------------------------------------------------------------------
(* The inductive invariant *)

Reqs == SUBSET Req

PoolType ==
    [low : 0 .. MaxReq, committed : Reqs, backlog : Reqs, list : Reqs, index : Reqs, flight : Reqs]

\* The types of what orders requests; the client's variables are left alone.
Types ==
    /\ newest \in Epoch /\ behind \subseteq Follower
    /\ pool \in [Peer -> PoolType]
    /\ adding \in [Peer -> Reqs]
    /\ held \in [Peer -> [Peer -> Reqs]]
    /\ logged \in [Peer -> SUBSET Peer]
    /\ proposed \in [Epoch -> [Peer -> {None} \cup Reqs]]
    /\ decided \in [Epoch -> [Peer -> {None} \cup Reqs]]

\* Some peer is in the newest epoch, an epoch is settled before a peer leaves it, and
\* no peer is in one that the model has forgotten.
EpochsInOrder ==
    /\ Peer \ behind # {}
    /\ behind \cap Peer # {} => \A l \in Peer : decided[Before(newest)][l] # None
    /\ \A e \in Epoch :
          (\A p \in Peer : e # EpochOf(p)) /\ e # newest
              => decided[e] = NoBatch /\ proposed[e] = NoBatch

\* What a peer knows to be committed, in earlier epochs and in its own.
Done(p) == pool[p].committed \cup UNION {decided[EpochOf(p)][l] : l \in logged[p]}

\* The requests of all entries of e.
Entries(e) == UNION {decided[e][l] : l \in Peer}

\* The first watermark that the requests in S do not carry on.
NewLow(low, S) == CHOOSE k \in low .. MaxReq : low .. k - 1 \subseteq S /\ k \notin S

\* Peers of one epoch are in the same state towards the client, and those of the
\* newest one have what the others will have.
InStep ==
    \A p, q \in Peer :
        /\ EpochOf(p) = EpochOf(q) =>
              pool[p].low = pool[q].low /\ pool[p].committed = pool[q].committed
        /\ p \in behind /\ q \notin behind =>
              LET done == pool[p].committed \cup Entries(Before(newest))
              IN  /\ pool[q].low = NewLow(pool[p].low, done)
                  /\ pool[q].committed = done \ (pool[p].low .. pool[q].low - 1)

\* A proposal is of its leader's buckets, in the window of every peer of the epoch
\* and new to it; it is decided, or nothing is.
ProposalsNew ==
    \A e \in Epoch, l \in Peer :
        /\ decided[e][l] \in {None, {}, proposed[e][l]}
        /\ proposed[e][l] # None =>
              /\ \A r \in proposed[e][l] : GetBucketNr(r) \in BucketsOf(l, e)
              /\ \A p \in Peer : EpochOf(p) = e =>
                    /\ Acceptable(pool[p], proposed[e][l])
                    /\ proposed[e][l] \cap pool[p].committed = {}

\* p holds proposals that it has not learned the outcome of.
HeldAt(p) ==
    \A l \in Peer :
        /\ l \in logged[p] => held[p][l] = {} /\ decided[EpochOf(p)][l] # None
        /\ held[p][l] \in {{}, proposed[EpochOf(p)][l]}
        /\ held[p][l] \subseteq pool[p].index

\* The list of p has no committed request, the index all that p knows of, and what
\* is marked as in flight is committed or held.
SoundAt(p) ==
    /\ Acceptable(pool[p], adding[p]) /\ Acceptable(pool[p], pool[p].list)
    /\ pool[p].list \cap Done(p) = {}
    /\ pool[p].list \cup Done(p) \subseteq pool[p].index
    /\ pool[p].flight \subseteq Done(p) \cup UNION {held[p][l] : l \in Peer}

PathInv ==
    /\ Types /\ EpochsInOrder /\ InStep /\ ProposalsNew
    /\ \A p \in Peer : HeldAt(p) /\ SoundAt(p)

-----------------------------------------------------------------------------
(* Helpers *)

\* The step of the rotation and its inverse.
LEMMA Rotation ==
    ASSUME NEW e \in Epoch
    PROVE  /\ (e + 1) % Epochs \in Epoch /\ Before(e) \in Epoch
           /\ Before(e) # e /\ (e + 1) % Epochs # e
           /\ Before((e + 1) % Epochs) = e
<1>1. Epochs \in Nat /\ Epochs >= 2 /\ e \in Nat /\ e < Epochs
  BY PathAssumption DEF Epoch
<1>2. \A x \in Nat : x < Epochs => x % Epochs = x
  BY <1>1
<1>3. \A x \in Nat : x < Epochs => (x + Epochs) % Epochs = x
  BY <1>1
<1>4. (e + 1) % Epochs = IF e + 1 = Epochs THEN 0 ELSE e + 1
  <2>1. e + 1 < Epochs => (e + 1) % Epochs = e + 1
    BY <1>1, <1>2
  <2>2. (0 + Epochs) % Epochs = 0
    BY <1>1, <1>3
  <2> QED
    BY <1>1, <2>1, <2>2
<1>5. Before(e) = IF e = 0 THEN Epochs - 1 ELSE e - 1
  <2>1. e = 0 => (e + Epochs - 1) % Epochs = Epochs - 1
    BY <1>1, <1>2
  <2>2. e # 0 => ((e - 1) + Epochs) % Epochs = e - 1
    BY <1>1, <1>3
  <2> QED
    BY <1>1, <2>1, <2>2 DEF Before
<1>6. (e + 1) % Epochs \in Epoch /\ Before(e) \in Epoch
  BY <1>1, <1>4, <1>5 DEF Epoch
<1>7. Before((e + 1) % Epochs) = e
  <2>1. CASE e + 1 = Epochs
    <3>1. (0 + Epochs - 1) % Epochs = Epochs - 1
      BY <1>1, <1>2
    <3> QED
      BY <1>1, <1>4, <2>1, <3>1 DEF Before
  <2>2. CASE e + 1 # Epochs
    <3>1. (e + Epochs) % Epochs = e
      BY <1>1, <1>3
    <3>2. (e + 1) + Epochs - 1 = e + Epochs
      BY <1>1
    <3> QED
      BY <1>1, <1>4, <2>2, <3>1, <3>2 DEF Before
  <2> QED
    BY <2>1, <2>2
<1> QED
  BY <1>1, <1>4, <1>5, <1>6, <1>7

LEMMA Numbers ==
    /\ MaxReq \in Nat /\ Window \in Nat /\ NumPeers \in Nat /\ NumPeers > 0
    /\ TheClient \notin Peer /\ Peer # {}
    /\ \A batch \in Reqs : batch # None
BY PoolAssumption, PathAssumption DEF Peer, TheClient, Reqs

LEMMA EpochType ==
    ASSUME Types, NEW p
    PROVE  /\ EpochOf(p) \in Epoch
           /\ EpochOf(p) = Before(newest) <=> p \in behind
BY Rotation DEF Types, EpochOf

LEMMA EntriesType ==
    ASSUME Types, EpochsInOrder, behind \cap Peer # {}
    PROVE  Entries(Before(newest)) \in Reqs
<1>1. Before(newest) \in Epoch
  BY Rotation DEF Types
<1>2. \A l \in Peer : decided[Before(newest)][l] \in Reqs
  BY <1>1 DEF Types, EpochsInOrder
<1> QED
  BY <1>2 DEF Entries, Reqs

LEMMA NewLowType ==
    ASSUME NEW low \in 0 .. MaxReq, NEW S \in Reqs
    PROVE  /\ NewLow(low, S) \in low .. MaxReq
           /\ low .. NewLow(low, S) - 1 \subseteq S
           /\ NewLow(low, S) \notin S
<1> DEFINE T == {k \in low .. MaxReq : k \notin S}
<1>1. MaxReq \in T /\ T \subseteq Nat
  BY Numbers DEF Reqs, Req
<1>2. PICK k \in T : \A j \in T : ~ (<<j, k>> \in OpToRel(<, Nat))
  BY <1>1, WFMin, NatLessThanWellFounded
<1>3. \A j \in T : ~ (j < k)
  BY <1>1, <1>2 DEF OpToRel
<1>4. low .. k - 1 \subseteq S
  <2> SUFFICES ASSUME NEW j \in low .. k - 1 PROVE j \in S
    OBVIOUS
  <2>1. j \in low .. MaxReq /\ j < k
    BY <1>1, Numbers
  <2> QED
    BY <2>1, <1>3
<1>5. \E i \in low .. MaxReq : low .. i - 1 \subseteq S /\ i \notin S
  BY <1>4
<1> HIDE DEF T
<1> QED
  BY <1>5 DEF NewLow

\* What AdvanceWatermark and PruneIndex do to a pool.
Advanced(A, P, done) ==
    LET passed == P.low .. A.low - 1
    IN  /\ A \in PoolType /\ A.low = NewLow(P.low, done)
        /\ A.committed = done \ passed /\ A.list = P.list
        /\ A.index = P.index \ passed /\ A.flight = P.flight \ passed

LEMMA AdvanceIs ==
    ASSUME NEW P \in PoolType, NEW S \in Reqs
    PROVE  Advanced(PruneIndex(AdvanceWatermark(P, S), P.low), P, P.committed \cup S)
<1> DEFINE done == P.committed \cup S
           A == AdvanceWatermark(P, S)
           B == PruneIndex(A, P.low)
           low == NewLow(P.low, done)
<1>1. done \in Reqs /\ P.low \in 0 .. MaxReq
  BY DEF PoolType, Reqs
<1>2. low \in 0 .. MaxReq
  BY <1>1, NewLowType, Numbers
<1>3. A = [P EXCEPT !.low = low, !.committed = done \ (P.low .. low - 1), !.backlog = {}]
  BY DEF AdvanceWatermark, NewLow
<1> HIDE DEF A, low
<1>4. /\ A \in PoolType /\ A.low = low /\ A.committed = done \ (P.low .. low - 1)
      /\ A.list = P.list /\ A.index = P.index /\ A.flight = P.flight
  BY <1>1, <1>2, <1>3 DEF PoolType, Reqs
<1>5. /\ B \in PoolType /\ B.low = low /\ B.committed = done \ (P.low .. low - 1)
      /\ B.list = P.list /\ B.index = P.index \ (P.low .. low - 1)
      /\ B.flight = P.flight \ (P.low .. low - 1)
  BY <1>4 DEF PruneIndex, PoolType, Reqs
<1> HIDE DEF B, done
<1>6. Advanced(B, P, done)
  BY <1>5 DEF Advanced, low
<1> QED
  BY <1>6 DEF A, B, done

-----------------------------------------------------------------------------
(* Steps within an epoch *)

\* The committed requests that InStep and ProposalsNew speak of are the same.
SameEpochs ==
    /\ newest' = newest /\ behind' \cap Peer = behind \cap Peer
    /\ \A p \in Peer : pool'[p].low = pool[p].low /\ pool'[p].committed = pool[p].committed

LEMMA EpochOfKept ==
    ASSUME SameEpochs, NEW p \in Peer
    PROVE  EpochOf(p)' = EpochOf(p) /\ (p \in behind' <=> p \in behind)
BY DEF SameEpochs, EpochOf

LEMMA InStepKept ==
    ASSUME Types, Types', EpochsInOrder, InStep, SameEpochs,
           behind \cap Peer # {} => decided'[Before(newest)] = decided[Before(newest)]
    PROVE  InStep'
<1>1. ASSUME NEW p \in Peer, NEW q \in Peer, EpochOf(p)' = EpochOf(q)'
      PROVE  pool'[p].low = pool'[q].low /\ pool'[p].committed = pool'[q].committed
  <2>1. EpochOf(p) = EpochOf(q)
    BY <1>1, EpochOfKept
  <2>2. pool[p].low = pool[q].low /\ pool[p].committed = pool[q].committed
    BY <2>1 DEF InStep
  <2> QED
    BY <2>2 DEF SameEpochs
<1>2. ASSUME NEW p \in Peer, NEW q \in Peer, p \in behind', q \notin behind',
             NEW done, done = pool'[p].committed \cup Entries(Before(newest))'
      PROVE  /\ pool'[q].low = NewLow(pool'[p].low, done)
             /\ pool'[q].committed = done \ (pool'[p].low .. pool'[q].low - 1)
  <2>1. p \in behind /\ q \notin behind
    BY <1>2, EpochOfKept
  <2>2. Entries(Before(newest))' = Entries(Before(newest))
    BY <2>1 DEF Entries, SameEpochs, Before
  <2>3. done = pool[p].committed \cup Entries(Before(newest))
    BY <1>2, <2>2 DEF SameEpochs
  <2>4. /\ pool[q].low = NewLow(pool[p].low, done)
        /\ pool[q].committed = done \ (pool[p].low .. pool[q].low - 1)
    BY <2>1, <2>3 DEF InStep
  <2> QED
    BY <2>4 DEF SameEpochs
<1> QED
  BY <1>1, <1>2 DEF InStep

\* A peer learns no other outcome than that it knows.
LEMMA DoneKept ==
    ASSUME Types, SameEpochs, NEW p \in Peer, HeldAt(p), logged'[p] = logged[p],
           \A l \in Peer : decided[EpochOf(p)][l] # None
                              => decided'[EpochOf(p)][l] = decided[EpochOf(p)][l]
    PROVE  Done(p)' = Done(p)
<1>1. EpochOf(p)' = EpochOf(p)
  BY EpochOfKept
<1>2. \A l \in logged[p] : decided'[EpochOf(p)][l] = decided[EpochOf(p)][l]
  BY DEF HeldAt, Types
<1>3. Done(p)' = pool[p].committed \cup UNION {decided'[EpochOf(p)][l] : l \in logged[p]}
  BY <1>1 DEF Done, SameEpochs
<1>4. {decided'[EpochOf(p)][l] : l \in logged[p]} = {decided[EpochOf(p)][l] : l \in logged[p]}
  BY <1>2
<1> QED
  BY <1>3, <1>4 DEF Done

\* What a step at p may change of the state that orders requests.
At(p) ==
    /\ SameEpochs
    /\ \A q \in Peer \ {p} : /\ pool'[q] = pool[q] /\ adding'[q] = adding[q]
                             /\ held'[q] = held[q] /\ logged'[q] = logged[q]
    /\ \A e \in Epoch \ {EpochOf(p)} : decided'[e] = decided[e] /\ proposed'[e] = proposed[e]
    /\ \A l \in Peer :
          /\ decided[EpochOf(p)][l] # None => decided'[EpochOf(p)][l] = decided[EpochOf(p)][l]
          /\ proposed[EpochOf(p)][l] # None => proposed'[EpochOf(p)][l] = proposed[EpochOf(p)][l]

LEMMA LocalKept ==
    ASSUME PathInv, NEW p \in Peer, At(p), NEW q \in Peer,
           pool'[q] = pool[q], adding'[q] = adding[q], held'[q] = held[q], logged'[q] = logged[q]
    PROVE  HeldAt(q)' /\ SoundAt(q)'
<1>1. EpochOf(q)' = EpochOf(q) /\ EpochOf(q) \in Epoch
  BY EpochOfKept, EpochType DEF At, PathInv
<1>2. HeldAt(q) /\ SoundAt(q)
  BY DEF PathInv
<1>3. \A l \in Peer :
          /\ decided[EpochOf(q)][l] # None => decided'[EpochOf(q)][l] = decided[EpochOf(q)][l]
          /\ proposed[EpochOf(q)][l] # None => proposed'[EpochOf(q)][l] = proposed[EpochOf(q)][l]
  BY <1>1 DEF At
<1>4. Done(q)' = Done(q)
  BY <1>2, <1>3, DoneKept DEF At, PathInv
<1>6. \A l \in Peer : held[q][l] \in Reqs
  BY DEF PathInv, Types
<1>7. HeldAt(q)'
  <2> SUFFICES ASSUME NEW l \in Peer
               PROVE  /\ l \in logged'[q] => held'[q][l] = {} /\ decided'[EpochOf(q)'][l] # None
                      /\ held'[q][l] \in {{}, proposed'[EpochOf(q)'][l]}
                      /\ held'[q][l] \subseteq pool'[q].index
    BY DEF HeldAt
  <2> QED
    BY <1>1, <1>2, <1>3, <1>6, Numbers DEF HeldAt
<1>8. SoundAt(q)'
  BY <1>2, <1>4 DEF SoundAt, Acceptable, Within, Ahead, Below
<1> QED
  BY <1>7, <1>8

\* A step at p keeps the invariant if it does so at p, and what may be proposed.
LEMMA StepAt ==
    ASSUME PathInv, NEW p \in Peer, At(p), Types', ProposalsNew', HeldAt(p)', SoundAt(p)'
    PROVE  PathInv'
<1> USE DEF PathInv
<1>1. /\ newest \in Epoch /\ newest' = newest /\ Before(newest) \in Epoch
      /\ EpochOf(p) \in Epoch
  BY Rotation, EpochType DEF Types, At, SameEpochs
<1>2. ASSUME behind \cap Peer # {}
      PROVE  decided'[Before(newest)] = decided[Before(newest)]
  <2>1. \A l \in Peer : decided'[Before(newest)][l] = decided[Before(newest)][l]
    BY <1>1, <1>2 DEF At, EpochsInOrder
  <2> QED
    BY <1>1, <2>1 DEF Types
<1>3. EpochsInOrder'
  <2>0. Peer \ behind' # {}
    BY DEF EpochsInOrder, At, SameEpochs
  <2>1. behind' \cap Peer # {} => \A l \in Peer : decided'[Before(newest)'][l] # None
    BY <1>1, <1>2 DEF EpochsInOrder, At, SameEpochs, Before
  <2>2. ASSUME NEW e \in Epoch, \A q \in Peer : e # EpochOf(q)', e # newest'
        PROVE  decided'[e] = NoBatch /\ proposed'[e] = NoBatch
    <3>1. \A q \in Peer : e # EpochOf(q)
      BY <2>2, EpochOfKept DEF At
    <3> QED
      BY <1>1, <2>2, <3>1 DEF EpochsInOrder, At
  <2> QED
    BY <2>0, <2>1, <2>2 DEF EpochsInOrder, NoBatch
<1>4. InStep'
  BY <1>2, InStepKept DEF At
<1>5. \A q \in Peer \ {p} : HeldAt(q)' /\ SoundAt(q)'
  BY LocalKept DEF At
<1> QED
  BY <1>3, <1>4, <1>5

LEMMA ProposalsKept ==
    ASSUME Types, ProposalsNew, SameEpochs, UNCHANGED <<proposed, decided>>
    PROVE  ProposalsNew'
<1> SUFFICES ASSUME NEW e \in Epoch, NEW l \in Peer
             PROVE  /\ decided[e][l] \in {None, {}, proposed[e][l]}
                    /\ proposed[e][l] # None =>
                          /\ \A r \in proposed[e][l] : GetBucketNr(r) \in BucketsOf(l, e)
                          /\ \A p \in Peer : EpochOf(p)' = e =>
                                /\ Acceptable(pool'[p], proposed[e][l])
                                /\ proposed[e][l] \cap pool'[p].committed = {}
  BY DEF ProposalsNew
<1>1. ASSUME NEW p \in Peer, EpochOf(p)' = e, proposed[e][l] # None
      PROVE  Acceptable(pool'[p], proposed[e][l]) /\ proposed[e][l] \cap pool'[p].committed = {}
  <2>1. EpochOf(p) = e
    BY <1>1, EpochOfKept
  <2>2. Acceptable(pool[p], proposed[e][l]) /\ proposed[e][l] \cap pool[p].committed = {}
    BY <1>1, <2>1 DEF ProposalsNew
  <2> QED
    BY <2>2 DEF SameEpochs, Acceptable, Within, Ahead, Below
<1> QED
  BY <1>1 DEF ProposalsNew

\* Steps of the client and of the network.
LEMMA QuietKept ==
    ASSUME PathInv, UNCHANGED <<newest, pool, adding, held, logged, proposed, decided>>,
           behind' \subseteq Follower, behind' \cap Peer = behind \cap Peer
    PROVE  PathInv'
<1> USE DEF PathInv
<1>1. PICK p \in Peer : TRUE
  BY Numbers
<1>2. At(p) /\ SameEpochs
  BY DEF At, SameEpochs
<1>3. Types'
  BY DEF Types
<1>4. ProposalsNew'
  BY <1>2, ProposalsKept
<1>5. HeldAt(p)' /\ SoundAt(p)'
  BY <1>2, LocalKept
<1> QED
  BY <1>2, <1>3, <1>4, <1>5, StepAt

\* A step that changes no more than the pool of p, and what is being added to it.
LEMMA PoolKept ==
    ASSUME PathInv, NEW p \in Peer, SameEpochs, UNCHANGED <<behind, held, logged, proposed, decided>>,
           NEW P \in PoolType, pool' = [pool EXCEPT ![p] = P],
           NEW S \in Reqs, adding' = [adding EXCEPT ![p] = S],
           Acceptable(pool[p], S), Acceptable(pool[p], P.list),
           P.list \cap Done(p) = {}, P.list \cup pool[p].index \subseteq P.index,
           P.flight = pool[p].flight
    PROVE  PathInv'
<1> USE DEF PathInv
<1>1. /\ pool'[p] = P /\ adding'[p] = S
      /\ \A q \in Peer \ {p} : pool'[q] = pool[q] /\ adding'[q] = adding[q]
  BY DEF Types
<1>2. At(p)
  BY <1>1 DEF At
<1>3. Types'
  BY DEF Types, SameEpochs
<1>4. ProposalsNew'
  BY ProposalsKept
<1>5. HeldAt(p) /\ SoundAt(p)
  OBVIOUS
<1>6. EpochOf(p)' = EpochOf(p) /\ Done(p)' = Done(p)
  BY <1>5, EpochOfKept, DoneKept
<1>7. HeldAt(p)'
  BY <1>1, <1>5, <1>6 DEF HeldAt
<1>8. Acceptable(pool'[p], adding'[p]) /\ Acceptable(pool'[p], pool'[p].list)
  BY <1>1 DEF SameEpochs, Acceptable, Within, Ahead, Below
<1>9. SoundAt(p)'
  BY <1>1, <1>5, <1>6, <1>8 DEF SoundAt
<1> QED
  BY <1>2, <1>3, <1>4, <1>7, <1>9, StepAt

LEMMA CheckWatermarksKept ==
    ASSUME PathInv, NEW p \in Peer, NEW r \in Req, CheckWatermarks(p, r)
    PROVE  PathInv'
<1> USE DEF PathInv
<1>1. /\ UNCHANGED <<newest, behind, held, logged, proposed, decided>>
      /\ HeldAt(p) /\ SoundAt(p) /\ pool[p] \in PoolType /\ adding[p] \in Reqs
  BY DEF CheckWatermarks, epochs, order, Types
<1>2. CASE pool' = [pool EXCEPT ![p] = AddToBacklog(@, r)] /\ UNCHANGED adding
  <2> DEFINE P == AddToBacklog(pool[p], r)
  <2>1. /\ P \in PoolType /\ P.low = pool[p].low /\ P.committed = pool[p].committed
        /\ P.list = pool[p].list /\ P.index = pool[p].index /\ P.flight = pool[p].flight
    BY <1>1 DEF AddToBacklog, PoolType, Reqs
  <2>2. pool' = [pool EXCEPT ![p] = P] /\ adding' = [adding EXCEPT ![p] = adding[p]]
    BY <1>2 DEF Types
  <2> HIDE DEF P
  <2>3. SameEpochs
    BY <1>1, <2>1, <2>2 DEF SameEpochs, Types
  <2> QED
    BY <1>1, <2>1, <2>2, <2>3, PoolKept DEF SoundAt
<1>3. CASE UNCHANGED <<pool, adding>>
  BY <1>1, <1>3, QuietKept DEF Types
<1>4. CASE Within(pool[p], r) /\ adding' = [adding EXCEPT ![p] = @ \cup {r}] /\ UNCHANGED pool
  <2> DEFINE S == adding[p] \cup {r}
  <2>1. S \in Reqs /\ Acceptable(pool[p], S)
    BY <1>1, <1>4 DEF Reqs, SoundAt, Acceptable
  <2>2. pool' = [pool EXCEPT ![p] = pool[p]] /\ adding' = [adding EXCEPT ![p] = S]
    BY <1>4 DEF Types
  <2> HIDE DEF S
  <2>3. SameEpochs
    BY <1>1, <1>4 DEF SameEpochs
  <2> QED
    BY <1>1, <2>1, <2>2, <2>3, PoolKept DEF SoundAt
<1> QED
  BY <1>2, <1>3, <1>4 DEF CheckWatermarks

LEMMA AddRequestKept ==
    ASSUME PathInv, NEW p \in Peer, NEW r \in Req, AddRequest(p, r)
    PROVE  PathInv'
<1> USE DEF PathInv
<1>1. /\ UNCHANGED <<newest, behind, held, logged, proposed, decided>>
      /\ HeldAt(p) /\ SoundAt(p) /\ pool[p] \in PoolType /\ adding[p] \in Reqs
      /\ r \in adding[p]
  BY DEF AddRequest, epochs, order, Types
<1> DEFINE P == AddToBucket(pool[p], {r})
           S == adding[p] \ {r}
<1>2. /\ P \in PoolType /\ P.low = pool[p].low /\ P.committed = pool[p].committed
      /\ P.list = pool[p].list \cup ({r} \ pool[p].index)
      /\ P.index = pool[p].index \cup {r} /\ P.flight = pool[p].flight
  BY <1>1 DEF AddToBucket, PoolType, Reqs
<1>3. pool' = [pool EXCEPT ![p] = P] /\ adding' = [adding EXCEPT ![p] = S]
  BY DEF AddRequest
<1> HIDE DEF P
<1>4. SameEpochs
  BY <1>1, <1>2, <1>3 DEF SameEpochs, Types
<1>5. S \in Reqs /\ Acceptable(pool[p], S) /\ Acceptable(pool[p], P.list)
  BY <1>1, <1>2 DEF SoundAt, Acceptable, Reqs
<1> HIDE DEF S
<1>6. P.list \cap Done(p) = {} /\ P.list \cup pool[p].index \subseteq P.index
  BY <1>1, <1>2 DEF SoundAt
<1> QED
  BY <1>1, <1>2, <1>3, <1>4, <1>5, <1>6, PoolKept

\* Different leaders propose different requests, and what is decided was proposed.
LEMMA LeadersApart ==
    ASSUME PathInv, NEW e \in Epoch, NEW l \in Peer, NEW k \in Peer, l # k,
           proposed[e][l] # None, decided[e][k] # None \/ proposed[e][k] # None
    PROVE  /\ decided[e][k] # None => proposed[e][l] \cap decided[e][k] = {}
           /\ proposed[e][k] # None => proposed[e][l] \cap proposed[e][k] = {}
<1>1. BucketsOf(l, e) \cap BucketsOf(k, e) = {}
  BY DEF BucketsOf
<1>2. proposed[e][k] # None => proposed[e][l] \cap proposed[e][k] = {}
  BY <1>1 DEF PathInv, ProposalsNew
<1>3. decided[e][k] \in {None, {}, proposed[e][k]}
  BY DEF PathInv, ProposalsNew
<1> QED
  BY <1>2, <1>3

\* A proposal that p waits for is new to it.
LEMMA ProposalIsNew ==
    ASSUME PathInv, NEW p \in Peer, NEW l \in Peer \ logged[p],
           NEW B, B = proposed[EpochOf(p)][l], B # None
    PROVE  /\ Acceptable(pool[p], B) /\ B \cap Done(p) = {}
           /\ \A k \in Peer \ {l} : B \cap held[p][k] = {}
<1> USE DEF PathInv
<1>1. EpochOf(p) \in Epoch /\ HeldAt(p)
  BY EpochType
<1>2. Acceptable(pool[p], B) /\ B \cap pool[p].committed = {}
  BY <1>1 DEF ProposalsNew
<1>3. \A k \in logged[p] : B \cap decided[EpochOf(p)][k] = {}
  <2> SUFFICES ASSUME NEW k \in logged[p] PROVE B \cap decided[EpochOf(p)][k] = {}
    OBVIOUS
  <2>1. k \in Peer /\ k # l /\ decided[EpochOf(p)][k] # None
    BY <1>1 DEF HeldAt, Types
  <2> QED
    BY <1>1, <2>1, LeadersApart
<1>4. \A k \in Peer \ {l} : B \cap held[p][k] = {}
  <2> SUFFICES ASSUME NEW k \in Peer \ {l}, held[p][k] # {} PROVE B \cap held[p][k] = {}
    OBVIOUS
  <2>1. held[p][k] = proposed[EpochOf(p)][k] /\ held[p][k] # None
    BY <1>1, Numbers DEF HeldAt, Types
  <2> QED
    BY <1>1, <2>1, LeadersApart
<1> QED
  BY <1>2, <1>3, <1>4 DEF Done

LEMMA ProposeKept ==
    ASSUME PathInv, NEW p \in Peer, Propose(p)
    PROVE  PathInv'
<1> USE DEF PathInv
<1> DEFINE e == EpochOf(p)
<1>1. PICK batch \in CutBatch(pool[p], BucketsOf(p, e)) :
          /\ proposed' = [proposed EXCEPT ![e][p] = batch]
          /\ held' = [held EXCEPT ![p][p] = batch]
          /\ pool' = [pool EXCEPT ![p] = MarkInFlight(RemoveBatch(@, batch), batch)]
  BY DEF Propose
<1>2. /\ UNCHANGED <<newest, behind, adding, logged, decided>>
      /\ proposed[e][p] = None /\ p \notin logged[p]
      /\ HeldAt(p) /\ SoundAt(p) /\ pool[p] \in PoolType /\ e \in Epoch
  BY EpochType DEF Propose, epochs, Types
<1>3. /\ batch \subseteq pool[p].list /\ batch \in Reqs
      /\ \A r \in batch : GetBucketNr(r) \in BucketsOf(p, e)
  BY <1>1, <1>2 DEF CutBatch, PoolType, Reqs
<1>4. /\ pool'[p] \in PoolType
      /\ pool'[p].low = pool[p].low /\ pool'[p].committed = pool[p].committed
      /\ pool'[p].list = pool[p].list \ batch /\ pool'[p].index = pool[p].index
      /\ pool'[p].flight = pool[p].flight \cup batch
      /\ pool' \in [Peer -> PoolType] /\ \A q \in Peer \ {p} : pool'[q] = pool[q]
  <2> DEFINE P == MarkInFlight(RemoveBatch(pool[p], batch), batch)
  <2>1. /\ P \in PoolType /\ P.low = pool[p].low /\ P.committed = pool[p].committed
        /\ P.list = pool[p].list \ batch /\ P.index = pool[p].index
        /\ P.flight = pool[p].flight \cup batch
    BY <1>2, <1>3 DEF MarkInFlight, RemoveBatch, PoolType, Reqs
  <2>2. pool' = [pool EXCEPT ![p] = P]
    BY <1>1
  <2> HIDE DEF P
  <2> QED
    BY <2>1, <2>2 DEF Types
<1>5. /\ held' \in [Peer -> [Peer -> Reqs]]
      /\ held'[p][p] = batch /\ \A l \in Peer \ {p} : held'[p][l] = held[p][l]
      /\ \A q \in Peer \ {p} : held'[q] = held[q]
  BY <1>1, <1>3 DEF Types
<1>6. /\ proposed' \in [Epoch -> [Peer -> {None} \cup Reqs]]
      /\ proposed'[e][p] = batch /\ \A l \in Peer \ {p} : proposed'[e][l] = proposed[e][l]
      /\ \A f \in Epoch \ {e} : proposed'[f] = proposed[f]
  BY <1>1, <1>2, <1>3 DEF Types
<1> HIDE DEF e
<1>7. SameEpochs
  BY <1>2, <1>4 DEF SameEpochs
<1>8. At(p)
  BY <1>2, <1>4, <1>5, <1>6, <1>7 DEF At, e
<1>9. Types'
  BY <1>2, <1>4, <1>5, <1>6 DEF Types
<1>10. ProposalsNew'
  <2> SUFFICES ASSUME NEW f \in Epoch, NEW l \in Peer
               PROVE  /\ decided'[f][l] \in {None, {}, proposed'[f][l]}
                      /\ proposed'[f][l] # None =>
                            /\ \A r \in proposed'[f][l] : GetBucketNr(r) \in BucketsOf(l, f)
                            /\ \A q \in Peer : EpochOf(q)' = f =>
                                  /\ Acceptable(pool'[q], proposed'[f][l])
                                  /\ proposed'[f][l] \cap pool'[q].committed = {}
    BY DEF ProposalsNew
  <2>1. \A q \in Peer : /\ EpochOf(q)' = EpochOf(q)
                        /\ pool'[q].committed = pool[q].committed
                        /\ \A S : Acceptable(pool'[q], S) <=> Acceptable(pool[q], S)
    BY <1>7, EpochOfKept DEF SameEpochs, Acceptable, Within, Ahead, Below
  <2>2. CASE f = e /\ l = p
    <3>1. decided'[f][l] \in {None, {}, proposed'[f][l]}
      BY <1>2, <2>2 DEF ProposalsNew
    <3>2. ASSUME NEW q \in Peer, EpochOf(q) = e
          PROVE  Acceptable(pool[q], batch) /\ batch \cap pool[q].committed = {}
      <4>1. pool[q].low = pool[p].low /\ pool[q].committed = pool[p].committed
        BY <3>2 DEF InStep, e
      <4>2. Acceptable(pool[p], batch) /\ batch \cap pool[p].committed = {}
        BY <1>2, <1>3 DEF SoundAt, Done, Acceptable
      <4> QED
        BY <4>1, <4>2 DEF Acceptable, Within, Ahead, Below
    <3> QED
      BY <1>3, <1>6, <2>1, <2>2, <3>1, <3>2
  <2>3. CASE ~ (f = e /\ l = p)
    <3>1. proposed'[f][l] = proposed[f][l] /\ decided'[f][l] = decided[f][l]
      BY <1>2, <1>6, <2>3
    <3> QED
      BY <2>1, <3>1 DEF ProposalsNew
  <2> QED
    BY <2>2, <2>3
<1>11. EpochOf(p)' = e /\ Done(p)' = Done(p)
  BY <1>2, <1>7, EpochOfKept, DoneKept DEF e
<1>12. held[p][p] = {}
  <2>1. held[p][p] \in Reqs
    BY DEF Types
  <2>2. held[p][p] \in {{}, None}
    BY <1>2 DEF HeldAt, e
  <2> QED
    BY <2>1, <2>2, Numbers
<1>13. HeldAt(p)'
  <2> SUFFICES ASSUME NEW l \in Peer
               PROVE  /\ l \in logged[p] => held'[p][l] = {} /\ decided[e][l] # None
                      /\ held'[p][l] \in {{}, proposed'[e][l]}
                      /\ held'[p][l] \subseteq pool'[p].index
    BY <1>2, <1>11 DEF HeldAt
  <2>1. CASE l = p
    BY <1>2, <1>3, <1>4, <1>5, <1>6, <2>1 DEF SoundAt
  <2>2. CASE l # p
    BY <1>2, <1>4, <1>5, <1>6, <2>2 DEF HeldAt, e
  <2> QED
    BY <2>1, <2>2
<1>14. SoundAt(p)'
  <2>1. Acceptable(pool'[p], adding'[p]) /\ Acceptable(pool'[p], pool'[p].list)
    BY <1>2, <1>4 DEF SoundAt, Acceptable, Within, Ahead, Below
  <2>2. pool'[p].flight \subseteq Done(p) \cup UNION {held'[p][l] : l \in Peer}
    <3>1. \A l \in Peer : held[p][l] \subseteq held'[p][l]
      BY <1>5, <1>12
    <3> QED
      BY <1>2, <1>4, <1>5, <3>1 DEF SoundAt
  <2> QED
    BY <1>2, <1>4, <1>11, <2>1, <2>2 DEF SoundAt
<1> QED
  BY <1>8, <1>9, <1>10, <1>13, <1>14, StepAt

LEMMA AcceptKept ==
    ASSUME PathInv, NEW p \in Peer, NEW l \in Peer, Accept(p, l)
    PROVE  PathInv'
<1> USE DEF PathInv
<1> DEFINE batch == proposed[EpochOf(p)][l]
           P == MarkInFlight(NewBatch(pool[p], batch), batch)
<1>1. /\ UNCHANGED <<newest, behind, adding, logged, proposed, decided>>
      /\ l \notin logged[p] /\ held[p][l] = {} /\ batch # None
      /\ HeldAt(p) /\ SoundAt(p) /\ pool[p] \in PoolType /\ EpochOf(p) \in Epoch
  BY EpochType DEF Accept, Awaited, epochs, order, Types
<1>2. held' = [held EXCEPT ![p][l] = batch] /\ pool' = [pool EXCEPT ![p] = P]
  BY DEF Accept
<1>3. batch \in Reqs
  BY <1>1 DEF Types
<1>4. /\ P \in PoolType /\ P.low = pool[p].low /\ P.committed = pool[p].committed
      /\ P.list = pool[p].list \cup (batch \ pool[p].index)
      /\ P.index = pool[p].index \cup batch /\ P.flight = pool[p].flight \cup batch
  BY <1>1, <1>3 DEF MarkInFlight, NewBatch, AddToBucket, PoolType, Reqs
<1>5. Acceptable(pool[p], batch) /\ batch \cap Done(p) = {}
  BY <1>1, ProposalIsNew
<1> HIDE DEF P, batch
<1>6. /\ pool' \in [Peer -> PoolType] /\ pool'[p] = P
      /\ \A q \in Peer \ {p} : pool'[q] = pool[q]
  BY <1>2, <1>4 DEF Types
<1>7. /\ held' \in [Peer -> [Peer -> Reqs]]
      /\ held'[p][l] = batch /\ \A k \in Peer \ {l} : held'[p][k] = held[p][k]
      /\ \A q \in Peer \ {p} : held'[q] = held[q]
  BY <1>2, <1>3 DEF Types
<1>8. SameEpochs
  BY <1>1, <1>4, <1>6 DEF SameEpochs
<1>9. At(p)
  BY <1>1, <1>6, <1>7, <1>8 DEF At
<1>10. Types'
  BY <1>1, <1>6, <1>7 DEF Types
<1>11. ProposalsNew'
  BY <1>1, <1>8, ProposalsKept
<1>12. EpochOf(p)' = EpochOf(p) /\ Done(p)' = Done(p)
  BY <1>1, <1>8, EpochOfKept, DoneKept
<1>13. HeldAt(p)'
  <2> SUFFICES ASSUME NEW k \in Peer
               PROVE  /\ k \in logged[p] => held'[p][k] = {} /\ decided[EpochOf(p)][k] # None
                      /\ held'[p][k] \in {{}, proposed[EpochOf(p)][k]}
                      /\ held'[p][k] \subseteq pool'[p].index
    BY <1>1, <1>12 DEF HeldAt
  <2>1. CASE k = l
    BY <1>1, <1>4, <1>6, <1>7, <2>1 DEF batch
  <2>2. CASE k # l
    BY <1>1, <1>4, <1>6, <1>7, <2>2 DEF HeldAt
  <2> QED
    BY <2>1, <2>2
<1>14. SoundAt(p)'
  <2>1. Acceptable(pool'[p], adding'[p]) /\ Acceptable(pool'[p], pool'[p].list)
    BY <1>1, <1>4, <1>5, <1>6 DEF SoundAt, Acceptable, Within, Ahead, Below
  <2>2. pool'[p].flight \subseteq Done(p) \cup UNION {held'[p][k] : k \in Peer}
    <3>1. \A k \in Peer : held[p][k] \subseteq held'[p][k]
      BY <1>1, <1>7
    <3> QED
      BY <1>1, <1>4, <1>6, <1>7, <3>1 DEF SoundAt
  <2>3. pool'[p].list \cap Done(p) = {} /\ pool'[p].list \cup Done(p) \subseteq pool'[p].index
    BY <1>1, <1>4, <1>5, <1>6 DEF SoundAt
  <2> QED
    BY <1>12, <2>1, <2>2, <2>3 DEF SoundAt
<1> QED
  BY <1>9, <1>10, <1>11, <1>13, <1>14, StepAt

\* A is the pool P that held was and learned that batch is decided.
Settled(A, P, was, batch) ==
    /\ A \in PoolType /\ A.low = P.low /\ A.committed = P.committed
    /\ A.list = (P.list \cup was) \ batch
    /\ A.index = P.index \cup batch
    /\ A.flight \subseteq (P.flight \ was) \cup batch

\* What Settle does to a pool that held all or nothing of the proposal B.
LEMMA SettleIs ==
    ASSUME NEW P \in PoolType, NEW B, NEW was \in Reqs, NEW batch \in Reqs,
           was \in {{}, B}, batch \in {{}, B}, was \subseteq P.index
    PROVE  Settled(Settle(P, was, batch), P, was, batch)
<1> DEFINE A == Settle(P, was, batch)
<1> HIDE DEF A
<1> USE DEF Settled
<1> SUFFICES Settled(A, P, was, batch)
  BY DEF A
<1>1. CASE was = batch
  <2>1. A = RemoveBatch(P, batch)
    BY <1>1 DEF Settle, A
  <2> QED
    BY <1>1, <2>1 DEF RemoveBatch, PoolType, Reqs
<1>2. CASE was = {} /\ batch # {}
  <2>1. A = RemoveBatch(MarkInFlight(NewBatch(P, batch), batch), batch)
    BY <1>2 DEF Settle, A
  <2>2. A = [P EXCEPT !.list = (@ \cup (batch \ P.index)) \ batch, !.index = @ \cup batch,
                      !.flight = @ \cup batch]
    BY <2>1 DEF RemoveBatch, MarkInFlight, NewBatch, AddToBucket, PoolType
  <2> QED
    BY <1>2, <2>2 DEF PoolType, Reqs
<1>3. CASE was # {} /\ batch = {}
  <2>1. A = RemoveBatch(MarkInFlight(NewBatch(Resurrect(P, was), {}), {}), {})
    BY <1>3 DEF Settle, A
  <2>2. A = [P EXCEPT !.list = @ \cup was, !.flight = @ \ was]
    <3> DEFINE R == Resurrect(P, was)
    <3>1. R = [P EXCEPT !.list = @ \cup was, !.flight = @ \ was] /\ R \in PoolType
      BY DEF Resurrect, PoolType, Reqs
    <3> HIDE DEF R
    <3>2. NewBatch(R, {}) = R
      BY <3>1 DEF NewBatch, AddToBucket, PoolType
    <3>3. MarkInFlight(R, {}) = R /\ RemoveBatch(R, {}) = R
      BY <3>1 DEF MarkInFlight, RemoveBatch, PoolType
    <3> QED
      BY <2>1, <3>1, <3>2, <3>3 DEF R
  <2> QED
    BY <1>3, <2>2 DEF PoolType, Reqs
<1> QED
  BY <1>1, <1>2, <1>3

\* What p learns of l is its proposal or nothing, and what has been decided.
LEMMA OutcomeIs ==
    ASSUME PathInv, NEW p \in Peer, NEW l \in Peer, NEW batch \in Outcomes(EpochOf(p), l)
    PROVE  /\ batch \in Reqs /\ batch \in {{}, proposed[EpochOf(p)][l]}
           /\ decided[EpochOf(p)][l] # None => batch = decided[EpochOf(p)][l]
<1>1. EpochOf(p) \in Epoch
  BY EpochType DEF PathInv
<1>2. /\ decided[EpochOf(p)][l] \in {None, {}, proposed[EpochOf(p)][l]}
      /\ proposed[EpochOf(p)][l] \in {None} \cup Reqs
  BY <1>1 DEF PathInv, ProposalsNew, Types
<1>3. {} \in Reqs
  BY DEF Reqs
<1>4. CASE decided[EpochOf(p)][l] # None
  BY <1>2, <1>3, <1>4 DEF Outcomes
<1>5. CASE decided[EpochOf(p)][l] = None
  BY <1>2, <1>3, <1>5 DEF Outcomes
<1> QED
  BY <1>4, <1>5

LEMMA LearnKept ==
    ASSUME PathInv, NEW p \in Peer, NEW l \in Peer, Learn(p, l)
    PROVE  PathInv'
<1> USE DEF PathInv
<1> DEFINE e == EpochOf(p)
<1>0. PICK was : was = held[p][l]
  OBVIOUS
<1>1. PICK batch \in Outcomes(e, l) :
          /\ decided' = [decided EXCEPT ![e][l] = batch]
          /\ logged' = [logged EXCEPT ![p] = @ \cup {l}]
          /\ held' = [held EXCEPT ![p][l] = {}]
          /\ pool' = [pool EXCEPT ![p] = Settle(@, held[p][l], batch)]
  BY DEF Learn
<1>2. /\ UNCHANGED <<newest, behind, adding, proposed>>
      /\ l \notin logged[p]
      /\ HeldAt(p) /\ SoundAt(p) /\ pool[p] \in PoolType /\ e \in Epoch
  BY EpochType DEF Learn, epochs, Types
<1>3. /\ batch \in Reqs /\ batch # None /\ batch \in {{}, proposed[e][l]}
      /\ decided[e][l] # None => batch = decided[e][l]
  BY OutcomeIs, Numbers
<1>4. was \in Reqs /\ was \in {{}, proposed[e][l]} /\ was \subseteq pool[p].index
  BY <1>0, <1>2 DEF HeldAt, Types
<1>5. Acceptable(pool[p], was) /\ was \cap Done(p) = {}
  <2>1. CASE was = {}
    BY <2>1 DEF Acceptable
  <2>2. CASE was # {}
    <3>1. was = proposed[e][l] /\ was # None
      BY <1>4, <2>2, Numbers
    <3> QED
      BY <1>2, <3>1, ProposalIsNew
  <2> QED
    BY <2>1, <2>2
<1>6. PICK P : P = Settle(pool[p], was, batch)
  OBVIOUS
<1> HIDE DEF e
<1>7. /\ P \in PoolType /\ P.low = pool[p].low /\ P.committed = pool[p].committed
      /\ P.list = (pool[p].list \cup was) \ batch /\ P.index = pool[p].index \cup batch
      /\ P.flight \subseteq (pool[p].flight \ was) \cup batch
  <2>1. PICK B : B = proposed[e][l]
    OBVIOUS
  <2>2. Settled(P, pool[p], was, batch)
    BY <1>2, <1>3, <1>4, <1>6, <2>1, SettleIs
  <2> QED
    BY <2>2 DEF Settled
<1>8. /\ pool' \in [Peer -> PoolType] /\ pool'[p] = P
      /\ \A q \in Peer \ {p} : pool'[q] = pool[q]
  BY <1>0, <1>1, <1>6, <1>7 DEF Types
<1>9. /\ decided' \in [Epoch -> [Peer -> {None} \cup Reqs]]
      /\ decided'[e][l] = batch /\ \A k \in Peer \ {l} : decided'[e][k] = decided[e][k]
      /\ \A f \in Epoch \ {e} : decided'[f] = decided[f]
  BY <1>1, <1>2, <1>3 DEF Types
<1>10. /\ logged' \in [Peer -> SUBSET Peer] /\ logged'[p] = logged[p] \cup {l}
       /\ \A q \in Peer \ {p} : logged'[q] = logged[q]
  BY <1>1 DEF Types
<1>11. /\ held' \in [Peer -> [Peer -> Reqs]]
       /\ held'[p][l] = {} /\ \A k \in Peer \ {l} : held'[p][k] = held[p][k]
       /\ \A q \in Peer \ {p} : held'[q] = held[q]
  BY <1>1 DEF Types, Reqs
<1>12. SameEpochs
  BY <1>2, <1>7, <1>8 DEF SameEpochs
<1>13. At(p)
  BY <1>2, <1>3, <1>8, <1>9, <1>10, <1>11, <1>12 DEF At, e
<1>14. Types'
  BY <1>2, <1>8, <1>9, <1>10, <1>11 DEF Types
<1>15. ProposalsNew'
  <2> SUFFICES ASSUME NEW f \in Epoch, NEW k \in Peer
               PROVE  /\ decided'[f][k] \in {None, {}, proposed'[f][k]}
                      /\ proposed'[f][k] # None =>
                            /\ \A r \in proposed'[f][k] : GetBucketNr(r) \in BucketsOf(k, f)
                            /\ \A q \in Peer : EpochOf(q)' = f =>
                                  /\ Acceptable(pool'[q], proposed'[f][k])
                                  /\ proposed'[f][k] \cap pool'[q].committed = {}
    BY DEF ProposalsNew
  <2>1. \A q \in Peer : /\ EpochOf(q)' = EpochOf(q)
                        /\ pool'[q].committed = pool[q].committed
                        /\ \A S : Acceptable(pool'[q], S) <=> Acceptable(pool[q], S)
    BY <1>12, EpochOfKept DEF SameEpochs, Acceptable, Within, Ahead, Below
  <2>2. decided'[f][k] \in {None, {}, proposed'[f][k]}
    BY <1>2, <1>3, <1>9 DEF ProposalsNew
  <2> QED
    BY <1>2, <2>1, <2>2 DEF ProposalsNew
<1>16. EpochOf(p)' = e
  BY <1>12, EpochOfKept DEF e
<1>17. Done(p)' = Done(p) \cup batch
  <2>1. \A k \in logged[p] : k \in Peer /\ k # l /\ decided'[e][k] = decided[e][k]
    BY <1>2, <1>9 DEF Types
  <2>2. Done(p)' = pool'[p].committed \cup UNION {decided'[EpochOf(p)'][k] : k \in logged'[p]}
    BY DEF Done
  <2>3. UNION {decided'[e][k] : k \in logged'[p]}
            = (UNION {decided[e][k] : k \in logged[p]}) \cup batch
    <3>1. ASSUME NEW r
          PROVE  (\E k \in logged'[p] : r \in decided'[e][k])
                   <=> (r \in batch \/ \E k \in logged[p] : r \in decided[e][k])
      BY <1>9, <1>10, <2>1
    <3> QED
      BY <3>1
  <2>4. Done(p) = pool[p].committed \cup UNION {decided[e][k] : k \in logged[p]}
    BY DEF Done, e
  <2>5. pool'[p].committed = pool[p].committed
    BY <1>7, <1>8
  <2> QED
    BY <1>16, <2>2, <2>3, <2>4, <2>5
<1>18. HeldAt(p)'
  <2> SUFFICES ASSUME NEW k \in Peer
               PROVE  /\ k \in logged'[p] => held'[p][k] = {} /\ decided'[e][k] # None
                      /\ held'[p][k] \in {{}, proposed[e][k]}
                      /\ held'[p][k] \subseteq pool'[p].index
    BY <1>2, <1>16 DEF HeldAt
  <2>1. CASE k = l
    BY <1>3, <1>9, <1>11, <2>1
  <2>2. CASE k # l
    <3>1. /\ k \in logged[p] => held[p][k] = {} /\ decided[e][k] # None
          /\ held[p][k] \in {{}, proposed[e][k]} /\ held[p][k] \subseteq pool[p].index
      BY <1>2 DEF HeldAt, e
    <3>2. /\ held'[p][k] = held[p][k] /\ decided'[e][k] = decided[e][k]
          /\ k \in logged'[p] => k \in logged[p]
      BY <1>9, <1>10, <1>11, <2>2
    <3>3. pool[p].index \subseteq pool'[p].index
      BY <1>7, <1>8
    <3> QED
      BY <3>1, <3>2, <3>3
  <2> QED
    BY <2>1, <2>2
<1>19. SoundAt(p)'
  <2>1. Acceptable(pool'[p], adding'[p]) /\ Acceptable(pool'[p], pool'[p].list)
    BY <1>2, <1>5, <1>7, <1>8 DEF SoundAt, Acceptable, Within, Ahead, Below
  <2>2. pool'[p].list \cap Done(p)' = {} /\ pool'[p].list \cup Done(p)' \subseteq pool'[p].index
    BY <1>2, <1>4, <1>5, <1>7, <1>8, <1>17 DEF SoundAt
  <2>3. pool'[p].flight \subseteq Done(p)' \cup UNION {held'[p][k] : k \in Peer}
    <3>1. UNION {held[p][k] : k \in Peer} \subseteq was \cup UNION {held'[p][k] : k \in Peer}
      BY <1>0, <1>11
    <3> QED
      BY <1>2, <1>7, <1>8, <1>17, <3>1 DEF SoundAt
  <2> QED
    BY <2>1, <2>2, <2>3 DEF SoundAt
<1> QED
  BY <1>13, <1>14, <1>15, <1>18, <1>19, StepAt

-----------------------------------------------------------------------------
(* The step to the next epoch *)

\* A peer that stays where it is, in an epoch that is not forgotten.
LEMMA UnmovedKept ==
    ASSUME NEW q \in Peer, HeldAt(q), SoundAt(q), EpochOf(q)' = EpochOf(q),
           pool'[q] = pool[q], adding'[q] = adding[q], held'[q] = held[q], logged'[q] = logged[q],
           decided'[EpochOf(q)] = decided[EpochOf(q)], proposed'[EpochOf(q)] = proposed[EpochOf(q)]
    PROVE  HeldAt(q)' /\ SoundAt(q)'
<1>1. Done(q)' = Done(q)
  <2>1. Done(q)' = pool'[q].committed \cup UNION {decided'[EpochOf(q)'][l] : l \in logged'[q]}
    BY DEF Done
  <2> QED
    BY <2>1 DEF Done
<1>2. HeldAt(q)'
  BY DEF HeldAt
<1>3. SoundAt(q)'
  BY <1>1 DEF SoundAt, Acceptable, Within, Ahead, Below
<1> QED
  BY <1>2, <1>3

\* The newest epoch before and after p has moved, where the others are, and
\* which epochs are forgotten.
Moves(p) ==
    /\ newest' \in Epoch /\ behind' \subseteq Follower /\ p \notin behind'
    /\ EpochOf(p)' = newest'
    /\ \A q \in Peer \ {p} : EpochOf(q)' = EpochOf(q)
    /\ \/ /\ p \in behind /\ newest' = newest /\ EpochOf(p) = Before(newest)
          /\ behind' = behind \ {p}
       \/ /\ behind = {} /\ newest' # newest /\ EpochOf(p) = newest
          /\ Before(newest') = newest /\ behind' = Follower \ {p}
    /\ \A f \in Epoch :
          IF f = EpochOf(p) /\ behind' \cap Peer = {}
          THEN decided'[f] = NoBatch /\ proposed'[f] = NoBatch
          ELSE decided'[f] = decided[f] /\ proposed'[f] = proposed[f]

LEMMA ForgetIs ==
    ASSUME Types, NEW p \in Peer, AdvanceWatermarks(p)
    PROVE  \A f \in Epoch :
               IF f = EpochOf(p) /\ behind' \cap Peer = {}
               THEN decided'[f] = NoBatch /\ proposed'[f] = NoBatch
               ELSE decided'[f] = decided[f] /\ proposed'[f] = proposed[f]
<1>1. EpochOf(p) \in Epoch
  BY EpochType
<1>2. CASE behind' \cap Peer = {}
  <2>1. /\ decided' = [decided EXCEPT ![EpochOf(p)] = NoBatch]
        /\ proposed' = [proposed EXCEPT ![EpochOf(p)] = NoBatch]
    BY <1>2 DEF AdvanceWatermarks
  <2> QED
    BY <1>1, <1>2, <2>1 DEF Types
<1>3. CASE behind' \cap Peer # {}
  <2>1. decided' = decided /\ proposed' = proposed
    BY <1>3 DEF AdvanceWatermarks
  <2> QED
    BY <1>3, <2>1
<1> QED
  BY <1>2, <1>3

LEMMA AdvanceMoves ==
    ASSUME Types, NEW p \in Peer, AdvanceWatermarks(p)
    PROVE  Moves(p)
<1>1. CASE p \in behind
  <2>1. behind' = behind \ {p} /\ newest' = newest
    BY <1>1 DEF AdvanceWatermarks, NextEpoch
  <2>2. /\ EpochOf(p)' = newest' /\ EpochOf(p) = Before(newest)
        /\ \A q \in Peer \ {p} : EpochOf(q)' = EpochOf(q)
    BY <1>1, <2>1 DEF EpochOf, Before
  <2> QED
    BY <1>1, <2>1, <2>2, ForgetIs DEF Moves, Types
<1>2. CASE p \notin behind
  <2>1. behind = {} /\ behind' = Follower \ {p} /\ newest' = (newest + 1) % Epochs
    BY <1>2 DEF AdvanceWatermarks, NextEpoch
  <2>2. newest' \in Epoch /\ newest' # newest /\ Before(newest') = newest
    BY <2>1, Rotation DEF Types
  <2>3. /\ EpochOf(p)' = newest' /\ EpochOf(p) = newest
        /\ \A q \in Peer \ {p} : EpochOf(q)' = EpochOf(q)
    BY <2>1, <2>2 DEF EpochOf, Before, Follower
  <2> QED
    BY <2>1, <2>2, <2>3, ForgetIs DEF Moves
<1> QED
  BY <1>1, <1>2

\* The state of p when it leaves its epoch, and what it takes from there.
Leaves(p) ==
    /\ logged[p] = Peer /\ adding[p] = {} /\ UNCHANGED <<adding, held>>
    /\ \A l \in Peer : held[p][l] = {} /\ decided[EpochOf(p)][l] # None
    /\ Done(p) = pool[p].committed \cup Entries(EpochOf(p)) /\ Done(p) \in Reqs
    /\ Advanced(pool'[p], pool[p], Done(p)) /\ logged'[p] = {}
    /\ \A q \in Peer \ {p} : pool'[q] = pool[q] /\ logged'[q] = logged[q]
    /\ pool' \in [Peer -> PoolType] /\ logged' \in [Peer -> SUBSET Peer]

LEMMA AdvanceLeaves ==
    ASSUME PathInv, NEW p \in Peer, AdvanceWatermarks(p)
    PROVE  Leaves(p)
<1> USE DEF PathInv
<1>1. /\ logged[p] = Peer /\ adding[p] = {} /\ UNCHANGED <<adding, held>>
      /\ HeldAt(p) /\ pool[p] \in PoolType /\ EpochOf(p) \in Epoch
  BY EpochType DEF AdvanceWatermarks, WriteLocked, Types
<1>2. \A l \in Peer : held[p][l] = {} /\ decided[EpochOf(p)][l] # None
  BY <1>1 DEF HeldAt
<1>3. Done(p) = pool[p].committed \cup Entries(EpochOf(p))
  BY <1>1 DEF Done, Entries
<1>4. PICK S : S = Entries(EpochOf(p))
  OBVIOUS
<1>5. S \in Reqs
  <2>1. \A l \in Peer : decided[EpochOf(p)][l] \in Reqs
    BY <1>1, <1>2 DEF Types
  <2> QED
    BY <1>4, <2>1 DEF Entries, Reqs
<1>6. Done(p) \in Reqs
  BY <1>1, <1>3, <1>4, <1>5 DEF PoolType, Reqs
<1>7. PICK A : A = PruneIndex(AdvanceWatermark(pool[p], S), pool[p].low)
  OBVIOUS
<1>8. Advanced(A, pool[p], Done(p))
  BY <1>1, <1>3, <1>4, <1>5, <1>7, AdvanceIs
<1>9. pool' = [pool EXCEPT ![p] = A] /\ logged' = [logged EXCEPT ![p] = {}]
  BY <1>4, <1>7 DEF AdvanceWatermarks, Entries
<1>10. A \in PoolType
  BY <1>8 DEF Advanced
<1>11. /\ pool'[p] = A /\ logged'[p] = {}
       /\ \A q \in Peer \ {p} : pool'[q] = pool[q] /\ logged'[q] = logged[q]
       /\ pool' \in [Peer -> PoolType] /\ logged' \in [Peer -> SUBSET Peer]
  BY <1>9, <1>10 DEF Types
<1> QED
  BY <1>1, <1>2, <1>3, <1>6, <1>8, <1>11 DEF Leaves

\* The window that p has left behind contains no request of its list.
LEMMA MovedSound ==
    ASSUME PathInv, NEW p \in Peer, Leaves(p)
    PROVE  HeldAt(p)' /\ SoundAt(p)'
<1> USE DEF PathInv
<1>1. HeldAt(p)'
  BY DEF Leaves, HeldAt
<1>2. PICK done : done = Done(p)
  OBVIOUS
<1>3. PICK P : P = pool[p]
  OBVIOUS
<1>4. PICK A : A = pool'[p]
  OBVIOUS
<1>5. /\ done \in Reqs /\ P \in PoolType /\ P.low \in 0 .. MaxReq
      /\ A \in PoolType /\ A.low = NewLow(P.low, done)
      /\ A.committed = done \ (P.low .. A.low - 1) /\ A.list = P.list
      /\ A.index = P.index \ (P.low .. A.low - 1)
      /\ A.flight = P.flight \ (P.low .. A.low - 1)
  BY <1>2, <1>3, <1>4 DEF Leaves, Advanced, Types, PoolType
<1>6. A.low \in P.low .. MaxReq /\ P.low .. A.low - 1 \subseteq done
  BY <1>5, NewLowType
<1>7. /\ Acceptable(P, P.list) /\ P.list \cap done = {} /\ P.list \cup done \subseteq P.index
      /\ P.flight \subseteq done
  BY <1>2, <1>3 DEF SoundAt, Leaves
<1>8. Done(p)' = A.committed
  BY <1>4 DEF Leaves, Done
<1>9. Acceptable(A, A.list)
  <2> SUFFICES ASSUME NEW r \in A.list PROVE Within(A, r)
    BY DEF Acceptable
  <2>1. r \in Int /\ r \notin P.low .. A.low - 1 /\ Within(P, r)
    BY <1>5, <1>6, <1>7 DEF Acceptable, PoolType, Reqs, Req
  <2> QED
    BY <1>5, <1>6, <2>1, Numbers DEF Within, Ahead, Below
<1>10. A.list \cap A.committed = {} /\ A.list \cup A.committed \subseteq A.index
  BY <1>5, <1>6, <1>7
<1>11. A.flight \subseteq A.committed
  BY <1>5, <1>7
<1>12. Acceptable(A, adding'[p])
  BY DEF Leaves, Acceptable
<1> QED
  BY <1>1, <1>4, <1>8, <1>9, <1>10, <1>11, <1>12 DEF SoundAt

\* A peer that follows to the newest epoch gets there what the others have.
LEMMA CatchesUp ==
    ASSUME PathInv, NEW p \in Peer, Leaves(p), Moves(p), p \in behind, NEW q \in Peer \ behind
    PROVE  pool'[p].low = pool[q].low /\ pool'[p].committed = pool[q].committed
<1>1. EpochOf(p) = Before(newest)
  BY EpochType DEF PathInv
<1>2. Done(p) = pool[p].committed \cup Entries(Before(newest))
  BY <1>1 DEF Leaves
<1>3. /\ pool[q].low = NewLow(pool[p].low, Done(p))
      /\ pool[q].committed = Done(p) \ (pool[p].low .. pool[q].low - 1)
  BY <1>2 DEF PathInv, InStep
<1> QED
  BY <1>3 DEF Leaves, Advanced

LEMMA MovedEpochs ==
    ASSUME PathInv, NEW p \in Peer, Leaves(p), Moves(p)
    PROVE  EpochsInOrder'
<1> USE DEF PathInv
<1>1. EpochOf(p) \in Epoch /\ EpochOf(p) = Before(newest') /\ newest \in Epoch
  BY EpochType DEF Moves, Types
<1>2. Peer \ behind' # {}
  BY DEF Moves
<1>3. ASSUME behind' \cap Peer # {}, NEW l \in Peer
      PROVE  decided'[Before(newest')][l] # None
  <2>1. decided'[EpochOf(p)] = decided[EpochOf(p)]
    BY <1>1, <1>3 DEF Moves
  <2> QED
    BY <1>1, <2>1 DEF Leaves
<1>4. ASSUME NEW f \in Epoch, \A q \in Peer : f # EpochOf(q)', f # newest'
      PROVE  decided'[f] = NoBatch /\ proposed'[f] = NoBatch
  <2>1. CASE f = EpochOf(p)
    <3>1. \A q \in Peer : q \notin behind'
      BY <1>1, <1>4, <2>1 DEF EpochOf, Before
    <3> QED
      BY <2>1, <3>1 DEF Moves
  <2>2. CASE f # EpochOf(p)
    <3>1. \A q \in Peer : f # EpochOf(q)
      BY <1>4, <2>2 DEF Moves
    <3>2. f # newest
      BY <1>4, <2>2 DEF Moves
    <3> QED
      BY <2>2, <3>1, <3>2 DEF EpochsInOrder, Moves
  <2> QED
    BY <2>1, <2>2
<1>5. \A l \in Peer : behind' \cap Peer # {} => decided'[Before(newest)'][l] # None
  BY <1>3 DEF Before
<1> QED
  BY <1>2, <1>4, <1>5 DEF EpochsInOrder, NoBatch

LEMMA MovedInStep ==
    ASSUME PathInv, NEW p \in Peer, Leaves(p), Moves(p)
    PROVE  InStep'
<1> USE DEF PathInv
<1>1. EpochOf(p) \in Epoch /\ EpochOf(p) = Before(newest')
  BY EpochType DEF Moves, Types
<1>2. \A q \in Peer \ {p} : pool'[q] = pool[q] /\ EpochOf(q)' = EpochOf(q)
  BY DEF Leaves, Moves
<1>3. ASSUME NEW a \in Peer, NEW b \in Peer, a # p, b # p, EpochOf(a)' = EpochOf(b)'
      PROVE  pool'[a].low = pool'[b].low /\ pool'[a].committed = pool'[b].committed
  <2>1. EpochOf(a) = EpochOf(b) /\ pool'[a] = pool[a] /\ pool'[b] = pool[b]
    BY <1>2, <1>3
  <2>2. pool[a].low = pool[b].low /\ pool[a].committed = pool[b].committed
    BY <2>1 DEF InStep
  <2> QED
    BY <2>1, <2>2
<1>4. ASSUME NEW b \in Peer, b # p, EpochOf(b)' = newest'
      PROVE  pool'[p].low = pool'[b].low /\ pool'[p].committed = pool'[b].committed
  <2>1. p \in behind /\ EpochOf(b) = newest /\ newest \in Epoch
    BY <1>2, <1>4 DEF Moves, EpochOf, Types
  <2>2. b \notin behind
    BY <2>1, Rotation DEF EpochOf
  <2> QED
    BY <1>2, <1>4, <2>1, <2>2, CatchesUp
<1>5. ASSUME NEW a \in Peer, NEW b \in Peer, EpochOf(a)' = EpochOf(b)'
      PROVE  pool'[a].low = pool'[b].low /\ pool'[a].committed = pool'[b].committed
  BY <1>3, <1>4, <1>5 DEF Moves
<1>6. ASSUME NEW a \in Peer, NEW b \in Peer, a \in behind', b \notin behind'
      PROVE  LET done == pool'[a].committed \cup Entries(Before(newest))'
             IN  /\ pool'[b].low = NewLow(pool'[a].low, done)
                 /\ pool'[b].committed = done \ (pool'[a].low .. pool'[b].low - 1)
  <2>1. a # p /\ EpochOf(a) = EpochOf(p) /\ pool'[a] = pool[a]
    BY <1>1, <1>2, <1>6 DEF Moves, EpochOf
  <2>2. /\ pool[a].low = pool[p].low /\ pool[a].committed = pool[p].committed
    BY <2>1 DEF InStep
  <2>3. Entries(Before(newest))' = Entries(EpochOf(p))
    <3>1. decided'[EpochOf(p)] = decided[EpochOf(p)]
      BY <1>1, <1>6 DEF Moves
    <3>2. Entries(Before(newest))' = UNION {decided'[EpochOf(p)][l] : l \in Peer}
      BY <1>1 DEF Entries, Before
    <3> QED
      BY <3>1, <3>2 DEF Entries
  <2>4. /\ pool'[p].low = NewLow(pool[p].low, Done(p))
        /\ pool'[p].committed = Done(p) \ (pool[p].low .. pool'[p].low - 1)
        /\ Done(p) = pool[p].committed \cup Entries(EpochOf(p))
    BY DEF Leaves, Advanced
  <2>5. pool'[b].low = pool'[p].low /\ pool'[b].committed = pool'[p].committed
    <3>1. EpochOf(b)' = newest' /\ EpochOf(p)' = newest'
      BY <1>6 DEF Moves, EpochOf
    <3> QED
      BY <1>5, <3>1
  <2> QED
    BY <2>1, <2>2, <2>3, <2>4, <2>5
<1> QED
  BY <1>5, <1>6 DEF InStep

LEMMA MovedProposals ==
    ASSUME PathInv, NEW p \in Peer, Leaves(p), Moves(p)
    PROVE  ProposalsNew'
<1> USE DEF PathInv
<1> SUFFICES ASSUME NEW f \in Epoch, NEW l \in Peer
             PROVE  /\ decided'[f][l] \in {None, {}, proposed'[f][l]}
                    /\ proposed'[f][l] # None =>
                          /\ \A r \in proposed'[f][l] : GetBucketNr(r) \in BucketsOf(l, f)
                          /\ \A q \in Peer : EpochOf(q)' = f =>
                                /\ Acceptable(pool'[q], proposed'[f][l])
                                /\ proposed'[f][l] \cap pool'[q].committed = {}
  BY DEF ProposalsNew
<1>1. CASE f = EpochOf(p) /\ behind' \cap Peer = {}
  BY <1>1 DEF Moves, NoBatch
<1>2. CASE ~ (f = EpochOf(p) /\ behind' \cap Peer = {})
  <2>1. decided'[f] = decided[f] /\ proposed'[f] = proposed[f]
    BY <1>2 DEF Moves
  <2>2. ASSUME NEW q \in Peer \ {p}, EpochOf(q)' = f, proposed[f][l] # None
        PROVE  Acceptable(pool'[q], proposed[f][l]) /\ proposed[f][l] \cap pool'[q].committed = {}
    <3>1. EpochOf(q) = f /\ pool'[q] = pool[q]
      BY <2>2 DEF Moves, Leaves
    <3>2. Acceptable(pool[q], proposed[f][l]) /\ proposed[f][l] \cap pool[q].committed = {}
      BY <2>2, <3>1 DEF ProposalsNew
    <3> QED
      BY <3>1, <3>2 DEF Acceptable, Within, Ahead, Below
  <2>3. ASSUME EpochOf(p)' = f, proposed[f][l] # None
        PROVE  Acceptable(pool'[p], proposed[f][l]) /\ proposed[f][l] \cap pool'[p].committed = {}
    <3>1. f = newest'
      BY <2>3 DEF Moves
    <3>2. CASE p \in behind
      <4>1. PICK q \in Peer : q \notin behind
        BY DEF EpochsInOrder
      <4>2. EpochOf(q) = f
        BY <3>1, <3>2, <4>1 DEF Moves, EpochOf
      <4>3. Acceptable(pool[q], proposed[f][l]) /\ proposed[f][l] \cap pool[q].committed = {}
        BY <2>3, <4>2 DEF ProposalsNew
      <4>4. pool'[p].low = pool[q].low /\ pool'[p].committed = pool[q].committed
        BY <3>2, <4>1, CatchesUp
      <4> QED
        BY <4>3, <4>4 DEF Acceptable, Within, Ahead, Below
    <3>3. CASE p \notin behind
      <4>1. f # newest /\ \A q \in Peer : f # EpochOf(q)
        BY <3>1, <3>3 DEF Moves, EpochOf
      <4>2. proposed[f] = NoBatch
        BY <4>1 DEF EpochsInOrder
      <4> QED
        BY <2>3, <4>2 DEF NoBatch
    <3> QED
      BY <3>2, <3>3
  <2> QED
    BY <2>1, <2>2, <2>3 DEF ProposalsNew
<1> QED
  BY <1>1, <1>2

LEMMA AdvanceWatermarksKept ==
    ASSUME PathInv, NEW p \in Peer, AdvanceWatermarks(p)
    PROVE  PathInv'
<1> USE DEF PathInv
<1>1. Leaves(p) /\ Moves(p)
  BY AdvanceLeaves, AdvanceMoves
<1>2. Types'
  <2>1. /\ decided' \in [Epoch -> [Peer -> {None} \cup Reqs]]
        /\ proposed' \in [Epoch -> [Peer -> {None} \cup Reqs]]
    <3>1. NoBatch \in [Peer -> {None} \cup Reqs]
      BY DEF NoBatch
    <3>2. CASE behind' \cap Peer = {}
      <4>1. /\ decided' = [decided EXCEPT ![EpochOf(p)] = NoBatch]
            /\ proposed' = [proposed EXCEPT ![EpochOf(p)] = NoBatch]
        BY <3>2 DEF AdvanceWatermarks
      <4> QED
        BY <3>1, <4>1 DEF Types
    <3>3. CASE behind' \cap Peer # {}
      <4>1. decided' = decided /\ proposed' = proposed
        BY <3>3 DEF AdvanceWatermarks
      <4> QED
        BY <4>1 DEF Types
    <3> QED
      BY <3>2, <3>3
  <2> QED
    BY <1>1, <2>1 DEF Types, Leaves, Moves
<1>3. EpochsInOrder' /\ InStep' /\ ProposalsNew'
  BY <1>1, MovedEpochs, MovedInStep, MovedProposals
<1>4. ASSUME NEW q \in Peer, q # p
      PROVE  HeldAt(q)' /\ SoundAt(q)'
  <2>1. /\ EpochOf(q)' = EpochOf(q) /\ EpochOf(q) \in Epoch /\ pool'[q] = pool[q]
        /\ adding'[q] = adding[q] /\ held'[q] = held[q] /\ logged'[q] = logged[q]
    BY <1>1, <1>4, EpochType DEF Leaves, Moves
  <2>2. EpochOf(q) = EpochOf(p) => behind' \cap Peer # {}
    <3>1. EpochOf(p) # newest'
      BY <1>1, Rotation DEF Moves, Types
    <3> QED
      BY <2>1, <3>1 DEF EpochOf
  <2>3. /\ decided'[EpochOf(q)] = decided[EpochOf(q)]
        /\ proposed'[EpochOf(q)] = proposed[EpochOf(q)]
    BY <1>1, <2>1, <2>2 DEF Moves
  <2> QED
    BY <2>1, <2>3, UnmovedKept
<1>5. HeldAt(p)' /\ SoundAt(p)'
  BY <1>1, MovedSound
<1> QED
  BY <1>2, <1>3, <1>4, <1>5

-----------------------------------------------------------------------------
(* The theorems *)

LEMMA InitKept == Init => PathInv
<1> SUFFICES ASSUME Init PROVE PathInv
  OBVIOUS
<1>1. /\ newest = 0 /\ behind = {} /\ 0 \in Epoch /\ 0 \in 0 .. MaxReq
  BY PathAssumption, Numbers DEF Init, Epoch
<1>2. \A p \in Peer : /\ pool[p] = NewBuffer /\ adding[p] = {} /\ logged[p] = {}
                      /\ \A l \in Peer : held[p][l] = {}
  BY DEF Init
<1>3. \A e \in Epoch : decided[e] = NoBatch /\ proposed[e] = NoBatch
  BY DEF Init
<1>4. Types
  <2>1. NewBuffer \in PoolType /\ NoBatch \in [Peer -> {None} \cup Reqs] /\ {} \in Reqs
    BY <1>1 DEF NewBuffer, PoolType, NoBatch, Reqs
  <2> QED
    BY <1>1, <2>1 DEF Init, Types
<1>5. EpochsInOrder
  BY <1>1, <1>3, Numbers DEF EpochsInOrder
<1>6. InStep
  BY <1>1, <1>2 DEF InStep
<1>7. ProposalsNew
  BY <1>3 DEF ProposalsNew, NoBatch
<1>8. \A p \in Peer : HeldAt(p)
  BY <1>2 DEF HeldAt
<1>9. ASSUME NEW p \in Peer PROVE SoundAt(p)
  <2>1. Done(p) = {} /\ pool[p].list = {} /\ pool[p].flight = {} /\ adding[p] = {}
    BY <1>2 DEF Done, NewBuffer
  <2> QED
    BY <2>1 DEF SoundAt, Acceptable
<1> QED
  BY <1>4, <1>5, <1>6, <1>7, <1>8, <1>9 DEF PathInv

LEMMA StepKept == PathInv /\ [Next]_vars => PathInv'
<1> SUFFICES ASSUME PathInv, [Next]_vars PROVE PathInv'
  OBVIOUS
<1> USE DEF PathInv, epochs, order
<1>1. CASE SubmitRequest
  BY <1>1, QuietKept DEF SubmitRequest, Types
<1>2. CASE RegisterAssignment
  <2>1. behind' \subseteq Follower /\ behind' \cap Peer = behind \cap Peer
    BY <1>2, Numbers DEF RegisterAssignment, Types
  <2> QED
    BY <1>2, <2>1, QuietKept DEF RegisterAssignment
<1>3. CASE ResubmitPending
  BY <1>3, QuietKept DEF ResubmitPending, Types
<1>4. ASSUME NEW r \in Req, RegisterResponse(r)
      PROVE  PathInv'
  <2>1. UNCHANGED <<pool, adding, epochs, held, logged, order>>
    BY <1>4 DEF RegisterResponse
  <2> QED
    BY <2>1, QuietKept DEF Types
<1>5. ASSUME NEW p \in Peer, Work(p)
      PROVE  PathInv'
  BY <1>5, CheckWatermarksKept, AddRequestKept DEF Work
<1>6. ASSUME NEW p \in Peer, Order(p)
      PROVE  PathInv'
  BY <1>6, ProposeKept, LearnKept, AdvanceWatermarksKept DEF Order
<1>7. ASSUME NEW p \in Peer, NEW l \in Peer, Accept(p, l)
      PROVE  PathInv'
  BY <1>7, AcceptKept
<1>8. CASE UNCHANGED vars
  BY <1>8, QuietKept DEF vars, Types
<1> QED
  BY <1>1, <1>2, <1>3, <1>4, <1>5, <1>6, <1>7, <1>8 DEF Next

LEMMA PathInvHolds == Spec => []PathInv
<1>1. QED
  BY InitKept, StepKept, PTL DEF Spec

\* A peer that has to put a batch back, because another one was decided, finds each of
\* its requests in the index of the bucket (Prepend panics on one that is not there,
\* bucket.go:256-260), and whatever is in a list is indexed (bucket.go:48-50): pruning
\* and the watermark never take an entry that is still needed.
THEOREM IndexAlwaysCovers == Spec => []IndexCovers
<1>1. PathInv => IndexCovers
  BY DEF PathInv, HeldAt, SoundAt, IndexCovers
<1> QED
  BY <1>1, PathInvHolds, PTL

\* No follower refuses what a leader of its epoch has proposed, by its watermarks, by
\* the requests it holds as in flight or by the bucket assignment, and what is decided
\* can be added by every peer that has still to learn it (pbftinstance.go:370-385,
\* 619-620).
THEOREM FollowersAlwaysAccept == Spec => []FollowersAccept
<1>1. ASSUME PathInv, NEW p \in Peer, NEW l \in Peer, Awaited(p, l)
      PROVE  ~Refuses(p, l)
  <2>1. PICK B : B = proposed[EpochOf(p)][l]
    OBVIOUS
  <2>2. EpochOf(p) \in Epoch /\ l \in Peer \ logged[p] /\ held[p][l] = {} /\ B # None
    BY <1>1, <2>1, EpochType DEF PathInv, Awaited
  <2>3. /\ Acceptable(pool[p], B) /\ B \cap Done(p) = {}
        /\ \A k \in Peer \ {l} : B \cap held[p][k] = {}
    BY <1>1, <2>1, <2>2, ProposalIsNew
  <2>4. CheckInFlight(pool[p], B)
    <3>1. pool[p].flight \subseteq Done(p) \cup UNION {held[p][k] : k \in Peer}
      BY <1>1 DEF PathInv, SoundAt
    <3> QED
      BY <2>2, <2>3, <3>1 DEF CheckInFlight
  <2>5. \A r \in B : GetBucketNr(r) \in BucketsOf(l, EpochOf(p))
    BY <1>1, <2>1, <2>2 DEF PathInv, ProposalsNew
  <2> QED
    BY <2>1, <2>3, <2>4, <2>5 DEF Refuses
<1>2. ASSUME PathInv, NEW p \in Peer, NEW l \in Peer \ logged[p], decided[EpochOf(p)][l] # None
      PROVE  Acceptable(pool[p], decided[EpochOf(p)][l])
  <2>1. PICK B : B = proposed[EpochOf(p)][l]
    OBVIOUS
  <2>2. decided[EpochOf(p)][l] \in {{}, B}
    BY <1>2, <2>1, EpochType DEF PathInv, ProposalsNew
  <2>3. B # None => Acceptable(pool[p], B)
    BY <1>2, <2>1, ProposalIsNew
  <2> QED
    BY <1>2, <2>2, <2>3 DEF Acceptable
<1>3. PathInv => FollowersAccept
  BY <1>1, <1>2 DEF FollowersAccept
<1> QED
  BY <1>3, PathInvHolds, PTL

\* What is proposed and not decided yet is in no log and in no decision.
LEMMA ProposalNotOrdered ==
    ASSUME PathInv, NEW p \in Peer, NEW l \in Peer \ logged[p],
           NEW B, B = proposed[EpochOf(p)][l], B # None, decided[EpochOf(p)][l] = None
    PROVE  B \cap Ordered = {}
<1> USE DEF PathInv
<1>1. /\ EpochOf(p) \in Epoch /\ B \in Reqs
      /\ p \notin behind /\ EpochOf(p) = newest
  BY EpochType DEF EpochsInOrder, Types, EpochOf
<1>2. \A q \in Peer : pool[q] \in PoolType /\ pool[q].low \in Nat /\ pool[q].low \in 0 .. MaxReq
  BY Numbers DEF Types, PoolType
<1>3. \A q \in Peer : EpochOf(q) = EpochOf(p)
          => Acceptable(pool[q], B) /\ B \cap pool[q].committed = {}
  BY <1>1 DEF ProposalsNew
<1>4. ASSUME NEW q \in Peer, NEW r \in B, EpochOf(q) = EpochOf(p)
      PROVE  ~ (r < pool[q].low) /\ r \notin pool[q].committed
  BY <1>3, <1>4 DEF Acceptable, Within, Below
<1>5. ASSUME NEW q \in Peer, NEW r \in B, q \in behind
      PROVE  ~ (r < pool[q].low) /\ r \notin pool[q].committed \cup Entries(Before(newest))
  <2>1. PICK done : done = pool[q].committed \cup Entries(Before(newest))
    OBVIOUS
  <2>2. /\ pool[p].low = NewLow(pool[q].low, done)
        /\ pool[p].committed = done \ (pool[q].low .. pool[p].low - 1)
    BY <1>1, <1>5, <2>1 DEF InStep
  <2>3. done \in Reqs
    <3>1. PICK S : S = Entries(Before(newest))
      OBVIOUS
    <3>2. S \in Reqs
      BY <1>5, <3>1, EntriesType
    <3> QED
      BY <1>2, <2>1, <3>1, <3>2 DEF PoolType, Reqs
  <2>4. pool[p].low \in pool[q].low .. MaxReq
    BY <1>2, <2>2, <2>3, NewLowType
  <2>5. ~ (r < pool[p].low) /\ r \notin pool[p].committed
    BY <1>4
  <2>6. r \in Int
    BY <1>1 DEF Reqs, Req
  <2> QED
    BY <1>2, <2>1, <2>2, <2>4, <2>5, <2>6
<1>6. ASSUME NEW q \in Peer
      PROVE  B \cap (0 .. pool[q].low - 1 \cup pool[q].committed) = {}
  <2>1. q \in behind \/ EpochOf(q) = EpochOf(p)
    BY <1>1 DEF EpochOf
  <2>2. \A r \in B : r \in Int
    BY <1>1 DEF Reqs, Req
  <2> QED
    BY <1>2, <1>4, <1>5, <2>1, <2>2
<1>7. ASSUME NEW f \in Epoch, NEW m \in Peer, decided[f][m] # None
      PROVE  B \cap decided[f][m] = {}
  <2>1. CASE f = EpochOf(p)
    BY <1>1, <1>7, <2>1, LeadersApart
  <2>2. CASE f # EpochOf(p)
    <3>1. PICK q \in Peer : f = EpochOf(q)
      BY <1>1, <1>7, <2>2 DEF EpochsInOrder, NoBatch
    <3>2. q \in behind /\ f = Before(newest)
      BY <1>1, <2>2, <3>1 DEF EpochOf
    <3>3. decided[f][m] \subseteq Entries(Before(newest))
      BY <3>2 DEF Entries
    <3> QED
      BY <1>5, <3>2, <3>3
  <2> QED
    BY <2>1, <2>2
<1>8. ASSUME NEW r \in Ordered
      PROVE  \/ \E q \in Peer : r \in 0 .. pool[q].low - 1 \cup pool[q].committed
             \/ \E f \in Epoch, m \in Peer : decided[f][m] # None /\ r \in decided[f][m]
  <2> DEFINE inLog(q) == 0 .. pool[q].low - 1 \cup pool[q].committed
             chosen(f) == UNION {decided[f][m] : m \in {k \in Peer : decided[f][k] # None}}
  <2>1. r \in (UNION {inLog(q) : q \in Peer}) \cup UNION {chosen(f) : f \in Epoch}
    BY <1>8 DEF Ordered
  <2>2. \A f : r \in chosen(f) => \E m \in Peer : decided[f][m] # None /\ r \in decided[f][m]
    OBVIOUS
  <2> HIDE DEF chosen
  <2> QED
    BY <2>1, <2>2
<1> QED
  BY <1>6, <1>7, <1>8

\* A batch that is decided for the first time contains no request that a log or another
\* decision has: not though clients send every request to several peers and again to the
\* next leaders, copies arrive after the commit, and peers put the requests of a
\* proposal that was given up back into their buckets (bucket.go:357-363).
THEOREM RequestsOrderedOnce == Spec => OrderedOnce
<1> DEFINE Fresh(e, l) ==
        decided[e][l] = None /\ decided'[e][l] # None => decided'[e][l] \cap Ordered = {}
<1>1. ASSUME PathInv, NEW p \in Peer, NEW k \in Peer, Learn(p, k), NEW e \in Epoch, NEW l \in Peer
      PROVE  Fresh(e, l)
  <2> SUFFICES ASSUME decided[e][l] = None, decided'[e][l] # None
               PROVE  decided'[e][l] \cap Ordered = {}
    OBVIOUS
  <2>1. PICK batch \in Outcomes(EpochOf(p), k) :
            decided' = [decided EXCEPT ![EpochOf(p)][k] = batch]
    BY <1>1 DEF Learn
  <2>2. EpochOf(p) \in Epoch /\ k \notin logged[p]
    BY <1>1, EpochType DEF PathInv, Learn
  <2>3. e = EpochOf(p) /\ l = k /\ decided'[e][l] = batch
    BY <1>1, <2>1, <2>2 DEF PathInv, Types
  <2>4. batch # None /\ batch \in {{}, proposed[EpochOf(p)][k]}
    BY <1>1, <2>3, OutcomeIs
  <2> QED
    BY <1>1, <2>2, <2>3, <2>4, ProposalNotOrdered
<1>2. ASSUME PathInv, NEW p \in Peer, AdvanceWatermarks(p), NEW e \in Epoch, NEW l \in Peer
      PROVE  Fresh(e, l)
  <2>1. decided'[e] = NoBatch \/ decided'[e] = decided[e]
    BY <1>2, AdvanceMoves DEF PathInv, Moves
  <2> QED
    BY <2>1 DEF NoBatch
<1>3. ASSUME PathInv, UNCHANGED decided, NEW e \in Epoch, NEW l \in Peer
      PROVE  Fresh(e, l)
  BY <1>3
<1>4. ASSUME PathInv, [Next]_vars
      PROVE  \/ UNCHANGED decided
             \/ \E p \in Peer : AdvanceWatermarks(p) \/ \E k \in Peer : Learn(p, k)
  BY <1>4 DEF Next, vars, order, SubmitRequest, RegisterAssignment, ResubmitPending,
              RegisterResponse, Work, Order, CheckWatermarks, AddRequest, Propose, Accept
<1>5. PathInv /\ [Next]_vars => \A e \in Epoch, l \in Peer : Fresh(e, l)
  BY <1>1, <1>2, <1>3, <1>4
<1>6. PathInv /\ [Next]_vars
          => [\A e \in Epoch, l \in Peer : Fresh(e, l)]_vars
  BY <1>5
<1> QED
  BY <1>6, PathInvHolds, PTL DEF Spec, OrderedOnce

=============================================================================
