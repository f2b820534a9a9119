------------------------------ MODULE MpxProofs ------------------------------
(* Theorems about MpxInstance, for any group, window, requests and bounds.   *)
(* The types, that no request is lost and what stands behind an entry hold   *)
(* whatever tick does and whoever learns late of the group; the others hold  *)
(* as long as no proposer gives its batch up ("giveup" \notin Ticks), after  *)
(* which members may disagree (mpx_give_up.cfg).                             *)
EXTENDS MpxInstance, FiniteSetTheorems, TLAPS

-----------------------------------------------------------------------------
(* The inductive invariant *)

\* What is cut, and not committed, is filed at the proposer.
HeldFiled == \A s \in SN : held[s] \subseteq index[Proposer(s)]

Typed == TypeOK /\ HeldFiled

\* An ACCEPT that is out has a value.
SentValue == \A n \in Node, s \in SN : phase[n][s] = "acceptSent" => lastVal[n][s] # None

Value(s) == lastVal[Proposer(s)][s]

\* An SN has one value: the first that its proposer cut.
OneValue ==
    \A s \in SN :
        /\ held[s] \in {Nop, Value(s)}
        /\ \A n \in Node : /\ lastVal[n][s] \in {None, Value(s)}
                           /\ log[n][s] \in {None, Value(s)}
                           /\ pending[n][s] \in {None, Value(s)}
                           /\ \A e \in accepted[n][s] : e[2] = Value(s)
        /\ \A m \in msgs : m.type \in {"accept", "commit"} /\ m.sn = s => m.val = Value(s)

Decided(s) == \E n \in Node : log[n][s] # None

\* A COMMIT comes from a member that has the value in its log.
CommitsDecided ==
    /\ \A m \in msgs : m.type = "commit" => Decided(m.sn)
    /\ \A n \in Node, s \in SN : pending[n][s] # None => Decided(s)

\* Under Single, the batches cut are apart from each other and from the bucket.
CutOnce ==
    Single => \A s \in SN :
        Value(s) # None =>
            /\ Value(s) \subseteq index[Proposer(s)]
            /\ Value(s) \cap bucket[Proposer(s)] = {}
            /\ \A t \in SN \ {s} : Value(t) = None \/ Value(s) \cap Value(t) = {}

Safe == TypeOK /\ HeldFiled /\ SentValue /\ OneValue /\ CommitsDecided /\ CutOnce

Acceptors(s) == {n \in Node : accepted[n][s] # {}}

\* An ACCEPT for s is out with v, or was.
Asked(s, v) ==
    \/ \E n \in Node : \E e \in accepted[n][s] : e[2] = v
    \/ \E m \in msgs : m.type = "accept" /\ m.sn = s /\ m.val = v

\* The instance of s is over at its proposer, as GiveUp leaves it; nothing changes it.
GaveUp(s) ==
    /\ joined[Proposer(s)][s] /\ prepared[Proposer(s)][s]
    /\ phase[Proposer(s)][s] = "committed"
    /\ log[Proposer(s)][s] # None /\ held[s] = Nop

\* The proposer proposes once it knows the group, and who sent an ACCEPTED has
\* accepted; only a late member may count without knowing the group.
VotesGiven ==
    /\ \A n \in Node, s \in SN :
          /\ n = Proposer(s) \/ joined[n][s] \/ n \in Late
          /\ acceptedFrom[n][s] \subseteq Acceptors(s)
          /\ accepted[n][s] # {} => joined[Proposer(s)][s]
    /\ \A s \in SN : phase[Proposer(s)][s] = "acceptSent" =>
          joined[Proposer(s)][s] /\ prepared[Proposer(s)][s] /\ log[Proposer(s)][s] = None
    /\ \A m \in msgs :
          /\ m.type = "accept" => joined[Proposer(m.sn)][m.sn]
          /\ m.type = "accepted" => m.from \in Acceptors(m.sn)

\* One value is asked for; until the proposer gives up it is the proposer's own.
OneAsked == \A s \in SN : \A v, w \in Batch : Asked(s, v) /\ Asked(s, w) => v = w
Proposed ==
    \A s \in SN : \/ GaveUp(s)
                  \/ /\ held[s] \in {Nop, Value(s)}
                     /\ log[Proposer(s)][s] \in {None, Value(s)}
                     /\ \A v \in Batch : Asked(s, v) => v = Value(s)

\* A member's value is one it accepted, one that something stands behind, or the
\* proposer's before it is decided there; something stands behind every COMMIT.
Knows(n, s) ==
    \/ lastVal[n][s] = None \/ n \in Accepters(s, lastVal[n][s]) \/ Backed(s, lastVal[n][s])
    \/ n = Proposer(s) /\ log[n][s] = None
Learnt ==
    /\ \A n \in Node, s \in SN :
          /\ Knows(n, s)
          /\ log[n][s] # None => Backed(s, log[n][s])
          /\ pending[n][s] # None => Backed(s, pending[n][s])
    /\ \A m \in msgs : m.type = "commit" => Backed(m.sn, m.val)

Sound == Typed /\ SentValue /\ VotesGiven /\ OneAsked /\ Proposed /\ Learnt

-----------------------------------------------------------------------------
(* Helpers *)

LEMMA ProposerIsNode ==
    ASSUME NEW s \in SN
    PROVE  Proposer(s) \in Node
<1>1. Members \in Seq(Node) /\ Members # << >> /\ s \in Nat
  BY GroupAssumption
<1>2. Len(Members) \in Nat /\ Len(Members) > 0
  BY <1>1
<1>3. s % Len(Members) \in 0 .. Len(Members) - 1
  BY <1>1, <1>2
<1>4. (s % Len(Members)) + 1 \in 1 .. Len(Members) /\ 1 \in 1 .. Len(Members)
  BY <1>2, <1>3
<1> QED
  BY <1>1, <1>4 DEF Proposer

LEMMA BatchType ==
    /\ Nop \in Batch /\ None \notin Batch
    /\ \A B \in Batch : B \subseteq Req /\ B # None
BY GroupAssumption, FS_EmptySet DEF Batch, Nop

\* What Set does to a field of the instances.
LEMMA SetType ==
    ASSUME NEW T, NEW f \in [Node -> [SN -> T]], NEW n \in Node, NEW s \in SN, NEW v \in T
    PROVE  /\ Set(f, n, s, v) \in [Node -> [SN -> T]]
           /\ \A k \in Node, t \in SN :
                 Set(f, n, s, v)[k][t] = IF k = n /\ t = s THEN v ELSE f[k][t]
BY DEF Set

\* What the type of a message says of its fields.
LEMMA MessageType ==
    ASSUME NEW m \in Message
    PROVE  /\ m.sn \in SN /\ m.to \in Node
           /\ m.type \in {"prepare", "promise", "accepted", "accept"} => m.ballot \in Ballot
           /\ m.type \in {"promise", "accepted"} => m.from \in Node
           /\ m.type \in {"accept", "commit"} => m.val \in Batch
BY DEF Message

\* What the messages sent say.
LEMMA SentPrepare ==
    ASSUME NEW s \in SN, NEW b \in Ballot, NEW o \in Prepare(s, b)
    PROVE  o \in Message /\ o.type = "prepare"
BY DEF Prepare, ToAll, Message

LEMMA SentPromise ==
    ASSUME NEW s \in SN, NEW b \in Ballot, NEW n \in Node, NEW o \in Promise(s, b, n)
    PROVE  o \in Message /\ o.type = "promise"
BY DEF Promise, ToAll, Message

LEMMA SentAccept ==
    ASSUME NEW s \in SN, NEW b \in Ballot, NEW v \in Batch, NEW o \in Accept(s, b, v)
    PROVE  o \in Message /\ o.type = "accept" /\ o.sn = s /\ o.val = v
BY DEF Accept, ToAll, Message

LEMMA SentAccepted ==
    ASSUME NEW s \in SN, NEW b \in Ballot, NEW n \in Node, NEW o \in Accepted(s, b, n)
    PROVE  o \in Message /\ o.type = "accepted" /\ o.sn = s /\ o.from = n
<1> DEFINE a == [type |-> "accepted", sn |-> s, ballot |-> b, from |-> n, to |-> n]
<1>1. o = a \/ \E k \in Node : o = [a EXCEPT !.to = k]
  BY DEF Accepted, ToAll
<1> QED
  BY <1>1 DEF Message

LEMMA SentCommit ==
    ASSUME NEW s \in SN, NEW v \in Batch, NEW o \in Commit(s, v)
    PROVE  o \in Message /\ o.type = "commit" /\ o.sn = s /\ o.val = v
BY DEF Commit, ToAll, Message

LEMMA SentFetch ==
    ASSUME NEW s \in SN, NEW n \in Node, NEW o \in Fetch(s, n)
    PROVE  o \in Message /\ o.type = "fetch"
BY DEF Fetch, Message

-----------------------------------------------------------------------------
(* Types *)

\* The groups of variables, so that a step can leave a group alone.
ValueTypes ==
    /\ lastVal \in Values /\ acceptedFrom \in Votes
    /\ accepted \in [Node -> [SN -> SUBSET (Ballot \X Batch)]]
CommitTypes ==
    /\ pending \in Values /\ fetching \in Flags /\ log \in Values
    /\ groupCommitCount \in [Node -> Nat]
BucketTypes ==
    /\ bucket \in [Node -> SUBSET Req] /\ index \in [Node -> SUBSET Req]
    /\ held \in [SN -> Batch]
    /\ \A n \in Node : bucket[n] \subseteq index[n]
    /\ HeldFiled
PromiseTypes ==
    /\ promised \in Ballots /\ prepared \in Flags /\ promisedFrom \in Votes
    /\ grpPromised \in [Node -> Ballot] /\ grpReady \in {-1} \cup Ballot
PhaseTypes ==
    /\ joined \in Flags /\ ballot \in [SN -> Ballot]
    /\ phase \in [Node -> [SN -> {"init", "prepared", "acceptSent", "committed"}]]

LEMMA TypedParts ==
    Typed <=> /\ ValueTypes /\ CommitTypes /\ BucketTypes /\ PromiseTypes /\ PhaseTypes
              /\ msgs \subseteq Message
BY DEF Typed, TypeOK, InstanceTypes, MemberTypes, ValueTypes, CommitTypes, BucketTypes,
       PromiseTypes, PhaseTypes

LEMMA TypedNext ==
    ASSUME ValueTypes', CommitTypes', BucketTypes', PromiseTypes', PhaseTypes',
           msgs' \subseteq Message
    PROVE  Typed'
BY DEF Typed, TypeOK, InstanceTypes, MemberTypes, ValueTypes, CommitTypes, BucketTypes,
       PromiseTypes, PhaseTypes

LEMMA ValueTypesKept == ValueTypes /\ UNCHANGED valueVars => ValueTypes'
BY DEF ValueTypes, valueVars
LEMMA CommitTypesKept == CommitTypes /\ UNCHANGED commitVars => CommitTypes'
BY DEF CommitTypes, commitVars
LEMMA BucketTypesKept == BucketTypes /\ UNCHANGED bucketVars => BucketTypes'
BY DEF BucketTypes, bucketVars, HeldFiled
LEMMA PromiseTypesKept == PromiseTypes /\ UNCHANGED promiseVars => PromiseTypes'
BY DEF PromiseTypes, promiseVars
LEMMA PhaseTypesKept == PhaseTypes /\ UNCHANGED <<joined, ballot, phase>> => PhaseTypes'
BY DEF PhaseTypes

LEMMA InitTyped == Init => Typed
<1> SUFFICES ASSUME Init PROVE Typed
  OBVIOUS
<1>1. 0 \in Ballot /\ Nop = {} /\ Nop \in Batch
  BY BatchType, BoundAssumption DEF Ballot, Nop
<1>2. ValueTypes /\ CommitTypes /\ PromiseTypes /\ PhaseTypes /\ msgs \subseteq Message
  BY <1>1 DEF Init, ValueTypes, CommitTypes, PromiseTypes, PhaseTypes,
              Values, Votes, Flags, Ballots
<1>3. BucketTypes
  BY <1>1 DEF Init, BucketTypes, HeldFiled
<1> QED
  BY <1>2, <1>3, TypedParts


LEMMA DeliverTyped ==
    ASSUME Typed, NEW n \in Node, NEW s \in SN, NEW v \in Batch,
           DeliverCommit(n, s, v), UNCHANGED index
    PROVE  /\ phase' \in [Node -> [SN -> {"init", "prepared", "acceptSent", "committed"}]]
           /\ log' \in Values /\ groupCommitCount' \in [Node -> Nat]
           /\ BucketTypes'
<1>1. CommitTypes /\ BucketTypes /\ PhaseTypes
  BY TypedParts
<1>2. phase' \in [Node -> [SN -> {"init", "prepared", "acceptSent", "committed"}]]
  BY <1>1 DEF DeliverCommit, PhaseTypes, Set
<1>3. log' \in Values
  BY <1>1 DEF DeliverCommit, CommitTypes, Values, Set
<1>4. groupCommitCount' \in [Node -> Nat]
  BY <1>1 DEF DeliverCommit, CommitTypes
<1>5. BucketTypes'
  <2>1. CASE held' = [held EXCEPT ![s] = Nop] /\ UNCHANGED bucket
    BY <1>1, <2>1, BatchType DEF BucketTypes, HeldFiled, Nop
  <2>2. CASE bucket' = RemoveCommitted(n, v) /\ UNCHANGED held
    BY <1>1, <2>2 DEF BucketTypes, HeldFiled, RemoveCommitted
  <2> QED
    BY <2>1, <2>2 DEF DeliverCommit
<1> QED
  BY <1>2, <1>3, <1>4, <1>5

LEMMA TakeCommitTyped ==
    ASSUME Typed, NEW n \in Node, NEW s \in SN, NEW v \in Batch,
           TakeCommit(n, s, v), UNCHANGED <<index, joined, ballot>>
    PROVE  CommitTypes' /\ BucketTypes' /\ PhaseTypes'
<1>1. CommitTypes /\ BucketTypes /\ PhaseTypes
  BY TypedParts
<1>2. CASE lastVal[n][s] = v
  <2>1. /\ DeliverCommit(n, s, v)
        /\ pending' = Set(pending, n, s, None) /\ fetching' = Set(fetching, n, s, FALSE)
    BY <1>2 DEF TakeCommit
  <2>2. pending' \in Values /\ fetching' \in Flags
    BY <1>1, <2>1 DEF CommitTypes, Values, Flags, Set
  <2> QED
    BY <1>1, <2>1, <2>2, DeliverTyped DEF CommitTypes, PhaseTypes
<1>3. CASE lastVal[n][s] # v
  <2>1. /\ pending' = Set(pending, n, s, v) /\ fetching' = Set(fetching, n, s, TRUE)
        /\ UNCHANGED <<phase, log, groupCommitCount, bucket, held>>
    BY <1>3 DEF TakeCommit
  <2>2. pending' \in Values /\ fetching' \in Flags
    BY <1>1, <2>1 DEF CommitTypes, Values, Flags, Set
  <2> QED
    BY <1>1, <2>1, <2>2 DEF CommitTypes, PhaseTypes, BucketTypes, HeldFiled
<1> QED
  BY <1>2, <1>3

LEMMA CountPromiseTyped ==
    ASSUME Typed, NEW n \in Node, NEW s \in SN, NEW from \in Node, CountPromise(n, s, from)
    PROVE  /\ promisedFrom' \in Votes /\ prepared' \in Flags /\ grpReady' \in {-1} \cup Ballot
           /\ phase' \in [Node -> [SN -> {"init", "prepared", "acceptSent", "committed"}]]
<1>1. PromiseTypes /\ PhaseTypes
  BY TypedParts
<1>2. promisedFrom' \in Votes
  BY <1>1 DEF CountPromise, PromiseTypes, Votes, Set
<1>3. CASE /\ prepared' = Set(prepared, n, s, TRUE) /\ phase' = Set(phase, n, s, "prepared")
           /\ grpReady' \in {ballot[s], grpReady}
  BY <1>1, <1>2, <1>3 DEF PromiseTypes, PhaseTypes, Flags, Set
<1>4. CASE UNCHANGED <<prepared, phase, grpReady>>
  BY <1>1, <1>2, <1>4 DEF PromiseTypes, PhaseTypes
<1> QED
  BY <1>3, <1>4 DEF CountPromise

\* A step that changes neither the values nor what is filed.
LEMMA ArriveTyped ==
    ASSUME Typed, NEW n \in Node, NEW r \in Req, AddDirectToBucket(n, r)
    PROVE  Typed'
<1>1. BucketTypes'
  BY TypedParts, ProposerIsNode DEF AddDirectToBucket, BucketTypes, HeldFiled
<1>2. UNCHANGED <<joined, phase, ballot, promiseVars, valueVars, commitVars, msgs>>
  BY DEF AddDirectToBucket
<1> QED
  BY <1>1, <1>2, TypedParts, TypedNext, ValueTypesKept, CommitTypesKept, PromiseTypesKept, PhaseTypesKept

LEMMA JoinTyped ==
    ASSUME Typed, NEW n \in Node, NEW s \in SN, SetMembers(n, s)
    PROVE  Typed'
<1>1. PromiseTypes /\ PhaseTypes /\ grpPromised[n] \in Ballot
  BY TypedParts DEF PromiseTypes
<1>2. joined' \in Flags
  BY <1>1 DEF SetMembers, PhaseTypes, Flags, Set
<1>3. /\ ballot' \in [SN -> Ballot] /\ prepared' \in Flags /\ msgs' \subseteq Message
      /\ phase' \in [Node -> [SN -> {"init", "prepared", "acceptSent", "committed"}]]
  <2>1. CASE UNCHANGED <<phase, ballot, prepared, msgs>>
    BY <1>1, <2>1, TypedParts DEF PromiseTypes, PhaseTypes
  <2>2. CASE /\ ballot' = [ballot EXCEPT ![s] = grpPromised[n]]
             /\ prepared' = Set(prepared, n, s, TRUE) /\ phase' = Set(phase, n, s, "prepared")
             /\ UNCHANGED msgs
    BY <1>1, <2>2, TypedParts DEF PromiseTypes, PhaseTypes, Flags, Set
  <2>3. CASE /\ ballot' = [ballot EXCEPT ![s] = grpPromised[n]]
             /\ UNCHANGED <<phase, prepared>> /\ Send(Prepare(s, grpPromised[n]))
    <3>1. msgs' \subseteq Message
      BY <1>1, <2>3, TypedParts, SentPrepare DEF Send
    <3> QED
      BY <1>1, <2>3, <3>1 DEF PromiseTypes, PhaseTypes
  <2> QED
    BY <2>1, <2>2, <2>3 DEF SetMembers
<1>4. UNCHANGED <<promised, promisedFrom, grpPromised, grpReady, valueVars, commitVars, bucketVars>>
  BY DEF SetMembers
<1>5. PromiseTypes' /\ PhaseTypes'
  BY <1>1, <1>2, <1>3, <1>4 DEF PromiseTypes, PhaseTypes
<1> QED
  BY <1>3, <1>4, <1>5, TypedParts, TypedNext, ValueTypesKept, CommitTypesKept, BucketTypesKept

LEMMA PrepareTyped ==
    ASSUME Typed, NEW m \in msgs, OnPrepare(m)
    PROVE  Typed'
<1>1. PromiseTypes /\ PhaseTypes /\ m.sn \in SN /\ m.to \in Node /\ m.ballot \in Ballot
  BY TypedParts, MessageType DEF OnPrepare
<1>2. promised' \in Ballots /\ grpPromised' \in [Node -> Ballot]
  BY <1>1 DEF OnPrepare, PromiseTypes, Ballots, Set
<1>3. msgs' \subseteq Message
  BY <1>1, TypedParts, SentPromise DEF OnPrepare, Receive
<1>4. /\ promisedFrom' \in Votes /\ prepared' \in Flags /\ grpReady' \in {-1} \cup Ballot
      /\ phase' \in [Node -> [SN -> {"init", "prepared", "acceptSent", "committed"}]]
  <2>1. CASE CountPromise(m.to, m.sn, m.to)
    BY <1>1, <2>1, CountPromiseTyped
  <2>2. CASE UNCHANGED <<phase, prepared, promisedFrom, grpReady>>
    BY <1>1, <2>2 DEF PromiseTypes, PhaseTypes
  <2> QED
    BY <2>1, <2>2 DEF OnPrepare
<1>5. UNCHANGED <<joined, ballot, valueVars, commitVars, bucketVars>>
  BY DEF OnPrepare
<1>6. PromiseTypes' /\ PhaseTypes'
  BY <1>1, <1>2, <1>4, <1>5 DEF PromiseTypes, PhaseTypes
<1> QED
  BY <1>3, <1>5, <1>6, TypedParts, TypedNext, ValueTypesKept, CommitTypesKept, BucketTypesKept

LEMMA PromiseTyped ==
    ASSUME Typed, NEW m \in msgs, OnPromise(m)
    PROVE  Typed'
<1>1. PromiseTypes /\ PhaseTypes /\ m.sn \in SN /\ m.to \in Node /\ m.from \in Node
  BY TypedParts, MessageType DEF OnPromise
<1>2. msgs' \subseteq Message
  BY TypedParts DEF OnPromise, Receive
<1>3. /\ promisedFrom' \in Votes /\ prepared' \in Flags /\ grpReady' \in {-1} \cup Ballot
      /\ phase' \in [Node -> [SN -> {"init", "prepared", "acceptSent", "committed"}]]
  BY <1>1, CountPromiseTyped DEF OnPromise
<1>4. /\ UNCHANGED <<joined, ballot, promised, grpPromised>>
      /\ UNCHANGED <<valueVars, commitVars, bucketVars>>
  BY DEF OnPromise
<1>5. PromiseTypes' /\ PhaseTypes'
  BY <1>1, <1>3, <1>4 DEF PromiseTypes, PhaseTypes
<1> QED
  BY <1>2, <1>4, <1>5, TypedParts, TypedNext, ValueTypesKept, CommitTypesKept, BucketTypesKept

LEMMA ProposeTyped ==
    ASSUME Typed, NEW s \in SN, ProposeIfDue(s)
    PROVE  Typed'
<1> DEFINE n == Proposer(s)
<1>1. /\ ValueTypes /\ BucketTypes /\ PromiseTypes /\ PhaseTypes
      /\ n \in Node /\ ballot[s] \in Ballot
  BY TypedParts, ProposerIsNode DEF PhaseTypes
<1>2. /\ prepared' = Set(prepared, n, s, TRUE) /\ phase' = Set(phase, n, s, "acceptSent")
      /\ Send(Accept(s, ballot[s], lastVal'[n][s]))
      /\ UNCHANGED <<joined, ballot, promised, promisedFrom, grpPromised, grpReady>>
      /\ UNCHANGED <<accepted, index, commitVars>>
  BY DEF ProposeIfDue
<1>3. \/ /\ lastVal[n][s] = None
         /\ \E v \in Cut(bucket[n]) :
               /\ bucket' = RemoveFirst(n, v) /\ held' = [held EXCEPT ![s] = v]
               /\ lastVal' = Set(lastVal, n, s, v) /\ acceptedFrom' = Set(acceptedFrom, n, s, {})
      \/ lastVal[n][s] # None /\ UNCHANGED <<bucket, held, lastVal, acceptedFrom>>
  BY DEF ProposeIfDue
<1> HIDE DEF n
<1>4. \A v \in Cut(bucket[n]) : v \in Batch /\ v \subseteq bucket[n]
  BY BatchType DEF Cut, Nop
<1>5. lastVal' \in Values /\ acceptedFrom' \in Votes /\ lastVal'[n][s] \in Batch
  <2>1. CASE lastVal[n][s] # None /\ UNCHANGED <<lastVal, acceptedFrom>>
    BY <1>1, <2>1 DEF ValueTypes, Values
  <2>2. ASSUME NEW v \in Cut(bucket[n]),
               lastVal' = Set(lastVal, n, s, v), acceptedFrom' = Set(acceptedFrom, n, s, {})
        PROVE  lastVal' \in Values /\ acceptedFrom' \in Votes /\ lastVal'[n][s] \in Batch
    BY <1>1, <1>4, <2>2 DEF ValueTypes, Values, Votes, Set
  <2> QED
    BY <1>3, <2>1, <2>2
<1>6. BucketTypes'
  <2>1. CASE UNCHANGED <<bucket, held>>
    BY <1>1, <1>2, <2>1 DEF BucketTypes, HeldFiled
  <2>2. ASSUME NEW v \in Cut(bucket[n]),
               bucket' = RemoveFirst(n, v), held' = [held EXCEPT ![s] = v]
        PROVE  BucketTypes'
    <3>1. v \in Batch /\ v \subseteq index[n]
      BY <1>1, <1>4 DEF BucketTypes
    <3>2. \A t \in SN : held'[t] \subseteq index[Proposer(t)]
      BY <1>1, <2>2, <3>1 DEF BucketTypes, HeldFiled, n
    <3> QED
      BY <1>1, <1>2, <2>2, <3>1, <3>2 DEF BucketTypes, HeldFiled, RemoveFirst
  <2> QED
    BY <1>3, <2>1, <2>2
<1>7. msgs' \subseteq Message
  BY <1>1, <1>2, <1>5, TypedParts, SentAccept DEF Send
<1>8. PromiseTypes' /\ PhaseTypes'
  BY <1>1, <1>2 DEF PromiseTypes, PhaseTypes, Flags, Set
<1>9. ValueTypes'
  BY <1>1, <1>2, <1>5 DEF ValueTypes
<1> QED
  BY <1>2, <1>6, <1>7, <1>8, <1>9, TypedParts, TypedNext, CommitTypesKept


LEMMA AcceptTyped ==
    ASSUME Typed, NEW m \in msgs, OnAccept(m)
    PROVE  Typed'
<1>1. /\ ValueTypes /\ PromiseTypes /\ PhaseTypes
      /\ m.sn \in SN /\ m.to \in Node /\ m.ballot \in Ballot /\ m.val \in Batch
  BY TypedParts, MessageType DEF OnAccept
<1>2. ValueTypes'
  <2>1. lastVal' \in Values
    BY <1>1 DEF OnAccept, ValueTypes, Values, Set
  <2>2. accepted' \in [Node -> [SN -> SUBSET (Ballot \X Batch)]]
    BY <1>1 DEF OnAccept, ValueTypes, Set
  <2> QED
    BY <1>1, <2>1, <2>2 DEF OnAccept, ValueTypes
<1>3. PromiseTypes'
  BY <1>1 DEF OnAccept, PromiseTypes, Ballots, Set
<1>4. msgs' \subseteq Message
  BY <1>1, TypedParts, SentAccepted DEF OnAccept, Receive
<1>5. UNCHANGED <<joined, phase, ballot, commitVars, bucketVars>>
  BY DEF OnAccept
<1> QED
  BY <1>2, <1>3, <1>4, <1>5, TypedParts, TypedNext, CommitTypesKept, BucketTypesKept,
     PhaseTypesKept

LEMMA AcceptedTyped ==
    ASSUME Typed, NEW m \in msgs, OnAccepted(m)
    PROVE  Typed'
<1> DEFINE n == m.to
           s == m.sn
           F == acceptedFrom[n][s] \cup {m.from}
<1>1. /\ ValueTypes /\ CommitTypes /\ BucketTypes /\ PhaseTypes
      /\ s \in SN /\ n \in Node /\ m.from \in Node
  BY TypedParts, MessageType DEF OnAccepted
<1>2. acceptedFrom' \in Votes
  BY <1>1 DEF OnAccepted, ValueTypes, Votes, Set
<1>3. UNCHANGED <<joined, ballot, promiseVars, lastVal, accepted, index>>
  BY DEF OnAccepted
<1>4. CommitTypes' /\ BucketTypes' /\ PhaseTypes' /\ msgs' \subseteq Message
  <2>1. CASE /\ lastVal[n][s] # None
             /\ Receive(m, Commit(s, lastVal[n][s])) /\ TakeCommit(n, s, lastVal[n][s])
    <3>1. lastVal[n][s] \in Batch
      BY <1>1, <2>1 DEF ValueTypes, Values
    <3>2. msgs' \subseteq Message
      BY <1>1, <2>1, <3>1, TypedParts, SentCommit DEF Receive
    <3> QED
      BY <1>1, <1>3, <2>1, <3>1, <3>2, TakeCommitTyped
  <2>2. CASE Receive(m, {}) /\ UNCHANGED <<phase, commitVars, bucket, held>>
    BY <1>1, <1>3, <2>2, TypedParts, CommitTypesKept DEF Receive, BucketTypes, PhaseTypes, HeldFiled
  <2> QED
    BY <2>1, <2>2 DEF OnAccepted
<1>5. ValueTypes'
  BY <1>1, <1>2, <1>3 DEF ValueTypes
<1> QED
  BY <1>3, <1>4, <1>5, TypedParts, TypedNext, PromiseTypesKept

LEMMA CommitTyped ==
    ASSUME Typed, NEW m \in msgs, OnCommit(m)
    PROVE  Typed'
<1>1. m.sn \in SN /\ m.to \in Node /\ m.val \in Batch
  BY TypedParts, MessageType DEF OnCommit
<1>2. UNCHANGED <<joined, ballot, promiseVars, valueVars, index>>
  BY DEF OnCommit
<1>3. CommitTypes' /\ BucketTypes' /\ PhaseTypes'
  BY <1>1, <1>2, TakeCommitTyped DEF OnCommit
<1>4. msgs' \subseteq Message
  BY <1>1, TypedParts, SentFetch DEF OnCommit, Receive
<1> QED
  BY <1>2, <1>3, <1>4, TypedParts, TypedNext, ValueTypesKept, PromiseTypesKept

LEMMA MissingTyped ==
    ASSUME Typed, NEW m \in msgs, OnMissingEntry(m)
    PROVE  Typed'
<1> DEFINE n == m.to
           s == m.sn
<1>1. ValueTypes /\ CommitTypes /\ BucketTypes /\ PhaseTypes /\ s \in SN /\ n \in Node
  BY TypedParts, MessageType DEF OnMissingEntry
<1>2. PICK src \in Node \ {n} :
         /\ log[src][s] # None
         /\ lastVal' = Set(lastVal, n, s, log[src][s])
         /\ fetching' = Set(fetching, n, s, FALSE)
         /\ \/ UNCHANGED <<phase, pending, log, groupCommitCount, bucket, held>>
            \/ pending' = Set(pending, n, s, None) /\ DeliverCommit(n, s, log[src][s])
  BY DEF OnMissingEntry
<1>3. UNCHANGED <<joined, ballot, promiseVars, acceptedFrom, accepted, index>>
  BY DEF OnMissingEntry
<1>4. log[src][s] \in Batch
  BY <1>1, <1>2 DEF CommitTypes, Values
<1>5. ValueTypes' /\ fetching' \in Flags
  BY <1>1, <1>2, <1>3, <1>4 DEF ValueTypes, CommitTypes, Values, Flags, Set
<1>6. CommitTypes' /\ BucketTypes' /\ PhaseTypes'
  <2>1. CASE UNCHANGED <<phase, pending, log, groupCommitCount, bucket, held>>
    BY <1>1, <1>3, <1>5, <2>1 DEF CommitTypes, BucketTypes, PhaseTypes, HeldFiled
  <2>2. CASE pending' = Set(pending, n, s, None) /\ DeliverCommit(n, s, log[src][s])
    <3>1. pending' \in Values
      BY <1>1, <2>2 DEF CommitTypes, Values, Set
    <3> QED
      BY <1>1, <1>3, <1>4, <1>5, <2>2, <3>1, DeliverTyped DEF CommitTypes, PhaseTypes
  <2> QED
    BY <1>2, <2>1, <2>2
<1>7. msgs' \subseteq Message
  BY TypedParts DEF OnMissingEntry, Receive
<1> QED
  BY <1>3, <1>5, <1>6, <1>7, TypedParts, TypedNext, PromiseTypesKept

LEMMA GiveUpTyped ==
    ASSUME Typed, NEW s \in SN, GiveUp(s)
    PROVE  Typed'
<1> DEFINE n == Proposer(s)
<1>1. /\ ValueTypes /\ CommitTypes /\ BucketTypes /\ PhaseTypes
      /\ n \in Node /\ Nop \in Batch
  BY TypedParts, ProposerIsNode, BatchType
<1>2. ValueTypes'
  BY <1>1 DEF GiveUp, ValueTypes, Values, Set
<1>3. CommitTypes'
  BY <1>1 DEF GiveUp, CommitTypes, Values, Set
<1>4. PhaseTypes'
  BY <1>1 DEF GiveUp, PhaseTypes, Set
<1>5. BucketTypes'
  <2>1. held[s] \subseteq index[n] /\ held[s] \subseteq Req
    BY <1>1, BatchType DEF BucketTypes, HeldFiled
  <2> QED
    BY <1>1, <2>1 DEF GiveUp, Resurrect, BucketTypes, HeldFiled, Nop
<1>6. UNCHANGED promiseVars /\ msgs' \subseteq Message
  BY TypedParts DEF GiveUp
<1> QED
  BY <1>2, <1>3, <1>4, <1>5, <1>6, TypedParts, TypedNext, PromiseTypesKept

LEMMA NewRoundTyped ==
    ASSUME Typed, NEW s \in SN, NewRound(s)
    PROVE  Typed'
<1>1. ValueTypes /\ PromiseTypes /\ PhaseTypes /\ Proposer(s) \in Node
  BY TypedParts, ProposerIsNode
<1>2. ballot[s] + 1 \in Ballot
  BY <1>1, BoundAssumption DEF NewRound, PhaseTypes, Ballot
<1>3. ValueTypes'
  BY <1>1 DEF NewRound, KeepValue, ValueTypes, Votes, Set
<1>4. PromiseTypes'
  BY <1>1 DEF NewRound, PromiseTypes, Votes, Flags, Set
<1>5. PhaseTypes'
  BY <1>1, <1>2 DEF NewRound, RaiseBallot, PhaseTypes, Set
<1>6. msgs' \subseteq Message
  BY <1>2, TypedParts, SentPrepare DEF NewRound, Send
<1>7. UNCHANGED <<commitVars, bucketVars>>
  BY DEF NewRound
<1> QED
  BY <1>3, <1>4, <1>5, <1>6, <1>7, TypedParts, TypedNext, CommitTypesKept, BucketTypesKept

LEMMA ResendTyped ==
    ASSUME Typed, NEW s \in SN, ResendAccept(s), lastVal[Proposer(s)][s] # None
    PROVE  Typed'
<1>1. lastVal[Proposer(s)][s] \in Batch /\ ballot[s] \in Ballot
  BY TypedParts, ProposerIsNode DEF ValueTypes, PhaseTypes, Values
<1>2. msgs' \subseteq Message
  BY <1>1, TypedParts, SentAccept DEF ResendAccept, Send
<1>3. UNCHANGED <<joined, phase, ballot, promiseVars, valueVars, commitVars, bucketVars>>
  BY DEF ResendAccept
<1> QED
  BY <1>2, <1>3, TypedParts, TypedNext, ValueTypesKept, CommitTypesKept, BucketTypesKept,
     PromiseTypesKept, PhaseTypesKept

LEMMA CatchUpTyped ==
    ASSUME Typed, NEW n \in Node, NEW s \in SN, CatchUp(n, s)
    PROVE  Typed'
<1>1. msgs' \subseteq Message
  BY TypedParts, SentFetch DEF CatchUp, Send
<1>2. UNCHANGED <<joined, phase, ballot, promiseVars, valueVars, commitVars, bucketVars>>
  BY DEF CatchUp
<1> QED
  BY <1>1, <1>2, TypedParts, TypedNext, ValueTypesKept, CommitTypesKept, BucketTypesKept,
     PromiseTypesKept, PhaseTypesKept


LEMMA SentValueKept ==
    ASSUME Typed, SentValue, Typed',
           \A n \in Node, s \in SN : lastVal[n][s] # None => lastVal'[n][s] # None,
           \A n \in Node, s \in SN : phase'[n][s] = "acceptSent" =>
               phase[n][s] = "acceptSent" \/ lastVal'[n][s] # None
    PROVE  SentValue'
BY DEF SentValue

LEMMA DeliverSent ==
    ASSUME Typed, NEW n \in Node, NEW s \in SN, NEW v \in Batch, DeliverCommit(n, s, v)
    PROVE  \A k \in Node, t \in SN : phase'[k][t] = "acceptSent" => phase[k][t] = "acceptSent"
BY TypedParts DEF DeliverCommit, PhaseTypes, Set

LEMMA CountPromiseSent ==
    ASSUME Typed, NEW n \in Node, NEW s \in SN, NEW from \in Node, CountPromise(n, s, from)
    PROVE  \A k \in Node, t \in SN : phase'[k][t] = "acceptSent" => phase[k][t] = "acceptSent"
BY TypedParts DEF CountPromise, PhaseTypes, Set

LEMMA TakeCommitSent ==
    ASSUME Typed, NEW n \in Node, NEW s \in SN, NEW v \in Batch, TakeCommit(n, s, v)
    PROVE  \A k \in Node, t \in SN : phase'[k][t] = "acceptSent" => phase[k][t] = "acceptSent"
BY DeliverSent DEF TakeCommit

\* Every step keeps the types, and a value once there is one.
LEMMA NextTyped == Typed /\ SentValue /\ [Next]_vars => Typed' /\ SentValue'
<1> SUFFICES ASSUME Typed, SentValue, [Next]_vars PROVE Typed' /\ SentValue'
  OBVIOUS
<1>0. /\ ValueTypes /\ CommitTypes /\ PhaseTypes
      /\ \A v \in Batch : v # None
      /\ \A m \in msgs : m \in Message /\ m.sn \in SN /\ m.to \in Node
  BY TypedParts, MessageType, BatchType
<1>1. ASSUME NEW n \in Node, NEW r \in Req, AddDirectToBucket(n, r)
      PROVE  Typed' /\ SentValue'
  BY <1>1, ArriveTyped, SentValueKept DEF AddDirectToBucket, valueVars
<1>2. ASSUME NEW n \in Node, NEW s \in SN, SetMembers(n, s)
      PROVE  Typed' /\ SentValue'
  <2>1. \A k \in Node, t \in SN : phase'[k][t] = "acceptSent" => phase[k][t] = "acceptSent"
    BY <1>0, <1>2 DEF SetMembers, PhaseTypes, Set
  <2>2. lastVal' = lastVal
    BY <1>2 DEF SetMembers, valueVars
  <2> QED
    BY <1>2, <2>1, <2>2, JoinTyped, SentValueKept
<1>3. ASSUME NEW m \in msgs, OnPrepare(m) PROVE Typed' /\ SentValue'
  <2>1. \A k \in Node, t \in SN : phase'[k][t] = "acceptSent" => phase[k][t] = "acceptSent"
    BY <1>0, <1>3, CountPromiseSent DEF OnPrepare
  <2>2. lastVal' = lastVal
    BY <1>3 DEF OnPrepare, valueVars
  <2> QED
    BY <1>3, <2>1, <2>2, PrepareTyped, SentValueKept
<1>4. ASSUME NEW m \in msgs, OnPromise(m) PROVE Typed' /\ SentValue'
  <2>1. \A k \in Node, t \in SN : phase'[k][t] = "acceptSent" => phase[k][t] = "acceptSent"
    BY <1>0, <1>4, MessageType, CountPromiseSent DEF OnPromise
  <2>2. lastVal' = lastVal
    BY <1>4 DEF OnPromise, valueVars
  <2> QED
    BY <1>4, <2>1, <2>2, PromiseTyped, SentValueKept
<1>5. ASSUME NEW m \in msgs, OnAccept(m) PROVE Typed' /\ SentValue'
  <2>1. phase' = phase /\ m.val \in Batch /\ lastVal' = Set(lastVal, m.to, m.sn, m.val)
    BY <1>0, <1>5, MessageType DEF OnAccept
  <2>2. \A n \in Node, s \in SN : lastVal[n][s] # None => lastVal'[n][s] # None
    BY <1>0, <2>1 DEF Set, ValueTypes, Values
  <2> QED
    BY <1>5, <2>1, <2>2, AcceptTyped, SentValueKept
<1>6. ASSUME NEW m \in msgs, OnAccepted(m) PROVE Typed' /\ SentValue'
  <2>1. lastVal' = lastVal
    BY <1>6 DEF OnAccepted
  <2>2. \A k \in Node, t \in SN : phase'[k][t] = "acceptSent" => phase[k][t] = "acceptSent"
    <3>1. lastVal[m.to][m.sn] # None => lastVal[m.to][m.sn] \in Batch
      BY <1>0 DEF ValueTypes, Values
    <3> QED
      BY <1>0, <1>6, <3>1, TakeCommitSent DEF OnAccepted
  <2> QED
    BY <1>6, <2>1, <2>2, AcceptedTyped, SentValueKept
<1>7. ASSUME NEW m \in msgs, OnCommit(m) PROVE Typed' /\ SentValue'
  <2>1. lastVal' = lastVal
    BY <1>7 DEF OnCommit, valueVars
  <2>2. \A k \in Node, t \in SN : phase'[k][t] = "acceptSent" => phase[k][t] = "acceptSent"
    BY <1>0, <1>7, MessageType, TakeCommitSent DEF OnCommit
  <2> QED
    BY <1>7, <2>1, <2>2, CommitTyped, SentValueKept
<1>8. ASSUME NEW m \in msgs, OnMissingEntry(m) PROVE Typed' /\ SentValue'
  <2>1. PICK src \in Node \ {m.to} :
           /\ log[src][m.sn] # None
           /\ lastVal' = Set(lastVal, m.to, m.sn, log[src][m.sn])
           /\ phase' = phase \/ DeliverCommit(m.to, m.sn, log[src][m.sn])
    BY <1>8 DEF OnMissingEntry
  <2>2. log[src][m.sn] \in Batch
    BY <1>0, <2>1 DEF CommitTypes, Values
  <2>3. \A n \in Node, s \in SN : lastVal[n][s] # None => lastVal'[n][s] # None
    BY <1>0, <2>1 DEF Set, ValueTypes, Values
  <2>4. \A k \in Node, t \in SN : phase'[k][t] = "acceptSent" => phase[k][t] = "acceptSent"
    BY <1>0, <2>1, <2>2, DeliverSent
  <2> QED
    BY <1>8, <2>3, <2>4, MissingTyped, SentValueKept
<1>9. ASSUME NEW s \in SN, ProposeIfDue(s) PROVE Typed' /\ SentValue'
  <2> DEFINE n == Proposer(s)
  <2>1. n \in Node /\ phase' = Set(phase, n, s, "acceptSent")
    BY <1>9, ProposerIsNode DEF ProposeIfDue
  <2>2. \/ lastVal[n][s] # None /\ lastVal' = lastVal
        \/ lastVal[n][s] = None /\ \E v \in Cut(bucket[n]) : lastVal' = Set(lastVal, n, s, v)
    BY <1>9 DEF ProposeIfDue
  <2> HIDE DEF n
  <2>3. \A v \in Cut(bucket[n]) : v # None
    BY <1>0, BatchType DEF Cut
  <2>4. \A k \in Node, t \in SN : lastVal[k][t] # None => lastVal'[k][t] # None
    BY <1>0, <2>1, <2>2, <2>3 DEF Set, ValueTypes, Values
  <2>5. lastVal'[n][s] # None
    BY <1>0, <2>1, <2>2, <2>3 DEF Set, ValueTypes, Values
  <2>6. \A k \in Node, t \in SN :
           phase'[k][t] = "acceptSent" => phase[k][t] = "acceptSent" \/ lastVal'[k][t] # None
    BY <1>0, <2>1, <2>5 DEF Set, PhaseTypes
  <2> QED
    BY <1>9, <2>4, <2>6, ProposeTyped, SentValueKept
<1>10. ASSUME NEW s \in SN, GiveUp(s) PROVE Typed' /\ SentValue'
  <2>1. Proposer(s) \in Node /\ Nop # None
    BY <1>0, ProposerIsNode, BatchType
  <2>2. \A k \in Node, t \in SN : lastVal[k][t] # None => lastVal'[k][t] # None
    BY <1>0, <1>10, <2>1 DEF GiveUp, Set, ValueTypes, Values
  <2>3. \A k \in Node, t \in SN : phase'[k][t] = "acceptSent" => phase[k][t] = "acceptSent"
    BY <1>0, <1>10, <2>1 DEF GiveUp, Set, PhaseTypes
  <2> QED
    BY <1>10, <2>2, <2>3, GiveUpTyped, SentValueKept
<1>11. ASSUME NEW s \in SN, ResendAccept(s) PROVE Typed' /\ SentValue'
  <2>1. lastVal[Proposer(s)][s] # None
    BY <1>11, ProposerIsNode DEF ResendAccept, Waiting, SentValue
  <2>2. UNCHANGED <<phase, lastVal>>
    BY <1>11 DEF ResendAccept, valueVars
  <2> QED
    BY <1>11, <2>1, <2>2, ResendTyped, SentValueKept
<1>12. ASSUME NEW s \in SN, NewRound(s) PROVE Typed' /\ SentValue'
  <2>1. lastVal' = lastVal /\ phase' = Set(phase, Proposer(s), s, "init")
    BY <1>12 DEF NewRound, KeepValue
  <2>2. \A k \in Node, t \in SN : phase'[k][t] = "acceptSent" => phase[k][t] = "acceptSent"
    BY <1>0, <2>1, ProposerIsNode DEF Set, PhaseTypes
  <2> QED
    BY <1>12, <2>1, <2>2, NewRoundTyped, SentValueKept
<1>13. ASSUME NEW n \in Node, NEW s \in SN, CatchUp(n, s) PROVE Typed' /\ SentValue'
  BY <1>13, CatchUpTyped, SentValueKept DEF CatchUp, valueVars
<1>14. CASE UNCHANGED vars
  <2>1. UNCHANGED <<joined, phase, ballot, promiseVars, valueVars, commitVars, bucketVars, msgs>>
    BY <1>14 DEF vars
  <2>2. Typed'
    BY <2>1, TypedParts, TypedNext, ValueTypesKept, CommitTypesKept, BucketTypesKept,
       PromiseTypesKept, PhaseTypesKept
  <2> QED
    BY <2>1, <2>2, SentValueKept DEF valueVars
<1> QED
  BY <1>1, <1>2, <1>3, <1>4, <1>5, <1>6, <1>7, <1>8, <1>9, <1>10, <1>11, <1>12, <1>13, <1>14
     DEF Next, Arrive, Join, Handle, Tick

LEMMA TypesInvariant == Spec => [](Typed /\ SentValue)
<1>1. Init => Typed /\ SentValue
  BY InitTyped DEF Init, SentValue
<1> QED
  BY <1>1, NextTyped, PTL DEF Spec

\* The types of mpxInstance, of the group and of the messages, whatever tick does and
\* whoever learns of the group late: ballots stay in their range, a bucket holds only
\* what its index knows (Prepend and Resurrect would panic), and no ACCEPT goes out
\* without a value.
THEOREM TypeCorrect == Spec => []TypeOK
<1>1. Typed => TypeOK
  BY DEF Typed
<1> QED
  BY <1>1, TypesInvariant, PTL


-----------------------------------------------------------------------------
(* Safety, as long as no proposer gives up *)

LEMMA SafeParts ==
    Safe <=> Typed /\ SentValue /\ OneValue /\ CommitsDecided /\ CutOnce
BY DEF Safe, Typed

LEMMA InitSafe == Init => Safe
<1> SUFFICES ASSUME Init PROVE Safe
  OBVIOUS
<1>1. Typed /\ SentValue
  BY InitTyped DEF Init, SentValue
<1>2. OneValue /\ CommitsDecided /\ CutOnce
  BY ProposerIsNode DEF Init, OneValue, CommitsDecided, CutOnce, Value
<1> QED
  BY <1>1, <1>2, SafeParts

\* A value, once there is one, is a batch; before, nothing is known of the SN.
LEMMA ValueType ==
    ASSUME Safe, NEW s \in SN
    PROVE  /\ Value(s) \in {None} \cup Batch
           /\ Value(s) = None =>
                /\ held[s] = Nop
                /\ \A n \in Node : /\ lastVal[n][s] = None /\ log[n][s] = None
                                   /\ pending[n][s] = None /\ accepted[n][s] = {}
                /\ \A m \in msgs : m.type \in {"accept", "commit"} => m.sn # s
<1>1. /\ ValueTypes /\ CommitTypes /\ BucketTypes /\ msgs \subseteq Message
      /\ Proposer(s) \in Node /\ OneValue
  BY SafeParts, TypedParts, ProposerIsNode
<1>2. Value(s) \in {None} \cup Batch
  BY <1>1 DEF Value, ValueTypes, Values
<1>3. ASSUME Value(s) = None
      PROVE  /\ held[s] = Nop
             /\ \A n \in Node : /\ lastVal[n][s] = None /\ log[n][s] = None
                                /\ pending[n][s] = None
  BY <1>1, <1>3, BatchType DEF OneValue, BucketTypes
<1>4. ASSUME Value(s) = None, NEW n \in Node PROVE accepted[n][s] = {}
  <2> SUFFICES ASSUME NEW e \in accepted[n][s] PROVE FALSE
    OBVIOUS
  <2>1. e \in Ballot \X Batch /\ e[2] = None
    BY <1>1, <1>4 DEF OneValue, ValueTypes
  <2> QED
    BY <2>1, BatchType
<1>5. ASSUME Value(s) = None, NEW m \in msgs, m.type \in {"accept", "commit"} PROVE m.sn # s
  <2>1. m.val \in Batch /\ m.val # None
    BY <1>1, <1>5, MessageType, BatchType
  <2> QED
    BY <1>1, <1>5, <2>1 DEF OneValue
<1> QED
  BY <1>2, <1>3, <1>4, <1>5

\* A step that changes no value only tells members more of it.
LEMMA ValuesKept ==
    ASSUME Safe, \A t \in SN : Value(t)' = Value(t),
           \A t \in SN : held'[t] \in {held[t], Nop},
           \A k \in Node, t \in SN :
               /\ lastVal'[k][t] \in {lastVal[k][t], Value(t)}
               /\ log'[k][t] \in {log[k][t], Value(t)} /\ (log[k][t] # None => log'[k][t] # None)
               /\ \/ pending'[k][t] \in {pending[k][t], None}
                  \/ pending'[k][t] = Value(t) /\ Decided(t)'
               /\ \A e \in accepted'[k][t] : e \in accepted[k][t] \/ e[2] = Value(t),
           \A o \in msgs' : \/ o \in msgs \/ o.type \notin {"accept", "commit"}
                            \/ /\ o.val = Value(o.sn)
                               /\ o.type = "commit" => Decided(o.sn)'
    PROVE  OneValue' /\ CommitsDecided'
<1>1. OneValue /\ CommitsDecided /\ \A m \in msgs : m.sn \in SN
  BY SafeParts, TypedParts, MessageType
<1>2. \A t \in SN : Decided(t) => Decided(t)'
  BY DEF Decided
<1>3. OneValue'
  <2> SUFFICES ASSUME NEW s \in SN
               PROVE  /\ held'[s] \in {Nop, Value(s)}
                      /\ \A n \in Node : /\ lastVal'[n][s] \in {None, Value(s)}
                                         /\ log'[n][s] \in {None, Value(s)}
                                         /\ pending'[n][s] \in {None, Value(s)}
                                         /\ \A e \in accepted'[n][s] : e[2] = Value(s)
                      /\ \A m \in msgs' :
                            m.type \in {"accept", "commit"} /\ m.sn = s => m.val = Value(s)
    BY DEF OneValue
  <2> QED
    BY <1>1 DEF OneValue
<1>4. CommitsDecided'
  <2>1. \A m \in msgs' : m.type = "commit" => Decided(m.sn)'
    BY <1>1, <1>2 DEF CommitsDecided
  <2>2. \A n \in Node, s \in SN : pending'[n][s] # None => Decided(s)'
    BY <1>1, <1>2 DEF CommitsDecided
  <2> QED
    BY <2>1, <2>2 DEF CommitsDecided
<1> QED
  BY <1>3, <1>4

LEMMA CutOnceKept ==
    ASSUME Safe, \A t \in SN : Value(t)' = Value(t),
           \A k \in Node : bucket'[k] \subseteq bucket[k] /\ index[k] \subseteq index'[k]
    PROVE  CutOnce'
BY SafeParts, ProposerIsNode DEF CutOnce

\* A step that delivers nothing and cuts nothing.
LEMMA LearnStep ==
    ASSUME Safe, Typed', SentValue', UNCHANGED <<log, held, bucket, index>>,
           \A t \in SN : Value(t)' = Value(t),
           \A k \in Node, t \in SN :
               /\ lastVal'[k][t] \in {lastVal[k][t], Value(t)}
               /\ \/ pending'[k][t] \in {pending[k][t], None}
                  \/ pending'[k][t] = Value(t) /\ Decided(t)
               /\ \A e \in accepted'[k][t] : e \in accepted[k][t] \/ e[2] = Value(t),
           \A o \in msgs' : \/ o \in msgs \/ o.type \notin {"accept", "commit"}
                            \/ o.type = "accept" /\ o.val = Value(o.sn)
    PROVE  Safe'
<1>1. \A t \in SN : Decided(t)' = Decided(t)
  BY DEF Decided
<1>2. OneValue' /\ CommitsDecided'
  BY <1>1, ValuesKept
<1>3. CutOnce'
  BY CutOnceKept
<1> QED
  BY <1>2, <1>3 DEF Safe, Typed

\* A step that leaves the values alone: what is sent repeats one.
LEMMA QuietStep ==
    ASSUME Safe, Typed', SentValue',
           UNCHANGED <<log, held, bucket, index, lastVal, pending, accepted>>,
           \A o \in msgs' : \/ o \in msgs \/ o.type \notin {"accept", "commit"}
                            \/ o.type = "accept" /\ o.val = Value(o.sn)
    PROVE  Safe'
<1>1. \A t \in SN : Value(t)' = Value(t)
  BY DEF Value
<1> QED
  BY <1>1, LearnStep

\* Delivering the value of the SN.
LEMMA DeliverStep ==
    ASSUME Safe, Typed', SentValue', NEW n \in Node, NEW s \in SN, Value(s) # None,
           DeliverCommit(n, s, Value(s)), UNCHANGED <<index, accepted>>,
           lastVal' \in {lastVal, Set(lastVal, n, s, Value(s))},
           pending' = Set(pending, n, s, None),
           \A o \in msgs' : \/ o \in msgs \/ o.type \notin {"accept", "commit"}
                            \/ o.type = "commit" /\ o.sn = s /\ o.val = Value(s)
    PROVE  Safe'
<1> DEFINE v == Value(s)
<1>1. /\ ValueTypes /\ CommitTypes /\ BucketTypes /\ v \in Batch
      /\ \A t \in SN : Proposer(t) \in Node
  BY SafeParts, TypedParts, ProposerIsNode, ValueType
<1>2. \A t \in SN : log[n][t] \in {None, Value(t)} /\ held[t] \in {Nop, Value(t)}
  BY SafeParts DEF OneValue
<1>3. log' = IF log[n][s] = None THEN Set(log, n, s, v) ELSE log
  BY DEF DeliverCommit
<1>4. \/ /\ n = Proposer(s) /\ held[s] # Nop
         /\ held' = [held EXCEPT ![s] = Nop] /\ bucket' = bucket
      \/ /\ ~ (n = Proposer(s) /\ held[s] # Nop)
         /\ bucket' = [bucket EXCEPT ![n] = @ \ v] /\ held' = held
  BY DEF DeliverCommit, RemoveCommitted
<1> HIDE DEF v
<1>5. \A k \in Node, t \in SN :
         lastVal'[k][t] = lastVal[k][t] \/ (k = n /\ t = s /\ lastVal'[k][t] = v)
  <2>1. lastVal' = lastVal \/ lastVal' = [lastVal EXCEPT ![n][s] = v]
    BY DEF Set, v
  <2> QED
    BY <1>1, <2>1 DEF ValueTypes, Values
<1>6. \A t \in SN : Value(t)' = Value(t)
  BY <1>1, <1>5 DEF Value, v
<1>7. /\ log'[n][s] = v
      /\ \A k \in Node, t \in SN : ~ (k = n /\ t = s) => log'[k][t] = log[k][t]
  BY <1>1, <1>2, <1>3 DEF CommitTypes, Values, Set, v
<1>8. v # None
  BY DEF v
<1>9. \A k \in Node, t \in SN :
         log'[k][t] \in {log[k][t], Value(t)} /\ (log[k][t] # None => log'[k][t] # None)
  BY <1>7, <1>8 DEF v
<1>10. \A t \in SN : held'[t] \in {held[t], Nop}
  BY <1>1, <1>4 DEF BucketTypes
<1>11. \A k \in Node, t \in SN : pending'[k][t] \in {pending[k][t], None}
  BY <1>1 DEF CommitTypes, Values, Set
<1>12. Decided(s)'
  BY <1>7, <1>8 DEF Decided
<1>13. OneValue' /\ CommitsDecided'
  <2>1. \A o \in msgs' : \/ o \in msgs \/ o.type \notin {"accept", "commit"}
                         \/ o.val = Value(o.sn) /\ (o.type = "commit" => Decided(o.sn)')
    BY <1>12
  <2>2. \A k \in Node, t \in SN : \A e \in accepted'[k][t] : e \in accepted[k][t]
    OBVIOUS
  <2> QED
    BY <1>5, <1>6, <1>9, <1>10, <1>11, <2>1, <2>2, ValuesKept DEF v
<1>14. CutOnce'
  <2>1. \A k \in Node : bucket'[k] \subseteq bucket[k] /\ index[k] \subseteq index'[k]
    BY <1>1, <1>4 DEF BucketTypes
  <2> QED
    BY <1>6, <2>1, CutOnceKept
<1> QED
  BY <1>13, <1>14 DEF Safe, Typed


LEMMA ArriveSafe ==
    ASSUME Safe, Typed', SentValue', NEW n \in Node, NEW r \in Req, AddDirectToBucket(n, r)
    PROVE  Safe'
<1>1. /\ r \notin index[n]
      /\ index' = [index EXCEPT ![n] = @ \cup {r}] /\ bucket' = [bucket EXCEPT ![n] = @ \cup {r}]
      /\ UNCHANGED <<lastVal, accepted, pending, log, held, msgs>>
  BY DEF AddDirectToBucket, valueVars, commitVars
<1>2. /\ BucketTypes /\ \A t \in SN : Proposer(t) \in Node
  BY SafeParts, TypedParts, ProposerIsNode
<1>3. /\ \A t \in SN : Value(t)' = Value(t) /\ Decided(t)' = Decided(t)
  BY <1>1 DEF Value, Decided
<1>4. OneValue' /\ CommitsDecided'
  BY <1>1, <1>3, ValuesKept
<1>5. \A k \in Node : /\ index[k] \subseteq index'[k]
                      /\ bucket'[k] \subseteq bucket[k] \cup (index'[k] \ index[k])
  BY <1>1, <1>2 DEF BucketTypes
<1>6. CutOnce'
  <2> SUFFICES ASSUME Single, NEW s \in SN, Value(s) # None
               PROVE  /\ Value(s) \subseteq index'[Proposer(s)]
                      /\ Value(s) \cap bucket'[Proposer(s)] = {}
                      /\ \A t \in SN \ {s} : Value(t) = None \/ Value(s) \cap Value(t) = {}
    BY <1>3 DEF CutOnce
  <2>1. /\ Value(s) \subseteq index[Proposer(s)]
        /\ Value(s) \cap bucket[Proposer(s)] = {}
        /\ \A t \in SN \ {s} : Value(t) = None \/ Value(s) \cap Value(t) = {}
    BY SafeParts DEF CutOnce
  <2> QED
    BY <2>1, <1>2, <1>5
<1> QED
  BY <1>4, <1>6 DEF Safe, Typed

LEMMA ProposeSafe ==
    ASSUME Safe, Typed', SentValue', NEW s \in SN, ProposeIfDue(s)
    PROVE  Safe'
<1> DEFINE n == Proposer(s)
<1>1. /\ Send(Accept(s, ballot[s], lastVal'[n][s]))
      /\ UNCHANGED <<accepted, index, pending, log>>
  BY DEF ProposeIfDue, commitVars
<1>2. \/ lastVal[n][s] # None /\ UNCHANGED <<bucket, held, lastVal>>
      \/ /\ lastVal[n][s] = None
         /\ \E v \in Cut(bucket[n]) :
               /\ bucket' = RemoveFirst(n, v) /\ held' = [held EXCEPT ![s] = v]
               /\ lastVal' = Set(lastVal, n, s, v)
  BY DEF ProposeIfDue
<1>3. /\ ValueTypes /\ BucketTypes /\ PhaseTypes /\ n \in Node /\ ballot[s] \in Ballot
      /\ \A t \in SN : Proposer(t) \in Node
  BY SafeParts, TypedParts, ProposerIsNode DEF PhaseTypes
<1>4. Value(s) = lastVal[n][s]
  BY DEF Value
<1> HIDE DEF n
<1>5. CASE lastVal[n][s] # None /\ UNCHANGED <<bucket, held, lastVal>>
  <2>1. Value(s) \in Batch
    BY <1>4, <1>5, ValueType
  <2>2. \A o \in msgs' : o \in msgs \/ (o.type = "accept" /\ o.sn = s /\ o.val = Value(s))
    BY <1>1, <1>3, <1>4, <1>5, <2>1, SentAccept DEF Send
  <2> QED
    BY <1>1, <1>5, <2>2, QuietStep
<1>6. ASSUME lastVal[n][s] = None, NEW v \in Cut(bucket[n]),
             bucket' = RemoveFirst(n, v), held' = [held EXCEPT ![s] = v],
             lastVal' = Set(lastVal, n, s, v)
      PROVE  Safe'
  <2>1. v \in Batch /\ v # None /\ v \subseteq bucket[n]
    BY BatchType DEF Cut, Nop
  <2>2. \A k \in Node, t \in SN :
           lastVal'[k][t] = IF k = n /\ t = s THEN v ELSE lastVal[k][t]
    BY <1>3, <1>6, <2>1 DEF ValueTypes, Values, Set
  <2>3. Value(s)' = v /\ \A t \in SN \ {s} : Value(t)' = Value(t)
    BY <1>3, <2>2 DEF Value, n
  <2>4. /\ held[s] = Nop
        /\ \A k \in Node : /\ lastVal[k][s] = None /\ log[k][s] = None
                           /\ pending[k][s] = None /\ accepted[k][s] = {}
        /\ \A m \in msgs : m.type \in {"accept", "commit"} => m.sn # s
    BY <1>4, <1>6, ValueType
  <2>5. \A o \in msgs' : o \in msgs \/ (o.type = "accept" /\ o.sn = s /\ o.val = v)
    BY <1>1, <1>3, <2>1, <2>2, SentAccept DEF Send
  <2>6. held'[s] = v /\ \A t \in SN \ {s} : held'[t] = held[t]
    BY <1>3, <1>6 DEF BucketTypes
  <2>7. OneValue'
    <3> SUFFICES ASSUME NEW t \in SN
                 PROVE  /\ held'[t] \in {Nop, Value(t)'}
                        /\ \A k \in Node : /\ lastVal'[k][t] \in {None, Value(t)'}
                                           /\ log[k][t] \in {None, Value(t)'}
                                           /\ pending[k][t] \in {None, Value(t)'}
                                           /\ \A e \in accepted[k][t] : e[2] = Value(t)'
                        /\ \A m \in msgs' :
                              m.type \in {"accept", "commit"} /\ m.sn = t => m.val = Value(t)'
      BY <1>1 DEF OneValue
    <3>1. CASE t = s
      BY <3>1, <2>2, <2>3, <2>4, <2>5, <2>6
    <3>2. CASE t # s
      BY <3>2, <2>2, <2>3, <2>5, <2>6, SafeParts DEF OneValue
    <3> QED
      BY <3>1, <3>2
  <2>8. CommitsDecided'
    <3>1. \A t \in SN : Decided(t)' = Decided(t)
      BY <1>1 DEF Decided
    <3>2. \A m \in msgs : m.sn \in SN
      BY SafeParts, TypedParts, MessageType
    <3>3. \A m \in msgs' : m.type = "commit" => m \in msgs
      BY <2>5
    <3> QED
      BY <1>1, <3>1, <3>2, <3>3, SafeParts DEF CommitsDecided
  <2>9. bucket'[n] = bucket[n] \ v /\ \A k \in Node \ {n} : bucket'[k] = bucket[k]
    BY <1>3, <1>6 DEF BucketTypes, RemoveFirst
  <2>10. CutOnce'
    <3> SUFFICES ASSUME Single, NEW t \in SN, Value(t)' # None
                 PROVE  /\ Value(t)' \subseteq index[Proposer(t)]
                        /\ Value(t)' \cap bucket'[Proposer(t)] = {}
                        /\ \A u \in SN \ {t} : Value(u)' = None \/ Value(t)' \cap Value(u)' = {}
      BY <1>1 DEF CutOnce
    <3>1. \A u \in SN : Proposer(u) = n
      BY DEF Proposer, n
    <3>2. \A u \in SN : Value(u) # None =>
             /\ Value(u) \subseteq index[n] /\ Value(u) \cap bucket[n] = {}
             /\ \A w \in SN \ {u} : Value(w) = None \/ Value(u) \cap Value(w) = {}
      BY <3>1, SafeParts DEF CutOnce
    <3>3. v \subseteq index[n]
      BY <1>3, <2>1 DEF BucketTypes
    <3>4. CASE t = s
      BY <2>1, <2>3, <2>9, <3>1, <3>2, <3>3, <3>4
    <3>5. CASE t # s
      <4>1. Value(t)' = Value(t) /\ Value(t) # None
        BY <2>3, <3>5
      <4>2. Value(t) \subseteq index[n] /\ Value(t) \cap bucket'[n] = {} /\ Value(t) \cap v = {}
        BY <2>1, <2>9, <3>2, <4>1
      <4>3. \A u \in SN \ {t} : Value(u)' = None \/ Value(t) \cap Value(u)' = {}
        BY <2>3, <3>2, <4>1, <4>2
      <4> QED
        BY <3>1, <4>1, <4>2, <4>3
    <3> QED
      BY <3>4, <3>5
  <2> QED
    BY <2>7, <2>8, <2>10 DEF Safe, Typed
<1> QED
  BY <1>2, <1>5, <1>6

\* Nothing but the value of the SN is committed, by whatever way it is learnt.
LEMMA TakeCommitSafe ==
    ASSUME Safe, Typed', SentValue', NEW n \in Node, NEW s \in SN, Value(s) # None,
           TakeCommit(n, s, Value(s)), Decided(s) \/ lastVal[n][s] = Value(s),
           UNCHANGED <<lastVal, accepted, index>>,
           \A o \in msgs' : \/ o \in msgs \/ o.type \notin {"accept", "commit"}
                            \/ /\ o.type = "commit" /\ o.sn = s /\ o.val = Value(s)
                               /\ lastVal[n][s] = Value(s)
    PROVE  Safe'
<1>1. CASE lastVal[n][s] = Value(s)
  <2>1. DeliverCommit(n, s, Value(s)) /\ pending' = Set(pending, n, s, None)
    BY <1>1 DEF TakeCommit
  <2> QED
    BY <2>1, DeliverStep
<1>2. CASE lastVal[n][s] # Value(s)
  <2>1. /\ pending' = Set(pending, n, s, Value(s)) /\ UNCHANGED <<log, bucket, held>>
    BY <1>2 DEF TakeCommit
  <2>2. CommitTypes /\ Value(s) \in Batch
    BY SafeParts, TypedParts, ValueType
  <2>3. \A k \in Node, t \in SN :
           pending'[k][t] = pending[k][t] \/ (t = s /\ pending'[k][t] = Value(s))
    BY <2>1, <2>2 DEF CommitTypes, Values, Set
  <2>4. \A t \in SN : Value(t)' = Value(t)
    BY DEF Value
  <2>5. Decided(s)
    BY <1>2
  <2>6. \A o \in msgs' : o \in msgs \/ o.type \notin {"accept", "commit"}
    BY <1>2
  <2> QED
    BY <2>1, <2>3, <2>4, <2>5, <2>6, LearnStep
<1> QED
  BY <1>1, <1>2


LEMMA AcceptSafe ==
    ASSUME Safe, Typed', SentValue', NEW m \in msgs, OnAccept(m)
    PROVE  Safe'
<1> DEFINE n == m.to
           s == m.sn
           v == Value(s)
<1>1. /\ n \in Node /\ s \in SN /\ m.val = v /\ ValueTypes
      /\ m.type = "accept" /\ m.ballot \in Ballot
  BY SafeParts, TypedParts, MessageType DEF OnAccept, OneValue
<1>2. /\ lastVal' = Set(lastVal, n, s, v)
      /\ accepted' = Set(accepted, n, s, accepted[n][s] \cup {<<m.ballot, v>>})
      /\ msgs' = (msgs \ {m}) \cup Accepted(s, m.ballot, n)
      /\ UNCHANGED <<pending, log, held, bucket, index>>
  BY <1>1 DEF OnAccept, Receive, commitVars, bucketVars
<1> HIDE DEF v, n, s
<1>3. \A k \in Node, t \in SN :
         lastVal'[k][t] = lastVal[k][t] \/ (k = n /\ t = s /\ lastVal'[k][t] = v)
  BY <1>1, <1>2 DEF ValueTypes, Values, Set
<1>4. \A t \in SN : Value(t)' = Value(t)
  BY <1>3, ProposerIsNode DEF Value, v
<1>5. \A k \in Node, t \in SN : \A e \in accepted'[k][t] : e \in accepted[k][t] \/ e[2] = Value(t)
  BY <1>1, <1>2 DEF ValueTypes, Set, v
<1>6. \A o \in msgs' : o \in msgs \/ o.type = "accepted"
  BY <1>1, <1>2, SentAccepted
<1> QED
  BY <1>2, <1>3, <1>4, <1>5, <1>6, LearnStep DEF v

LEMMA AcceptedSafe ==
    ASSUME Safe, Typed', SentValue', NEW m \in msgs, OnAccepted(m)
    PROVE  Safe'
<1> DEFINE n == m.to
           s == m.sn
<1>1. n \in Node /\ s \in SN /\ UNCHANGED <<lastVal, accepted, index>>
  BY SafeParts, TypedParts, MessageType DEF OnAccepted
<1>2. CASE /\ lastVal[n][s] # None
           /\ Receive(m, Commit(s, lastVal[n][s])) /\ TakeCommit(n, s, lastVal[n][s])
  <2>1. lastVal[n][s] = Value(s) /\ Value(s) # None
    BY <1>1, <1>2, SafeParts DEF OneValue
  <2>2. Value(s) \in Batch
    BY <1>1, <2>1, ValueType
  <2>3. \A o \in msgs' : o \in msgs \/ (o.type = "commit" /\ o.sn = s /\ o.val = Value(s))
    BY <1>1, <1>2, <2>1, <2>2, SentCommit DEF Receive
  <2> QED
    BY <1>1, <1>2, <2>1, <2>3, TakeCommitSafe
<1>3. CASE Receive(m, {}) /\ UNCHANGED <<phase, commitVars, bucket, held>>
  BY <1>1, <1>3, QuietStep DEF Receive, commitVars
<1> QED
  BY <1>2, <1>3 DEF OnAccepted

LEMMA CommitSafe ==
    ASSUME Safe, Typed', SentValue', NEW m \in msgs, OnCommit(m)
    PROVE  Safe'
<1> DEFINE n == m.to
           s == m.sn
<1>1. /\ n \in Node /\ s \in SN /\ m.type = "commit" /\ m.val \in Batch
      /\ UNCHANGED <<lastVal, accepted, index>>
  BY SafeParts, TypedParts, MessageType DEF OnCommit, valueVars
<1>2. m.val = Value(s) /\ Value(s) # None /\ Decided(s)
  BY <1>1, SafeParts, BatchType DEF OneValue, CommitsDecided
<1>3. \A o \in msgs' : o \in msgs \/ o.type = "fetch"
  BY <1>1, SentFetch DEF OnCommit, Receive
<1>4. TakeCommit(n, s, Value(s))
  BY <1>2 DEF OnCommit
<1> QED
  BY <1>1, <1>2, <1>3, <1>4, TakeCommitSafe

LEMMA MissingSafe ==
    ASSUME Safe, Typed', SentValue', NEW m \in msgs, OnMissingEntry(m)
    PROVE  Safe'
<1> DEFINE n == m.to
           s == m.sn
<1>1. /\ n \in Node /\ s \in SN /\ ValueTypes /\ msgs' = msgs \ {m}
      /\ UNCHANGED <<accepted, index>>
  BY SafeParts, TypedParts, MessageType DEF OnMissingEntry, Receive
<1>2. PICK src \in Node \ {n} :
         /\ log[src][s] # None
         /\ lastVal' = Set(lastVal, n, s, log[src][s])
         /\ \/ UNCHANGED <<pending, log, bucket, held>>
            \/ pending' = Set(pending, n, s, None) /\ DeliverCommit(n, s, log[src][s])
  BY DEF OnMissingEntry
<1>3. log[src][s] = Value(s) /\ Value(s) # None
  BY <1>1, <1>2, SafeParts DEF OneValue
<1>4. CASE pending' = Set(pending, n, s, None) /\ DeliverCommit(n, s, log[src][s])
  BY <1>1, <1>2, <1>3, <1>4, DeliverStep
<1>5. CASE UNCHANGED <<pending, log, bucket, held>>
  <2>1. \A k \in Node, t \in SN :
           lastVal'[k][t] = lastVal[k][t] \/ (k = n /\ t = s /\ lastVal'[k][t] = Value(t))
    BY <1>1, <1>2, <1>3 DEF ValueTypes, Values, Set
  <2>2. \A t \in SN : Value(t)' = Value(t)
    BY <2>1, ProposerIsNode DEF Value
  <2> QED
    BY <1>1, <1>5, <2>1, <2>2, LearnStep
<1> QED
  BY <1>2, <1>4, <1>5

\* With no batch given up, the value of an SN never changes, whatever else happens.
LEMMA NextSafe ==
    ASSUME "giveup" \notin Ticks, Safe, [Next]_vars
    PROVE  Safe'
<1>0. Typed' /\ SentValue'
  BY SafeParts, NextTyped
<1>1. \A m \in msgs : m \in Message /\ m.sn \in SN /\ m.to \in Node
  BY SafeParts, TypedParts, MessageType
<1>2. ASSUME NEW n \in Node, NEW r \in Req, AddDirectToBucket(n, r) PROVE Safe'
  BY <1>0, <1>2, ArriveSafe
<1>3. ASSUME NEW n \in Node, NEW s \in SN, SetMembers(n, s) PROVE Safe'
  <2>1. UNCHANGED <<log, held, bucket, index, lastVal, pending, accepted>>
    BY <1>3 DEF SetMembers, valueVars, commitVars, bucketVars
  <2>2. grpPromised[n] \in Ballot
    BY SafeParts, TypedParts DEF PromiseTypes
  <2>3. \A o \in msgs' : o \in msgs \/ o.type = "prepare"
    BY <1>3, <2>2, SentPrepare DEF SetMembers, Send
  <2> QED
    BY <1>0, <2>1, <2>3, QuietStep
<1>4. ASSUME NEW m \in msgs, OnPrepare(m) PROVE Safe'
  <2>1. UNCHANGED <<log, held, bucket, index, lastVal, pending, accepted>>
    BY <1>4 DEF OnPrepare, valueVars, commitVars, bucketVars
  <2>2. \A o \in msgs' : o \in msgs \/ o.type = "promise"
    BY <1>1, <1>4, MessageType, SentPromise DEF OnPrepare, Receive
  <2> QED
    BY <1>0, <2>1, <2>2, QuietStep
<1>5. ASSUME NEW m \in msgs, OnPromise(m) PROVE Safe'
  BY <1>0, <1>5, QuietStep DEF OnPromise, Receive, valueVars, commitVars, bucketVars
<1>6. ASSUME NEW m \in msgs, OnAccept(m) PROVE Safe'
  BY <1>0, <1>6, AcceptSafe
<1>7. ASSUME NEW m \in msgs, OnAccepted(m) PROVE Safe'
  BY <1>0, <1>7, AcceptedSafe
<1>8. ASSUME NEW m \in msgs, OnCommit(m) PROVE Safe'
  BY <1>0, <1>8, CommitSafe
<1>9. ASSUME NEW m \in msgs, OnMissingEntry(m) PROVE Safe'
  BY <1>0, <1>9, MissingSafe
<1>10. ASSUME NEW s \in SN, ProposeIfDue(s) PROVE Safe'
  BY <1>0, <1>10, ProposeSafe
<1>11. ASSUME NEW s \in SN, Tick(s) PROVE Safe'
  <2>1. ResendAccept(s) \/ NewRound(s)
    BY <1>11 DEF Tick, GiveUp
  <2>2. CASE ResendAccept(s)
    <3>1. UNCHANGED <<log, held, bucket, index, lastVal, pending, accepted>>
      BY <2>2 DEF ResendAccept, valueVars, commitVars, bucketVars
    <3>2. Value(s) \in Batch /\ ballot[s] \in Ballot /\ lastVal[Proposer(s)][s] = Value(s)
      BY <2>2, SafeParts, TypedParts, ProposerIsNode, ValueType
         DEF ResendAccept, Waiting, SentValue, PhaseTypes, Value
    <3>3. \A o \in msgs' : o \in msgs \/ (o.type = "accept" /\ o.sn = s /\ o.val = Value(s))
      BY <2>2, <3>2, SentAccept DEF ResendAccept, Send
    <3> QED
      BY <1>0, <3>1, <3>3, QuietStep
  <2>3. CASE NewRound(s)
    <3>1. UNCHANGED <<log, held, bucket, index, lastVal, pending, accepted>>
      BY <2>3 DEF NewRound, KeepValue, commitVars, bucketVars
    <3>2. ballot[s] + 1 \in Ballot
      BY <2>3, SafeParts, TypedParts, BoundAssumption DEF NewRound, PhaseTypes, Ballot
    <3>3. \A o \in msgs' : o \in msgs \/ o.type = "prepare"
      BY <2>3, <3>2, SentPrepare DEF NewRound, Send
    <3> QED
      BY <1>0, <3>1, <3>3, QuietStep
  <2> QED
    BY <2>1, <2>2, <2>3
<1>12. ASSUME NEW n \in Node, NEW s \in SN, CatchUp(n, s) PROVE Safe'
  <2>1. \A o \in msgs' : o \in msgs \/ o.type = "fetch"
    BY <1>12, SentFetch DEF CatchUp, Send
  <2> QED
    BY <1>0, <1>12, <2>1, QuietStep DEF CatchUp, valueVars, commitVars, bucketVars
<1>13. CASE UNCHANGED vars
  BY <1>0, <1>13, QuietStep DEF vars, valueVars, commitVars, bucketVars
<1> QED
  BY <1>2, <1>3, <1>4, <1>5, <1>6, <1>7, <1>8, <1>9, <1>10, <1>11, <1>12, <1>13
     DEF Next, Arrive, Join, Handle

\* Safe holds in every reachable state, as long as tick does not give a batch up: ballots
\* and the proposer of an SN fix the value that is accepted, committed and logged.
THEOREM SafeInvariant ==
    ASSUME "giveup" \notin Ticks
    PROVE  Spec => []Safe
<1>1. Safe /\ [Next]_vars => Safe'
  BY NextSafe
<1> QED
  BY <1>1, InitSafe, PTL DEF Spec

\* The members agree on every SN, whatever the order of the messages, the rounds, who
\* counts the ACCEPTEDs and who learns late of the group (multipaxosinstance.go), as
\* long as tick does not give a batch up.
THEOREM MembersAgree ==
    ASSUME "giveup" \notin Ticks
    PROVE  Spec => []Agreement
<1>1. Safe => Agreement
  BY SafeParts DEF OneValue, Agreement
<1> QED
  BY <1>1, SafeInvariant, PTL

\* A COMMIT that came before its ACCEPT waits for a value that is in some log.
THEOREM PendingIsBacked ==
    ASSUME "giveup" \notin Ticks
    PROVE  Spec => []PendingBacked
<1>1. Safe => PendingBacked
  BY SafeParts DEF OneValue, CommitsDecided, Decided, PendingBacked
<1> QED
  BY <1>1, SafeInvariant, PTL

-----------------------------------------------------------------------------
(* The instances implement the decisions *)

Enters(n, s) ==
    /\ Value(s) # None /\ log[n][s] = None
    /\ log' = [log EXCEPT ![n][s] = Value(s)]

LEMMA DeliverEnters ==
    ASSUME NEW n \in Node, NEW s \in SN, NEW v, v = Value(s), v # None, DeliverCommit(n, s, v)
    PROVE  log' = log \/ Enters(n, s)
BY DEF DeliverCommit, Set, Enters

\* A step leaves the logs alone, or enters the value of an SN in one of them.
LEMMA LogStep ==
    ASSUME "giveup" \notin Ticks, Safe, [Next]_vars
    PROVE  log' = log \/ \E n \in Node, s \in SN : Enters(n, s)
<1>1. OneValue /\ \A m \in msgs : m.sn \in SN /\ m.to \in Node
  BY SafeParts, TypedParts, MessageType
<1>2. ASSUME NEW m \in msgs, OnAccepted(m), log' # log
      PROVE  \E n \in Node, s \in SN : Enters(n, s)
  <2>1. lastVal[m.to][m.sn] # None /\ TakeCommit(m.to, m.sn, lastVal[m.to][m.sn])
    BY <1>2 DEF OnAccepted, commitVars
  <2>2. lastVal[m.to][m.sn] = Value(m.sn)
    BY <1>1, <2>1 DEF OneValue
  <2>3. DeliverCommit(m.to, m.sn, Value(m.sn))
    BY <2>1, <2>2 DEF TakeCommit
  <2> QED
    BY <1>1, <1>2, <2>1, <2>2, <2>3, DeliverEnters
<1>3. ASSUME NEW m \in msgs, OnCommit(m), log' # log
      PROVE  \E n \in Node, s \in SN : Enters(n, s)
  <2>1. m.val = Value(m.sn) /\ m.val # None
    BY <1>1, <1>3, SafeParts, TypedParts, MessageType, BatchType DEF OnCommit, OneValue
  <2>2. DeliverCommit(m.to, m.sn, m.val)
    BY <1>3 DEF OnCommit, TakeCommit
  <2> QED
    BY <1>1, <1>3, <2>1, <2>2, DeliverEnters
<1>4. ASSUME NEW m \in msgs, OnMissingEntry(m), log' # log
      PROVE  \E n \in Node, s \in SN : Enters(n, s)
  <2>1. PICK src \in Node : log[src][m.sn] # None /\ DeliverCommit(m.to, m.sn, log[src][m.sn])
    BY <1>4 DEF OnMissingEntry
  <2>2. log[src][m.sn] = Value(m.sn)
    BY <1>1, <2>1 DEF OneValue
  <2> QED
    BY <1>1, <1>4, <2>1, <2>2, DeliverEnters
<1>5. ASSUME NEW m \in msgs, OnPrepare(m) \/ OnPromise(m) \/ OnAccept(m)
      PROVE  log' = log
  BY <1>5 DEF OnPrepare, OnPromise, OnAccept, commitVars
<1>6. ASSUME NEW n \in Node, NEW s \in SN, SetMembers(n, s) \/ CatchUp(n, s) PROVE log' = log
  BY <1>6 DEF SetMembers, CatchUp, commitVars
<1>7. ASSUME NEW s \in SN, ProposeIfDue(s) \/ Tick(s) PROVE log' = log
  BY <1>7 DEF ProposeIfDue, Tick, GiveUp, ResendAccept, NewRound, commitVars
<1>8. ASSUME NEW n \in Node, NEW r \in Req, AddDirectToBucket(n, r) PROVE log' = log
  BY <1>8 DEF AddDirectToBucket, commitVars
<1>9. CASE UNCHANGED vars
  BY <1>9 DEF vars, commitVars
<1> QED
  BY <1>2, <1>3, <1>4, <1>5, <1>6, <1>7, <1>8, <1>9 DEF Next, Arrive, Join, Handle

\* Every step of the instances decides one SN at one member, or nothing: each log gets at
\* most one entry per SN (DeliverCommit), every log the same, and under the Single leader
\* policy no request is decided at two SNs (CutBatch and RemoveFirst).
THEOREM Implements ==
    ASSUME "giveup" \notin Ticks
    PROVE  Spec => ImplementsDecision
<1>1. Init => Decision!Init
  BY DEF Init, Decision!Init
<1>2. Safe /\ [Next]_vars => [Decision!Next]_log
  <2> SUFFICES ASSUME Safe, [Next]_vars, log' # log PROVE Decision!Next
    OBVIOUS
  <2>1. PICK n \in Node, s \in SN : Enters(n, s)
    BY LogStep
  <2>2. Value(s) \in SUBSET Req
    BY <2>1, ValueType, BatchType DEF Enters
  <2>3. \A m \in Node, t \in SN : log[m][t] \in {None, Value(t)}
    BY SafeParts DEF OneValue
  <2>4. Single => \A m \in Node, t \in SN \ {s} : log[m][t] = None \/ log[m][t] \cap Value(s) = {}
    BY <2>1, <2>3, SafeParts DEF CutOnce, Enters
  <2>5. Decision!Decide(n, s, Value(s))
    BY <2>1, <2>3, <2>4 DEF Decision!Decide, Enters
  <2> QED
    BY <2>2, <2>5 DEF Decision!Next
<1> QED
  BY <1>1, <1>2, SafeInvariant, PTL DEF Spec, ImplementsDecision, Decision!Spec

-----------------------------------------------------------------------------
(* What stands behind an entry, whatever tick does *)

LEMMA SoundParts ==
    Sound => /\ ValueTypes /\ CommitTypes /\ BucketTypes /\ PromiseTypes /\ PhaseTypes
             /\ Typed /\ SentValue /\ msgs \subseteq Message
             /\ \A m \in msgs : m \in Message /\ m.sn \in SN /\ m.to \in Node
             /\ \A s \in SN : Proposer(s) \in Node /\ Value(s) \in {None} \cup Batch
<1> SUFFICES ASSUME Sound
             PROVE  /\ ValueTypes /\ CommitTypes /\ BucketTypes /\ PromiseTypes /\ PhaseTypes
                    /\ Typed /\ SentValue /\ msgs \subseteq Message
                    /\ \A m \in msgs : m \in Message /\ m.sn \in SN /\ m.to \in Node
                    /\ \A s \in SN : Proposer(s) \in Node /\ Value(s) \in {None} \cup Batch
  OBVIOUS
<1>1. Typed /\ SentValue
  BY DEF Sound
<1>2. /\ ValueTypes /\ CommitTypes /\ BucketTypes /\ PromiseTypes /\ PhaseTypes
      /\ msgs \subseteq Message
  BY <1>1, TypedParts
<1>3. \A s \in SN : Value(s) \in {None} \cup Batch
  BY <1>2, ProposerIsNode DEF Value, ValueTypes, Values
<1> QED
  BY <1>1, <1>2, <1>3, ProposerIsNode, MessageType

LEMMA InitSound == Init => Sound /\ NothingLost
<1> SUFFICES ASSUME Init PROVE Sound /\ NothingLost
  OBVIOUS
<1>1. Typed /\ SentValue
  BY InitTyped DEF Init, SentValue
<1>2. \A s \in SN : Proposer(s) \in Node
  BY ProposerIsNode
<1>3. /\ msgs = {}
      /\ \A s \in SN : held[s] = Nop
      /\ \A n \in Node, s \in SN :
            /\ n = Proposer(s) \/ joined[n][s] \/ n \in Late
            /\ acceptedFrom[n][s] = {} /\ accepted[n][s] = {}
            /\ log[n][s] = None /\ pending[n][s] = None /\ lastVal[n][s] = None
            /\ phase[n][s] = "init"
      /\ \A n \in Node : index[n] = {}
  BY DEF Init
<1>4. VotesGiven
  BY <1>2, <1>3 DEF VotesGiven
<1>5. OneAsked /\ Proposed
  BY <1>2, <1>3 DEF OneAsked, Proposed, Asked
<1>6. Learnt
  BY <1>3 DEF Learnt, Knows
<1>7. NothingLost
  BY <1>3 DEF NothingLost
<1> QED
  BY <1>1, <1>4, <1>5, <1>6, <1>7 DEF Sound

LEMMA AccepterAsked ==
    ASSUME NEW s \in SN, NEW v, NEW n \in Accepters(s, v)
    PROVE  n \in Node /\ n \in Acceptors(s) /\ Asked(s, v)
<1>1. PICK b \in Ballot : <<b, v>> \in accepted[n][s]
  BY DEF Accepters
<1>2. <<b, v>>[2] = v
  OBVIOUS
<1>3. n \in Node
  BY DEF Accepters
<1> QED
  BY <1>1, <1>2, <1>3 DEF Asked, Acceptors

\* Something stands behind nothing but what was asked for and the NOP of the proposer.
LEMMA BackedAsked ==
    ASSUME NEW s \in SN, NEW v, Backed(s, v)
    PROVE  \/ \E n \in Node : n \in Accepters(s, v) /\ Asked(s, v)
           \/ v = Nop /\ log[Proposer(s)][s] = Nop
<1>1. CASE 2 * Cardinality(Accepters(s, v)) > Cardinality(Node)
  <2>1. ASSUME Accepters(s, v) = {} PROVE FALSE
    <3>1. Cardinality(Accepters(s, v)) = 0 /\ Cardinality(Node) \in Nat
      BY <2>1, FS_EmptySet, FS_CardinalityType, GroupAssumption
    <3> QED
      BY <1>1, <3>1
  <2> QED
    BY <2>1, AccepterAsked
<1>2. CASE \E m \in Late \ {Proposer(s)} : log[m][s] # None /\ m \in Accepters(s, v)
  BY <1>2, AccepterAsked
<1> QED
  BY <1>1, <1>2 DEF Backed

\* Until the proposer gives up, something stands behind no other value than its own.
LEMMA BackedIsValue ==
    ASSUME Sound, NEW s \in SN, NEW v \in Batch, Backed(s, v), ~GaveUp(s)
    PROVE  v = Value(s)
<1>1. /\ log[Proposer(s)][s] \in {None, Value(s)}
      /\ Asked(s, v) => v = Value(s)
  BY DEF Sound, Proposed
<1>2. Nop # None
  BY BatchType
<1> QED
  BY <1>1, <1>2, BackedAsked

\* What stands behind an entry goes on standing behind it.
LEMMA BackedStays ==
    ASSUME NEW s \in SN, NEW v, Backed(s, v), Proposer(s) \in Node,
           \A n \in Node : /\ accepted[n][s] \subseteq accepted'[n][s]
                           /\ log[n][s] # None => log'[n][s] = log[n][s]
    PROVE  Backed(s, v)'
<1>1. Accepters(s, v) \subseteq Accepters(s, v)' /\ Accepters(s, v)' \subseteq Node
  BY DEF Accepters
<1>2. CASE 2 * Cardinality(Accepters(s, v)) > Cardinality(Node)
  <2>1. /\ IsFiniteSet(Accepters(s, v)')
        /\ Cardinality(Accepters(s, v)) <= Cardinality(Accepters(s, v)')
    BY <1>1, GroupAssumption, FS_Subset
  <2>2. /\ Cardinality(Accepters(s, v)) \in Nat /\ Cardinality(Accepters(s, v)') \in Nat
        /\ Cardinality(Node) \in Nat
    BY <1>1, <2>1, GroupAssumption, FS_Subset, FS_CardinalityType
  <2>3. 2 * Cardinality(Accepters(s, v)') > Cardinality(Node)
    BY <1>2, <2>1, <2>2
  <2> QED
    BY <2>3 DEF Backed
<1>3. CASE \E m \in Late \ {Proposer(s)} : log[m][s] # None /\ m \in Accepters(s, v)
  <2>1. PICK m \in Late \ {Proposer(s)} : log[m][s] # None /\ m \in Accepters(s, v)
    BY <1>3
  <2>2. m \in Node /\ m \in Accepters(s, v)'
    BY <1>1, <2>1
  <2> QED
    BY <2>1, <2>2 DEF Backed
<1>4. CASE "giveup" \in Ticks /\ v = Nop /\ log[Proposer(s)][s] = Nop
  <2>1. log'[Proposer(s)][s] = Nop
    BY <1>4, BatchType
  <2> QED
    BY <1>4, <2>1 DEF Backed
<1> QED
  BY <1>2, <1>3, <1>4 DEF Backed

\* Who counts enough ACCEPTEDs for its value may decide it.
LEMMA QuorumEntitles ==
    ASSUME Sound, NEW n \in Node, NEW s \in SN, NEW F, F \subseteq Acceptors(s), F # {},
           HasQuorum(n, s, F), lastVal[n][s] # None
    PROVE  \/ Backed(s, lastVal[n][s])
           \/ n \in Late \ {Proposer(s)} /\ n \in Accepters(s, lastVal[n][s])
<1> DEFINE v == lastVal[n][s]
<1>1. ValueTypes /\ v \in Batch /\ Proposer(s) \in Node
  BY SoundParts DEF ValueTypes, Values
<1>2. joined[Proposer(s)][s] /\ (n = Proposer(s) \/ joined[n][s] \/ n \in Late)
  BY DEF Sound, VotesGiven, Acceptors
<1>3. \A k \in Acceptors(s) : \E b \in Ballot, w \in Batch : <<b, w>> \in accepted[k][s] /\ Asked(s, w)
  <2> SUFFICES ASSUME NEW k \in Node, NEW e \in accepted[k][s]
               PROVE  \E b \in Ballot, w \in Batch : <<b, w>> \in accepted[k][s] /\ Asked(s, w)
    BY DEF Acceptors
  <2>1. e \in Ballot \X Batch
    BY <1>1 DEF ValueTypes
  <2>2. e = <<e[1], e[2]>> /\ e[1] \in Ballot /\ e[2] \in Batch
    BY <2>1
  <2> QED
    BY <2>2 DEF Asked
<1>4. ASSUME Asked(s, v) PROVE Acceptors(s) \subseteq Accepters(s, v)
  <2> SUFFICES ASSUME NEW k \in Acceptors(s) PROVE k \in Accepters(s, v)
    OBVIOUS
  <2>1. PICK b \in Ballot, w \in Batch : <<b, w>> \in accepted[k][s] /\ Asked(s, w)
    BY <1>3
  <2>2. w = v
    BY <1>1, <1>4, <2>1 DEF Sound, OneAsked
  <2> QED
    BY <2>1, <2>2 DEF Accepters, Acceptors
<1>5. ASSUME Asked(s, v), joined[n][s] PROVE Backed(s, v)
  <2>1. F \subseteq Accepters(s, v) /\ Accepters(s, v) \subseteq Node
    BY <1>4, <1>5 DEF Accepters
  <2>2. /\ IsFiniteSet(Accepters(s, v)) /\ Cardinality(F) <= Cardinality(Accepters(s, v))
        /\ Cardinality(F) \in Nat /\ Cardinality(Accepters(s, v)) \in Nat
        /\ Cardinality(Node) \in Nat
    BY <2>1, GroupAssumption, FS_Subset, FS_CardinalityType
  <2>3. 2 * Cardinality(F) > Cardinality(Node)
    BY <1>5 DEF HasQuorum
  <2>4. 2 * Cardinality(Accepters(s, v)) > Cardinality(Node)
    BY <2>2, <2>3
  <2> QED
    BY <2>4 DEF Backed
<1>6. Knows(n, s)
  BY DEF Sound, Learnt
<1>7. CASE n \in Accepters(s, v)
  BY <1>2, <1>5, <1>7, AccepterAsked
<1>8. CASE n = Proposer(s) /\ log[n][s] = None
  <2>1. ~GaveUp(s)
    BY <1>8 DEF GaveUp
  <2>2. PICK k \in F : TRUE
    OBVIOUS
  <2>3. PICK w \in Batch : Asked(s, w)
    BY <1>3, <2>2
  <2>4. w = Value(s) /\ Value(s) = v
    BY <1>8, <2>1, <2>3 DEF Sound, Proposed, Value
  <2> QED
    BY <1>2, <1>5, <1>8, <2>3, <2>4
<1> QED
  BY <1>6, <1>7, <1>8 DEF Knows

\* What a step leaves of the votes: who sent an ACCEPTED has accepted, and the
\* proposer sends an ACCEPT only when it knows the group.
LEMMA VotesStep ==
    ASSUME Sound, \A n \in Node, s \in SN :
               /\ joined[n][s] => joined'[n][s]
               /\ accepted[n][s] \subseteq accepted'[n][s]
               /\ accepted'[n][s] # {} => accepted[n][s] # {} \/ joined[Proposer(s)][s]
               /\ acceptedFrom'[n][s] \subseteq Acceptors(s),
           \A s \in SN : phase'[Proposer(s)][s] = "acceptSent" =>
               joined'[Proposer(s)][s] /\ prepared'[Proposer(s)][s] /\ log'[Proposer(s)][s] = None,
           \A o \in msgs' :
               \/ o \in msgs \/ o.type \notin {"accept", "accepted"}
               \/ o.type = "accept" /\ o.sn \in SN /\ joined[Proposer(o.sn)][o.sn]
               \/ o.type = "accepted" /\ o.sn \in SN /\ o.from \in Acceptors(o.sn)'
    PROVE  VotesGiven'
<1>1. VotesGiven /\ (\A m \in msgs : m.sn \in SN) /\ \A s \in SN : Proposer(s) \in Node
  BY SoundParts DEF Sound
<1>2. \A s \in SN : Acceptors(s) \subseteq Acceptors(s)'
  BY DEF Acceptors
<1>3. \A n \in Node, s \in SN :
         /\ n = Proposer(s) \/ joined'[n][s] \/ n \in Late
         /\ acceptedFrom'[n][s] \subseteq Acceptors(s)'
         /\ accepted'[n][s] # {} => joined'[Proposer(s)][s]
  BY <1>1, <1>2 DEF VotesGiven
<1>4. \A m \in msgs' : /\ m.type = "accept" => joined'[Proposer(m.sn)][m.sn]
                       /\ m.type = "accepted" => m.from \in Acceptors(m.sn)'
  BY <1>1, <1>2 DEF VotesGiven
<1> QED
  BY <1>3, <1>4 DEF VotesGiven

\* What it leaves of the proposals: nothing new is asked for, but the proposer's own value
\* once more.
LEMMA ProposedStep ==
    ASSUME Sound, \A s \in SN :
               /\ GaveUp(s) => GaveUp(s)'
               /\ \/ GaveUp(s)'
                  \/ /\ Value(s)' = Value(s) /\ held'[s] \in {held[s], Nop}
                     /\ log'[Proposer(s)][s] \in {log[Proposer(s)][s], Value(s)}
               /\ \A v \in Batch : Asked(s, v)' => Asked(s, v) \/ (v = Value(s) /\ ~GaveUp(s))
    PROVE  OneAsked' /\ Proposed'
<1>1. OneAsked /\ Proposed
  BY DEF Sound
<1>2. ASSUME NEW s \in SN, NEW v \in Batch, NEW w \in Batch, Asked(s, v)', Asked(s, w)'
      PROVE  v = w
  <2>1. CASE GaveUp(s)
    BY <1>1, <1>2, <2>1 DEF OneAsked
  <2>2. CASE ~GaveUp(s)
    BY <1>1, <1>2, <2>2 DEF Proposed
  <2> QED
    BY <2>1, <2>2
<1>3. ASSUME NEW s \in SN, ~GaveUp(s)'
      PROVE  /\ held'[s] \in {Nop, Value(s)'}
             /\ log'[Proposer(s)][s] \in {None, Value(s)'}
             /\ \A v \in Batch : Asked(s, v)' => v = Value(s)'
  <2>1. /\ held[s] \in {Nop, Value(s)} /\ log[Proposer(s)][s] \in {None, Value(s)}
        /\ \A v \in Batch : Asked(s, v) => v = Value(s)
    BY <1>1, <1>3 DEF Proposed
  <2>2. /\ Value(s)' = Value(s) /\ held'[s] \in {held[s], Nop}
        /\ log'[Proposer(s)][s] \in {log[Proposer(s)][s], Value(s)}
        /\ \A v \in Batch : Asked(s, v)' => Asked(s, v) \/ v = Value(s)
    BY <1>3
  <2> QED
    BY <2>1, <2>2
<1> QED
  BY <1>2, <1>3 DEF OneAsked, Proposed

\* What it leaves of what is known: what a member learns, something stands behind.
LEMMA LearntStep ==
    ASSUME Sound, \A n \in Node, s \in SN :
               /\ accepted[n][s] \subseteq accepted'[n][s]
               /\ log[n][s] # None => log'[n][s] = log[n][s]
               /\ \/ lastVal'[n][s] = lastVal[n][s] /\ log'[n][s] = log[n][s]
                  \/ Knows(n, s)'
               /\ log'[n][s] = log[n][s] \/ Backed(s, log[n][s])'
               /\ pending'[n][s] \in {pending[n][s], None} \/ Backed(s, pending[n][s])',
           \A o \in msgs' : \/ o \in msgs \/ o.type # "commit"
                            \/ Backed(o.sn, o.val)'
    PROVE  Learnt'
<1>1. Learnt /\ (\A m \in msgs : m.sn \in SN) /\ \A s \in SN : Proposer(s) \in Node
  BY SoundParts DEF Sound
<1>2. ASSUME NEW s \in SN, NEW v, Backed(s, v) PROVE Backed(s, v)'
  BY <1>1, <1>2, BackedStays
<1>3. ASSUME NEW n \in Node, NEW s \in SN PROVE Knows(n, s)'
  <2>1. CASE lastVal'[n][s] = lastVal[n][s] /\ log'[n][s] = log[n][s]
    <3>1. Knows(n, s)
      BY <1>1 DEF Learnt
    <3>2. PICK v : v = lastVal[n][s]
      OBVIOUS
    <3>3. Backed(s, v) => Backed(s, v)'
      BY <1>2
    <3>4. n \in Accepters(s, v) => n \in Accepters(s, v)'
      BY DEF Accepters
    <3>5. v = lastVal'[n][s]
      BY <2>1, <3>2
    <3>6. Backed(s, v)' => Backed(s, lastVal[n][s])'
      BY <3>5 DEF Backed, Accepters
    <3>7. n \in Accepters(s, v)' => n \in Accepters(s, lastVal[n][s])'
      BY <3>5 DEF Accepters
    <3> QED
      BY <2>1, <3>1, <3>2, <3>3, <3>4, <3>6, <3>7 DEF Knows
  <2> QED
    BY <2>1
<1>4. ASSUME NEW n \in Node, NEW s \in SN, log'[n][s] # None PROVE Backed(s, log[n][s])'
  <2>1. CASE log'[n][s] = log[n][s]
    <3>1. Backed(s, log[n][s])
      BY <1>1, <1>4, <2>1 DEF Learnt
    <3>2. PICK v : v = log[n][s]
      OBVIOUS
    <3>3. Backed(s, v)'
      BY <1>2, <3>1, <3>2
    <3> QED
      BY <2>1, <3>2, <3>3 DEF Backed, Accepters
  <2> QED
    BY <2>1
<1>5. ASSUME NEW n \in Node, NEW s \in SN, pending'[n][s] # None PROVE Backed(s, pending[n][s])'
  <2>1. CASE pending'[n][s] = pending[n][s]
    <3>1. Backed(s, pending[n][s])
      BY <1>1, <1>5, <2>1 DEF Learnt
    <3>2. PICK v : v = pending[n][s]
      OBVIOUS
    <3>3. Backed(s, v)'
      BY <1>2, <3>1, <3>2
    <3> QED
      BY <2>1, <3>2, <3>3 DEF Backed, Accepters
  <2> QED
    BY <1>5, <2>1
<1>6. \A m \in msgs' : m.type = "commit" => Backed(m.sn, m.val)'
  BY <1>1, <1>2 DEF Learnt
<1> QED
  BY <1>3, <1>4, <1>5, <1>6 DEF Learnt

LEMMA AskedStep ==
    ASSUME \A n \in Node, s \in SN : \A e \in accepted'[n][s] :
               e \in accepted[n][s] \/ Asked(s, e[2]),
           \A o \in msgs' : o.type = "accept" =>
               o \in msgs \/ (o.val = Value(o.sn) /\ ~GaveUp(o.sn))
    PROVE  \A s \in SN : \A v \in Batch :
               Asked(s, v)' => Asked(s, v) \/ (v = Value(s) /\ ~GaveUp(s))
<1> SUFFICES ASSUME NEW s \in SN, NEW v \in Batch, Asked(s, v)', ~Asked(s, v)
             PROVE  v = Value(s) /\ ~GaveUp(s)
  OBVIOUS
<1>1. ~ \E n \in Node : \E e \in accepted'[n][s] : e[2] = v
  BY DEF Asked
<1>2. PICK o \in msgs' : o.type = "accept" /\ o.sn = s /\ o.val = v
  BY <1>1 DEF Asked
<1>3. o \notin msgs
  BY <1>2 DEF Asked
<1> QED
  BY <1>2, <1>3

\* A step that leaves the values alone: what is asked for repeats the proposer's own.
LEMMA QuietSound ==
    ASSUME Sound, Typed', SentValue',
           UNCHANGED <<log, held, lastVal, accepted, bucket, index>>,
           \A s \in SN : GaveUp(s) => GaveUp(s)',
           \A n \in Node, s \in SN :
               /\ joined[n][s] => joined'[n][s]
               /\ acceptedFrom'[n][s] \subseteq Acceptors(s)
               /\ pending'[n][s] \in {pending[n][s], None} \/ Backed(s, pending'[n][s]),
           \A s \in SN : phase'[Proposer(s)][s] = "acceptSent" =>
               joined'[Proposer(s)][s] /\ prepared'[Proposer(s)][s] /\ log[Proposer(s)][s] = None,
           \A o \in msgs' :
               \/ o \in msgs \/ o.type \notin {"accept", "accepted", "commit"}
               \/ /\ o.type = "accept" /\ o.sn \in SN /\ joined[Proposer(o.sn)][o.sn]
                  /\ o.val = Value(o.sn) /\ ~GaveUp(o.sn)
    PROVE  Sound' /\ (NothingLost => NothingLost')
<1>1. VotesGiven'
  BY VotesStep
<1>2. \A s \in SN : \A v \in Batch : Asked(s, v)' => Asked(s, v) \/ (v = Value(s) /\ ~GaveUp(s))
  BY AskedStep
<1>3. \A s \in SN : Value(s)' = Value(s) /\ Proposer(s) \in Node
  BY SoundParts DEF Value
<1>4. OneAsked' /\ Proposed'
  BY <1>2, <1>3, ProposedStep
<1>5. \A n \in Node, s \in SN :
         pending'[n][s] \in {pending[n][s], None} \/ Backed(s, pending[n][s])'
  <2> SUFFICES ASSUME NEW n \in Node, NEW s \in SN, Backed(s, pending'[n][s])
               PROVE  Backed(s, pending[n][s])'
    OBVIOUS
  <2> QED
    BY DEF Backed, Accepters
<1>6. Learnt'
  BY <1>5, LearntStep
<1>7. NothingLost => NothingLost'
  BY DEF NothingLost
<1> QED
  BY <1>1, <1>4, <1>6, <1>7 DEF Sound

LEMMA BackedAccepted ==
    ASSUME NEW s \in SN, NEW v, Backed(s, v), v # Nop
    PROVE  \E m \in Node : m \in Accepters(s, v)
BY BackedAsked

\* Delivering a value that something stands behind, or that a late member accepted.
LEMMA DeliverSound ==
    ASSUME Sound, Typed', SentValue', NEW n \in Node, NEW s \in SN, NEW v \in Batch,
           DeliverCommit(n, s, v), UNCHANGED <<joined, prepared, accepted, index>>,
           \/ Backed(s, v)
           \/ n \in Late \ {Proposer(s)} /\ n \in Accepters(s, v),
           n = Proposer(s) => ~GaveUp(s) /\ v = Value(s),
           lastVal' = Set(lastVal, n, s, v), pending' = Set(pending, n, s, None),
           \A k \in Node, t \in SN : acceptedFrom'[k][t] \subseteq Acceptors(t),
           \A o \in msgs' : \/ o \in msgs \/ o.type \notin {"accept", "accepted", "commit"}
                            \/ o.type = "commit" /\ o.sn = s /\ o.val = v
    PROVE  Sound' /\ (NothingLost => NothingLost')
<1>1. /\ ValueTypes /\ CommitTypes /\ BucketTypes /\ PhaseTypes /\ v # None
      /\ \A t \in SN : Proposer(t) \in Node
  BY SoundParts, BatchType
<1>2. /\ log' = IF log[n][s] = None THEN Set(log, n, s, v) ELSE log
      /\ phase' = Set(phase, n, s, "committed")
  BY DEF DeliverCommit
<1>3. \/ /\ n = Proposer(s) /\ held[s] # Nop
         /\ held' = [held EXCEPT ![s] = Nop] /\ bucket' = bucket
      \/ /\ ~ (n = Proposer(s) /\ held[s] # Nop)
         /\ bucket' = [bucket EXCEPT ![n] = @ \ v] /\ held' = held
  BY DEF DeliverCommit, RemoveCommitted
<1>4. \A k \in Node, t \in SN :
         /\ lastVal'[k][t] = IF k = n /\ t = s THEN v ELSE lastVal[k][t]
         /\ pending'[k][t] = IF k = n /\ t = s THEN None ELSE pending[k][t]
         /\ phase'[k][t] = IF k = n /\ t = s THEN "committed" ELSE phase[k][t]
  <2>1. \A k \in Node, t \in SN :
           lastVal'[k][t] = IF k = n /\ t = s THEN v ELSE lastVal[k][t]
    BY <1>1 DEF ValueTypes, Values, Set
  <2>2. \A k \in Node, t \in SN :
           pending'[k][t] = IF k = n /\ t = s THEN None ELSE pending[k][t]
    BY <1>1 DEF CommitTypes, Values, Set
  <2>3. \A k \in Node, t \in SN :
           phase'[k][t] = IF k = n /\ t = s THEN "committed" ELSE phase[k][t]
    BY <1>1, <1>2 DEF PhaseTypes, Set
  <2> QED
    BY <2>1, <2>2, <2>3
<1>5. /\ log'[n][s] = IF log[n][s] = None THEN v ELSE log[n][s]
      /\ \A k \in Node, t \in SN : ~ (k = n /\ t = s) => log'[k][t] = log[k][t]
  BY <1>1, <1>2 DEF CommitTypes, Values, Set
<1>6. \A t \in SN : /\ held'[t] \in {held[t], Nop}
                    /\ ~ (t = s /\ n = Proposer(s)) => held'[t] = held[t]
  <2>1. held \in [SN -> Batch]
    BY <1>1 DEF BucketTypes
  <2>2. CASE n = Proposer(s) /\ held' = [held EXCEPT ![s] = Nop]
    BY <2>1, <2>2
  <2> QED
    BY <1>3, <2>2
<1>7. Backed(s, v)'
  <2>1. CASE Backed(s, v)
    BY <1>1, <1>5, <2>1, BackedStays
  <2>2. CASE n \in Late \ {Proposer(s)} /\ n \in Accepters(s, v)
    <3>1. n \in Accepters(s, v)'
      BY <2>2 DEF Accepters
    <3>2. log'[n][s] # None
      BY <1>1, <1>5
    <3> QED
      BY <2>2, <3>1, <3>2 DEF Backed
  <2> QED
    BY <2>1, <2>2
<1>8. \A t \in SN : GaveUp(t) => ~ (t = s /\ n = Proposer(s))
  OBVIOUS
<1>9. \A t \in SN : GaveUp(t) => GaveUp(t)'
  <2> SUFFICES ASSUME NEW t \in SN, GaveUp(t) PROVE GaveUp(t)'
    OBVIOUS
  <2> QED
    <3>1. Proposer(t) \in Node /\ ~ (Proposer(t) = n /\ t = s)
      BY <1>1, <1>8
    <3>2. /\ phase'[Proposer(t)][t] = phase[Proposer(t)][t]
          /\ log'[Proposer(t)][t] = log[Proposer(t)][t]
      BY <1>4, <1>5, <3>1
    <3>3. held'[t] = held[t]
      BY <1>6, <3>1
    <3> QED
      BY <3>2, <3>3 DEF GaveUp
<1>10. VotesGiven'
  <2>1. \A t \in SN : phase'[Proposer(t)][t] = "acceptSent" =>
           joined'[Proposer(t)][t] /\ prepared'[Proposer(t)][t] /\ log'[Proposer(t)][t] = None
    BY <1>1, <1>4, <1>5 DEF Sound, VotesGiven
  <2> QED
    BY <2>1, VotesStep
<1>11. OneAsked' /\ Proposed'
  <2>1. \A t \in SN : Value(t)' = Value(t)
    BY <1>1, <1>4 DEF Value
  <2>2. \A t \in SN : log'[Proposer(t)][t] \in {log[Proposer(t)][t], Value(t)}
    BY <1>1, <1>5
  <2>3. \A t \in SN : \A w \in Batch :
           Asked(t, w)' => Asked(t, w) \/ (w = Value(t) /\ ~GaveUp(t))
    BY AskedStep
  <2> QED
    <3>1. \A t \in SN : Value(t)' = Value(t) /\ held'[t] \in {held[t], Nop}
      BY <1>6, <2>1
    <3> QED
      BY <1>9, <2>2, <2>3, <3>1, ProposedStep
<1>12. Learnt'
  <2>1. Knows(n, s)'
    BY <1>4, <1>7 DEF Knows, Backed, Accepters
  <2>2. log'[n][s] = log[n][s] \/ Backed(s, log[n][s])'
    BY <1>5, <1>7 DEF Backed, Accepters
  <2>3. \A k \in Node, t \in SN :
           /\ \/ lastVal'[k][t] = lastVal[k][t] /\ log'[k][t] = log[k][t]
              \/ Knows(k, t)'
           /\ log'[k][t] = log[k][t] \/ Backed(t, log[k][t])'
    BY <1>4, <1>5, <2>1, <2>2
  <2>4. \A o \in msgs' : o \in msgs \/ o.type # "commit" \/ Backed(o.sn, o.val)'
    BY <1>7
  <2>5. \A k \in Node, t \in SN :
           /\ accepted[k][t] \subseteq accepted'[k][t]
           /\ log[k][t] # None => log'[k][t] = log[k][t]
           /\ pending'[k][t] \in {pending[k][t], None}
    BY <1>4, <1>5
  <2> QED
    BY <2>3, <2>4, <2>5, LearntStep
<1>13. ASSUME NothingLost PROVE NothingLost'
  <2> SUFFICES ASSUME NEW k \in Node, NEW r \in index[k], r \notin bucket'[k]
               PROVE  \E t \in SN :
                         \/ Proposer(t) = k /\ r \in held'[t]
                         \/ log'[k][t] # None /\ r \in log'[k][t]
                         \/ /\ Proposer(t) # k /\ log'[k][t] # None
                            /\ \E m \in Node : \E e \in accepted'[m][t] : r \in e[2]
    BY DEF NothingLost
  <2>1. CASE r \in bucket[k]
    <3>1. k = n /\ r \in v
      BY <1>1, <1>3, <2>1 DEF BucketTypes
    <3>2. CASE n = Proposer(s)
      <4>1. log[n][s] \in {None, v}
        BY <3>2 DEF Sound, Proposed
      <4> QED
        BY <1>1, <1>5, <3>1, <4>1
    <3>3. CASE n # Proposer(s)
      <4>1. v # Nop
        BY <3>1 DEF Nop
      <4>2. PICK m \in Node : m \in Accepters(s, v)
        BY <4>1, BackedAccepted
      <4>3. PICK b \in Ballot : <<b, v>> \in accepted'[m][s]
        BY <4>2 DEF Accepters
      <4>4. <<b, v>>[2] = v
        OBVIOUS
      <4> QED
        BY <1>1, <1>5, <3>1, <3>3, <4>3, <4>4
    <3> QED
      BY <3>2, <3>3
  <2>2. CASE r \notin bucket[k]
    <3>1. PICK t \in SN :
             \/ Proposer(t) = k /\ r \in held[t]
             \/ log[k][t] # None /\ r \in log[k][t]
             \/ /\ Proposer(t) # k /\ log[k][t] # None
                /\ \E m \in Node : \E e \in accepted[m][t] : r \in e[2]
      BY <1>13, <2>2 DEF NothingLost
    <3>2. log[k][t] # None => log'[k][t] = log[k][t]
      BY <1>5
    <3>3. CASE Proposer(t) = k /\ r \in held[t]
      <4>1. CASE t = s /\ n = Proposer(s)
        <5>1. held[s] \in {Nop, v} /\ log[n][s] \in {None, v}
          BY <4>1 DEF Sound, Proposed
        <5>2. r \in v /\ k = n
          BY <3>3, <4>1, <5>1 DEF Nop
        <5>3. log'[n][s] = v /\ v # None
          BY <1>1, <1>5, <5>1
        <5> QED
          BY <5>2, <5>3
      <4>2. CASE ~ (t = s /\ n = Proposer(s))
        BY <1>6, <3>3, <4>2
      <4> QED
        BY <4>1, <4>2
    <3> QED
      BY <3>1, <3>2, <3>3
  <2> QED
    BY <2>1, <2>2
<1> QED
  BY <1>10, <1>11, <1>12, <1>13 DEF Sound

LEMMA ArriveSound ==
    ASSUME Sound, Typed', SentValue', NEW n \in Node, NEW r \in Req, AddDirectToBucket(n, r)
    PROVE  Sound' /\ (NothingLost => NothingLost')
<1>1. /\ index' = [index EXCEPT ![n] = @ \cup {r}] /\ bucket' = [bucket EXCEPT ![n] = @ \cup {r}]
      /\ UNCHANGED <<joined, phase, prepared, lastVal, acceptedFrom, accepted, pending, log, held,
                     msgs>>
  BY DEF AddDirectToBucket, promiseVars, valueVars, commitVars
<1>2. BucketTypes
  BY SoundParts
<1>3. VotesGiven' /\ OneAsked' /\ Proposed'
  <2>1. VotesGiven'
    BY <1>1 DEF Sound, VotesGiven, Acceptors
  <2>2. OneAsked'
    BY <1>1 DEF Sound, OneAsked, Asked
  <2>3. Proposed'
    BY <1>1 DEF Sound, Proposed, Asked, GaveUp, Value
  <2> QED
    BY <2>1, <2>2, <2>3
<1>4. Learnt'
  BY <1>1, LearntStep
<1>5. ASSUME NothingLost, NEW k \in Node, NEW q \in index'[k]
      PROVE  \/ q \in bucket'[k]
             \/ \E s \in SN :
                   \/ Proposer(s) = k /\ q \in held[s]
                   \/ log[k][s] # None /\ q \in log[k][s]
                   \/ /\ Proposer(s) # k /\ log[k][s] # None
                      /\ \E m \in Node : \E e \in accepted[m][s] : q \in e[2]
  <2>1. q \in bucket'[k] \/ q \in index[k]
    BY <1>1, <1>2 DEF BucketTypes
  <2>2. bucket[k] \subseteq bucket'[k]
    BY <1>1, <1>2 DEF BucketTypes
  <2> QED
    BY <1>5, <2>1, <2>2 DEF NothingLost
<1>6. NothingLost => NothingLost'
  BY <1>1, <1>5 DEF NothingLost
<1> QED
  BY <1>3, <1>4, <1>6 DEF Sound

\* A member accepts what is asked for: it is one value, and the proposer's while it
\* has not given up.
LEMMA AcceptSound ==
    ASSUME Sound, Typed', SentValue', NEW m \in msgs, OnAccept(m)
    PROVE  Sound' /\ (NothingLost => NothingLost')
<1>1. PICK n \in Node, s \in SN, v \in Batch, b \in Ballot :
         n = m.to /\ s = m.sn /\ v = m.val /\ b = m.ballot /\ m.type = "accept"
  BY SoundParts, MessageType DEF OnAccept
<1>2. /\ ValueTypes /\ v # None /\ \A t \in SN : Proposer(t) \in Node
  BY SoundParts, BatchType
<1>3. /\ phase[n][s] # "committed"
      /\ lastVal' = Set(lastVal, n, s, v)
      /\ accepted' = Set(accepted, n, s, accepted[n][s] \cup {<<b, v>>})
      /\ msgs' = (msgs \ {m}) \cup Accepted(s, b, n)
      /\ UNCHANGED <<joined, phase, prepared, acceptedFrom, pending, log, held, bucket, index>>
  BY <1>1 DEF OnAccept, Receive, commitVars, bucketVars
<1>4. Asked(s, v) /\ joined[Proposer(s)][s]
  BY <1>1 DEF Asked, Sound, VotesGiven
<1>5. \A k \in Node, t \in SN :
         /\ lastVal'[k][t] = IF k = n /\ t = s THEN v ELSE lastVal[k][t]
         /\ accepted'[k][t] = IF k = n /\ t = s THEN accepted[n][s] \cup {<<b, v>>}
                              ELSE accepted[k][t]
  BY <1>2, <1>3 DEF ValueTypes, Values, Set
<1>6. \A o \in msgs' : o \in msgs \/ (o.type = "accepted" /\ o.sn = s /\ o.from = n)
  BY <1>1, <1>3, SentAccepted
<1>7. n \in Acceptors(s)'
  BY <1>5 DEF Acceptors
<1>8. VotesGiven'
  <2>1. \A k \in Node, t \in SN :
           /\ accepted[k][t] \subseteq accepted'[k][t]
           /\ accepted'[k][t] # {} => accepted[k][t] # {} \/ joined[Proposer(t)][t]
           /\ acceptedFrom'[k][t] \subseteq Acceptors(t)
    <3>1. \A k \in Node, t \in SN : acceptedFrom[k][t] \subseteq Acceptors(t)
      BY DEF Sound, VotesGiven
    <3> QED
      BY <1>3, <1>4, <1>5, <3>1
  <2>2. \A t \in SN : phase'[Proposer(t)][t] = "acceptSent" =>
           joined'[Proposer(t)][t] /\ prepared'[Proposer(t)][t] /\ log'[Proposer(t)][t] = None
    BY <1>3 DEF Sound, VotesGiven
  <2>3. \A k \in Node, t \in SN :
           /\ joined[k][t] => joined'[k][t]
           /\ accepted[k][t] \subseteq accepted'[k][t]
           /\ accepted'[k][t] # {} => accepted[k][t] # {} \/ joined[Proposer(t)][t]
           /\ acceptedFrom'[k][t] \subseteq Acceptors(t)
    BY <1>3, <2>1
  <2>4. \A o \in msgs' :
           \/ o \in msgs \/ o.type \notin {"accept", "accepted"}
           \/ o.type = "accept" /\ o.sn \in SN /\ joined[Proposer(o.sn)][o.sn]
           \/ o.type = "accepted" /\ o.sn \in SN /\ o.from \in Acceptors(o.sn)'
    BY <1>6, <1>7
  <2> QED
    BY <2>2, <2>3, <2>4, VotesStep
<1>9. \A t \in SN : GaveUp(t) => GaveUp(t)'
  BY <1>3 DEF GaveUp
<1>10. \A t \in SN : GaveUp(t)' \/ Value(t)' = Value(t)
  <2> SUFFICES ASSUME NEW t \in SN, ~GaveUp(t) PROVE Value(t)' = Value(t)
    BY <1>9
  <2>1. CASE n = Proposer(s) /\ t = s
    <3>1. v = Value(s)
      BY <1>4, <2>1 DEF Sound, Proposed
    <3> QED
      BY <1>5, <2>1, <3>1 DEF Value
  <2>2. CASE ~ (n = Proposer(s) /\ t = s)
    BY <1>2, <1>5, <2>2 DEF Value
  <2> QED
    BY <2>1, <2>2
<1>11. OneAsked' /\ Proposed'
  <2>1. \A t \in SN : \A w \in Batch : Asked(t, w)' => Asked(t, w) \/ (w = Value(t) /\ ~GaveUp(t))
    <3>1. \A k \in Node, t \in SN : \A e \in accepted'[k][t] :
             e \in accepted[k][t] \/ Asked(t, e[2])
      BY <1>4, <1>5
    <3> QED
      BY <1>6, <3>1, AskedStep
  <2> QED
    BY <1>3, <1>9, <1>10, <2>1, ProposedStep
<1>12. Learnt'
  <2>1. n \in Accepters(s, v)'
    BY <1>5 DEF Accepters
  <2>2. Knows(n, s)'
    BY <1>5, <2>1 DEF Knows, Accepters
  <2>3. \A k \in Node, t \in SN :
           /\ accepted[k][t] \subseteq accepted'[k][t]
           /\ \/ lastVal'[k][t] = lastVal[k][t] /\ log'[k][t] = log[k][t]
              \/ Knows(k, t)'
    BY <1>3, <1>5, <2>2
  <2>4. \A k \in Node, t \in SN : log'[k][t] = log[k][t] /\ pending'[k][t] = pending[k][t]
    BY <1>3
  <2>5. \A o \in msgs' : o \in msgs \/ o.type # "commit"
    BY <1>6
  <2> QED
    BY <2>3, <2>4, <2>5, LearntStep
<1>13. NothingLost => NothingLost'
  <2>1. \A k \in Node, t \in SN : accepted[k][t] \subseteq accepted'[k][t]
    BY <1>5
  <2>2. UNCHANGED <<index, bucket, held, log>>
    BY <1>3
  <2>3. ASSUME NothingLost, NEW k \in Node, NEW r \in index[k], r \notin bucket[k]
        PROVE  \E t \in SN :
                  \/ Proposer(t) = k /\ r \in held[t]
                  \/ log[k][t] # None /\ r \in log[k][t]
                  \/ /\ Proposer(t) # k /\ log[k][t] # None
                     /\ \E o \in Node : \E e \in accepted'[o][t] : r \in e[2]
    BY <2>1, <2>3 DEF NothingLost
  <2> QED
    BY <2>2, <2>3 DEF NothingLost
<1> QED
  BY <1>8, <1>11, <1>12, <1>13 DEF Sound


\* A first proposal is the only value of its SN, for nothing was asked for before; a later
\* one repeats it.
LEMMA ProposeSound ==
    ASSUME Sound, Typed', SentValue', NEW s \in SN, ProposeIfDue(s)
    PROVE  Sound' /\ (NothingLost => NothingLost')
<1>1. PICK n \in Node : n = Proposer(s)
  BY ProposerIsNode
<1>2. /\ joined[n][s] /\ log[n][s] = None
      /\ prepared' = Set(prepared, n, s, TRUE) /\ phase' = Set(phase, n, s, "acceptSent")
      /\ msgs' = msgs \cup Accept(s, ballot[s], lastVal'[n][s])
      /\ UNCHANGED <<joined, accepted, index, pending, log>>
  BY <1>1 DEF ProposeIfDue, Send, commitVars
<1>3. \/ lastVal[n][s] # None /\ UNCHANGED <<bucket, held, lastVal, acceptedFrom>>
      \/ /\ lastVal[n][s] = None
         /\ \E v \in Cut(bucket[n]) :
               /\ bucket' = RemoveFirst(n, v) /\ held' = [held EXCEPT ![s] = v]
               /\ lastVal' = Set(lastVal, n, s, v)
               /\ acceptedFrom' = Set(acceptedFrom, n, s, {})
  BY <1>1 DEF ProposeIfDue
<1>4. /\ ValueTypes /\ BucketTypes /\ PhaseTypes /\ PromiseTypes /\ ballot[s] \in Ballot
      /\ \A t \in SN : Proposer(t) \in Node
  BY SoundParts DEF PhaseTypes
<1>5. ~GaveUp(s) /\ Value(s) = lastVal[n][s]
  BY <1>1, <1>2 DEF GaveUp, Value
<1>6. \A k \in Node, t \in SN :
         /\ prepared'[k][t] = IF k = n /\ t = s THEN TRUE ELSE prepared[k][t]
         /\ phase'[k][t] = IF k = n /\ t = s THEN "acceptSent" ELSE phase[k][t]
  <2>1. \A k \in Node, t \in SN :
           prepared'[k][t] = IF k = n /\ t = s THEN TRUE ELSE prepared[k][t]
    BY <1>2, <1>4 DEF PromiseTypes, Flags, Set
  <2>2. \A k \in Node, t \in SN :
           phase'[k][t] = IF k = n /\ t = s THEN "acceptSent" ELSE phase[k][t]
    BY <1>2, <1>4 DEF PhaseTypes, Set
  <2> QED
    BY <2>1, <2>2
<1>7. \A t \in SN : phase'[Proposer(t)][t] = "acceptSent" =>
         joined'[Proposer(t)][t] /\ prepared'[Proposer(t)][t] /\ log'[Proposer(t)][t] = None
  <2> SUFFICES ASSUME NEW t \in SN, phase'[Proposer(t)][t] = "acceptSent"
               PROVE  joined'[Proposer(t)][t] /\ prepared'[Proposer(t)][t]
                      /\ log'[Proposer(t)][t] = None
    OBVIOUS
  <2>1. CASE t = s
    BY <1>1, <1>2, <1>6, <2>1
  <2>2. CASE t # s
    <3>1. phase[Proposer(t)][t] = "acceptSent" /\ prepared'[Proposer(t)][t] = prepared[Proposer(t)][t]
      BY <1>4, <1>6, <2>2
    <3>2. joined[Proposer(t)][t] /\ prepared[Proposer(t)][t] /\ log[Proposer(t)][t] = None
      BY <3>1 DEF Sound, VotesGiven
    <3> QED
      BY <1>2, <3>1, <3>2
  <2> QED
    BY <2>1, <2>2
<1>8. \A k \in Node, t \in SN : acceptedFrom[k][t] \subseteq Acceptors(t)
  BY DEF Sound, VotesGiven
<1>9. CASE lastVal[n][s] # None /\ UNCHANGED <<bucket, held, lastVal, acceptedFrom>>
  <2>1. Value(s) \in Batch
    BY <1>5, <1>9, SoundParts
  <2>2. \A o \in msgs' : o \in msgs \/ (o.type = "accept" /\ o.sn = s /\ o.val = Value(s))
    BY <1>2, <1>4, <1>5, <1>9, <2>1, SentAccept
  <2>3. \A t \in SN : GaveUp(t) => GaveUp(t)'
    <3> SUFFICES ASSUME NEW t \in SN, GaveUp(t) PROVE GaveUp(t)'
      OBVIOUS
    <3>1. t # s /\ Proposer(t) \in Node
      BY <1>4, <1>5
    <3>2. /\ prepared'[Proposer(t)][t] = prepared[Proposer(t)][t]
          /\ phase'[Proposer(t)][t] = phase[Proposer(t)][t]
      BY <1>6, <3>1
    <3> QED
      BY <1>2, <1>9, <3>2 DEF GaveUp
  <2>4. \A o \in msgs' :
           \/ o \in msgs \/ o.type \notin {"accept", "accepted", "commit"}
           \/ /\ o.type = "accept" /\ o.sn \in SN /\ joined[Proposer(o.sn)][o.sn]
              /\ o.val = Value(o.sn) /\ ~GaveUp(o.sn)
    BY <1>1, <1>2, <1>5, <2>2
  <2>5. UNCHANGED <<log, held, lastVal, accepted, bucket, index>>
    BY <1>2, <1>9
  <2>6. \A k \in Node, t \in SN :
           /\ joined[k][t] => joined'[k][t]
           /\ acceptedFrom'[k][t] \subseteq Acceptors(t)
           /\ pending'[k][t] \in {pending[k][t], None}
    BY <1>2, <1>8, <1>9
  <2>7. \A t \in SN : phase'[Proposer(t)][t] = "acceptSent" =>
           joined'[Proposer(t)][t] /\ prepared'[Proposer(t)][t] /\ log[Proposer(t)][t] = None
    BY <1>2, <1>7
  <2> QED
    BY <2>3, <2>4, <2>5, <2>6, <2>7, QuietSound
<1>10. ASSUME lastVal[n][s] = None, NEW v \in Cut(bucket[n]),
              bucket' = RemoveFirst(n, v), held' = [held EXCEPT ![s] = v],
              lastVal' = Set(lastVal, n, s, v), acceptedFrom' = Set(acceptedFrom, n, s, {})
       PROVE  Sound' /\ (NothingLost => NothingLost')
  <2>1. v \in Batch /\ v # None /\ v \subseteq bucket[n]
    BY BatchType DEF Cut, Nop
  <2>2. \A k \in Node, t \in SN :
           lastVal'[k][t] = IF k = n /\ t = s THEN v ELSE lastVal[k][t]
    BY <1>4, <1>10, <2>1 DEF ValueTypes, Values, Set
  <2>3. \A k \in Node, t \in SN : acceptedFrom'[k][t] \in {acceptedFrom[k][t], {}}
    BY <1>4, <1>10 DEF ValueTypes, Votes, Set
  <2>4. \A t \in SN : held'[t] = IF t = s THEN v ELSE held[t]
    BY <1>4, <1>10 DEF BucketTypes
  <2>5. \A o \in msgs' : o \in msgs \/ (o.type = "accept" /\ o.sn = s /\ o.val = v)
    <3>1. lastVal'[n][s] = v
      BY <2>2
    <3> QED
      BY <1>2, <1>4, <2>1, <3>1, SentAccept
  <2>6. Value(s)' = v /\ \A t \in SN \ {s} : Value(t)' = Value(t)
    BY <1>1, <1>4, <2>2 DEF Value
  <2>7. ASSUME NEW w \in Batch PROVE ~Asked(s, w)
    <3>1. Value(s) = None /\ w # None
      BY <1>5, <1>10, BatchType
    <3> QED
      BY <1>5, <3>1 DEF Sound, Proposed
  <2>8. \A w \in Batch : Asked(s, w)' => w = v
    BY <1>2, <2>5, <2>7 DEF Asked
  <2>9. \A t \in SN \ {s} : \A w \in Batch : Asked(t, w)' => Asked(t, w)
    BY <1>2, <2>5 DEF Asked
  <2>10. VotesGiven'
    <3>1. \A k \in Node, t \in SN :
             /\ joined[k][t] => joined'[k][t]
             /\ accepted[k][t] \subseteq accepted'[k][t]
             /\ accepted'[k][t] # {} => accepted[k][t] # {}
             /\ acceptedFrom'[k][t] \subseteq Acceptors(t)
      BY <1>2, <1>8, <2>3
    <3>2. \A o \in msgs' :
             \/ o \in msgs \/ o.type \notin {"accept", "accepted"}
             \/ o.type = "accept" /\ o.sn \in SN /\ joined[Proposer(o.sn)][o.sn]
      BY <1>1, <1>2, <2>5
    <3> QED
      BY <1>7, <3>1, <3>2, VotesStep
  <2>11. OneAsked'
    BY <2>8, <2>9 DEF Sound, OneAsked
  <2>12. Proposed'
    <3> SUFFICES ASSUME NEW t \in SN
                 PROVE  \/ GaveUp(t)'
                        \/ /\ held'[t] \in {Nop, Value(t)'}
                           /\ log'[Proposer(t)][t] \in {None, Value(t)'}
                           /\ \A w \in Batch : Asked(t, w)' => w = Value(t)'
      BY DEF Proposed
    <3>1. CASE t = s
      BY <1>1, <1>2, <2>4, <2>6, <2>8, <3>1
    <3>2. CASE t # s
      <4>1. /\ prepared'[Proposer(t)][t] = prepared[Proposer(t)][t]
            /\ phase'[Proposer(t)][t] = phase[Proposer(t)][t]
        BY <1>4, <1>6, <3>2
      <4>2. held'[t] = held[t] /\ Value(t)' = Value(t) /\ UNCHANGED <<joined, log>>
        BY <1>2, <2>4, <2>6, <3>2
      <4>3. GaveUp(t) => GaveUp(t)'
        BY <4>1, <4>2 DEF GaveUp
      <4>4. ~GaveUp(t) => /\ held[t] \in {Nop, Value(t)}
                          /\ log[Proposer(t)][t] \in {None, Value(t)}
                          /\ \A w \in Batch : Asked(t, w) => w = Value(t)
        BY DEF Sound, Proposed
      <4> QED
        BY <2>9, <3>2, <4>2, <4>3, <4>4
    <3> QED
      BY <3>1, <3>2
  <2>13. Learnt'
    <3>1. Knows(n, s)'
      BY <1>1, <1>2 DEF Knows
    <3>2. \A k \in Node, t \in SN :
             /\ accepted[k][t] \subseteq accepted'[k][t]
             /\ log'[k][t] = log[k][t] /\ pending'[k][t] = pending[k][t]
             /\ lastVal'[k][t] = lastVal[k][t] \/ Knows(k, t)'
      BY <1>2, <2>2, <3>1
    <3>3. \A o \in msgs' : o \in msgs \/ o.type # "commit"
      BY <2>5
    <3> QED
      BY <3>2, <3>3, LearntStep
  <2>14. ASSUME NothingLost PROVE NothingLost'
    <3>1. held[s] = Nop
      <4>1. held[s] \in {Nop, None} /\ held[s] \in Batch
        BY <1>4, <1>5, <1>10 DEF Sound, Proposed, BucketTypes
      <4> QED
        BY <4>1, BatchType
    <3> SUFFICES ASSUME NEW k \in Node, NEW r \in index[k], r \notin bucket'[k]
                 PROVE  \E t \in SN :
                           \/ Proposer(t) = k /\ r \in held'[t]
                           \/ log[k][t] # None /\ r \in log[k][t]
                           \/ /\ Proposer(t) # k /\ log[k][t] # None
                              /\ \E m \in Node : \E e \in accepted[m][t] : r \in e[2]
      BY <1>2 DEF NothingLost
    <3>2. CASE r \in bucket[k]
      <4>1. k = n /\ r \in v
        BY <1>4, <1>10, <3>2 DEF BucketTypes, RemoveFirst
      <4> QED
        BY <1>1, <2>4, <4>1
    <3>3. CASE r \notin bucket[k]
      <4>1. PICK t \in SN :
               \/ Proposer(t) = k /\ r \in held[t]
               \/ log[k][t] # None /\ r \in log[k][t]
               \/ /\ Proposer(t) # k /\ log[k][t] # None
                  /\ \E m \in Node : \E e \in accepted[m][t] : r \in e[2]
        BY <2>14, <3>3 DEF NothingLost
      <4>2. r \in held[t] => held'[t] = held[t]
        BY <2>4, <3>1 DEF Nop
      <4> QED
        BY <4>1, <4>2
    <3> QED
      BY <3>2, <3>3
  <2> QED
    BY <2>10, <2>11, <2>12, <2>13, <2>14 DEF Sound
<1> QED
  BY <1>3, <1>9, <1>10


\* Who counts a majority may decide, and a member that does not know the group decides
\* what it accepted.
LEMMA AcceptedSound ==
    ASSUME Sound, Typed', SentValue', NEW m \in msgs, OnAccepted(m)
    PROVE  Sound' /\ (NothingLost => NothingLost')
<1>1. PICK n \in Node, s \in SN : n = m.to /\ s = m.sn /\ m.type = "accepted"
  BY SoundParts DEF OnAccepted
<1>2. PICK F : F = acceptedFrom[n][s] \cup {m.from}
  OBVIOUS
<1>3. PICK v : v = lastVal[n][s]
  OBVIOUS
<1>4. /\ acceptedFrom' = Set(acceptedFrom, n, s, F)
      /\ UNCHANGED <<joined, prepared, lastVal, accepted, index>>
      /\ \/ /\ HasQuorum(n, s, F) /\ v # None /\ phase[n][s] # "committed"
            /\ Receive(m, Commit(s, v)) /\ TakeCommit(n, s, v)
         \/ Receive(m, {}) /\ UNCHANGED <<phase, commitVars, bucket, held>>
  BY <1>1, <1>2, <1>3 DEF OnAccepted, promiseVars
<1>5. ValueTypes /\ F \subseteq Acceptors(s) /\ F # {} /\ m.from \in F
  BY <1>1, <1>2, SoundParts DEF Sound, VotesGiven
<1>6. \A k \in Node, t \in SN : acceptedFrom'[k][t] \subseteq Acceptors(t)
  <2>1. \A k \in Node, t \in SN :
           acceptedFrom'[k][t] = IF k = n /\ t = s THEN F ELSE acceptedFrom[k][t]
    BY <1>4, <1>5 DEF ValueTypes, Votes, Set
  <2>2. \A k \in Node, t \in SN : acceptedFrom[k][t] \subseteq Acceptors(t)
    BY DEF Sound, VotesGiven
  <2> QED
    BY <1>5, <2>1, <2>2
<1>7. CASE /\ HasQuorum(n, s, F) /\ v # None /\ phase[n][s] # "committed"
           /\ Receive(m, Commit(s, v)) /\ TakeCommit(n, s, v)
  <2>1. v \in Batch /\ lastVal' = Set(lastVal, n, s, v)
    BY <1>3, <1>4, <1>5, <1>7 DEF ValueTypes, Values, Set
  <2>2. Backed(s, v) \/ (n \in Late \ {Proposer(s)} /\ n \in Accepters(s, v))
    <3>1. \/ Backed(s, lastVal[n][s])
          \/ n \in Late \ {Proposer(s)} /\ n \in Accepters(s, lastVal[n][s])
      BY <1>3, <1>5, <1>7, QuorumEntitles
    <3> QED
      BY <1>3, <3>1 DEF Backed, Accepters
  <2>3. n = Proposer(s) => ~GaveUp(s) /\ v = Value(s)
    BY <1>3, <1>7 DEF GaveUp, Value
  <2>4. DeliverCommit(n, s, v) /\ pending' = Set(pending, n, s, None)
    BY <1>3, <1>7 DEF TakeCommit
  <2>5. \A o \in msgs' : o \in msgs \/ (o.type = "commit" /\ o.sn = s /\ o.val = v)
    BY <1>7, <2>1, SentCommit DEF Receive
  <2> QED
    BY <1>4, <1>6, <2>1, <2>2, <2>3, <2>4, <2>5, DeliverSound
<1>8. CASE Receive(m, {}) /\ UNCHANGED <<phase, commitVars, bucket, held>>
  <2>1. UNCHANGED <<joined, prepared, phase, log, held, lastVal, accepted, bucket, index, pending>>
    BY <1>4, <1>8 DEF commitVars
  <2>2. \A t \in SN : GaveUp(t) => GaveUp(t)'
    BY <2>1 DEF GaveUp
  <2>3. \A t \in SN : phase'[Proposer(t)][t] = "acceptSent" =>
           joined'[Proposer(t)][t] /\ prepared'[Proposer(t)][t] /\ log[Proposer(t)][t] = None
    BY <2>1 DEF Sound, VotesGiven
  <2>4. \A o \in msgs' : o \in msgs
    BY <1>8 DEF Receive
  <2> QED
    BY <1>6, <2>1, <2>2, <2>3, <2>4, QuietSound
<1> QED
  BY <1>4, <1>7, <1>8

\* Something stands behind the value of a COMMIT.
LEMMA CommitSound ==
    ASSUME Sound, Typed', SentValue', NEW m \in msgs, OnCommit(m)
    PROVE  Sound' /\ (NothingLost => NothingLost')
<1>1. PICK n \in Node, s \in SN, v \in Batch :
         n = m.to /\ s = m.sn /\ v = m.val /\ m.type = "commit"
  BY SoundParts, MessageType DEF OnCommit
<1>2. /\ phase[n][s] # "committed" /\ TakeCommit(n, s, v)
      /\ UNCHANGED <<joined, prepared, lastVal, acceptedFrom, accepted, index>>
  BY <1>1 DEF OnCommit, promiseVars, valueVars
<1>3. \A o \in msgs' : o \in msgs \/ o.type = "fetch"
  BY <1>1, SentFetch DEF OnCommit, Receive
<1>4. Backed(s, v)
  <2>1. Backed(m.sn, m.val)
    BY <1>1 DEF Sound, Learnt
  <2> QED
    BY <1>1, <2>1
<1>5. \A k \in Node, t \in SN : acceptedFrom[k][t] \subseteq Acceptors(t)
  BY DEF Sound, VotesGiven
<1>6. ValueTypes /\ CommitTypes
  BY SoundParts
<1>7. CASE lastVal[n][s] = v
  <2>1. lastVal' = Set(lastVal, n, s, v)
    BY <1>2, <1>6, <1>7 DEF ValueTypes, Values, Set
  <2>2. DeliverCommit(n, s, v) /\ pending' = Set(pending, n, s, None)
    BY <1>2, <1>7 DEF TakeCommit
  <2>3. n = Proposer(s) => ~GaveUp(s) /\ v = Value(s)
    BY <1>2, <1>7 DEF GaveUp, Value
  <2>4. \A k \in Node, t \in SN : acceptedFrom'[k][t] \subseteq Acceptors(t)
    BY <1>2, <1>5
  <2> QED
    BY <1>2, <1>3, <1>4, <2>1, <2>2, <2>3, <2>4, DeliverSound
<1>8. CASE lastVal[n][s] # v
  <2>1. pending' = Set(pending, n, s, v) /\ UNCHANGED <<phase, log, bucket, held>>
    BY <1>2, <1>8 DEF TakeCommit
  <2>2. \A k \in Node, t \in SN :
           pending'[k][t] = IF k = n /\ t = s THEN v ELSE pending[k][t]
    BY <1>6, <2>1 DEF CommitTypes, Values, Set
  <2>3. \A k \in Node, t \in SN : pending'[k][t] = pending[k][t] \/ Backed(t, pending'[k][t])
    <3>1. Backed(s, pending'[n][s])
      BY <1>4, <2>2 DEF Backed, Accepters
    <3> QED
      BY <2>2, <3>1
  <2>4. \A t \in SN : GaveUp(t) => GaveUp(t)'
    BY <1>2, <2>1 DEF GaveUp
  <2>5. \A t \in SN : phase'[Proposer(t)][t] = "acceptSent" =>
           joined'[Proposer(t)][t] /\ prepared'[Proposer(t)][t] /\ log[Proposer(t)][t] = None
    BY <1>2, <2>1 DEF Sound, VotesGiven
  <2> QED
    BY <1>2, <1>3, <1>5, <2>1, <2>3, <2>4, <2>5, QuietSound
<1> QED
  BY <1>7, <1>8

\* A fetched entry is one that something stands behind already.
LEMMA MissingSound ==
    ASSUME Sound, Typed', SentValue', NEW m \in msgs, OnMissingEntry(m)
    PROVE  Sound' /\ (NothingLost => NothingLost')
<1>1. PICK n \in Node, s \in SN : n = m.to /\ s = m.sn
  BY SoundParts DEF OnMissingEntry
<1>2. PICK src \in Node :
         /\ log[src][s] # None
         /\ lastVal' = Set(lastVal, n, s, log[src][s])
         /\ \/ UNCHANGED <<phase, pending, log, bucket, held>>
            \/ pending' = Set(pending, n, s, None) /\ DeliverCommit(n, s, log[src][s])
  BY <1>1 DEF OnMissingEntry
<1>3. PICK v : v = log[src][s]
  OBVIOUS
<1>4. /\ phase[n][s] # "committed"
      /\ UNCHANGED <<joined, prepared, acceptedFrom, accepted, index>>
      /\ msgs' = msgs \ {m}
  BY <1>1 DEF OnMissingEntry, promiseVars, Receive
<1>5. ValueTypes /\ CommitTypes /\ v \in Batch
  BY <1>2, <1>3, SoundParts DEF CommitTypes, Values
<1>6. Backed(s, v)
  <2>1. Backed(s, log[src][s])
    BY <1>2 DEF Sound, Learnt
  <2> QED
    BY <1>3, <2>1 DEF Backed, Accepters
<1>7. \A k \in Node, t \in SN : acceptedFrom'[k][t] \subseteq Acceptors(t)
  BY <1>4 DEF Sound, VotesGiven
<1>8. n = Proposer(s) => ~GaveUp(s) /\ v = Value(s)
  <2>1. n = Proposer(s) => ~GaveUp(s)
    BY <1>4 DEF GaveUp
  <2> QED
    BY <1>5, <1>6, <2>1, BackedIsValue
<1>9. CASE pending' = Set(pending, n, s, None) /\ DeliverCommit(n, s, log[src][s])
  <2>1. DeliverCommit(n, s, v) /\ lastVal' = Set(lastVal, n, s, v)
    BY <1>2, <1>3, <1>9
  <2>2. \A o \in msgs' : o \in msgs
    BY <1>4
  <2> QED
    BY <1>4, <1>5, <1>6, <1>7, <1>8, <1>9, <2>1, <2>2, DeliverSound
<1>10. CASE UNCHANGED <<phase, pending, log, bucket, held>>
  <2>1. \A k \in Node, t \in SN :
           lastVal'[k][t] = IF k = n /\ t = s THEN v ELSE lastVal[k][t]
    BY <1>2, <1>3, <1>5 DEF ValueTypes, Values, Set
  <2>2. \A t \in SN : Value(t)' = Value(t)
    BY <1>8, <2>1, ProposerIsNode DEF Value
  <2>3. Knows(n, s)'
    <3>1. Backed(s, v)'
      BY <1>4, <1>6, <1>10, ProposerIsNode, BackedStays
    <3>2. lastVal'[n][s] = v
      BY <2>1
    <3>3. Backed(s, lastVal[n][s])'
      BY <3>1, <3>2 DEF Backed, Accepters
    <3> QED
      BY <3>3 DEF Knows
  <2>4. \A k \in Node, t \in SN :
           /\ lastVal'[k][t] = lastVal[k][t] \/ Knows(k, t)'
           /\ log'[k][t] = log[k][t] /\ pending'[k][t] = pending[k][t]
           /\ accepted[k][t] \subseteq accepted'[k][t]
    BY <1>4, <1>10, <2>1, <2>3
  <2>5. Learnt'
    BY <1>4, <2>4, LearntStep
  <2>6. VotesGiven'
    <3>1. \A t \in SN : phase'[Proposer(t)][t] = "acceptSent" =>
             joined'[Proposer(t)][t] /\ prepared'[Proposer(t)][t] /\ log'[Proposer(t)][t] = None
      BY <1>4, <1>10 DEF Sound, VotesGiven
    <3> QED
      BY <1>4, <1>7, <3>1, VotesStep
  <2>7. OneAsked' /\ Proposed'
    <3>1. \A t \in SN : GaveUp(t) => GaveUp(t)'
      BY <1>4, <1>10 DEF GaveUp
    <3>2. \A t \in SN : \A w \in Batch : Asked(t, w)' => Asked(t, w)
      BY <1>4 DEF Asked
    <3> QED
      BY <1>10, <2>2, <3>1, <3>2, ProposedStep
  <2>8. NothingLost => NothingLost'
    BY <1>4, <1>10 DEF NothingLost
  <2> QED
    BY <2>5, <2>6, <2>7, <2>8 DEF Sound
<1> QED
  BY <1>2, <1>9, <1>10


\* Giving up leaves NOP, and the batch in the bucket.
LEMMA GiveUpSound ==
    ASSUME Sound, Typed', SentValue', NEW s \in SN, GiveUp(s)
    PROVE  Sound' /\ (NothingLost => NothingLost')
<1>1. PICK n \in Node : n = Proposer(s)
  BY ProposerIsNode
<1>2. /\ "giveup" \in Ticks /\ phase[n][s] = "acceptSent"
      /\ lastVal' = Set(lastVal, n, s, Nop) /\ bucket' = [bucket EXCEPT ![n] = @ \cup held[s]]
      /\ held' = [held EXCEPT ![s] = Nop] /\ phase' = Set(phase, n, s, "committed")
      /\ log' = IF log[n][s] = None THEN Set(log, n, s, Nop) ELSE log
      /\ UNCHANGED <<joined, prepared, acceptedFrom, accepted, pending, index, msgs>>
  BY <1>1 DEF GiveUp, Waiting, Resurrect, promiseVars
<1>3. joined[n][s] /\ prepared[n][s] /\ log[n][s] = None
  BY <1>1, <1>2 DEF Sound, VotesGiven
<1>4. /\ ValueTypes /\ CommitTypes /\ BucketTypes /\ PhaseTypes /\ Nop \in Batch /\ Nop # None
      /\ \A t \in SN : Proposer(t) \in Node
  BY SoundParts, BatchType
<1>5. \A k \in Node, t \in SN :
         lastVal'[k][t] = IF k = n /\ t = s THEN Nop ELSE lastVal[k][t]
  BY <1>2, <1>4 DEF ValueTypes, Values, Set
<1>6. \A k \in Node, t \in SN : log'[k][t] = IF k = n /\ t = s THEN Nop ELSE log[k][t]
  BY <1>2, <1>3, <1>4 DEF CommitTypes, Values, Set
<1>7. \A k \in Node, t \in SN :
         phase'[k][t] = IF k = n /\ t = s THEN "committed" ELSE phase[k][t]
  BY <1>2, <1>4 DEF PhaseTypes, Set
<1>8. \A t \in SN : held'[t] = IF t = s THEN Nop ELSE held[t]
  BY <1>2, <1>4 DEF BucketTypes
<1>9. GaveUp(s)'
  BY <1>1, <1>2, <1>3, <1>4, <1>6, <1>7, <1>8 DEF GaveUp
<1>10. ASSUME NEW t \in SN, t # s
       PROVE  /\ GaveUp(t) => GaveUp(t)'
              /\ Value(t)' = Value(t) /\ held'[t] = held[t]
              /\ log'[Proposer(t)][t] = log[Proposer(t)][t]
              /\ phase'[Proposer(t)][t] = phase[Proposer(t)][t]
  <2>1. /\ Value(t)' = Value(t) /\ held'[t] = held[t]
        /\ log'[Proposer(t)][t] = log[Proposer(t)][t]
        /\ phase'[Proposer(t)][t] = phase[Proposer(t)][t]
    BY <1>4, <1>5, <1>6, <1>7, <1>8, <1>10 DEF Value
  <2> QED
    BY <1>2, <2>1 DEF GaveUp
<1>11. OneAsked' /\ Proposed'
  <2>1. \A t \in SN : \A w \in Batch : Asked(t, w)' => Asked(t, w)
    BY <1>2 DEF Asked
  <2>2. \A t \in SN :
           /\ GaveUp(t) => GaveUp(t)'
           /\ \/ GaveUp(t)'
              \/ /\ Value(t)' = Value(t) /\ held'[t] \in {held[t], Nop}
                 /\ log'[Proposer(t)][t] \in {log[Proposer(t)][t], Value(t)}
    BY <1>9, <1>10
  <2> QED
    BY <2>1, <2>2, ProposedStep
<1>12. VotesGiven'
  <2>1. \A t \in SN : phase'[Proposer(t)][t] = "acceptSent" =>
           joined'[Proposer(t)][t] /\ prepared'[Proposer(t)][t] /\ log'[Proposer(t)][t] = None
    <3> SUFFICES ASSUME NEW t \in SN, phase'[Proposer(t)][t] = "acceptSent"
                 PROVE  joined'[Proposer(t)][t] /\ prepared'[Proposer(t)][t]
                        /\ log'[Proposer(t)][t] = None
      OBVIOUS
    <3>1. t # s
      BY <1>9 DEF GaveUp
    <3> QED
      BY <1>2, <1>10, <3>1 DEF Sound, VotesGiven
  <2>2. \A k \in Node, t \in SN : acceptedFrom'[k][t] \subseteq Acceptors(t)
    BY <1>2 DEF Sound, VotesGiven
  <2> QED
    BY <1>2, <2>1, <2>2, VotesStep
<1>13. Learnt'
  <2>1. log'[n][s] = Nop /\ lastVal'[n][s] = Nop
    BY <1>5, <1>6
  <2>2. Backed(s, lastVal[n][s])' /\ Backed(s, log[n][s])'
    BY <1>1, <1>2, <2>1 DEF Backed
  <2>3. Knows(n, s)'
    BY <2>2 DEF Knows
  <2>4. \A k \in Node, t \in SN :
           /\ accepted[k][t] \subseteq accepted'[k][t]
           /\ log[k][t] # None => log'[k][t] = log[k][t]
           /\ (lastVal'[k][t] = lastVal[k][t] /\ log'[k][t] = log[k][t]) \/ Knows(k, t)'
           /\ log'[k][t] = log[k][t] \/ Backed(t, log[k][t])'
           /\ pending'[k][t] = pending[k][t]
    BY <1>2, <1>3, <1>5, <1>6, <2>2, <2>3
  <2> QED
    BY <1>2, <2>4, LearntStep
<1>14. ASSUME NothingLost PROVE NothingLost'
  <2> SUFFICES ASSUME NEW k \in Node, NEW r \in index[k], r \notin bucket'[k]
               PROVE  \E t \in SN :
                         \/ Proposer(t) = k /\ r \in held'[t]
                         \/ log'[k][t] # None /\ r \in log'[k][t]
                         \/ /\ Proposer(t) # k /\ log'[k][t] # None
                            /\ \E m \in Node : \E e \in accepted[m][t] : r \in e[2]
    BY <1>2 DEF NothingLost
  <2>1. r \notin bucket[k] /\ (k = n => r \notin held[s])
    BY <1>2, <1>4 DEF BucketTypes
  <2>2. PICK t \in SN :
           \/ Proposer(t) = k /\ r \in held[t]
           \/ log[k][t] # None /\ r \in log[k][t]
           \/ /\ Proposer(t) # k /\ log[k][t] # None
              /\ \E m \in Node : \E e \in accepted[m][t] : r \in e[2]
    BY <1>14, <2>1 DEF NothingLost
  <2>3. log[k][t] # None => log'[k][t] = log[k][t]
    BY <1>3, <1>6
  <2>4. Proposer(t) = k /\ r \in held[t] => held'[t] = held[t]
    BY <1>1, <1>8, <2>1
  <2> QED
    BY <2>2, <2>3, <2>4
<1> QED
  BY <1>11, <1>12, <1>13, <1>14 DEF Sound

\* Counting a promise leaves an instance that was given up as it is.
LEMMA CountPromiseSound ==
    ASSUME Sound, NEW n \in Node, NEW s \in SN, NEW k \in Node, CountPromise(n, s, k),
           UNCHANGED <<joined, log, held>>
    PROVE  /\ \A t \in SN : GaveUp(t) => GaveUp(t)'
           /\ \A t \in SN : phase'[Proposer(t)][t] = "acceptSent" =>
                 joined'[Proposer(t)][t] /\ prepared'[Proposer(t)][t] /\ log[Proposer(t)][t] = None
<1>1. CASE UNCHANGED <<prepared, phase>>
  BY <1>1 DEF GaveUp, Sound, VotesGiven
<1>2. CASE /\ ~prepared[n][s]
           /\ prepared' = Set(prepared, n, s, TRUE) /\ phase' = Set(phase, n, s, "prepared")
  <2>1. PromiseTypes /\ PhaseTypes /\ \A t \in SN : Proposer(t) \in Node
    BY SoundParts
  <2>2. \A j \in Node, t \in SN :
           prepared'[j][t] = IF j = n /\ t = s THEN TRUE ELSE prepared[j][t]
    BY <1>2, <2>1 DEF PromiseTypes, Flags, Set
  <2>3. \A j \in Node, t \in SN :
           phase'[j][t] = IF j = n /\ t = s THEN "prepared" ELSE phase[j][t]
    BY <1>2, <2>1 DEF PhaseTypes, Set
  <2>4. ASSUME NEW t \in SN, GaveUp(t) PROVE GaveUp(t)'
    <3>1. Proposer(t) \in Node /\ ~ (Proposer(t) = n /\ t = s)
      BY <1>2, <2>1, <2>4 DEF GaveUp
    <3>2. /\ phase'[Proposer(t)][t] = phase[Proposer(t)][t]
          /\ prepared'[Proposer(t)][t] = prepared[Proposer(t)][t]
      BY <2>2, <2>3, <3>1
    <3> QED
      BY <2>4, <3>2 DEF GaveUp
  <2>5. ASSUME NEW t \in SN, phase'[Proposer(t)][t] = "acceptSent"
        PROVE  joined'[Proposer(t)][t] /\ prepared'[Proposer(t)][t] /\ log[Proposer(t)][t] = None
    <3>1. phase[Proposer(t)][t] = "acceptSent"
      BY <2>1, <2>3, <2>5
    <3>2. joined[Proposer(t)][t] /\ prepared[Proposer(t)][t] /\ log[Proposer(t)][t] = None
      BY <3>1 DEF Sound, VotesGiven
    <3>3. prepared'[Proposer(t)][t]
      BY <2>1, <2>2, <3>2
    <3> QED
      BY <3>2, <3>3
  <2> QED
    BY <2>4, <2>5
<1> QED
  BY <1>1, <1>2 DEF CountPromise

\* A new round begins at a proposer that has not given up, and repeats no value yet.
LEMMA NewRoundSound ==
    ASSUME Sound, Typed', SentValue', NEW s \in SN, NewRound(s)
    PROVE  Sound' /\ (NothingLost => NothingLost')
<1>1. PICK n \in Node : n = Proposer(s)
  BY ProposerIsNode
<1>2. /\ phase[n][s] = "acceptSent"
      /\ phase' = Set(phase, n, s, "init") /\ prepared' = Set(prepared, n, s, FALSE)
      /\ acceptedFrom' = Set(acceptedFrom, n, s, {})
      /\ UNCHANGED <<joined, lastVal, log, held, accepted, pending, bucket, index>>
  BY <1>1 DEF NewRound, Waiting, KeepValue, commitVars, bucketVars
<1>3. /\ ValueTypes /\ PromiseTypes /\ PhaseTypes /\ \A t \in SN : Proposer(t) \in Node
  BY SoundParts
<1>4. \A k \in Node, t \in SN :
         prepared'[k][t] = IF k = n /\ t = s THEN FALSE ELSE prepared[k][t]
  BY <1>2, <1>3 DEF PromiseTypes, Flags, Set
<1>5. \A k \in Node, t \in SN :
         phase'[k][t] = IF k = n /\ t = s THEN "init" ELSE phase[k][t]
  BY <1>2, <1>3 DEF PhaseTypes, Set
<1>6. \A k \in Node, t \in SN : acceptedFrom'[k][t] \subseteq Acceptors(t)
  <2>1. \A k \in Node, t \in SN : acceptedFrom'[k][t] \in {acceptedFrom[k][t], {}}
    BY <1>2, <1>3 DEF ValueTypes, Votes, Set
  <2>2. \A k \in Node, t \in SN : acceptedFrom[k][t] \subseteq Acceptors(t)
    BY DEF Sound, VotesGiven
  <2> QED
    BY <2>1, <2>2
<1>7. ASSUME NEW t \in SN, GaveUp(t) PROVE GaveUp(t)'
  <2>1. Proposer(t) \in Node /\ ~ (Proposer(t) = n /\ t = s)
    BY <1>2, <1>3, <1>7 DEF GaveUp
  <2>2. /\ phase'[Proposer(t)][t] = phase[Proposer(t)][t]
        /\ prepared'[Proposer(t)][t] = prepared[Proposer(t)][t]
    BY <1>4, <1>5, <2>1
  <2> QED
    BY <1>2, <1>7, <2>2 DEF GaveUp
<1>8. ASSUME NEW t \in SN, phase'[Proposer(t)][t] = "acceptSent"
      PROVE  joined'[Proposer(t)][t] /\ prepared'[Proposer(t)][t] /\ log[Proposer(t)][t] = None
  <2>1. phase[Proposer(t)][t] = "acceptSent" /\ ~ (Proposer(t) = n /\ t = s)
    BY <1>3, <1>5, <1>8
  <2>2. joined[Proposer(t)][t] /\ prepared[Proposer(t)][t] /\ log[Proposer(t)][t] = None
    BY <2>1 DEF Sound, VotesGiven
  <2>3. prepared'[Proposer(t)][t]
    BY <1>3, <1>4, <2>1, <2>2
  <2> QED
    BY <1>2, <2>2, <2>3
<1>9. \A o \in msgs' : o \in msgs \/ o.type = "prepare"
  <2>1. ballot[s] + 1 \in Ballot
    BY <1>3, BoundAssumption DEF NewRound, PhaseTypes, Ballot
  <2> QED
    BY <2>1, SentPrepare DEF NewRound, Send
<1> QED
  BY <1>2, <1>6, <1>7, <1>8, <1>9, QuietSound

\* A member that learns of the group has not given up: its instance had not begun.
LEMMA JoinSound ==
    ASSUME Sound, Typed', SentValue', NEW n \in Node, NEW s \in SN, SetMembers(n, s)
    PROVE  Sound' /\ (NothingLost => NothingLost')
<1>1. /\ ~joined[n][s] /\ joined' = Set(joined, n, s, TRUE)
      /\ \/ UNCHANGED <<phase, prepared>>
         \/ /\ n = Proposer(s) /\ prepared' = Set(prepared, n, s, TRUE)
            /\ phase' = Set(phase, n, s, "prepared")
      /\ UNCHANGED <<lastVal, acceptedFrom, log, held, accepted, pending, bucket, index>>
  BY DEF SetMembers, valueVars, commitVars, bucketVars
<1>2. /\ PromiseTypes /\ PhaseTypes /\ \A t \in SN : Proposer(t) \in Node
  BY SoundParts
<1>3. \A k \in Node, t \in SN : joined'[k][t] = IF k = n /\ t = s THEN TRUE ELSE joined[k][t]
  BY <1>1, <1>2 DEF PhaseTypes, Flags, Set
<1>4. \A k \in Node, t \in SN : ~ (k = n /\ t = s) => prepared'[k][t] = prepared[k][t]
  BY <1>1, <1>2 DEF PromiseTypes, Flags, Set
<1>5. \A k \in Node, t \in SN :
         IF k = n /\ t = s THEN phase'[k][t] \in {phase[k][t], "prepared"}
                           ELSE phase'[k][t] = phase[k][t]
  BY <1>1, <1>2 DEF PhaseTypes, Set
<1>6. ASSUME NEW t \in SN, GaveUp(t) PROVE GaveUp(t)'
  <2>1. Proposer(t) \in Node /\ ~ (Proposer(t) = n /\ t = s)
    BY <1>1, <1>2, <1>6 DEF GaveUp
  <2>2. /\ phase'[Proposer(t)][t] = phase[Proposer(t)][t]
        /\ prepared'[Proposer(t)][t] = prepared[Proposer(t)][t]
        /\ joined'[Proposer(t)][t] = joined[Proposer(t)][t]
    BY <1>3, <1>4, <1>5, <2>1
  <2> QED
    BY <1>1, <1>6, <2>2 DEF GaveUp
<1>7. ASSUME NEW t \in SN, phase'[Proposer(t)][t] = "acceptSent"
      PROVE  joined'[Proposer(t)][t] /\ prepared'[Proposer(t)][t] /\ log[Proposer(t)][t] = None
  <2>1. phase[Proposer(t)][t] = "acceptSent"
    BY <1>2, <1>5, <1>7
  <2>2. joined[Proposer(t)][t] /\ prepared[Proposer(t)][t] /\ log[Proposer(t)][t] = None
    BY <2>1 DEF Sound, VotesGiven
  <2>3. ~ (Proposer(t) = n /\ t = s)
    BY <1>1, <2>2
  <2> QED
    BY <1>2, <1>3, <1>4, <2>2, <2>3
<1>8. \A o \in msgs' : o \in msgs \/ o.type = "prepare"
  <2>1. grpPromised[n] \in Ballot
    BY <1>2 DEF PromiseTypes
  <2> QED
    BY <2>1, SentPrepare DEF SetMembers, Send
<1>9. \A k \in Node, t \in SN : /\ joined[k][t] => joined'[k][t]
                                /\ acceptedFrom'[k][t] \subseteq Acceptors(t)
  <2>1. \A k \in Node, t \in SN : acceptedFrom[k][t] \subseteq Acceptors(t)
    BY DEF Sound, VotesGiven
  <2> QED
    BY <1>1, <1>3, <2>1
<1> QED
  BY <1>1, <1>6, <1>7, <1>8, <1>9, QuietSound

LEMMA NextSound ==
    ASSUME Sound, [Next]_vars
    PROVE  Sound' /\ (NothingLost => NothingLost')
<1>0. Typed' /\ SentValue'
  BY SoundParts, NextTyped
<1>1. /\ \A m \in msgs : m \in Message /\ m.sn \in SN /\ m.to \in Node
      /\ \A k \in Node, t \in SN : acceptedFrom[k][t] \subseteq Acceptors(t)
      /\ \A t \in SN : phase[Proposer(t)][t] = "acceptSent" =>
            joined[Proposer(t)][t] /\ prepared[Proposer(t)][t] /\ log[Proposer(t)][t] = None
  BY SoundParts DEF Sound, VotesGiven
<1> DEFINE Goal == Sound' /\ (NothingLost => NothingLost')
<1>2. ASSUME NEW n \in Node, NEW r \in Req, AddDirectToBucket(n, r) PROVE Goal
  BY <1>0, <1>2, ArriveSound
<1>3. ASSUME NEW n \in Node, NEW s \in SN, SetMembers(n, s) PROVE Goal
  BY <1>0, <1>3, JoinSound
<1>4. ASSUME NEW m \in msgs, OnPrepare(m) PROVE Goal
  <2>1. UNCHANGED <<joined, log, held, bucket, index, lastVal, pending, accepted, acceptedFrom>>
    BY <1>4 DEF OnPrepare, valueVars, commitVars, bucketVars
  <2>2. \A o \in msgs' : o \in msgs \/ o.type = "promise"
    BY <1>1, <1>4, MessageType, SentPromise DEF OnPrepare, Receive
  <2>3. CountPromise(m.to, m.sn, m.to) \/ UNCHANGED <<phase, prepared>>
    BY <1>4 DEF OnPrepare
  <2>4. /\ \A t \in SN : GaveUp(t) => GaveUp(t)'
        /\ \A t \in SN : phase'[Proposer(t)][t] = "acceptSent" =>
              joined'[Proposer(t)][t] /\ prepared'[Proposer(t)][t] /\ log[Proposer(t)][t] = None
    <3>1. CASE CountPromise(m.to, m.sn, m.to)
      BY <1>1, <2>1, <3>1, CountPromiseSound
    <3>2. CASE UNCHANGED <<phase, prepared>>
      BY <1>1, <2>1, <3>2 DEF GaveUp
    <3> QED
      BY <2>3, <3>1, <3>2
  <2> QED
    BY <1>0, <1>1, <2>1, <2>2, <2>4, QuietSound
<1>5. ASSUME NEW m \in msgs, OnPromise(m) PROVE Goal
  <2>1. UNCHANGED <<joined, log, held, bucket, index, lastVal, pending, accepted, acceptedFrom>>
    BY <1>5 DEF OnPromise, valueVars, commitVars, bucketVars
  <2>2. m.from \in Node /\ CountPromise(m.to, m.sn, m.from) /\ msgs' = msgs \ {m}
    BY <1>1, <1>5, MessageType DEF OnPromise, Receive
  <2>3. /\ \A t \in SN : GaveUp(t) => GaveUp(t)'
        /\ \A t \in SN : phase'[Proposer(t)][t] = "acceptSent" =>
              joined'[Proposer(t)][t] /\ prepared'[Proposer(t)][t] /\ log[Proposer(t)][t] = None
    BY <1>1, <2>1, <2>2, CountPromiseSound
  <2> QED
    BY <1>0, <1>1, <2>1, <2>2, <2>3, QuietSound
<1>6. ASSUME NEW m \in msgs, OnAccept(m) PROVE Goal
  BY <1>0, <1>6, AcceptSound
<1>7. ASSUME NEW m \in msgs, OnAccepted(m) PROVE Goal
  BY <1>0, <1>7, AcceptedSound
<1>8. ASSUME NEW m \in msgs, OnCommit(m) PROVE Goal
  BY <1>0, <1>8, CommitSound
<1>9. ASSUME NEW m \in msgs, OnMissingEntry(m) PROVE Goal
  BY <1>0, <1>9, MissingSound
<1>10. ASSUME NEW s \in SN, ProposeIfDue(s) PROVE Goal
  BY <1>0, <1>10, ProposeSound
<1>11. ASSUME NEW s \in SN, GiveUp(s) PROVE Goal
  BY <1>0, <1>11, GiveUpSound
<1>12. ASSUME NEW s \in SN, NewRound(s) PROVE Goal
  BY <1>0, <1>12, NewRoundSound
<1>13. ASSUME NEW s \in SN, ResendAccept(s) PROVE Goal
  <2>1. UNCHANGED <<joined, phase, prepared, log, held, bucket, index, lastVal, pending,
                    accepted, acceptedFrom>>
    BY <1>13 DEF ResendAccept, promiseVars, valueVars, commitVars, bucketVars
  <2>2. /\ phase[Proposer(s)][s] = "acceptSent" /\ joined[Proposer(s)][s]
        /\ lastVal[Proposer(s)][s] = Value(s) /\ Value(s) # None
    BY <1>1, <1>13, SoundParts DEF ResendAccept, Waiting, SentValue, Value
  <2>3. Value(s) \in Batch /\ ballot[s] \in Ballot /\ ~GaveUp(s)
    BY <2>2, SoundParts DEF PhaseTypes, GaveUp
  <2>4. \A o \in msgs' : o \in msgs \/ (o.type = "accept" /\ o.sn = s /\ o.val = Value(s))
    BY <1>13, <2>2, <2>3, SentAccept DEF ResendAccept, Send
  <2>5. \A o \in msgs' :
           \/ o \in msgs \/ o.type \notin {"accept", "accepted", "commit"}
           \/ /\ o.type = "accept" /\ o.sn \in SN /\ joined[Proposer(o.sn)][o.sn]
              /\ o.val = Value(o.sn) /\ ~GaveUp(o.sn)
    BY <2>2, <2>3, <2>4
  <2>6. \A t \in SN : GaveUp(t) => GaveUp(t)'
    BY <2>1 DEF GaveUp
  <2> QED
    BY <1>0, <1>1, <2>1, <2>5, <2>6, QuietSound
<1>14. ASSUME NEW n \in Node, NEW s \in SN, CatchUp(n, s) PROVE Goal
  <2>1. UNCHANGED <<joined, phase, prepared, log, held, bucket, index, lastVal, pending,
                    accepted, acceptedFrom>>
    BY <1>14 DEF CatchUp, promiseVars, valueVars, commitVars, bucketVars
  <2>2. \A o \in msgs' : o \in msgs \/ o.type = "fetch"
    BY <1>14, SentFetch DEF CatchUp, Send
  <2>3. \A t \in SN : GaveUp(t) => GaveUp(t)'
    BY <2>1 DEF GaveUp
  <2> QED
    BY <1>0, <1>1, <2>1, <2>2, <2>3, QuietSound
<1>15. CASE UNCHANGED vars
  <2>1. UNCHANGED <<joined, phase, prepared, log, held, bucket, index, lastVal, pending,
                    accepted, acceptedFrom, msgs>>
    BY <1>15 DEF vars, promiseVars, valueVars, commitVars, bucketVars
  <2>2. \A t \in SN : GaveUp(t) => GaveUp(t)'
    BY <2>1 DEF GaveUp
  <2> QED
    BY <1>0, <1>1, <2>1, <2>2, QuietSound
<1> QED
  BY <1>2, <1>3, <1>4, <1>5, <1>6, <1>7, <1>8, <1>9, <1>10, <1>11, <1>12, <1>13, <1>14, <1>15
     DEF Next, Arrive, Join, Handle, Tick

\* A request that a member has filed is in its bucket, in the batch it proposes or in its
\* log, or was accepted for another's SN: cutting, committing, giving up and learning a
\* value lose none (multipaxosinstance.go, tick and deliverCommit).
THEOREM NoRequestLost == Spec => []NothingLost
<1>1. Sound /\ NothingLost /\ [Next]_vars => Sound' /\ NothingLost'
  BY NextSound
<1> QED
  BY <1>1, InitSound, PTL DEF Spec

\* What stands behind an entry, with late members and batches given up as well: a majority
\* accepted it, or a member that may not have known the group accepted and decided it, or
\* it is the NOP of a proposer that gave up (multipaxosinstance.go).
THEOREM AcceptedByMajority == Spec => []QuorumBacked
<1>1. Sound /\ [Next]_vars => Sound'
  BY NextSound
<1>2. Sound => QuorumBacked
  BY DEF Sound, Learnt, QuorumBacked
<1>3. Init => Sound
  BY InitSound
<1> QED
  BY <1>1, <1>2, <1>3, PTL DEF Spec

=============================================================================
