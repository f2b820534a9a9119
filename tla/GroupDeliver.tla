---------------------------- MODULE GroupDeliver ----------------------------
(***************************************************************************)
(* Delivery: orderer/globaldeliver.go, fed by runSegment (Push), by the    *)
(* sequencer's callbacks (onMeta, onSkip) and by deliverGroup.             *)
(*                                                                         *)
(* A node has a groupDeliverer for each of its groups.  It takes the       *)
(* batches of the group's log in order and sends the requests on one by    *)
(* one; a cross-group request goes out only after every smaller GSN that   *)
(* touches the group, which may be brought forward from further down the   *)
(* log.  What is smaller and touches the group is known from the METAs: a  *)
(* GSN without one blocks until its META, or a skip, arrives.  What a      *)
(* groupDeliverer sends out is applied by a goroutine of its own           *)
(* (deliverGroup), which tells the GlobalDeliverer of the node.            *)
(*                                                                         *)
(* Each deliverer has its own mutex, and the METAs and skips reach the     *)
(* deliverers of a node one after the other, in any order, while others    *)
(* run: each of them is a step.  A META that comes again                   *)
(* (recoverMetaHoles) drains once more, which changes nothing (TypeOK).    *)
(* The group's log is MpxInstance's: here a batch is decided when the      *)
(* first replica pushes it.                                                *)
(***************************************************************************)
EXTENDS Integers, FiniteSets, Sequences, SequencesExt

CONSTANTS
    Group,        \* data groups
    Deployment,   \* the systems that are looked at; Init picks one, see below
    MaxGsn,       \* bound: the GSNs that are looked at
    Unknown       \* no META yet

GSN == 1 .. MaxGsn

ASSUME DeploymentAssumption ==
    \A c \in Deployment :
      /\ c.gsn \in [c.op -> 0 .. MaxGsn] /\ c.touched \in [c.op -> (SUBSET Group) \ {{}}]
      /\ \A o \in c.op : Cardinality(c.touched[o]) > 1 => c.gsn[o] > 0
      /\ \A o, p \in c.op : c.gsn[o] = c.gsn[p] /\ c.gsn[o] > 0 => o = p
      /\ c.offset \in [Group -> Nat]
      /\ (\A d \in c.replica : d[2] \in Group) /\ c.global \subseteq {d[1] : d \in c.replica}
      /\ c.skip \subseteq GSN /\ c.repeated \subseteq c.op
      /\ c.batchSize \in Nat \ {0}
ASSUME GroupAssumption ==
    /\ IsFiniteSet(Group) /\ MaxGsn \in Nat
    /\ \A S \in SUBSET Group : Unknown # S

VARIABLES
    dep,          \* the deployment, fixed
    log,          \* log[g]: the batches decided in the group
    pushed,       \* pushed[d]: how many of them a replica has pushed
    dlv,          \* dlv[d]: the groupDeliverer of a replica
    applied,      \* applied[d]: how much of dlv[d].out is applied
    glb           \* glb[n]: the GlobalDeliverer of a node

vars == <<dep, log, pushed, dlv, applied, glb>>

Op == dep.op             \* client requests
Gsn == dep.gsn           \* Gsn[o]: its global sequence number, 0 if it has none;
                         \* with totalOrder = global a request of one group has
                         \* one too
Touched == dep.touched   \* Touched[o]: TouchedGroups
Replica == dep.replica   \* the pairs <<node, group>> of a member and its group
Skip == dep.skip         \* the GSNs a new sequencer leader declares skipped
Global == dep.global     \* bound: the nodes whose GlobalDeliverer is looked at
Repeated == dep.repeated \* bound: the operations that are decided twice in a group
BatchSize == dep.batchSize
Node == {d[1] : d \in Replica}
IsCross(o) == Gsn[o] > 0 /\ Cardinality(Touched[o]) > 1

\* GetDataGroupIndex: a group owns every |Group|-th SN from its offset on.
SnOf(g, n) == dep.offset[g] + (n - 1) * Cardinality(Group)

-----------------------------------------------------------------------------
(* The METAs a deliverer knows: Unknown, or the groups the GSN touches, none *)
(* if it is skipped.  (The code forgets those it is past.)                   *)

\* Mutant: a skipped GSN is recorded with no groups at all (nil), as if unknown.
LearnGroups(meta, G, groups) ==
    [k \in GSN |-> IF k \in G /\ meta[k] = Unknown /\ groups # {} THEN groups ELSE meta[k]]

\* OnMeta, OnSkip: what is known first stays.
Learn(meta, G, groups) ==
    [k \in GSN |-> IF k \in G /\ meta[k] = Unknown THEN groups ELSE meta[k]]
Hear(d, G, groups) == [d EXCEPT !.meta = Learn(@, G, groups)]

\* metaPrefix: METAs of 1 .. k are known.
MetaPrefix(meta) ==
    CHOOSE k \in 0 .. MaxGsn : /\ \A j \in 1 .. k : meta[j] # Unknown
                               /\ k < MaxGsn => meta[k + 1] = Unknown

\* The first of some GSNs that comes after `from` in a prefix, or 0.
FirstAfter(from, prefix, some) ==
    LET S == some \cap (from + 1 .. prefix)
    IN  IF S = {} THEN 0 ELSE CHOOSE k \in S : \A j \in S : k <= j

-----------------------------------------------------------------------------
(* groupDeliverer *)

\* crossInLog: pushed, and neither delivered nor brought forward.
CrossInLog(d) == {Gsn[d.queue[i]] : i \in {j \in DOMAIN d.queue : IsCross(d.queue[j])}} \ d.early

\* Mutants: every copy is filed; requests of one group do not queue.
EnqueueAll(d, o) == [d EXCEPT !.queue = Append(@, o)]
LocalAtOnce(d, o) ==
    IF ~IsCross(o) THEN [d EXCEPT !.out = Append(@, o)]
    ELSE IF Gsn[o] <= d.cursor \/ Gsn[o] \in d.early \/ Gsn[o] \in CrossInLog(d) THEN d
    ELSE [d EXCEPT !.queue = Append(@, o)]

\* Push files an item, unless it is a further copy of a cross-group request.
Enqueue(d, o) ==
    IF IsCross(o) /\ (Gsn[o] <= d.cursor \/ Gsn[o] \in d.early \/ Gsn[o] \in CrossInLog(d))
    THEN d
    ELSE [d EXCEPT !.queue = Append(@, o)]

\* ... item by item.
File(d, batch) ==
    LET after[k \in 0 .. Len(batch)] ==
            IF k = 0 THEN d ELSE Enqueue(after[k - 1], batch[k])
    IN  after[Len(batch)]

\* advanceCursor: the next GSN the group has to deliver, 0 if a META is missing.
Pending(d, g) ==
    LET prefix == MetaPrefix(d.meta)
    IN  FirstAfter(d.cursor, prefix,
                   {k \in 1 .. prefix : Cardinality(d.meta[k]) >= 2 /\ g \in d.meta[k]} \ d.early)

\* ... and the cursor moves up to it, or over all that is known.
AdvanceCursor(d, g) ==
    LET next == Pending(d, g)
        prefix == MetaPrefix(d.meta)
    IN  [d EXCEPT !.cursor = IF next # 0 THEN next - 1 ELSE IF prefix > @ THEN prefix ELSE @]

\* The head of the queue goes out; d's GSN is done (markDelivered).
SendHead(d)    == [d EXCEPT !.out = Append(@, Head(d.queue)), !.queue = Tail(@)]
Bring(d, next) == [d EXCEPT !.out = Append(@, CHOOSE o \in Op : Gsn[o] = next),
                            !.early = @ \cup {next}, !.cursor = next]

\* Mutant: a request without a GSN lets those at hand go first.
CrossFirst(d, g) ==
    IF Pending(d, g) \in CrossInLog(d) THEN Bring(AdvanceCursor(d, g), Pending(d, g))
    ELSE SendHead(d)
\* A request without a GSN goes out when it is the head.
LocalTurn(d, g) == SendHead(d)

\* One turn of the loop of drainLocked; a turn that would leave it changes
\* nothing but the cursor.
DrainStep(d, g) ==
    IF d.queue = << >> THEN d
    ELSE LET o == Head(d.queue)
             c == Gsn[o]
             a == AdvanceCursor(d, g)
             next == Pending(d, g)
         IN  CASE ~IsCross(o)                   -> LocalTurn(d, g)
               [] IsCross(o) /\ c \in d.early   -> [d EXCEPT !.queue = Tail(@), !.early = @ \ {c}]
               [] OTHER ->
                    CASE next = 0                           -> a
                      [] next = c                           -> [SendHead(a) EXCEPT !.cursor = c]
                      [] next > c                           -> SendHead(a)
                      [] next \in CrossInLog(d) /\ next < c /\ next > 0 -> Bring(a, next)
                      [] OTHER                              -> a

\* Mutant: the loop is left after the first request.
DrainOne(d, g) == DrainStep(d, g)

\* drainLocked: a turn either takes the head or brings a later item forward.
Drain(d, g) ==
    LET turns == 2 * Len(d.queue) + 1
        after[k \in 0 .. turns] ==
            IF k = 0 THEN d
            ELSE CHOOSE next \in {DrainStep(now, g) : now \in {after[k - 1]}} : TRUE
    IN  after[turns]

-----------------------------------------------------------------------------
(* GlobalDeliverer *)

Mine(n, groups) == \E g \in groups : <<n, g>> \in Replica

\* The GSNs after d.last up to upto go out, or are passed over if they are not
\* this node's.
SendUpTo(d, n, upto) ==
    LET sent[i \in 0 .. upto - d.last] ==
            IF i = 0 THEN d.out
            ELSE IF Mine(n, d.meta[d.last + i]) THEN Append(sent[i - 1], d.last + i)
            ELSE sent[i - 1]
    IN  [d EXCEPT !.out = sent[upto - d.last], !.last = upto]

\* Mutant: it does not wait for a group to commit the GSN.
DrainKnown(d, n) ==
    LET prefix == MetaPrefix(d.meta)
    IN  SendUpTo(d, n, IF prefix > d.last THEN prefix ELSE d.last)

\* drainLocked: every GSN up to the first that is this node's and not yet
\* committed in one of its groups.
GlobalDrain(d, n) ==
    LET prefix == MetaPrefix(d.meta)
        stop == FirstAfter(d.last, prefix, {k \in 1 .. prefix : Mine(n, d.meta[k])} \ d.committed)
        upto == IF stop # 0 THEN stop - 1 ELSE IF prefix > d.last THEN prefix ELSE d.last
    IN  [SendUpTo(d, n, upto) EXCEPT !.committed = @ \ (1 .. upto)]

\* OnCommit: a group has applied the GSN.
Commit(d, k) == [d EXCEPT !.committed = @ \cup {k}]

-----------------------------------------------------------------------------

NoMeta == [k \in GSN |-> Unknown]

Init ==
    /\ dep \in Deployment
    /\ log = [g \in Group |-> << >>]
    /\ pushed = [d \in Replica |-> 0]
    /\ dlv = [d \in Replica |-> [queue |-> << >>, early |-> {}, meta |-> NoMeta,
                                 cursor |-> 0, out |-> << >>]]
    /\ applied = [d \in Replica |-> 0]
    /\ glb = [n \in Node |-> [meta |-> NoMeta, committed |-> {}, last |-> 0, out |-> << >>]]

\* What a group may decide next: requests that touch it, in any order, and
\* several times (a request is in the bucket of every member).
Copies(o, g) == Cardinality({p \in (DOMAIN log[g]) \X (1 .. BatchSize) :
                               p[2] <= Len(log[g][p[1]]) /\ log[g][p[1]][p[2]] = o})
Batches(g) ==
    {b \in UNION {[1 .. k -> {o \in Op : g \in Touched[o]}] : k \in 1 .. BatchSize} :
        \A i \in DOMAIN b : /\ Copies(b[i], g) < (IF b[i] \in Repeated THEN 2 ELSE 1)
                            /\ \A j \in DOMAIN b : b[i] = b[j] => i = j}

\* lastApplied, 0 as long as nothing is.
LastApplied(d) == IF pushed[d] = 0 THEN 0 ELSE SnOf(d[2], pushed[d])

\* runSegment applies the next batch of the log (applyEntryInOrder, unless it
\* takes the SN for an old one): Push, and the drain in it.
Push(d) ==
    LET n == pushed[d] + 1
        g == d[2]
    IN  /\ \/ n <= Len(log[g]) /\ UNCHANGED log
           \/ n > Len(log[g]) /\ \E b \in Batches(g) : log' = [log EXCEPT ![g] = Append(@, b)]
        /\ pushed' = [pushed EXCEPT ![d] = n]
        /\ dlv' = IF SnOf(g, n) <= LastApplied(d) THEN dlv
                  ELSE [dlv EXCEPT ![d] = Drain(File(@, log'[g][n]), g)]
        /\ UNCHANGED <<dep, applied, glb>>

\* A META reaches a deliverer of a node.
OnMeta(d, o) ==
    /\ Gsn[o] > 0 /\ dlv[d].meta[Gsn[o]] = Unknown
    /\ dlv' = [dlv EXCEPT ![d] = Drain(Hear(@, {Gsn[o]}, Touched[o]), d[2])]
    /\ UNCHANGED <<dep, log, pushed, applied, glb>>

OnSkip(d) ==
    /\ \E k \in Skip : dlv[d].meta[k] = Unknown
    /\ dlv' = [dlv EXCEPT ![d] = Drain(Hear(@, Skip, {}), d[2])]
    /\ UNCHANGED <<dep, log, pushed, applied, glb>>

\* deliverGroup applies the next request and, if it has a GSN, commits it to
\* the GlobalDeliverer.
DeliverGroup(d) ==
    LET n == d[1]
        o == dlv[d].out[applied[d] + 1]
    IN  /\ n \in Global /\ applied[d] < Len(dlv[d].out)
        /\ applied' = [applied EXCEPT ![d] = @ + 1]
        /\ glb' = IF Gsn[o] > glb[n].last
                  THEN [glb EXCEPT ![n] = GlobalDrain(Commit(@, Gsn[o]), n)]
                  ELSE glb
        /\ UNCHANGED <<dep, log, pushed, dlv>>

GlobalOnMeta(n, o) ==
    /\ Gsn[o] > 0 /\ glb[n].meta[Gsn[o]] = Unknown
    /\ glb' = [glb EXCEPT ![n] = GlobalDrain(Hear(@, {Gsn[o]}, Touched[o]), n)]
    /\ UNCHANGED <<dep, log, pushed, dlv, applied>>

GlobalOnSkip(n) ==
    /\ \E k \in Skip : glb[n].meta[k] = Unknown
    /\ glb' = [glb EXCEPT ![n] = GlobalDrain(Hear(@, Skip, {}), n)]
    /\ UNCHANGED <<dep, log, pushed, dlv, applied>>

Next ==
    \/ \E d \in Replica : Push(d) \/ OnSkip(d) \/ DeliverGroup(d)
    \/ \E d \in Replica, o \in Op : OnMeta(d, o)
    \/ \E n \in Global : GlobalOnSkip(n)
    \/ \E n \in Global, o \in Op : GlobalOnMeta(n, o)

Spec == Init /\ [][Next]_vars

-----------------------------------------------------------------------------
(* Properties *)

Metas == [GSN -> {Unknown} \cup SUBSET Group]

\* The types of the variables.  No deliverer is ever blocked on a request that
\* is at hand: what drainLocked left in the queue, one more turn leaves too.
TypeOK ==
    /\ dep \in Deployment
    /\ \A g \in Group : \A n \in DOMAIN log[g] :
        log[g][n] \in Seq(Op) /\ Len(log[g][n]) \in 1 .. BatchSize
    /\ \A d \in Replica :
        /\ pushed[d] \in 0 .. Len(log[d[2]])
        /\ dlv[d].queue \in Seq(Op) /\ dlv[d].out \in Seq(Op)
        /\ dlv[d].meta \in Metas /\ dlv[d].early \subseteq GSN
        /\ dlv[d].cursor \in 0 .. MaxGsn
        /\ applied[d] \in 0 .. Len(dlv[d].out)
        /\ DrainStep(dlv[d], d[2]) = dlv[d]
    /\ \A n \in Node :
        /\ glb[n].meta \in Metas /\ glb[n].committed \subseteq GSN
        /\ glb[n].last \in 0 .. MetaPrefix(glb[n].meta) /\ glb[n].out \in Seq(GSN)

\* All replicas of a group deliver the same sequence, whatever the order in
\* which METAs and batches reach them (globaldeliver.go: "toda réplica do grupo
\* entrega a mesma sequência").
ReplicasAgree ==
    \A d, e \in Replica :
        d[2] = e[2] => IsPrefix(dlv[d].out, dlv[e].out) \/ IsPrefix(dlv[e].out, dlv[d].out)

\* The GSNs that touch a group.
Needed(g) == {Gsn[o] : o \in {p \in Op : IsCross(p) /\ g \in Touched[p]}}

\* A replica delivers the GSNs of its group in order and without a gap; any two
\* groups therefore deliver what they share in the same order (README).
GsnOrder ==
    \A d \in Replica : \A i \in DOMAIN dlv[d].out :
        IsCross(dlv[d].out[i]) =>
            {Gsn[dlv[d].out[j]] : j \in {k \in 1 .. i - 1 : IsCross(dlv[d].out[k])}}
              = {k \in Needed(d[2]) : k < Gsn[dlv[d].out[i]]}

\* The places in the first n batches of a group's log, and what is there.  The
\* batch at SN 0 has none: applyEntryInOrder takes it for one that it has had.
Places(g, n) == UNION {{m} \X DOMAIN log[g][m] : m \in {k \in 1 .. n : SnOf(g, k) > 0}}
Before(p, q) == p[1] < q[1] \/ (p[1] = q[1] /\ p[2] < q[2])
ItemAt(L, p) == L[p[1]][p[2]]

\* A request without a GSN keeps its place: everything the log has before it is
\* delivered before it, except what the group decided at SN 0.
LocalOrder ==
    \A d \in Replica :
        LET places == Places(d[2], pushed[d])
            out == dlv[d].out
        IN  \A i \in DOMAIN out :
              ~IsCross(out[i]) =>
                 \E p \in places :
                    /\ ItemAt(log[d[2]], p) = out[i]
                    /\ \A q \in places :
                         Before(q, p) => \E j \in 1 .. i - 1 : out[j] = ItemAt(log[d[2]], q)

\* A node delivers globally every GSN of its groups, in order and without a
\* gap, and only what one of its groups has applied.
GlobalOrder ==
    \A n \in Node :
        LET mine == {k \in GSN : \E o \in Op : Gsn[o] = k /\ Mine(n, Touched[o])}
        IN  /\ {glb[n].out[i] : i \in DOMAIN glb[n].out} = {k \in mine : k <= glb[n].last}
            /\ \A i, j \in DOMAIN glb[n].out : i < j => glb[n].out[i] < glb[n].out[j]
            /\ \A i \in DOMAIN glb[n].out :
                 \E d \in Replica : d[1] = n /\ \E k \in 1 .. applied[d] :
                     Gsn[dlv[d].out[k]] = glb[n].out[i]

\* Liveness: METAs and skips arrive, the log is applied, goroutines run.  Each
\* action can be taken a bounded number of times only, so that fairness to all
\* of them together is fairness to each.
FairSpec == Spec /\ WF_vars(Next)

\* In the end every replica delivers every request of its group, and every node
\* every GSN of its groups.  The group that begins at SN 0 loses its first batch
\* (statemachine.go, lastApplied), and may wait for ever for a GSN in it.
EverythingDelivered ==
    (\A g \in Group : dep.offset[g] > 0) =>
    <>(/\ \A d \in Replica, o \in Op :
             d[2] \in Touched[o] => \E i \in DOMAIN dlv[d].out : dlv[d].out[i] = o
       /\ \A n \in Global, o \in Op :
             Gsn[o] > 0 /\ Mine(n, Touched[o]) =>
                \E i \in DOMAIN glb[n].out : glb[n].out[i] = Gsn[o])

=============================================================================
