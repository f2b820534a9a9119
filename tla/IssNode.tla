------------------------------ MODULE IssNode ------------------------------
(***************************************************************************)
(* One peer between its orderer instances and the rest of the system: the  *)
(* log, the manager, the checkpointer, the state transfer and the backlog  *)
(* of the orderer (log/log.go, manager/mirmanager.go, checkpoint/,         *)
(* statetransfer/, orderer/common.go, killSegment), each with the          *)
(* goroutines and channels the code gives it.                              *)
(*                                                                         *)
(* Me is the peer.  Of the instances the module keeps what they decide:    *)
(* which entries of an epoch are aborted.  Of the other peers it keeps     *)
(* nothing: once an epoch is decided each sends a checkpoint message for   *)
(* it, and the network takes as long as it likes to deliver it.            *)
(* A checkpoint is named by its epoch, whose last SN is its SN.            *)
(***************************************************************************)
EXTENDS LeaderPolicy

CONSTANTS
    Me,
    Deployments,     \* see Deployment
    Capacity,        \* checkpointChannelCapacity
    Epochs           \* bound: of the epochs that are decided in a deployment

\* LeaderPolicy, Checkpointer and SegmentLength (0: EpochLength holds) of a
\* configuration, and the peer that is weak in it: it may stop, and one of its
\* messages per epoch may get lost (lossy), or, if it is Me, the instances may
\* leave it behind.  Bounds: whether the instances are done within the startDelay
\* of CatchUp (prompt), the SNs of entries that may be aborted, the epochs.
Deployment == [policy : Policy, scheme : {"Simple", "Signing"}, segmentLength : Nat, weak : Node,
               lossy : {0, 1}, prompt : BOOLEAN,
               abortable : SUBSET Nat, epochs : Nat]

ASSUME NodeAssumption ==
    /\ Me \in Node /\ N > 3  \* the other peers are a quorum
    /\ Deployments \subseteq Deployment /\ \A d \in Deployments : d.epochs <= Epochs
    /\ Capacity \in Nat \ {0}
    /\ Epochs \in Nat \ {0}

Peer == Node \ {Me}
Epoch == 0 .. Epochs - 1

VARIABLES
    config,       \* the deployment
    decided,      \* decided[e + 1]: the entries of epoch e, what the instances agree on
    sent, own,    \* the checkpoint messages of this peer, and how many came back
    arrived,      \* arrived[e]: the messages of other peers for e handled
    committed,    \* the SNs in log.entries
    firstEmpty,   \* log.firstEmptySN
    checkpoint,   \* log.checkpoint; -1: nil
    pending,      \* pending[e]: how many messages for e are kept (pendingCheckpoints)
    stuck,        \* CommitCheckpoint waits for ever, with its lock held
    stableQ,      \* the channel handleLogEntries waits on
    catchQ,       \* the channel handleCheckpoints reads
    killer,       \* killer[e]: where the goroutines killSegment of e are
    killQ,        \* killQ[e]: the channel each of them has subscribed
    pc,           \* where handleLogEntries is
    epoch, handled, suspects, policy, segments, lastEpochSN,  \* its state
    toIssue,      \* the segments it has yet to push to the orderer
    issued,       \* the SNs whose instance runs (the dispatchers of the orderer and of its backlog)
    last,         \* po.last
    arriving,     \* entries in the backlog's channel
    backlog,      \* entries in backlog.backlog
    fetching,     \* SNs with a running FetchMissingEntry
    missing       \* missingEntries

world == <<config, decided>>
checkVars == <<checkpoint, pending, stuck, stableQ, catchQ>>
killVars == <<killer, killQ>>
managerVars == <<pc, epoch, handled, suspects, policy, segments, lastEpochSN, toIssue>>
ordererVars == <<issued, last, arriving, backlog>>
msgVars == <<sent, own, arrived>>
logVars == <<committed, firstEmpty>>
fetchVars == <<fetching, missing>>
vars == <<world, msgVars, checkVars, killVars, managerVars, ordererVars, logVars, fetchVars>>

-----------------------------------------------------------------------------
(* What has been decided *)

\* An epoch: what the policy remembers when it starts, its leaders, its first
\* and last SN and the aborted ones.
FirstSN(e) == decided[e + 1].first
LastSN(e) == decided[e + 1].last
Decided == IF decided = <<>> THEN {} ELSE 0 .. decided[Len(decided)].last

\* pbftinstance.go and the others: an entry nobody proposed names the first
\* leader of its segment.
Suspect(d, sn) == d.leaders[1 + ((sn - d.first) % Len(d.leaders))]

\* What a manager knows that starts epoch e with d.policy and has read its entries
\* below sn: one update per suspect and epoch.
Reads(name, d, e) ==
    LET Seen(b, s) ==
            IF s \in b.suspects THEN b
            ELSE [suspects |-> b.suspects \cup {s}, policy |-> Update(name, b.policy, e, s)]
        Before[sn \in d.first .. d.last + 1] ==
            IF sn = d.first THEN [suspects |-> {}, policy |-> d.policy]
            ELSE IF sn - 1 \in d.aborted THEN Seen(Before[sn - 1], Suspect(d, sn - 1))
            ELSE Before[sn - 1]
    IN  Before

\* What the leaders of epoch e follow from: the entries of the epochs before it.
PolicyAfter(e) ==
    IF e = 0 THEN NewPolicy ELSE Reads(config.policy, decided[e], e - 1)[LastSN(e - 1) + 1].policy

-----------------------------------------------------------------------------

Init ==
    /\ config \in Deployments
    /\ decided = <<>>
    /\ sent = 0 /\ own = 0 /\ arrived = [e \in Epoch |-> 0]
    /\ committed = {} /\ firstEmpty = 0
    /\ checkpoint = -1 /\ pending = [e \in Epoch |-> 0] /\ stuck = FALSE
    /\ stableQ = <<>> /\ catchQ = <<>>
    /\ killer = [e \in Epoch |-> "off"] /\ killQ = [e \in Epoch |-> <<>>]
    /\ pc = "issue" /\ epoch = 0 /\ handled = 0 /\ suspects = {} /\ policy = NewPolicy
    /\ \E leaders \in GetLeaders(config.policy, NewPolicy, 0) :
        /\ segments = CreateSegments(config.segmentLength, leaders, 0, 0)
        /\ lastEpochSN = EpochLen(config.segmentLength, leaders) - 1
        /\ toIssue = 1 .. Len(leaders)
    /\ issued = {} /\ last = -1 /\ arriving = {} /\ backlog = {}
    /\ fetching = {} /\ missing = {}

\* The instances of the next epoch decide its entries.
Decide ==
    LET e == Len(decided)
        first == IF e = 0 THEN 0 ELSE LastSN(e - 1) + 1
    IN  /\ e < config.epochs
        /\ \E leaders \in GetLeaders(config.policy, PolicyAfter(e), e) :
            LET end == first + EpochLen(config.segmentLength, leaders) - 1
            IN  \E A \in SUBSET ((first .. end) \cap config.abortable) :
                    decided' = Append(decided, [policy |-> PolicyAfter(e), leaders |-> leaders,
                                                first |-> first, last |-> end, aborted |-> A])
        /\ UNCHANGED <<config, msgVars, checkVars, killVars, managerVars, ordererVars,
                       logVars, fetchVars>>

-----------------------------------------------------------------------------
(* The log *)

\* CommitEntry, publishEntries: what is stored already is left alone.
StoreEntry(S) ==
    LET all == committed \cup S
    IN  /\ committed' = all
        /\ firstEmpty' = CHOOSE sn \in 0 .. Cardinality(all) :
                            sn \notin all /\ 0 .. sn - 1 \subseteq all

\* The instance of a segment announces an entry.
CommitEntry(sn) ==
    /\ sn \in (issued \cap Decided) \ committed
    /\ StoreEntry({sn})
    /\ UNCHANGED <<world, msgVars, checkVars, killVars, managerVars, ordererVars, fetchVars>>

-----------------------------------------------------------------------------
(* The checkpointer, and CommitCheckpoint of the log *)

Obsolete(e) ==
    IF config.scheme = "Simple" THEN checkpoint >= e ELSE checkpoint > e

Full(q) == Len(q) = Capacity

\* A killSegment that has seen its checkpoint leaves its channel behind.
Abandoned(e) == killer[e] \in {"entry", "done"}

\* CommitCheckpoint pushes e to every channel in the order of subscription,
\* the manager's first, even when there is a later checkpoint.
CommitCheckpoint(e) ==
    LET reading == {k \in Epoch : killer[k] # "off"}
        full == {k \in reading : Full(killQ[k])}
    IN  /\ ~ Full(stableQ) /\ ~ Full(catchQ)
        /\ \A k \in full : Abandoned(k)
        /\ checkpoint' = IF e > checkpoint THEN e ELSE checkpoint
        /\ stableQ' = Append(stableQ, e)
        /\ catchQ' = Append(catchQ, e)
        /\ stuck' = (full # {})
        /\ killQ' = [k \in Epoch |-> IF k \in reading \ full THEN Append(killQ[k], e) ELSE killQ[k]]

KeepOld(e) == pending  \* mutation: nothing is pruned

\* pruneOldCheckpoints
Prune(e) == [k \in Epoch |-> IF k <= e THEN 0 ELSE pending[k]]

OneShort(e) == pending[e] + 2 >= Quorum  \* mutation: the peer counts itself twice

\* One more message for e makes a quorum.
Enough(e) == pending[e] + 1 >= Quorum

\* sequentialMessageHandler of a message for e.  No sender sends two for one
\* epoch, so that the map of senders is their number.
Handle(e) ==
    \/ /\ Obsolete(e)
       /\ UNCHANGED <<checkVars, killVars>>
    \/ /\ ~ Obsolete(e) /\ ~ Enough(e)
       /\ pending' = [pending EXCEPT ![e] = @ + 1]
       /\ UNCHANGED <<checkpoint, stuck, stableQ, catchQ, killVars>>
    \/ /\ ~ Obsolete(e) /\ Enough(e)
       /\ CommitCheckpoint(e)
       /\ pending' = Prune(e)
       /\ UNCHANGED killer

\* One connection brings the messages of a peer in the order in which it has
\* sent them, those of a weak one perhaps not all.
HandleCheckpoint(e) ==
    /\ ~ stuck /\ e < Len(decided)
    /\ arrived[e] < (IF e = 0 THEN N - 1 ELSE arrived[e - 1] + config.lossy) /\ arrived[e] < N - 1
    /\ arrived' = [arrived EXCEPT ![e] = @ + 1]
    /\ Handle(e)
    /\ UNCHANGED <<world, sent, own, managerVars, ordererVars, logVars, fetchVars>>

HandleOwnCheckpoint ==
    /\ ~ stuck /\ own < sent
    /\ own' = own + 1
    /\ Handle(own)
    /\ UNCHANGED <<world, sent, arrived, managerVars, ordererVars, logVars, fetchVars>>

-----------------------------------------------------------------------------
(* killSegment: all goroutines of the segments of an epoch wait for the     *)
(* same checkpoint and act alike; killer[e] is one of them.                 *)

KillSubscribe(e) ==
    /\ killer[e] = "started" /\ ~ stuck
    /\ killer' = [killer EXCEPT ![e] = "subscribed"]
    /\ UNCHANGED <<world, msgVars, checkVars, killQ, managerVars, ordererVars, logVars, fetchVars>>

\* log.GetCheckpoint, and then the channel until a checkpoint covers the segment.
KillRead(e) ==
    /\ \/ /\ killer[e] = "subscribed" /\ ~ stuck
          /\ killer' = [killer EXCEPT ![e] = IF checkpoint >= e THEN "entry" ELSE "waiting"]
          /\ UNCHANGED killQ
       \/ /\ killer[e] = "waiting" /\ killQ[e] # <<>>
          /\ killer' = [killer EXCEPT ![e] = IF Head(killQ[e]) >= e THEN "entry" ELSE "waiting"]
          /\ killQ' = [killQ EXCEPT ![e] = Tail(@)]
    /\ UNCHANGED <<world, msgVars, checkVars, managerVars, ordererVars, logVars, fetchVars>>

\* WaitForEntry returned: po.last moves up, garbageCollect clears the backlog
\* and the instances are forgotten.
KillFinish(e) ==
    LET Old(sn) == sn <= LastSN(e)
    IN  /\ killer[e] = "entry" /\ firstEmpty > LastSN(e)
        /\ killer' = [killer EXCEPT ![e] = "done"]
        /\ last' = IF LastSN(e) > last THEN LastSN(e) ELSE last
        /\ backlog' = {sn \in backlog : ~ Old(sn)}
        /\ issued' = {sn \in issued : ~ Old(sn)}
        /\ UNCHANGED <<world, msgVars, checkVars, killQ, managerVars, arriving, logVars, fetchVars>>

-----------------------------------------------------------------------------
(* handleLogEntries of the manager *)

\* One turn of the loop for the next entry that publishEntries has pushed.
HandleEntry ==
    LET d == decided[epoch + 1]
        s == Suspect(d, handled)
        first == handled \in d.aborted /\ s \notin suspects
    IN  /\ pc = "read" /\ handled < firstEmpty
        /\ suspects' = IF first THEN suspects \cup {s} ELSE suspects
        /\ policy' = IF first THEN Update(config.policy, policy, epoch, s) ELSE policy
        /\ handled' = handled + 1
        /\ pc' = IF handled = lastEpochSN THEN "checkpoint" ELSE "read"
        /\ UNCHANGED <<world, msgVars, checkVars, killVars, epoch, segments, lastEpochSN,
                       toIssue, ordererVars, logVars, fetchVars>>

\* checkpointSNChannel <- entry.Sn, and launchInstance of the checkpointer.
LaunchCheckpoint ==
    /\ pc = "checkpoint"
    /\ sent' = sent + 1
    /\ pc' = "wait"
    /\ UNCHANGED <<world, own, arrived, checkVars, killVars, epoch, handled, suspects, policy, segments,
                   lastEpochSN, toIssue, ordererVars, logVars, fetchVars>>

\* The stable checkpoint must be the one of this epoch: logger.Fatal if not.
\* Then the next epoch begins, with new segments.
NextEpoch ==
    /\ pc = "wait" /\ stableQ # <<>>
    /\ stableQ' = Tail(stableQ)
    /\ \/ /\ Head(stableQ) # epoch
          /\ pc' = "exit"
          /\ UNCHANGED <<epoch, suspects, segments, lastEpochSN, toIssue>>
       \/ /\ Head(stableQ) = epoch
          /\ pc' = "issue"
          /\ epoch' = epoch + 1
          /\ suspects' = {}
          /\ \E leaders \in GetLeaders(config.policy, policy, epoch') :
                /\ segments' = CreateSegments(config.segmentLength, leaders, epoch', handled)
                /\ lastEpochSN' = lastEpochSN + EpochLen(config.segmentLength, leaders)
                /\ toIssue' = 1 .. Len(leaders)
    /\ UNCHANGED <<world, msgVars, checkpoint, pending, stuck, catchQ, killVars, handled,
                   policy, ordererVars, logVars, fetchVars>>

\* The manager pushes the segments as it finds them in a map; the orderer
\* starts an instance for each (runSegment) and a goroutine killSegment, and
\* dispatchToInstance gives the instance what the backlog keeps for its SNs.
IssueSegment(i) ==
    /\ pc = "issue" /\ i \in toIssue
    /\ toIssue' = toIssue \ {i}
    /\ pc' = IF toIssue' = {} THEN "read" ELSE "issue"
    /\ issued' = issued \cup segments[i].sns
    /\ StoreEntry(backlog \cap segments[i].sns)
    /\ killer' = [e \in Epoch |-> IF e = epoch THEN "started" ELSE killer[e]]
    /\ UNCHANGED <<world, msgVars, checkVars, killQ, epoch, handled, suspects, policy, segments,
                   lastEpochSN, last, arriving, backlog, fetchVars>>

-----------------------------------------------------------------------------
(* State transfer, and the backlog of the orderer *)

MissingBelow(until) == (firstEmpty .. until - 1) \ committed  \* mutation: off by one

\* log.Missing
Missing(until) == (firstEmpty .. until) \ committed

\* handleCheckpoints calls CatchUp: one goroutine per missing entry.
CatchUp ==
    /\ catchQ # <<>>
    /\ config.prompt => firstEmpty > LastSN(Head(catchQ))
    /\ catchQ' = Tail(catchQ)
    /\ LET missed == Missing(LastSN(Head(catchQ)))
       IN  /\ fetching' = fetching \cup missed
           /\ missing' = missing \cup missed
    /\ UNCHANGED <<world, msgVars, checkpoint, pending, stuck, stableQ, killVars, managerVars,
                   ordererVars, logVars>>

\* processResponse: the first answer goes to the orderer, and is not asked for
\* again.  HandleMessage of the orderer knows the instance or not.
HandleResponse(sn) ==
    /\ sn \in fetching \cap missing
    /\ missing' = missing \ {sn}
    /\ \/ /\ sn > last /\ sn \in issued
          /\ StoreEntry({sn})
          /\ UNCHANGED arriving
       \/ /\ sn > last /\ sn \notin issued
          /\ arriving' = arriving \cup {sn}
          /\ UNCHANGED logVars
       \/ /\ sn <= last
          /\ UNCHANGED <<arriving, logVars>>
    /\ UNCHANGED <<world, msgVars, checkVars, killVars, managerVars, issued, last,
                   backlog, fetching>>

\* FetchMissingEntry ends when the entry is in the log.
FetchDone(sn) ==
    /\ sn \in fetching \cap committed
    /\ fetching' = fetching \ {sn}
    /\ UNCHANGED <<world, msgVars, checkVars, killVars, managerVars, ordererVars, logVars, missing>>

\* Mutation: appendToBacklog does not look for an instance.
AppendOnly(sn) ==
    /\ sn \in arriving
    /\ arriving' = arriving \ {sn}
    /\ backlog' = IF sn > last THEN backlog \cup {sn} ELSE backlog
    /\ UNCHANGED <<world, msgVars, checkVars, killVars, managerVars, issued, last, logVars,
                   fetchVars>>

\* appendToBacklog: kept in any case, and given to the instance if there is one.
BacklogAppend(sn) ==
    /\ sn \in arriving
    /\ arriving' = arriving \ {sn}
    /\ backlog' = IF sn > last THEN backlog \cup {sn} ELSE backlog
    /\ StoreEntry({sn} \cap issued)
    /\ UNCHANGED <<world, msgVars, checkVars, killVars, managerVars, issued, last, fetchVars>>

-----------------------------------------------------------------------------

Killing(e) == KillSubscribe(e) \/ KillRead(e) \/ KillFinish(e)
Manager == HandleEntry \/ LaunchCheckpoint \/ NextEpoch \/ \E i \in toIssue : IssueSegment(i)
Fetch(sn) == HandleResponse(sn) \/ FetchDone(sn)
Backlog == \E sn \in arriving : BacklogAppend(sn)

Next ==
    \/ Decide
    \/ \E e \in Epoch : HandleCheckpoint(e)
    \/ HandleOwnCheckpoint
    \/ \E sn \in Decided : CommitEntry(sn) \/ Fetch(sn)
    \/ \E e \in Epoch : Killing(e)
    \/ Manager
    \/ CatchUp
    \/ Backlog

\* Each goroutine goes on while it can, and the messages of peers that are not
\* weak arrive.  If another peer is weak, the instances need this one to decide,
\* and announce here what they decide.
Fairness ==
    /\ WF_vars((config.weak = Me \/ epoch >= Len(decided)) /\ Decide)
    /\ \A e \in Epoch : WF_vars((config.weak = Me \/ arrived[e] < N - 2) /\ HandleCheckpoint(e))
    /\ WF_vars(HandleOwnCheckpoint)
    /\ WF_vars(config.weak # Me /\ \E sn \in Decided : CommitEntry(sn))
    /\ WF_vars(\E sn \in Decided : Fetch(sn))
    /\ \A e \in Epoch : WF_vars(Killing(e))
    /\ WF_vars(Manager) /\ WF_vars(CatchUp) /\ WF_vars(Backlog)

Spec == Init /\ [][Next]_vars /\ Fairness

-----------------------------------------------------------------------------
(* Properties *)

SNs == 0 .. (IF decided = <<>> THEN -1 ELSE decided[Len(decided)].last)

\* The types of the variables; what is published is what lies before the
\* first hole of the log.
TypeOK ==
    /\ sent \in 0 .. Epochs /\ own \in 0 .. sent /\ arrived \in [Epoch -> 0 .. N - 1]
    /\ committed \subseteq SNs /\ firstEmpty \in Nat
    /\ 0 .. firstEmpty - 1 \subseteq committed /\ firstEmpty \notin committed
    /\ checkpoint \in Epoch \cup {-1} /\ pending \in [Epoch -> 0 .. Quorum - 1] /\ stuck \in BOOLEAN
    /\ stableQ \in Seq(Epoch) /\ catchQ \in Seq(Epoch) /\ killQ \in [Epoch -> Seq(Epoch)]
    /\ killer \in [Epoch -> {"off", "started", "subscribed", "waiting", "entry", "done"}]
    /\ pc \in {"issue", "read", "checkpoint", "wait", "exit"}
    /\ epoch \in 0 .. Epochs /\ handled \in 0 .. firstEmpty /\ suspects \subseteq Node
    /\ toIssue \subseteq DOMAIN segments /\ last \in -1 .. lastEpochSN
    /\ arriving \cup backlog \cup fetching \cup missing \subseteq SNs

\* The checkpoint that handleLogEntries takes from its channel is the one of
\* the epoch it has just finished, never the process exits ("Inconsistent
\* stable checkpoint sequence number"), whatever peer falls behind.
CheckpointInStep == pc # "exit"

\* How many messages for epoch e the checkpointer has been given.
Had(e) == arrived[e] + (IF own > e THEN 1 ELSE 0)

Vouched(e) == Had(e) >= Quorum

\* The manager leaves an epoch, and the orderer forgets its instances, only when
\* a quorum of peers has told this one that it has the log up to the end of that
\* epoch, or of a later one ("a node can transfer missing batches from one out of
\* these 2f+1 nodes", checkForStableCheckpoint).
QuorumBehind ==
    /\ \A e \in 0 .. epoch - 1 : Vouched(e)
    /\ \A e \in Epoch : Abandoned(e) => \E k \in Epoch : k >= e /\ Vouched(k)

\* The segments a peer issues divide the sequence numbers and the buckets of the
\* epoch, and follow from the decided entries of the epochs before it, however
\* its log was filled.  So all peers issue the same ones, but under the combined
\* policy: there the leaders are the keys of a map, in whatever order each peer
\* meets them, and only their number and the division are common.
SegmentsAgree ==
    LET offset == IF epoch = 0 THEN 0 ELSE LastSN(epoch - 1) + 1
        answers == GetLeaders(config.policy, PolicyAfter(epoch), epoch)
        Divide(f(_), S) ==
            /\ UNION {f(i) : i \in DOMAIN segments} = S
            /\ \A i, j \in DOMAIN segments : i # j => f(i) \cap f(j) = {}
        sns(i) == segments[i].sns
        buckets(i) == segments[i].buckets
    IN  /\ \E leaders \in answers :
              /\ segments = CreateSegments(config.segmentLength, leaders, epoch, offset)
              /\ config.policy # "Combined" => answers = {leaders}
        /\ Divide(sns, offset .. lastEpochSN)
        /\ Divide(buckets, Bucket)

\* The state transfer forgets an entry at its first answer: from then on it is
\* in the log, or on its way through the backlog to an instance that will start.
FetchedIsKept ==
    \A sn \in fetching \ missing :
        sn \in committed \cup arriving \cup (backlog \ issued)

\* The peer goes through all epochs, also when its instances leave it behind
\* and it has the log from the state transfer alone.
Advances == <>(epoch = config.epochs)

=============================================================================
