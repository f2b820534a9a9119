# TLA+ models of ISS with MultiPaxos

The repository (`src/README.md`) is ISS/MirBFT in Go. An *orderer* decides the entries of a log
segment by segment; the original ones are PBFT, HotStuff and Raft. The repository adds **MultiPaxos**
and **MultiPaxosMulticast**, in which every group of replicas orders its own messages with MultiPaxos
and an operation that touches several groups gets a *global sequence number* (GSN) from a
fault-tolerant sequencer, and is delivered in GSN order in every group. This directory models both:
the multicast stack, and the inherited machinery of a peer with its orderers. All paths below are
under `src/mirbft/`.

## Inventory

| Component (source) | State | Operations | Talks to |
|---|---|---|---|
| Sequencer (`orderer/sequencer.go`, `sequencer_election.go`) | term, vote, leader; counter, confirmed and accepted marks; METAs, skips | pre-vote, vote, heartbeat; reserve blocks; `GetNextGSN`, `HandleGSNRequest`; `PublishMETA`, `PublishMETASkip`, `recoverMetaHoles` | the sequencers of all nodes; `onMeta`, `onSkip` of the deliverers |
| MultiPaxos instance (`orderer/multipaxosinstance.go`, `multipaxosorderer.go`) | ballot, promise, phase, value, answers counted; group promise; window | PREPARE, PROMISE, ACCEPT, ACCEPTED, COMMIT, MissingEntry; `ProposeIfDue`, `tick`, `SetMembers` | instances of the group; buckets; log; state transfer |
| Delivery (`orderer/globaldeliver.go`, `statemachine.go`) | queue, METAs, cursor, brought-forward GSNs; KV store | `Push`, `OnMeta`, `OnSkip`, `OnCommit`, `drainLocked`, `ApplyBatch` | group orderer, sequencer, proxy |
| Multicast orderer (`orderer/multipaxosmulticastorderer.go`) | groups, proxy table | `PreprocessRequest`, `sendToGroup`, `deliverGroup`, `NotifyProxy` | all of the above, clients |
| PBFT (`orderer/pbftinstance.go`, `pbftbacklog.go`) | view, batches per view, view-change state, timers | preprepare, prepare, commit, segment checkpoint, view change, new view, missing preprepares | log, buckets, state transfer |
| Raft (`orderer/raftinstance.go`) | raft log, next and match index, commit index, term | append, heartbeat, vote request, missing entry | the same |
| HotStuff (`orderer/hotstuffinstance.go`, `hotstuffbacklog.go`) | chain, votes, height, timers, backlog | proposal, vote, new view, missing entry | the same |
| Requests (`request/`) | buckets with index, buffers with watermarks and backlog | `AddDirectToBucket`, `CutBatch`, `Resurrect`, `RemoveBatch`, `AdvanceWatermarks` | instances, manager |
| Ordering client (`cmd/orderingclient/client.go`), responder, `messenger/clients.go` | window, bucket leaders, pending requests | submit, response, assignment, resubmit | workers of the peers |
| Log (`log/`) | entries, first empty SN, checkpoint, subscribers | `CommitEntry`, `WaitForEntry`, `CommitCheckpoint` | every orderer, manager, checkpointer |
| State transfer (`statetransfer/`) | missing entries | `CatchUp`, `FetchMissingEntry`, responses | log, instances |
| Manager (`manager/`) | epoch, segments, leader policy | `handleLogEntries`, `createSegments`, `assignBuckets`, policies | log, orderers, buckets |
| Checkpointing (`checkpoint/`) | votes per epoch | local checkpoint, votes, stable checkpoint | log, state transfer |
| Messenger (`messenger/`) | connections, buffers | `EnqueueMsg`, `Listen` | network |

What is hard in them: every inbound stream is handled by a goroutine of its own
(`messenger/peers.go:83`), so handlers of one node interleave and messages overtake each other;
connections drop messages while they are down and nothing resends them but a few timers; handlers
drop a mutex half-way (`HandleVoteResponse`, `HandleReserve`, `callUnlocked`); elections, METAs,
skips, consensus, checkpoints and delivery all run at their own pace, and hand work to each other
over bounded channels. Nothing is persisted, so there is no restart. `PROJECT.json` lists the hazards
line by line with the properties that cover them.

What makes each correct: a term has one leader; a GSN is given to one operation and is above
everything a majority was asked to reserve; no two members have different entries for an SN, and
none without a quorum; no request is lost or decided twice; the replicas of a group deliver one
sequence, in GSN order, without gaps; every peer sees the same epochs, segments and bucket leaders,
however its log was filled; all of it goes on as long as messages arrive.

## Modules

| Module | Models | Theorems in |
|---|---|---|
| `Sequencer` | group 0: election, reservation, allocation, METAs and skips | `SequencerProofs` |
| `GsnOracle` | what `GetNextGSN` and `PublishMETA` promise their caller (abstract) | |
| `MpxInstance` | the instances of one group over a window of SNs, with its buckets and log | `MpxProofs` |
| `MpxDecision` | what the instances promise the log (abstract) | |
| `GroupDeliver` | the deliverers of the groups and the `GlobalDeliverer` of a node | `DeliverProofs` |
| `PbftInstance`, `RaftInstance`, `HotStuffInstance` | one segment each of the inherited orderers | `PbftProofs`, `RaftProofs`, `HotStuffProofs` |
| `SegmentDecision` | what an orderer of a segment promises the log (abstract) | |
| `LeaderPolicy` | who leads an epoch; its segments and buckets (operators) | `NodeProofs` |
| `IssNode` | one peer around its orderers: log, manager, checkpointer, state transfer, backlog; extends `LeaderPolicy` | `NodeProofs` |
| `RequestPool` | a peer's buffer and buckets of one client (operators) | |
| `RequestPath` | client, peers' buffers and buckets, batches, epochs, responder; extends `RequestPool` | `RequestProofs` |
| `MCSequencer`, `MCMpxInstance`, ... | the small instances for TLC | |

The composition follows the code's own seams. `RequestPath` keeps of the orderer only what
`SegmentDecision` says: an SN gets the proposal or the empty batch, the same everywhere. `IssNode`
keeps of the instances which entries they decided. `GroupDeliver` takes the group's log as decided by
whoever pushes first, which is `MpxDecision`, and GSNs as given, which is `GsnOracle`.

### Sequencer

Node state is one function per field of `Sequencer`. The network is a growing set of messages
that a handler reads, so a message may be late, lost, overtaken or handled again (a GSN request is
one token: it is consumed). Two goroutines of a node interleave where the code drops a lock: the
constant `Preempt` says which of three handlers are two steps, and `tasks` holds the ones suspended.
Timers are nondeterministic. `issued` is history.

- A pre-vote may be granted or not: how long ago a node heard its leader is not modelled.
- `HandleMETAQuery` and METAs sent again add nothing to a set of messages that stay.
- A replicated GSN_RESPONSE at a member that did not ask has no effect.
- The limits of the hole scan (200000 GSNs, 512 ranges) are not reached.
- `broadcastToMembers` leaves out the sender; there are at least two members.

### MpxInstance

The proposer of an SN is fixed: `members[0]` under `Single`, round robin otherwise, and no
message makes another node lead. `leader` is therefore an operator, `Proposer`, and a ballot is its
round. The branches of `onPrepare` and `onAccept` that need a second proposer are dead code and left
out; the module says where. A message is one copy per recipient and consumed; an early return of a
handler is a guard, so that an ignored message stays as if lost. `callUnlocked` makes the
proposer's own ACCEPTED a message to itself. A batch is a set of requests; a digest is its batch.
What `CutBatch` returns, for how long it waits, is a nondeterministic choice. `Reach` says which
requests get to which bucket, `Ticks` which of the three things `tick` may do in a run.

### GroupDeliver

The group's log is decided by the first replica that pushes a batch, with any requests that touch
the group, in any order and in several copies (`sendToGroup` gives a request to every member).
`Push`, `OnMeta`, `OnSkip` and `OnCommit` end with the drain loop of the code, `Drain`: `DrainStep`
is one turn of the loop. METAs and skips reach each deliverer of a node in a step of its own. A
`deliverGroup` goroutine takes one request at a time. The code forgets METAs behind the cursor; the
model keeps them, which the guards cannot tell apart. With `totalOrder = global` a request of one
group has a GSN too. Which groups, requests and replicas there are is the variable `dep`, chosen in
`Init` from `Deployment`, so that one run covers both ways of ordering.

### PbftInstance, RaftInstance, HotStuffInstance

One goroutine per segment handles its messages (`processSerializedMessages`), so a handler is one
step. The three modules differ in what the code makes of the protocol:

- *PBFT* is the full protocol. What only quorum counts read (PREPAREs, COMMITs, VIEWCHANGEs, segment
  checkpoints) is read from the set of messages sent: the action is the call in which the count is
  reached. A message of a later view waits in the backlog, i.e. in `msgs`.
- *Raft*: `sendVoteRequest` leaves `Term` 0, so no candidate wins in a later term and the first leader
  is the only one; candidates still raise terms, and a leader or candidate that meets a higher one
  sends on a nil channel and stops for ever (`blocked`).
- *HotStuff*: `handleNewView` counts votes that nobody stores, so the first leader alone proposes and
  the chain does not fork. Timeouts still raise views and propose empty batches, and followers reorder
  proposals through the backlog. A fetched entry never reaches the log: for an SN of the chain its node
  is marked, and `announce` then returns; for an SN that has no node `announce` is called with nil and
  reads its height, and the peer panics (`hotstuffinstance.go:668, 714-718`). In the model it goes down.

In Raft and PBFT a fetched entry comes from a node that has the whole segment (for PBFT: a quorum of
checkpoints). In all three nodes may stop, and killSegment ends the instance.

### IssNode

One peer with the goroutines and bounded channels that the code gives it: `handleLogEntries` of the
manager (`pc`), the checkpointer's sequential handler, one `killSegment` per epoch with a
subscription of its own, `CatchUp` with one fetch per missing SN, the backlog of the orderer. The other
peers are their checkpoint messages. A `Deployment` fixes policy, checkpointer, segment length and
which peer is weak. `CommitCheckpoint` pushes to every subscriber with the lock held; it waits for
the manager and the state transfer, and waits for ever for a full channel that nobody reads (`stuck`).

### RequestPath

Client and peers with buckets that rotate every epoch. A submission is checked against the watermark
and added to its bucket in two steps under the read lock (`CheckWatermarks`, `AddRequest`), and
`AdvanceWatermarks` needs the write lock. A leader cuts a batch, followers check it (`Refuses`) and
mark it in flight; a batch that is given up is resurrected by whoever held it. Epochs are counted
modulo `Epochs`: a peer is at most one behind.

## Runs

Each property has a mutant in `PROJECT.json`: with the bug it is there for, the same run fails.
`CHECK_DEADLOCK FALSE` is in every cfg but `requests`, because the bounds, or the end of a protocol
that decides once, stop the system.

| Run | Checks | Instance and bounds |
|---|---|---|
| `sequencer_takeover` | `TypeOK`, `ElectionSafety`, `IssuedBelowMark`, `BlocksDisjoint`, `TakeoverDone` | three nodes, one candidate and one change of leader, blocks of one, METAs, skips and hole recovery, three GSNs; the election and the resumption suspended half-way |
| `sequencer_live` | `ImplementsOracle`, `RequestServed` | proxies at leader and follower, two attempts per request, late answers, blocks of two that must be renewed in time, marks accepted late, no election |
| `mpx_rounds` | `Agreement`, `QuorumBacked`, `PendingBacked`, `EveryoneDecides` | three members, two rounds; the proposer and a member that learns of the group late count answers and commit; the third gets COMMITs only, and fetches |
| `mpx_window` | `NothingLost`, `ImplementsDecision` | two SNs and two requests under `Single`, a member that joins late; `tick` gives up and sends ACCEPTs again; only the proposer counts answers |
| `deliver` | `TypeOK`, `GsnOrder`, `LocalOrder`, `ReplicasAgree`, `GlobalOrder`, `EverythingDelivered` | two replicas of a group with two copies of a request, batches of two; the same from SN 0; one node in two groups under `totalOrder = global`; GSN 2 is skipped in the first and the last |
| `pbft` | `CommittedStays`, `ImplementsDecision`, `SomeoneCommits` | four nodes, one SN, three views and those who refuse the last one; the first leader may stop (`TimelyNext`), or the timers run out early and one node is behind, fetches what the others committed and leads the third view (`HastyNext`) |
| `raft` | `TypeOK`, `PrefixOfLeader`, `QuorumBacked`, `ImplementsDecision`, `EveryoneAnnounces` | four nodes, two entries, two candidates, two terms; messages to and from one node get lost and it may stop |
| `hotstuff` | `ThreeChain`, `NoneSkipped`, `EveryoneAnnounces` | four nodes, two SNs and three dummies, two nodes with timers, two views; proposals to one node are reordered and it may stop |
| `node` | `CheckpointInStep`, `QuorumBehind`, `SegmentsAgree`, `FetchedIsKept`, `Advances` | peer 4 of four in five deployments (five policies, both checkpointers), two epochs, segments of one SN and of four, channels of three |
| `requests` | `IndexCovers`, `FollowersAccept`, `OrderedOnce`, `EveryRequestFinishes` | two peers and buckets, two requests, window and backlog of one, one proposal given up, two epochs in rotation |
| `mpx_give_up` | `Agreement`, violated | the proposer gives up after its ACCEPT went out |
| `sequencer_skips` | `SkippedNeverIssued`, violated | three nodes, one change of leader, a block of one |

The bounds are small because the interesting cases are: a change of leader needs two terms, a block
that runs out one or two GSNs, requests that move between SNs two SNs, a view change that meets
another one three views, a slow peer two epochs. What the bounds leave out is covered by the theorems
where there are any: those hold for all values.

### Where the code does less than it says

Two runs are findings of `PROJECT.json`:

- `mpx_give_up`: after `ViewChangeTimeout` the proposer commits NOP alone and tells no one, while
  members that counted a majority of ACCEPTED commit the batch.
- `sequencer_skips`: a skip tells every node that its GSNs "nunca serão atribuídos"
  (`sequencer.go:551`), but `allocateGSN` never looks at the term, and a deposed leader hands out what
  is left of its block after its successor has declared it skipped. It is numbered nowhere else
  (`BlocksDisjoint`), but a group that has the skip first passes the operation by.

Some properties say what the code does where its comments say more:

- `QuorumBacked`: `recordGroupCommit` takes a COMMIT for the proof of durability, "maioria de ACCEPTED"
  (`multipaxosorderer.go:58, 397-398`). An instance that a message created has quorum 0 until
  `SetMembers`, and its comment says that it "nunca fecharia a decisão" (`multipaxosorderer.go:384-386`,
  which also says that this happens all the time); but quorum 0 is met by the first ACCEPTED
  (`multipaxosinstance.go:298`), so that a late member decides alone what it accepted. The second
  disjunct of `Backed` is that case, and `mpx_rounds` runs it. The third is the NOP of a proposer that
  gives up.
- `EverythingDelivered`, `LocalOrder`: `lastApplied` 0 means "nothing" and "SN 0" (`statemachine.go:146`), so
  that the batch at SN 0 is dropped. A deployment of `deliver` starts there: its batch is left out of
  `LocalOrder`, and its group of `EverythingDelivered`.
- `BlocksDisjoint`, `UniqueGSN`: until one of the two races of `raced` is run (the first two rows below).
- `SegmentsAgree`: the combined policy ranges over a map (`leaderpolicies.go:229`), so that peers may
  order their leaders differently and issue different segments for one epoch. The property says of it
  only that each peer's segments are those of one order; of the other policies, that there is only one.

The passing runs leave out some conditions under which the properties do not hold; each is one line
of a cfg or of an MC module away:

| Change | Then | Because |
|---|---|---|
| `sequencer_takeover`: two requests, one at each leader, `Publisher = {}`, `Preempt = {"resume"}` | `NumberedOnce` fails, which is `UniqueGSN` without `raced` | `HandleVoteResponse` makes the node leader before its counter is resumed (`sequencer_election.go:276`) |
| the same with `Preempt = {"accept"}` | `NumberedOnce` fails | `HandleReserve` accepts a mark after the vote that should have reported it (`sequencer.go:365`) |
| `mpx_rounds`: `Ticks = {"giveup"}` | `EveryoneDecides` fails | no one else hears of the NOP |
| `MCGroupDeliver`: `skip` with a GSN that a request has | `ReplicasAgree` fails | of META and skip the first to arrive counts (`globaldeliver.go:249`) |
| `pbft`: `CommittedStays` without its last premise, that somebody entered the view | fails | a fetched entry replaces the digest of a slot but not its `preprepareMsg` (`pbftinstance.go:619-621`); as a later leader the node compares the one and proposes the other (`:1113-1131`), the receivers refuse, and the view is lost |
| `pbft`: three nodes, `SPECIFICATION Spec` | `ImplementsDecision` fails | `Quorum` is 2F + 1 with F = (N - 1) / 3 (`membership.go:143-158`): quorums of two, three or six nodes do not meet |
| `pbft`: that every node commits | fails | no timer runs at a node whose batches were all carried over (`pbftinstance.go:675-677`) |
| `node`: `Deployments <- LostMessage` | `CheckpointInStep` fails | a later checkpoint may become stable first at a slow peer: `logger.Fatal` (`mirmanager.go:162-166`), although lost messages are expected (`messenger/peerconnection.go:345-346`) |
| `node`: six peers, `Deploy("Single", "Signing", 1, 6, {}, 2)` | `CheckpointInStep` fails | a quorum of six is three, and the signing checkpointer drops only messages below the last stable checkpoint, although its comment says "higher or equal" (`signingcheckpointer.go:73-76`): the six messages of an epoch make it stable twice, and `handleLogEntries` takes the second for the next epoch |
| `node`: `Deployments <- FewSlots`, `Capacity = 1`, `Epochs = 3` | `Advances` fails, the peer is `stuck` | `killSegment` subscribes to checkpoints and never leaves; a full channel blocks `CommitCheckpoint` with its lock held (`log.go:26-33, 217-219`), in the code after 100 of them |
| `requests`: `MaxReq = 3` | `EveryRequestFinishes` fails | a request one window ahead of a slow peer may be dropped from its full backlog (`buffer.go:53-55`) and is not sent to that peer again |

With two takeovers even a leader in office hands out what was declared skipped, because a new leader
skips before a majority has its own reservation (`sequencer_election.go:312-327`): of five nodes, the
bootstrap leader reserves up to a mark that only the first new leader accepts; that one skips everything
up to the mark, with its own reservation still on its way; a second leader, elected by a majority that
never saw the mark, resumes at 1. Nor does any run have a leader that is deposed and elected again while
`recoverMetaHoles` waits (`sequencer_election.go:525`).

More follows from the code as modelled, and no property is stated that they would break.

- *Sequencer*: a deposed leader numbers on inside its block what its successor declares skipped, and
  each attempt of a request may leave a GSN behind that no META names.
- *MultiPaxos*: a PROMISE that completes a quorum after the COMMIT takes the phase back, and the SN is
  announced again. Under `Single` the PROMISEs of an old round count for the next one. A PREPARE that
  is lost, or refused because another SN raised the promise of the group, is never repeated. Under round
  robin two proposers may decide the same request.
- *PBFT*: a committed slot can be opened again by a new view; a NOP that is proposed again loses
  `Aborted`; only the first source is asked for a missing preprepare.
- *Raft*: `stepDown` is a nil channel: a leader that meets a higher term waits for ever, no candidate
  wins a later term, and the segment stays as it is; a heartbeat answer resets `matchIndex`;
  `maybeCommit` counts nodes at exactly one index.
- *HotStuff*: a missing entry for a node the chain has passed is marked announced and never logged; one
  for an SN that has no node stops the peer. `hotStuffBacklog.add` looks for a height and creates the
  list of an SN (`hotstuffbacklog.go:45-46`), which may throw away the proposals filed there; nobody
  sends them again, and the peer has no node for that height any more.

## Fairness

No fairness is assumed of election and view timers that make progress harder, of new requests, nor of
nodes that stop.

- `Sequencer` (`TimelySpec`): messages are handled, suspended goroutines go on, and both within the
  timeouts of a request (`TimelyNext` leaves out the steps in which one runs out); the election timer
  does not run out again while the election of a won pre-vote is about to start.
- `MpxInstance` (`TimelySpec`): each member handles its messages and creates the instances of its
  window; each SN's proposer proposes and ticks. Rounds are bounded, so one condition per node and per
  SN serves all of its work.
- `GroupDeliver` (`FairSpec`): `WF_vars(Next)`. Every action is taken a bounded number of times, so
  this is fairness to each: METAs and skips arrive, batches are pushed, `deliverGroup` runs.
- `PbftInstance` (`BoundedSpec`): each node works; the timers outlast a first leader that does not stop, or
  no node stops.
- `RaftInstance`: messages are handled or the leader sends again; the state transfer gets answers.
- `HotStuffInstance`: once the system is calm, messages are handled.
- `IssNode`: each goroutine goes on, the messages of the peers that are not weak arrive.
- `RequestPath` (`FairSpec`): goroutines are scheduled, the protocol decides.

## Proofs

Every theorem holds for all values of the constants that the named assumptions of the module allow.
The prover checks every leaf; nothing is assumed beyond those assumptions. Before a strengthening was
proved, TLC checked it as an invariant of a run.

### The sequencer: `SequencerProofs`

From `NodeAssumption` (a finite group of at least two with the bootstrap leader in it) and
`ParamAssumption`:

- `TypeCorrect`: `Spec => []TypeOK`. In particular no counter leaves its range, where an unsigned one
  would wrap. `TypeOK` is inductive; the lemmas follow the groups of `Next`.
- `ElectionSafe`: `Spec => []ElectionSafety`. Votes are evidence in the message set, and the
  strengthening `ElectionInv` says that the majority which elected the leader of a term stays *bound*
  to it (`LedTerms`). `HandleHeartbeat` overwrites `votedFor` with a leader the node did not vote for,
  so a plain vote binds only until the term's first heartbeat (`OpenTerms`); by then the leader's
  majority exists, and two majorities meet (`MajoritiesMeet`). `VoteTerms`, `CandidateVotes`,
  `BootTerm` and `PendingSent` say where votes come from, and that term 0 and reservations belong to
  their leader.
- `IssuedBelow`: `Spec => []IssuedBelowMark`, whichever handlers may be suspended. `MarkInv` says that
  marks asked for or answered are accepted (`MarksAccepted`), that a counter stays inside blocks that
  a majority backs (`CountersBacked`), and that what was issued came from one (`IssuedBacked`). An
  action that touches marks is *silent*, *counting*, a *takeover* or *accepting*, and the invariant is
  proved once for each of these four shapes.
- `NoNumberTwice`, `BlocksNeverMeet`: `Spec => []UniqueGSN` and `Spec => []BlocksDisjoint`, for any number
  of elections and whichever handlers are suspended. Both properties hold until one of two races is
  run, and the model records it (`raced`): a leader asks for a reservation of its term before its counter
  was resumed for it (`Early`), or a node accepts a mark of a term it has left since it looked (`Stale`).
  TLC shows each race to give a number twice (the table above), so no weaker premise would do. `BlockInv`
  makes the argument: the majority that backs a reservation and the one that elects a later leader share
  a member. Either its vote reports the mark (`VotesReport`, `CandidatesKnow`) and the new counter resumes
  above it (`LeadersAbove`), or it has moved on to the later term without the reservation, which then will
  never have its majority (`Refused`). Hence the blocks that anyone may ever number from are apart
  (`BlocksApart`). `UniqueGSN` itself is stated by no run: `BlocksDisjoint` fails first.
- `Implements`: `Spec /\ []~raced => ImplementsOracle`, the refinement of `GsnOracle` in every behaviour
  that runs neither race; `ImplementsUnelected`: `Spec => ImplementsOracle` where no election timer runs
  out (`Candidate = {}`, the constants of `sequencer_live`; then a mark may be accepted late).
  `AttemptInv` follows each attempt of a request: it is in a `GSNRequest`, waiting in `allocateGSN` or
  served, in one place and once (`Placed`), through forwarding, retries and giving up; and whatever a proxy is
  told or keeps was handed out for its request (`AnswersGiven`). With it every step maps, wherever numbers
  are given once (`OneSource`). Without elections that has its own short induction (`Settled`): only the
  bootstrap leader ever has a confirmed number.

### MultiPaxos: `MpxProofs`

From `GroupAssumption` and the other named assumptions of `MpxInstance`:

- `TypeCorrect`: `Spec => []TypeOK`, for every choice of `Ticks` and `Late`. This includes that the
  panics of `Prepend` and `Resurrect` are not reached. Only this theorem states `MpxInstance!TypeOK`;
  no run needs to.
- `NoRequestLost`: `NothingLost`, with batches given up and resurrected, members that learn of the group
  late and any other choice of the constants. What is cut stays filed (`HeldFiled`), and what is taken out
  of a bucket for the SN of another proposer was accepted there.
- `AcceptedByMajority`: `QuorumBacked`, again for every choice of the constants. An ACCEPTED comes from a
  member that accepted, for good (`VotesGiven`), and whoever logs a value has counted or learnt one that
  is `Backed` (`Learnt`). The theorem says of the two ways round a majority, quorum 0 and NOP, that there
  is no third.
- `MembersAgree`, `PendingIsBacked`: `Agreement`, `PendingBacked`, if `"giveup"` is not in `Ticks`; with it
  `Agreement` does not hold (`mpx_give_up`). They follow from `Safe`: an SN has one value, the first that
  its proposer cut (`OneValue`), which is what makes ballots almost irrelevant here; a COMMIT comes from a
  member that has it (`CommitsDecided`); under `Single` what is cut stays apart from the other batches and
  the bucket (`CutOnce`).
- `Implements`: `Spec => ImplementsDecision`, step by step: each action is a decision of one SN at one
  member, or a stutter.

### Raft and HotStuff: `RaftProofs`, `HotStuffProofs`

From `SegmentAssumption` and the bounds' assumptions, for any number of nodes:

- Raft: `TypeCorrect`, `LogsArePrefixes` (`PrefixOfLeader`), `AnnouncedIsBacked` (`QuorumBacked`) and
  `Implements` (`SegmentDecision`). `IInv` says that the leader files each batch under its number and
  the others hold a part (`RaftLogs`), that `matchIndex` never overstates what a follower has, answers
  under way included (`Network`, `MatchReplicated`), so that what is committed is at a quorum
  (`CommitBacked`). `HasGreatestIndex` gives the index `maybeCommit` finds.
- HotStuff: `TypeCorrect`, `ThreeChainRule` (`ThreeChain`), `NoSkip` (`NoneSkipped`), and `Agreement`:
  no two nodes log different entries for an SN. `IInv` says that every height below the leaf has its
  quorum (`Certified`, from `VotesGiven`) and that an entry of a log is the batch of its height with
  three above it (`Decided`).

### PBFT: `PbftProofs`

From `SegmentAssumption`, `NoneAssumption` and the bounds' assumptions, for any number of SNs, batches
and views, any leaders, any nodes that stop, fetch or fall behind, and `Spec` without the restrictions
of `BoundedSpec`:

- `TypeCorrect`: `Spec => []TypeOK`, for any number of nodes. `TypeInv` adds the shape of slots and
  view changes, and what each kind of message carries.
- `ChosenIsKept` (`CommittedStays`) and `Implements` (`SegmentDecision`), if `EnoughNodes`: there are fewer
  than 4F + 1 nodes, F = (N - 1) / 3, so that quorums of 2F + 1 meet each other and any 2F nodes. That is
  4, 7, 8 and 10 or more nodes. With two, three or six, quorums do not meet, and the properties fail (the
  table above). With five or nine, quorums meet, but the 2F PREPAREs of `isPrepared` may all come from
  nodes with a wrong digest (below), and nothing is claimed.
- `Invariance`: the inductive invariant `IInv`, under the same condition. A batch is *chosen* in a view
  when a quorum has sent COMMITs for it, and *safe* in a view (`SafeAt`) when for each earlier view a quorum
  has sent a COMMIT for it or has left that view without one; what is safe agrees with what is chosen
  (`SafeChosen`). What is prepared or sent in a COMMIT is safe (`SlotOK`, `CommitOK`); a VIEWCHANGE names the
  last COMMIT of its sender (`NamesLast`); hence a choice of `maybeSendNewView` is safe (`ChoiceIsSafe`: by
  induction the latest view anyone committed in is the one chosen from), and so is a NEWVIEW that a second
  node has accepted (`NewViewOK`).

  This would be the usual argument but for fetched entries: they put a chosen digest into a slot
  with another `preprepareMsg`, and as a later leader the node compares the one and takes over the other,
  as a committed batch. So a committed slot may have the wrong digest, and a node may send PREPAREs for it.
  The invariant has two phases for each SN (`Phases`). Until the first commit no entry can be fetched, and
  whatever any node has is safe (`Fresh`). From then on (`Settled`) only the quorum that sent the COMMITs of
  that first commit stays clean (`CleanAt`): its nodes received the batch in that view, so that what they take
  over later is the same batch. Every quorum, and the 2F nodes of every prepared batch, has one of them
  (`PreparedIsSafe`). `CommitSettles` is the step from one phase to the other.

  The steps that write to one view of one node share the lemmas on `Frame`, so that each handler has to
  show only what it does to its own slots (`LocalOK`, `Assemble`).

### The way of a request: `RequestProofs`

From `PoolAssumption` and `PathAssumption`, for any number of requests, buckets and peers, any window,
backlog and batch size, and any rotation of at least two epochs:

- `IndexAlwaysCovers`, `FollowersAlwaysAccept` and `RequestsOrderedOnce`: `IndexCovers`,
  `FollowersAccept` and `OrderedOnce`. `PathInv` says that peers of one epoch have the same watermark
  and the same committed requests, and that a peer an epoch behind will have those of the others when
  it has taken in what its epoch decided (`InStep`); that a proposal is inside the window of every peer
  of its epoch and new to it (`ProposalsNew`); that an epoch is settled before a peer leaves it
  (`EpochsInOrder`); and that a peer's list has nothing it knows to be done, its index all of that, and
  its flags only what is done or held (`SoundAt`, `HeldAt`). A step within an epoch changes the state of
  one peer (`StepAt`); the step to the next epoch is `AdvanceWatermarksKept`. The argument of
  `OrderedOnce` is that only the newest epoch has anything left to decide, and that what a newest peer
  has done contains what the others have (`ProposalNotOrdered`). That the leaders of an epoch cut
  disjoint batches comes from the buckets alone, so the lists of two peers may well share requests.

`RequestPath!TypeOK` is not stated by a run or a theorem; `PathInv` has the part of it that is about
the order (`Types`).

### Delivery: `DeliverProofs`

From `DeploymentAssumption`, `GroupAssumption` and `SkipsAreFree`, for any groups, replicas, requests and
batches:

- `DeliveredInOrder`: `GsnOrder`, that a replica delivers the GSNs of its group in order and without a
  gap. `Sound` says of a groupDeliverer that what went out is what the group needs up to the cursor, in
  order (`SentInOrder`); that a cross-group request is in the queue once, and above the cursor unless it
  was brought forward (`QueueSound`); and that a known META is the right one (`MetasRight`). `StepSound`
  keeps it over one turn of `drainLocked`, by the branch taken; on the way it shows that the branch
  `next > c`, a head already overtaken, is never taken. The loops of `Push` and `drainLocked` are
  recursive functions over a number of turns: `Iterates` gives the function and `Iterated` what holds
  after every turn if each turn keeps it, both from the least number for which it would fail.
- `ReplicasInStep`: `ReplicasAgree`, that of two replicas of a group one has delivered a prefix of what
  the other has. `OrderInv` adds to `Sound` where in the group's log everything comes from: when the
  i-th request went out, `place[i]` was the first place whose request had not gone (`HeadAt`), and the
  queue holds in log order what is left, without the copies (`QueueAt`). A cross-group request that is
  brought forward is done at its place before its turn. `StepPlaced` and `EnqueuePlaced` keep it over
  a turn and over an item filed. Two replicas of a group have the same log, so that at the first index
  where they differ both would have found the same place, and for a cross-group request the same
  least missing GSN (`SamePlaces`).
- `LocalInPlace`: `LocalOrder`, that a request without a GSN goes out after everything before it in the
  log, from the same invariant, also for a group that starts at SN 0. What the code drops, the batch
  there, is in no place of the log that the property speaks of.
- `DeliveredGlobally`: `GlobalOrder`, that a node delivers the GSNs of its groups in order and without
  a gap, and only what one of them applied. `GlobalSound` says that what went out of a GlobalDeliverer
  is the node's GSNs up to `last`, in order (`SentUpTo`), that their METAs are known and right, and that
  all that is committed or sent was applied; the last part also needs that what a groupDeliverer sent
  out is never taken back (`OutGrows`).
- `NothingKeptBack`: `TypeOK`, whose last part says that `drainLocked` ends only where one more turn
  would change nothing. The model gives the loop 2k + 1 turns for a queue of k; `DrainSettles` shows that
  they are enough: a turn that does something takes the head or brings one of the queue forward, and each
  request is brought forward once (`Load`).
- `SharedInOrder`: `SharedOrder`, that any two replicas, of one group or of two, deliver the cross-group
  requests that they share in the same order. No run checks it; it follows from `GsnOrder`.

`SkipsAreFree` says that a GSN declared skipped is that of no request. It is a hypothesis and not an
assumption of `GroupDeliver` because the sequencer does not guarantee it to a leader that was deposed
(`sequencer_skips`); all deployments of the run satisfy it, and without it the cursor may pass a request.

### One peer: `NodeProofs`

From `PolicyAssumption` and `NodeAssumption`, for any number of peers above three, any deployments, leader
policy, segment length, number of epochs and capacity of the channels:

- `Agreement`: `SegmentsAgree`. Under every policy the segments divide the SNs and buckets; under every
  policy but the combined one they are a function of the decided entries, the same at all peers
  (`OneAnswer`). What a manager knows must be a function of the decided entries alone. `Reads`
  is that function: what `handleLogEntries` knows of an epoch before it reads an SN (`ReadsIs` gives its
  equation, `ReadsKnown` what every value of it satisfies, both from the least SN for which they would
  fail). `HasRead` says that the manager knows `Reads` at `handled`, so that at the end of an epoch its policy
  is `PolicyAfter` the epoch, which is what `Decide` and every other peer use; the hard step is `HandleEntry`,
  which must not read past the epochs decided. The rest is about the operators of `LeaderPolicy`: every
  policy always has leaders (`LeadersFit`; for the back-off policy that `Shorten` frees somebody, `ShortenFit`,
  for the blacklist that at most `Faults` are on it), each once and in any order; the SNs of an epoch are
  divided (`SNsDivided`, from the uniqueness of quotient and remainder), and so are the buckets
  (`BucketsDivided`).
- `Fetched`: `FetchedIsKept`, across `HandleResponse`, `BacklogAppend`, `IssueSegment` and `KillFinish`. It needs
  that `po.last` stays below what is in the log (`LogOK`): the orderer forgets an answer for an SN up to `last`.
  `KillFinish` keeps that because it waits for the last entry of its epoch, and epochs end in order.
- `StableHasQuorum`: `QuorumBehind`, that the manager leaves no epoch and the orderer forgets no instance
  without a quorum of checkpoint messages for the end of that epoch or of a later one, with lost
  messages and either checkpointer. `Backing` says that what is kept was sent, and that every checkpoint
  which the log, the manager's channel or that of a `killSegment` holds (`Told`) had its quorum. That
  checkpoints also come in the order of the epochs is not proved, because it holds only while no message
  is lost and, with the signing checkpointer, not with six peers (the table above).
- `TypeCorrect`: `Spec => []TypeOK`, and `Invariance`, the conjunction `NodeInv` that all of them rest on. No run states `IssNode!TypeOK`.

### Only model-checked

Of the safety properties, `CheckpointInStep` alone, in deployments that lose no message; and every
liveness property (`TakeoverDone`, `RequestServed`,
`EveryoneDecides`, `EverythingDelivered`, `SomeoneCommits`, `EveryoneAnnounces`, `Advances`,
`EveryRequestFinishes`), which are beyond the prover.

## Plan

1. Done: `Sequencer`, `MpxInstance`, `GroupDeliver` and the two abstract specifications.
2. Done: `PbftInstance`, `RaftInstance`, `HotStuffInstance`, `SegmentDecision`; `LeaderPolicy` and
   `IssNode`; `RequestPool` and `RequestPath`.
3. Done: theorems for the safety of the sequencer, of MultiPaxos, PBFT, Raft and HotStuff, of the way of
   a request, of all that a group delivers, and of one peer around its orderers.
4. Open: multicast orderer: `PreprocessRequest`, `NotifyProxy` and the join of answers; sequencer and
   delivery composed, for GSNs that no META ever names.

Not modelled: discovery, deployment, TLS and connections, cryptography (signatures verify), payloads
and the key-value store, client programs other than the ordering client, tracing, generated code and
the Python visualiser. They hold no state of the protocols. Byzantine peers are not modelled: the
nodes of the three inherited orderers stop, but send what the code sends.
