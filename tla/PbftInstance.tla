----------------------------- MODULE PbftInstance -----------------------------
(***************************************************************************)
(* The PBFT orderer of one segment: orderer/pbftinstance.go, with the      *)
(* backlog of pbftbacklog.go and what pbftorderer.go does for an instance. *)
(*                                                                         *)
(* One goroutine per node handles the messages of the segment              *)
(* (processSerializedMessages), so that a handler is one step.  Nodes may  *)
(* stop; what they send is otherwise what the code sends (Sign and         *)
(* CheckSig of the code do nothing), and the checks that only a malformed  *)
(* message can fail are left out.                                          *)
(*                                                                         *)
(* The network.  msgs grows and handlers read it: a message may be late,   *)
(* overtaken or never handled.  Nothing but the counts of isPrepared,      *)
(* CheckCommits, maybeSendNewView and handlePBFTCheckpoint reads the       *)
(* PREPAREs, COMMITs, VIEWCHANGEs and CHECKPOINTs a node has got, so these *)
(* are not recorded: the action of such a message is the call in which the *)
(* count is reached, whichever messages came before.  A message of a later *)
(* view waits in the backlog until the node is active there                *)
(* (pbftbacklog.process): it stays in msgs, and the handlers of the common *)
(* case ask for the view and for ~inViewChange.                            *)
(*                                                                         *)
(* A batch is a value, Empty the one without requests, and a digest is the *)
(* batch it is the digest of: pbftDigest covers the requests only.         *)
(***************************************************************************)
EXTENDS Integers, FiniteSets, Sequences

CONSTANTS
    Node,         \* segment.Followers(): all nodes
    Leaders,      \* segment.Leaders(): view v is led by Leaders[v % Len + 1]
    SN,           \* segment.SNs(): 1 .. k for the k sequence numbers
    Batch,        \* what CutBatch may return
    Empty,        \* the batch without requests
    None,         \* no batch, no message
    Adaptive,     \* commitTime # 0: startView sets a timer for every SN
    Faulty,       \* bound: the nodes that may stop
    CatchUpAt,    \* bound: the nodes that get a quorum of checkpoints
    Behind,       \* bound: see HastyNext
    Patience,     \* bound: the view in which timers do not run out
    MaxView       \* bound: the last view

View == 0 .. MaxView

ASSUME SegmentAssumption ==
    /\ Leaders \in Seq(Node) /\ Leaders # << >>
    /\ IsFiniteSet(Node)
    /\ SN \subseteq Nat \ {0} /\ SN # {} /\ IsFiniteSet(SN)
    /\ None \notin Batch \cup {Empty}
    /\ Adaptive \in BOOLEAN
ASSUME PbftBoundAssumption ==
    /\ Faulty \subseteq Node /\ CatchUpAt \subseteq Node /\ Behind \subseteq Node
    /\ MaxView \in Nat /\ Patience \in 0 .. MaxView

Faults == (Cardinality(Node) - 1) \div 3
\* Mutant: one less.
ShortQuorum == 2 * Faults
Quorum == 2 * Faults + 1
WeakQuorum == Faults + 1

\* isLeading, segmentLeader
Leader(v) == Leaders[(v % Len(Leaders)) + 1]

VARIABLES
    view, inViewChange,
    batches,      \* batches[n][v][s]: the pbftBatch of a view and SN
    viewChange,   \* viewChange[n][v]: the viewChangeInfo of a view
    timers,       \* the timers of the present view that run: an SN's,
                  \* NewViewTimer or CheckpointTimer
    finalDigests, \* a segment checkpoint is known: "none", "known", "caughtup"
    fetching,     \* the SNs asked for by FetchMissingEntry
    log,          \* the log of the node: [batch, aborted] or None
    down,         \* the nodes that stopped
    msgs

vars == <<view, inViewChange, batches, viewChange, timers, finalDigests,
          fetching, log, down, msgs>>

-----------------------------------------------------------------------------
(* Data *)

\* A preprepareMsg; its view is the one whose leader made it.
PrePrepare == [view : View, batch : Batch \cup {Empty}, aborted : BOOLEAN]

\* A pbftBatch.  preprepared is set together with preprepareMsg.
Slot == [preprepareMsg : PrePrepare \cup {None}, digest : Batch \cup {Empty, None},
         prepared : BOOLEAN, committed : BOOLEAN]
NewSlot == [preprepareMsg |-> None, digest |-> None, prepared |-> FALSE, committed |-> FALSE]

\* A pbftBatch of reproposeBatches: one without preprepareMsg is missing.
Reproposal == [preprepareMsg : PrePrepare \cup {None}, digest : Batch \cup {Empty},
               committed : BOOLEAN]

\* An entry of a Pset or Qset, and of the log.
Entry == [view : View, digest : Batch \cup {Empty}]
LogEntry == [batch : Batch \cup {Empty}, aborted : BOOLEAN]

ASSUME NoneAssumption == None \notin PrePrepare \cup Reproposal \cup Entry \cup LogEntry

\* A viewChangeInfo: s holds the VIEWCHANGEs the NEWVIEW is made from.
NewInfo == [s |-> {}, newView |-> FALSE, enoughViewChanges |-> FALSE,
            fetchingMissingPreprepares |-> FALSE,
            reproposeBatches |-> [s \in SN |-> None]]

\* Two timers whose message names no SN (Timeout{Sn: -1})
NewViewTimer == -1
CheckpointTimer == -2

Send(m) == msgs' = msgs \cup {m}
Up(n) == n \notin down
Active(n, v) == Up(n) /\ view[n] = v /\ ~inViewChange[n]

\* The senders of the messages of a kind, view and SN with a digest.
Votes(kind, v, s, d) ==
    {m.from : m \in {k \in msgs : k.type = kind /\ k.view = v /\ k.sn = s /\ k.digest = d}}

Vote(kind, n, v, s, d) == [type |-> kind, from |-> n, view |-> v, sn |-> s, digest |-> d]

Uncommitted(bs) == {s \in SN : ~bs[s].committed}
First(S) == CHOOSE s \in S : \A t \in S : s <= t
\* setViewChangeTimer for the first uncommitted SN
FirstTimer(bs) == IF Uncommitted(bs) = {} THEN {} ELSE {First(Uncommitted(bs))}

Init ==
    /\ view = [n \in Node |-> 0]
    /\ inViewChange = [n \in Node |-> FALSE]
    /\ batches = [n \in Node |-> [v \in View |-> [s \in SN |-> NewSlot]]]
    /\ viewChange = [n \in Node |-> [v \in View |-> NewInfo]]
    /\ timers = [n \in Node |-> IF Adaptive THEN SN ELSE {First(SN)}]
    /\ finalDigests = [n \in Node |-> "none"]
    /\ fetching = [n \in Node |-> {}]
    /\ log = [n \in Node |-> [s \in SN |-> None]]
    /\ down = {}
    /\ msgs = {}

-----------------------------------------------------------------------------
(* The common case *)

\* lead and proposeSN: the first leader proposes its SNs one after the other,
\* and in view 0 only.  It does not look whether the SN is committed already.
Propose(n, s, b) ==
    LET pp == [view |-> 0, batch |-> b, aborted |-> FALSE]
    IN  /\ Up(n) /\ view[n] = 0 /\ n = Leader(0)
        /\ batches[n][0][s].preprepareMsg = None
        /\ \A t \in SN : t < s => batches[n][0][t].preprepareMsg # None
        /\ batches' = [batches EXCEPT ![n][0][s] =
                         [batches[n][0][s] EXCEPT !.preprepareMsg = pp, !.digest = b]]
        /\ Send([type |-> "PREPREPARE", from |-> n, view |-> 0, sn |-> s, preprepare |-> pp])
        /\ UNCHANGED <<view, inViewChange, viewChange, timers, finalDigests, fetching, log, down>>

\* handlePreprepare; what is received for a committed SN is ignored.
HandlePreprepare(n, m) ==
    LET b == batches[n][0][m.sn]
    IN  /\ m.type = "PREPREPARE" /\ m.from # n
        /\ Active(n, m.view)
        /\ ~b.committed /\ b.preprepareMsg = None
        /\ batches' = [batches EXCEPT ![n][0][m.sn] =
                         [b EXCEPT !.preprepareMsg = m.preprepare, !.digest = m.preprepare.batch]]
        /\ Send(Vote("PREPARE", n, 0, m.sn, m.preprepare.batch))
        /\ UNCHANGED <<view, inViewChange, viewChange, timers, finalDigests, fetching, log, down>>

\* isPrepared
IsPrepared(n, v, s) ==
    LET b == batches[n][v][s]
    IN  b.preprepareMsg # None /\ Cardinality(Votes("PREPARE", v, s, b.digest)) >= 2 * Faults

\* handlePrepare (or handlePreprepare) when it makes the batch prepared
HandlePrepare(n, s) ==
    LET v == view[n]
        b == batches[n][v][s]
    IN  /\ Active(n, v)
        /\ ~b.prepared /\ IsPrepared(n, v, s)
        /\ batches' = [batches EXCEPT ![n][v][s] = [b EXCEPT !.prepared = TRUE]]
        /\ Send(Vote("COMMIT", n, v, s, b.digest))
        /\ UNCHANGED <<view, inViewChange, viewChange, timers, finalDigests, fetching, log, down>>

\* CheckCommits
CheckCommits(n, v, s) ==
    LET b == batches[n][v][s]
    IN  b.prepared /\ Cardinality(Votes("COMMIT", v, s, b.digest)) >= Quorum

\* announce: the SN is committed, the next one is timed; with the last one the
\* node sends its segment checkpoint.  Its own checkpoint must not be a second
\* one: handlePBFTCheckpoint refuses it, and logger.Fatal ends the process.
Announce(n, s, digest, entry) ==
    LET v   == view[n]
        bs  == [batches[n][v] EXCEPT ![s] =
                [batches[n][v][s] EXCEPT !.committed = TRUE, !.digest = digest]]
        ckp == [type |-> "CHECKPOINT", from |-> n, digests |-> [t \in SN |-> bs[t].digest]]
        finished == Uncommitted(bs) = {}
    IN  /\ batches' = [batches EXCEPT ![n][v] = bs]
        /\ log' = [log EXCEPT ![n][s] = IF @ = None THEN entry ELSE @]
        /\ timers' = [timers EXCEPT ![n] =
                        (@ \ {s}) \cup FirstTimer(bs)
                         \cup (IF finished /\ finalDigests[n] = "none" THEN {CheckpointTimer} ELSE {})]
        /\ IF finished
           THEN /\ Send(ckp)
                /\ down' = IF \E m \in msgs : m.type = "CHECKPOINT" /\ m.from = n
                           THEN down \cup {n} ELSE down
           ELSE UNCHANGED <<msgs, down>>

\* handleCommit (or handlePrepare, handlePreprepare) when it commits the batch
HandleCommit(n, s) ==
    LET b == batches[n][view[n]][s]
    IN  /\ Active(n, view[n])
        /\ ~b.committed /\ CheckCommits(n, view[n], s)
        /\ Announce(n, s, b.digest, [batch |-> b.preprepareMsg.batch, aborted |-> b.preprepareMsg.aborted])
        /\ UNCHANGED <<view, inViewChange, viewChange, finalDigests, fetching>>

-----------------------------------------------------------------------------
(* The segment checkpoint and state transfer *)

\* handlePBFTCheckpoint, at the call with the Quorum-th checkpoint of a digest
Supporters(d) == {m.from : m \in {k \in msgs : k.type = "CHECKPOINT" /\ k.digests = d}}
Stable(d) == Cardinality(Supporters(d)) >= Quorum
Digests == {m.digests : m \in {k \in msgs : k.type = "CHECKPOINT"}}

HandlePBFTCheckpoint(n) ==
    /\ Up(n) /\ n \in CatchUpAt /\ finalDigests[n] = "none"
    /\ \E d \in Digests : Stable(d)
    /\ finalDigests' = [finalDigests EXCEPT ![n] = "known"]
    /\ timers' = [timers EXCEPT ![n] = @ \ {CheckpointTimer}]
    /\ UNCHANGED <<view, inViewChange, batches, viewChange, fetching, log, down, msgs>>

\* catchUp, some time after the checkpoint
CatchUp(n) ==
    /\ Up(n) /\ finalDigests[n] = "known"
    /\ finalDigests' = [finalDigests EXCEPT ![n] = "caughtup"]
    /\ fetching' = [fetching EXCEPT ![n] = Uncommitted(batches[n][view[n]])]
    /\ UNCHANGED <<view, inViewChange, batches, viewChange, timers, log, down, msgs>>

\* HandleEntry and handleMissingEntry: the entry of a node that supports the
\* checkpoint has arrived.  It is used in a view change, too.
HandleMissingEntry(n, s, source) ==
    LET e == log[source][s]
    IN  /\ Up(n) /\ s \in fetching[n]
        /\ source # n /\ Up(source) /\ e # None
        /\ \E d \in Digests : Stable(d) /\ source \in Supporters(d)
        /\ fetching' = [fetching EXCEPT ![n] = @ \ {s}]
        /\ IF batches[n][view[n]][s].committed
           THEN UNCHANGED <<batches, log, timers, msgs, down>>
           ELSE Announce(n, s, e.batch, e)
        /\ UNCHANGED <<view, inViewChange, viewChange, finalDigests>>

-----------------------------------------------------------------------------
(* View change *)

\* startView: what is committed is carried over from the present view.
StartView(n, v) ==
    [s \in SN |-> LET b == batches[n][view[n]][s]
                  IN  IF b.committed
                      THEN [NewSlot EXCEPT !.committed = TRUE, !.digest = b.digest]
                      ELSE NewSlot]
StartTimers == IF Adaptive THEN SN ELSE {}

\* Of the views V the latest, and its Pset or Qset entry: the later view overrides
\* the earlier one in the loop of sendViewChange.
LatestEntry(n, s, V) ==
    LET u == CHOOSE w \in V : \A x \in V : x <= w
    IN  IF V = {} THEN None ELSE [view |-> u, digest |-> batches[n][u][s].digest]
\* Mutant: what is committed instead of what is prepared.
CommittedSet(n, v) == [s \in SN |-> LatestEntry(n, s, {u \in 0 .. v - 1 : batches[n][u][s].committed})]
Pset(n, v) == [s \in SN |-> LatestEntry(n, s, {u \in 0 .. v - 1 : batches[n][u][s].prepared})]
Qset(n, v) == [s \in SN |-> LatestEntry(n, s, {u \in 0 .. v - 1 : batches[n][u][s].preprepareMsg # None})]

\* sendViewChange.  The leader of the next view keeps its own VIEWCHANGE.
SendViewChange(n) ==
    LET v == view[n] + 1
    IN  /\ view' = [view EXCEPT ![n] = v]
        /\ inViewChange' = [inViewChange EXCEPT ![n] = TRUE]
        /\ batches' = [batches EXCEPT ![n][v] = StartView(n, v)]
        /\ timers' = [timers EXCEPT ![n] = StartTimers \cup {NewViewTimer}]
        /\ Send([type |-> "VIEWCHANGE", from |-> n, view |-> v, p |-> Pset(n, v), q |-> Qset(n, v)])
        /\ UNCHANGED <<viewChange, finalDigests, fetching, log, down>>

\* A timer runs out and its message is handled (handleMessage, Timeout).
Timeout(n, t) ==
    /\ Up(n) /\ view[n] < Patience
    /\ t \in timers[n]
    /\ t \in SN => ~batches[n][view[n]][t].committed
    /\ SendViewChange(n)

\* maybeSendNewView: what S, a set of VIEWCHANGEs, allows for an SN.  Enough
\* nodes prepared nothing (B), or d was prepared and no one contradicts (A).
ConditionB(S, s) == Cardinality({m \in S : m.p[s] = None}) >= Quorum
ConditionA(S, s, p) ==
    /\ Cardinality({m \in S : m.p[s] = None \/ m.p[s].view < p.view \/ m.p[s] = p}) >= Quorum
    /\ Cardinality({m \in S : m.q[s] # None /\ m.q[s].view >= p.view
                                            /\ m.q[s].digest = p.digest}) >= WeakQuorum
Prepared(S, s) == {m.p[s] : m \in S} \ {None}
Choices(S, s) ==
    (IF ConditionB(S, s) THEN {None} ELSE {}) \cup {p \in Prepared(S, s) : ConditionA(S, s, p)}

\* findBatch: the latest batch with a preprepareMsg in a view before v
FindBatch(n, v, s) ==
    LET V == {u \in 0 .. v - 1 : batches[n][u][s].preprepareMsg # None}
    IN  IF V = {} THEN NewSlot
        ELSE batches[n][CHOOSE u \in V : \A x \in V : x <= u][s]

\* The batch the leader of v proposes for choice p.
Repropose(n, v, s, p) ==
    LET found == FindBatch(n, v, s)
    IN  IF p = None
        THEN [preprepareMsg |-> [view |-> v, batch |-> Empty, aborted |-> TRUE],
              digest |-> Empty, committed |-> FALSE]
        ELSE IF found.digest = p.digest
        THEN [preprepareMsg |-> [view |-> v, batch |-> found.preprepareMsg.batch, aborted |-> FALSE],
              digest |-> found.preprepareMsg.batch, committed |-> found.committed]
        ELSE [preprepareMsg |-> None, digest |-> p.digest, committed |-> FALSE]

Missing(rs) == {s \in SN : rs[s].preprepareMsg = None}

\* askForMissingPrePrepares: of the nodes that make up condition A2 one is asked,
\* for the batch of the view in which the batch was prepared.
AskForMissingPrePrepares(n, S, choice, missing) ==
    \E source \in [missing -> Node] :
      /\ \A s \in missing : \E m \in S : /\ m.from = source[s] /\ m.q[s] # None
                                       /\ m.q[s].view >= choice[s].view
                                       /\ m.q[s].digest = choice[s].digest
      /\ msgs' = msgs \cup {[type |-> "MISSINGREQ", from |-> n, to |-> source[s], sn |-> s,
                              view |-> choice[s].view] : s \in missing}

\* sendNewView, from the batches bs and timers ts of view v.  When the timer of
\* the view change has run out already, the leader gives up half-way: it counts
\* the NEWVIEW as sent, and waits for the timeout to be handled.
SendNewView(n, v, bs, ts, info) ==
    /\ viewChange' = [viewChange EXCEPT ![n][v] = [info EXCEPT !.newView = TRUE]]
    /\ \/ /\ NewViewTimer \in ts /\ v < Patience
          /\ batches' = [batches EXCEPT ![n][v] = bs]
          /\ timers' = [timers EXCEPT ![n] = ts]
          /\ inViewChange' = [inViewChange EXCEPT ![n] = TRUE]
          /\ UNCHANGED msgs
       \/ /\ batches' = [batches EXCEPT ![n][v] =
                 [s \in SN |-> [preprepareMsg |-> info.reproposeBatches[s].preprepareMsg,
                                digest |-> info.reproposeBatches[s].digest,
                                prepared |-> bs[s].prepared,
                                committed |-> info.reproposeBatches[s].committed]]]
          /\ timers' = [timers EXCEPT ![n] = (ts \ {NewViewTimer}) \cup FirstTimer(bs)]
          /\ inViewChange' = [inViewChange EXCEPT ![n] = FALSE]
          /\ Send([type |-> "NEWVIEW", from |-> n, view |-> v, s |-> info.s,
                   x |-> [t \in SN |-> info.reproposeBatches[t].preprepareMsg]])

ViewChanges(v) == {m \in msgs : m.type = "VIEWCHANGE" /\ m.view = v}
\* Mutant: it waits for everyone.
AllReady(S) == Cardinality(S) = Cardinality(Node) /\ \A s \in SN : Choices(S, s) # {}
Ready(S) == Cardinality(S) >= Quorum /\ \A s \in SN : Choices(S, s) # {}

\* handleViewChange (sendViewChange, for the leader's own) with the VIEWCHANGE
\* that lets maybeSendNewView go on: the leader of v enters v, if it did not
\* time out itself, and proposes again or asks for the batches it does not have.
MaybeSendNewView(n, v, S) ==
    LET info == viewChange[n][v]
        bs   == IF v = view[n] THEN batches[n][v] ELSE StartView(n, v)
        ts   == IF v = view[n] THEN timers[n] ELSE StartTimers
    IN  /\ Up(n) /\ n = Leader(v) /\ v > 0 /\ v >= view[n]
        /\ ~info.newView /\ ~info.enoughViewChanges
        /\ S \subseteq ViewChanges(v)
        /\ Ready(S) /\ \E m \in S : ~Ready(S \ {m})
        /\ view' = [view EXCEPT ![n] = v]
        /\ \E choice \in [SN -> UNION {Choices(S, s) : s \in SN}] :
             /\ \A s \in SN : choice[s] \in Choices(S, s)
             /\ LET rs  == [s \in SN |-> Repropose(n, v, s, choice[s])]
                    new == [info EXCEPT !.s = S, !.enoughViewChanges = TRUE,
                              !.fetchingMissingPreprepares = Missing(rs) # {},
                              !.reproposeBatches = rs]
                IN  IF Missing(rs) = {}
                    THEN SendNewView(n, v, bs, ts, new)
                    ELSE /\ AskForMissingPrePrepares(n, S, choice, Missing(rs))
                         /\ viewChange' = [viewChange EXCEPT ![n][v] = new]
                         /\ batches' = [batches EXCEPT ![n][v] = bs]
                         /\ timers' = [timers EXCEPT ![n] = ts]
                         /\ inViewChange' = [inViewChange EXCEPT ![n] = TRUE]
        /\ UNCHANGED <<finalDigests, fetching, log, down>>

\* handleMissingPreprepareRequest
HandleMissingPreprepareRequest(n, m) ==
    LET pp == batches[n][m.view][m.sn].preprepareMsg
    IN  /\ m.type = "MISSINGREQ" /\ m.to = n /\ Up(n)
        /\ pp # None
        /\ Send([type |-> "MISSINGPP", to |-> m.from, sn |-> m.sn, preprepare |-> pp])
        /\ UNCHANGED <<view, inViewChange, batches, viewChange, timers, finalDigests,
                       fetching, log, down>>

\* handleMissingPreprepare: the last one that was missing lets the leader go on.
HandleMissingPreprepare(n, m) ==
    LET v    == view[n]
        info == viewChange[n][v]
        rs   == [info.reproposeBatches EXCEPT ![m.sn].preprepareMsg =
                   [view |-> v, batch |-> m.preprepare.batch, aborted |-> m.preprepare.aborted]]
        new  == [info EXCEPT !.reproposeBatches = rs,
                             !.fetchingMissingPreprepares = Missing(rs) # {}]
    IN  /\ m.type = "MISSINGPP" /\ m.to = n /\ Up(n)
        /\ inViewChange[n] /\ info.fetchingMissingPreprepares /\ ~info.newView
        /\ info.reproposeBatches[m.sn].digest = m.preprepare.batch
        /\ IF Missing(rs) = {}
           THEN SendNewView(n, v, batches[n][v], timers[n], new)
           ELSE /\ viewChange' = [viewChange EXCEPT ![n][v] = new]
                /\ UNCHANGED <<batches, timers, inViewChange, msgs>>
        /\ UNCHANGED <<view, finalDigests, fetching, log, down>>

\* handleNewView: the receiver makes its own choices from the same VIEWCHANGEs,
\* in an order of its own, and compares.
Matches(p, pp) == IF p = None THEN pp.batch = Empty /\ pp.aborted ELSE pp.batch = p.digest
HandleNewView(n, m) ==
    LET bs == IF m.view = view[n] THEN batches[n][m.view] ELSE StartView(n, m.view)
        ts == IF m.view = view[n] THEN timers[n] \ {NewViewTimer} ELSE StartTimers
        nb == [s \in SN |-> IF bs[s].committed
                            THEN [bs[s] EXCEPT !.preprepareMsg = m.x[s]]
                            ELSE [bs[s] EXCEPT !.preprepareMsg = m.x[s], !.digest = m.x[s].batch]]
    IN  /\ m.type = "NEWVIEW" /\ m.from # n /\ Up(n)
        /\ ~viewChange[n][m.view].newView /\ m.view >= view[n]
        /\ \A s \in SN : \E p \in Choices(m.s, s) : Matches(p, m.x[s])
        /\ viewChange' = [viewChange EXCEPT ![n][m.view].newView = TRUE]
        /\ view' = [view EXCEPT ![n] = m.view]
        /\ batches' = [batches EXCEPT ![n][m.view] = nb]
        /\ timers' = [timers EXCEPT ![n] = ts \cup FirstTimer(bs)]
        /\ inViewChange' = [inViewChange EXCEPT ![n] = FALSE]
        /\ msgs' = msgs \cup {Vote("PREPARE", n, m.view, s, nb[s].digest) :
                                 s \in IF n = Leader(m.view) THEN {} ELSE SN}
        /\ UNCHANGED <<finalDigests, fetching, log, down>>

\* handleNewView when for some SN, the first that does not match, the receiver's
\* choice is another batch: it goes on to the view after its own.  A leader whose
\* batch was fetched (HandleMissingEntry) has the digest of one batch in a slot
\* with the preprepareMsg of another, and compares the digest (Repropose).
Differs(p, pp) == IF p = None THEN pp.batch # Empty ELSE pp.batch # p.digest
RefuseNewView(n, m) ==
    /\ m.type = "NEWVIEW" /\ m.from # n /\ Up(n)
    /\ ~viewChange[n][m.view].newView /\ m.view >= view[n] /\ view[n] < MaxView
    /\ \E s \in SN : /\ \E p \in Choices(m.s, s) : Differs(p, m.x[s])
                     /\ \A t \in SN : t < s => \E p \in Choices(m.s, t) : Matches(p, m.x[t])
    /\ SendViewChange(n)

-----------------------------------------------------------------------------

\* A node stops (messenger.Crashed).
Stop(n) ==
    /\ Up(n) /\ n \in Faulty
    /\ down' = down \cup {n}
    /\ UNCHANGED <<view, inViewChange, batches, viewChange, timers, finalDigests,
                   fetching, log, msgs>>

Normal(n) ==
    \/ \E s \in SN, b \in Batch : Propose(n, s, b)
    \/ \E m \in msgs : HandlePreprepare(n, m)
    \/ \E s \in SN : HandlePrepare(n, s) \/ HandleCommit(n, s)
    \/ HandlePBFTCheckpoint(n) \/ CatchUp(n)
    \/ \E s \in SN, source \in Node : HandleMissingEntry(n, s, source)

ChangeView(n) ==
    \/ \E v \in View \ {0} : \E S \in SUBSET ViewChanges(v) : MaybeSendNewView(n, v, S)
    \/ \E m \in msgs : \/ HandleMissingPreprepareRequest(n, m) \/ HandleMissingPreprepare(n, m)
                       \/ HandleNewView(n, m) \/ RefuseNewView(n, m)

Next == \E n \in Node :
          \/ Normal(n) \/ ChangeView(n) \/ Stop(n)
          \/ \E t \in timers[n] : Timeout(n, t)

Spec == Init /\ [][Next]_vars

\* Messages are handled, timers run out unless they are stopped, and the state
\* transfer gets its answers.  Views are bounded and a handler does its work once,
\* so that fairness to all the work of a node is fairness to each part of it.
Work(n) == Normal(n) \/ ChangeView(n) \/ \E t \in timers[n] : Timeout(n, t)
Fairness == \A n \in Node : WF_vars(Work(n))

\* The timers outlast a first leader that does not stop ...
TimelyNext == Next /\ (Up(Leader(0)) => view' = [n \in Node |-> 0])
\* ... or they run out too early: then no node stops, only the nodes of Behind get
\* what the first leader proposes, and of the later views no more than their own.
HastyNext ==
    /\ Next /\ Up(Leader(0)) /\ down' = {}
    /\ \A n \in Behind : view'[n] > 0 => n = Leader(view'[n])
    /\ \A m \in msgs' : m.type = "PREPARE" /\ m.view = 0 => m.from \in Behind
BoundedSpec == Init /\ [][TimelyNext \/ HastyNext]_vars /\ Fairness

-----------------------------------------------------------------------------
(* Properties *)

TypeOK ==
    /\ view \in [Node -> View]
    /\ inViewChange \in [Node -> BOOLEAN]
    /\ batches \in [Node -> [View -> [SN -> Slot]]]
    /\ \A n \in Node, v \in View :
         /\ viewChange[n][v].newView \in BOOLEAN /\ viewChange[n][v].enoughViewChanges \in BOOLEAN
         /\ viewChange[n][v].s \subseteq msgs
         /\ viewChange[n][v].reproposeBatches \in [SN -> Reproposal \cup {None}]
    /\ timers \in [Node -> SUBSET (SN \cup {NewViewTimer, CheckpointTimer})]
    /\ finalDigests \in [Node -> {"none", "known", "caughtup"}]
    /\ fetching \in [Node -> SUBSET SN]
    /\ log \in [Node -> [SN -> LogEntry \cup {None}]]
    /\ down \subseteq Node

\* The logs get the same batch for an SN, for good.
Decision == INSTANCE SegmentDecision WITH
    Value <- Batch \cup {Empty},
    log   <- [n \in Node |-> [s \in SN |-> IF log[n][s] = None THEN None ELSE log[n][s].batch]]
ImplementsDecision == Decision!Spec

\* A batch that a quorum may have committed in a view is the one that every later
\* view starts with, if a node other than its leader enters it: what a NEWVIEW
\* carries may be wrong (RefuseNewView), but then nobody accepts it.
CommittedStays ==
    \A c, m \in msgs :
      /\ c.type = "COMMIT" /\ Cardinality(Votes("COMMIT", c.view, c.sn, c.digest)) >= Quorum
      /\ m.type = "NEWVIEW" /\ m.view > c.view
      /\ \E n \in Node \ {m.from} : viewChange[n][m.view].newView
      => m.x[c.sn].batch = c.digest

\* Liveness: some node that does not stop commits each SN.  Views change until a
\* leader is found, and the batches that may have been committed.
SomeoneCommits == \A s \in SN : <>(\E n \in Node \ Faulty : log[n][s] # None)

=============================================================================
