----------------------------- MODULE RequestPath -----------------------------
(***************************************************************************)
(* A request's way from the client to the log and back: the ordering       *)
(* client with its window and its guess of the bucket leaders              *)
(* (cmd/orderingclient/client.go), the peers' workers, buffers and buckets *)
(* (messenger/clients.go, request/), the batches the leaders cut of their  *)
(* buckets, the end of the epoch with its new watermarks and bucket        *)
(* assignment (manager/mirmanager.go), and the responder.                  *)
(*                                                                         *)
(* The ordering protocol is the environment.  Every peer leads a segment   *)
(* of one sequence number per epoch; the first peer to learn the outcome   *)
(* settles it, as the proposal or, given up, as the empty batch, and every *)
(* peer learns it in the end, having accepted the proposal or not.         *)
(*                                                                         *)
(* Epochs are counted modulo Epochs, and no peer, nor the client's bucket   *)
(* assignment, is more than one epoch behind the newest: a bound.          *)
(***************************************************************************)
EXTENDS RequestPool

CONSTANTS
    NumPeers,    \* the orderers are 0 .. NumPeers - 1
    Epochs,      \* a multiple of NumPeers, at least 2
    Fanout,      \* reqFanout
    MaxAborts,   \* bound on the proposals the protocol gives up
    None

ASSUME PathAssumption ==
    /\ {NumPeers, Epochs, Fanout, MaxAborts} \subseteq Nat
    /\ NumPeers > 0 /\ Epochs >= 2 /\ Epochs % NumPeers = 0
    /\ \A batch \in SUBSET Req : batch # None

Peer == 0 .. NumPeers - 1
Epoch == 0 .. Epochs - 1

VARIABLES
    next, oldest,     \* client: the next and the oldest unfinished request
    finished,         \* the finished ones, oldest has passed them or not
    submittedTo,      \* whom each request was submitted to
    resubmit,         \* resubmitPendingRequests was started and has not run
    net,              \* requests on their way to a worker of a peer
    responses,        \* responses on their way to the client
    pool,             \* each peer's buffer and buckets
    adding,           \* requests checked against the watermark, still to be added
    newest, behind,   \* mm.epoch: the newest, and who is one epoch behind it
    held,             \* the proposals of its epoch that a peer has accepted, if not empty
    logged,           \* the leaders whose entry of the epoch the log contains
    proposed, decided,
    aborts            \* proposals that may still be aborted

client == <<next, oldest, finished, submittedTo, resubmit>>
epochs == <<newest, behind>>
order == <<proposed, decided, aborts>>
vars == <<client, net, responses, pool, adding, epochs, held, logged, order>>

\* The peers, and the client, which follows with its bucket assignment.
Follower == Peer \cup {NumPeers}
TheClient == NumPeers

Before(e) == (e + Epochs - 1) % Epochs
EpochOf(f) == IF f \in behind THEN Before(newest) ELSE newest

\* Round robin over the peers, shifted by the epoch; all of them lead.
Leader(b, e) == CHOOSE p \in Peer : (p + e) % NumPeers = b % NumPeers

BucketsOf(p, e) == {b \in Bucket : Leader(b, e) = p}

TypeOK ==
    /\ next \in 0 .. MaxReq /\ oldest \in 0 .. next
    /\ finished \subseteq oldest .. next - 1
    /\ submittedTo \in [Req -> SUBSET Peer]
    /\ resubmit \in BOOLEAN
    /\ net \subseteq Peer \X Req /\ responses \subseteq Req
    /\ newest \in Epoch /\ behind \subseteq Follower
    /\ pool \in [Peer -> Pool]
    /\ \A p \in Peer :
           /\ pool[p].committed \subseteq pool[p].low + 1 .. MaxReq - 1
           /\ BacklogSize > 0 => Cardinality(pool[p].backlog) <= BacklogSize
    /\ adding \in [Peer -> SUBSET Req]
    /\ held \in [Peer -> [Peer -> Batch]]
    /\ logged \in [Peer -> SUBSET Peer]
    /\ proposed \in [Epoch -> [Peer -> {None} \cup Batch]]
    /\ decided \in [Epoch -> [Peer -> {None} \cup Batch]]
    /\ aborts \in 0 .. MaxAborts

NoBatch == [p \in Peer |-> None]

\* The client submits once it has the assignment of epoch 0.
Init ==
    /\ next = 0 /\ oldest = 0 /\ finished = {}
    /\ submittedTo = [r \in Req |-> {}]
    /\ resubmit = FALSE
    /\ net = {} /\ responses = {}
    /\ pool = [p \in Peer |-> NewBuffer]
    /\ adding = [p \in Peer |-> {}]
    /\ newest = 0 /\ behind = {}
    /\ held = [p \in Peer |-> [l \in Peer |-> {}]]
    /\ logged = [p \in Peer |-> {}]
    /\ proposed = [e \in Epoch |-> NoBatch] /\ decided = [e \in Epoch |-> NoBatch]
    /\ aborts = MaxAborts

-----------------------------------------------------------------------------
\* The client.

\* The leaders of the request's bucket and of the Fanout - 1 before it.
BucketLeaders(r) ==
    {Leader((GetBucketNr(r) - i) % NumBuckets, EpochOf(TheClient)) : i \in 0 .. Fanout - 1}

SubmitRequest ==
    /\ next < MaxReq
    /\ next < oldest + Window
    /\ next' = next + 1
    /\ submittedTo' = [submittedTo EXCEPT ![next] = BucketLeaders(next)]
    /\ net' = net \cup (BucketLeaders(next) \X {next})
    /\ UNCHANGED <<oldest, finished, resubmit, responses, pool,
                   adding, epochs, held, logged, order>>

\* One response is enough; the window moves past what has finished.
RegisterResponse(r) ==
    /\ r \in responses
    /\ responses' = responses \ {r}
    /\ LET done == IF r \in oldest .. oldest + Window - 1
                   THEN finished \cup {r} ELSE finished
           first == CHOOSE k \in oldest .. next :
                        oldest .. k - 1 \subseteq done /\ k \notin done
       IN  /\ oldest' = IF r = oldest THEN first ELSE oldest
           /\ finished' = done \ (0 .. oldest' - 1)
           /\ submittedTo' = [submittedTo EXCEPT ![r] = IF r \in done THEN {} ELSE @]
    /\ UNCHANGED <<next, resubmit, net, pool, adding, epochs,
                   held, logged, order>>

\* One peer's assignment is enough, and late ones are ignored.
RegisterAssignment ==
    /\ TheClient \in behind
    /\ behind' = behind \ {TheClient}
    /\ resubmit' = TRUE
    /\ UNCHANGED <<next, oldest, finished, submittedTo, net, responses, pool, adding,
                   newest, held, logged, order>>

Pending == (oldest .. next - 1) \ finished

ResubmitPending ==
    /\ resubmit
    /\ resubmit' = FALSE
    /\ submittedTo' = [r \in Req |-> IF r \in Pending
                                     THEN submittedTo[r] \cup BucketLeaders(r)
                                     ELSE submittedTo[r]]
    /\ net' = net \cup {m \in Peer \X Pending :
                            m[1] \in BucketLeaders(m[2]) \ submittedTo[m[2]]}
    /\ UNCHANGED <<next, oldest, finished, responses, pool, adding,
                   epochs, held, logged, order>>

-----------------------------------------------------------------------------
\* Requests at a peer.

\* A worker, or the goroutine that empties the backlog, takes the read lock and
\* looks at the watermark: the request is to be added, waits or is ignored.
CheckWatermarks(p, r) ==
    /\ <<p, r>> \in net
    /\ net' = net \ {<<p, r>>}
    /\ \/ /\ Ahead(pool[p], r)
          /\ pool' = [pool EXCEPT ![p] = AddToBacklog(@, r)]
          /\ UNCHANGED adding
       \/ /\ Below(pool[p], r)
          /\ UNCHANGED <<pool, adding>>
       \/ /\ Within(pool[p], r)
          /\ adding' = [adding EXCEPT ![p] = @ \cup {r}]
          /\ UNCHANGED pool
    /\ UNCHANGED <<client, responses, epochs, held, logged, order>>

\* The read lock is released when the bucket has the request.
AddRequest(p, r) ==
    /\ r \in adding[p]
    /\ adding' = [adding EXCEPT ![p] = @ \ {r}]
    /\ pool' = [pool EXCEPT ![p] = AddToBucket(@, {r})]
    /\ UNCHANGED <<client, net, responses, epochs, held, logged, order>>

-----------------------------------------------------------------------------
\* Batches.

\* The leader cuts a batch of its buckets; what it holds is out of the list.
Propose(p) ==
    LET e == EpochOf(p)
    IN  /\ proposed[e][p] = None /\ p \notin logged[p]
        /\ \E batch \in CutBatch(pool[p], BucketsOf(p, e)) :
            /\ proposed' = [proposed EXCEPT ![e][p] = batch]
            /\ held' = [held EXCEPT ![p][p] = batch]
            /\ pool' = [pool EXCEPT ![p] = MarkInFlight(RemoveBatch(@, batch), batch)]
        /\ UNCHANGED <<client, net, responses, adding, epochs, logged, decided, aborts>>

\* A peer refuses a batch with a request out of its window, in flight, or of a
\* bucket that is not the leader's.
Refuses(p, l) ==
    LET batch == proposed[EpochOf(p)][l]
    IN  \/ ~Acceptable(pool[p], batch)
        \/ ~CheckInFlight(pool[p], batch)
        \/ {GetBucketNr(r) : r \in batch} \ BucketsOf(l, EpochOf(p)) # {}

Awaited(p, l) ==
    /\ p # l
    /\ l \notin logged[p] /\ held[p][l] = {}
    /\ proposed[EpochOf(p)][l] \notin {None, {}}

Accept(p, l) ==
    LET batch == proposed[EpochOf(p)][l]
    IN  /\ Awaited(p, l)
        /\ ~Refuses(p, l)
        /\ held' = [held EXCEPT ![p][l] = batch]
        /\ pool' = [pool EXCEPT ![p] = MarkInFlight(NewBatch(@, batch), batch)]
        /\ UNCHANGED <<client, net, responses, adding, epochs, logged, order>>

\* The pool of a peer that held one batch and learns that another is decided.
Settle(p, was, batch) ==
    LET back == IF was \in {{}, batch} THEN p ELSE Resurrect(p, was)
        new == IF was = batch THEN back ELSE MarkInFlight(NewBatch(back, batch), batch)
    IN  RemoveBatch(new, batch)

\* What the ordering protocol lets a peer learn: what is decided or, for the
\* first one, the proposal or that it is given up.
Outcomes(e, l) ==
    IF decided[e][l] # None THEN {decided[e][l]}
    ELSE ({proposed[e][l]} \ {None}) \cup {b \in {{}} : aborts > 0}

\* The entry is committed to the log, and the responder answers the client.
Learn(p, l) ==
    /\ l \notin logged[p]
    /\ \E batch \in Outcomes(EpochOf(p), l) :
        /\ decided' = [decided EXCEPT ![EpochOf(p)][l] = batch]
        /\ aborts' = IF decided[EpochOf(p)][l] = None /\ batch # proposed[EpochOf(p)][l]
                     THEN aborts - 1 ELSE aborts
        /\ logged' = [logged EXCEPT ![p] = @ \cup {l}]
        /\ held' = [held EXCEPT ![p][l] = {}]
        /\ pool' = [pool EXCEPT ![p] = Settle(@, held[p][l], batch)]
        /\ responses' = responses \cup batch
    /\ UNCHANGED <<client, net, adding, epochs, proposed>>

-----------------------------------------------------------------------------
\* The end of the epoch.

\* Mutation: Add lets go of the lock when it has seen the watermark.
NotLocked(p) == TRUE

\* The buffer's write lock waits for requests that are being added.
WriteLocked(p) == adding[p] = {}

\* A peer starts the next epoch: it is the first, or others have.
NextEpoch(p) ==
    IF p \in behind
    THEN behind' = behind \ {p} /\ UNCHANGED newest
    ELSE /\ behind = {}
         /\ behind' = Follower \ {p}
         /\ newest' = (newest + 1) % Epochs

\* The watermark advances, what waited in the backlog is added anew, the index
\* is pruned, and the segments of the next epoch are issued.  What was decided
\* in an epoch all peers have left is forgotten (by the model).
AdvanceWatermarks(p) ==
    LET e == EpochOf(p)
        entries == UNION {decided[e][l] : l \in Peer}
        forget(f) == IF behind' \cap Peer = {} THEN [f EXCEPT ![e] = NoBatch] ELSE f
    IN  /\ logged[p] = Peer
        /\ WriteLocked(p)
        /\ NextEpoch(p)
        /\ pool' = [pool EXCEPT ![p] = PruneIndex(AdvanceWatermark(@, entries), @.low)]
        /\ net' = net \cup ({p} \X pool[p].backlog)
        /\ logged' = [logged EXCEPT ![p] = {}]
        /\ proposed' = forget(proposed)
        /\ decided' = forget(decided)
        /\ UNCHANGED <<client, responses, adding, held, aborts>>

-----------------------------------------------------------------------------
Work(p) == \E r \in Req : CheckWatermarks(p, r) \/ AddRequest(p, r)
Order(p) ==
    \/ Propose(p) \/ \E l \in Peer : Learn(p, l)
    \/ AdvanceWatermarks(p)

Next ==
    \/ SubmitRequest \/ RegisterAssignment \/ ResubmitPending
    \/ \E r \in Req : RegisterResponse(r)
    \/ \E p \in Peer : Work(p) \/ Order(p) \/ \E l \in Peer : Accept(p, l)

\* Goroutines are scheduled, connections deliver, and the ordering protocol
\* decides on what is proposed.  One condition stands for several actions where
\* only finitely many steps of some can keep the others waiting.
Fairness ==
    /\ WF_vars(\/ SubmitRequest \/ \E r \in Req : RegisterResponse(r)
               \/ \E p \in Peer : Work(p))
    /\ WF_vars(ResubmitPending)
    /\ WF_vars(RegisterAssignment \/ \E p \in Peer : Order(p))

Spec == Init /\ [][Next]_vars
FairSpec == Spec /\ Fairness

-----------------------------------------------------------------------------
\* Safety.

\* Requests some peer's log, or the decision of a current epoch, contains.
Ordered ==
    LET inLog(p) == 0 .. pool[p].low - 1 \cup pool[p].committed
        chosen(e) == UNION {decided[e][l] : l \in {m \in Peer : decided[e][m] # None}}
    IN  (UNION {inLog(p) : p \in Peer}) \cup (UNION {chosen(e) : e \in Epoch})

\* No request is ordered twice, though its client sends it to several peers, a
\* copy may arrive when it is committed and its index entry gone, and a peer may
\* get it back from a proposal that was given up (bucket.go:357-363).
OrderedOnce ==
    [][\A e \in Epoch, l \in Peer :
           decided[e][l] = None /\ decided'[e][l] # None
               => decided'[e][l] \cap Ordered = {}]_vars

\* The index has every request of a list, and every request a peer may have to
\* put back into one (bucket.go:48-50; Prepend panics otherwise, 256-260).
IndexCovers ==
    \A p \in Peer :
        /\ pool[p].list \subseteq pool[p].index
        /\ \A l \in Peer : held[p][l] \subseteq pool[p].index

\* What a leader proposes, every peer of its epoch accepts, and can add to its
\* buckets when it is decided: their watermarks agree, and nothing is still in
\* flight elsewhere.  (pbftinstance.go:370-385 answers a refusal with a view
\* change; 619-620 do not expect one.)
FollowersAccept ==
    \A p, l \in Peer :
        /\ Awaited(p, l) => ~Refuses(p, l)
        /\ l \notin logged[p] /\ decided[EpochOf(p)][l] # None
               => Acceptable(pool[p], decided[EpochOf(p)][l])

\* The client finishes all its requests: none is left for ever in a backlog, in
\* the bucket of a peer that does not lead it any more, or in a batch that was
\* given up, and the window moves on.
EveryRequestFinishes == <>(oldest = MaxReq)
=============================================================================
