----------------------------- MODULE RequestPool -----------------------------
(***************************************************************************)
(* A peer's store of the requests of one client (request/buffer.go,        *)
(* bucket.go, bucketgroup.go, batch.go, request.go) as operators on a      *)
(* record: the buffer's watermark, committed flags and backlog, and the    *)
(* buckets with their lists and index.                                     *)
(*                                                                         *)
(* Without groups (PBFT, Raft and HotStuff) the bucket of a request is the *)
(* sum of its client's ID, 0 here, and its sequence number, modulo the     *)
(* number of buckets.  All copies of a request have one digest, and        *)
(* signatures verify.  Lists and batches are sets: which of the requests   *)
(* that fit a batch takes is left open, where the code takes the oldest.   *)
(***************************************************************************)
EXTENDS Integers, FiniteSets

CONSTANTS
    MaxReq,        \* the client's sequence numbers are 0 .. MaxReq - 1
    Window,        \* config.ClientWatermarkWindowSize
    BacklogSize,   \* config.ClientRequestBacklogSize
    NumBuckets,    \* config.NumBuckets
    BatchSize      \* config.BatchSize

ASSUME PoolAssumption ==
    /\ {MaxReq, Window, BacklogSize, NumBuckets, BatchSize} \subseteq Nat
    /\ NumBuckets > 0

Req == 0 .. MaxReq - 1
Bucket == 0 .. NumBuckets - 1
Batch == {s \in SUBSET Req : Cardinality(s) <= BatchSize}

GetBucketNr(r) == r % NumBuckets

Pool ==
    [low : 0 .. MaxReq,          \* LowWatermark
     committed : SUBSET Req,     \* requestsCommitted
     backlog : SUBSET Req,
     list : SUBSET Req,          \* the requests in the lists of all buckets
     index : SUBSET Req,         \* and in their indices
     flight : SUBSET Req]        \* those of the index with InFlight set

NewBuffer ==
    [low |-> 0, committed |-> {}, backlog |-> {}, list |-> {}, index |-> {}, flight |-> {}]

-----------------------------------------------------------------------------
\* The buffer.

Ahead(pool, r) == r >= pool.low + Window
Below(pool, r) == r < pool.low
Within(pool, r) == ~Ahead(pool, r) /\ ~Below(pool, r)

\* A full backlog ignores the request; a capacity of 0 is no limit.
HasRoom(pool) == BacklogSize = 0 \/ Cardinality(pool.backlog) < BacklogSize

\* Mutation: what is ahead of the window is ignored.
Ignore(pool, r) == pool

AddToBacklog(pool, r) ==
    IF HasRoom(pool) THEN [pool EXCEPT !.backlog = @ \cup {r}] ELSE pool

\* The watermark passes every request committed without a gap.
AdvanceWatermark(pool, entries) ==
    LET done == pool.committed \cup entries
        low == CHOOSE k \in pool.low .. MaxReq :
                   pool.low .. k - 1 \subseteq done /\ k \notin done
    IN  [pool EXCEPT !.low = low, !.committed = done \ (pool.low .. low - 1), !.backlog = {}]

-----------------------------------------------------------------------------
\* The buckets.

\* Mutation: what has left the list may come back.
AddUnlessListed(pool, reqs) ==
    [pool EXCEPT !.index = @ \cup reqs, !.list = @ \cup reqs]

\* A request that has left the list stays in the index, and is not added again.
AddToBucket(pool, reqs) ==
    [pool EXCEPT !.index = @ \cup reqs, !.list = @ \cup (reqs \ pool.index)]

RemoveBatch(pool, batch) == [pool EXCEPT !.list = @ \ batch]

\* Mutation: put back as it is.
StillInFlight(pool, batch) == [pool EXCEPT !.list = @ \cup batch]

Resurrect(pool, batch) ==
    [pool EXCEPT !.flight = @ \ batch, !.list = @ \cup batch]

\* From the watermark before it advanced to the one after.  The flags of a
\* request go with it.
PruneIndex(pool, from) ==
    LET pruned == from .. pool.low - 1
    IN  [pool EXCEPT !.index = @ \ pruned, !.flight = @ \ pruned]

-----------------------------------------------------------------------------
\* Batches.

\* As many requests as fit, of the buckets of the group.
CutBatch(pool, group) ==
    LET ready == {r \in pool.list : GetBucketNr(r) \in group}
    IN  {s \in SUBSET ready :
            Cardinality(s) = IF Cardinality(ready) < BatchSize
                             THEN Cardinality(ready) ELSE BatchSize}

MarkInFlight(pool, batch) == [pool EXCEPT !.flight = @ \cup batch]

CheckInFlight(pool, batch) == batch \cap pool.flight = {}

\* NewBatch adds the requests of a batch, and fails on one outside the window.
Acceptable(pool, batch) == \A r \in batch : Within(pool, r)

NewBatch(pool, batch) == AddToBucket(pool, batch)
=============================================================================
