---------------------------- MODULE LeaderPolicy ----------------------------
(***************************************************************************)
(* The pure part of the manager: who leads an epoch (leaderpolicies.go),   *)
(* and how the sequence numbers and the buckets of an epoch are divided    *)
(* among its leaders (createSegments, assignBuckets, skippingsegment.go).  *)
(*                                                                         *)
(* Node is 1..N in the order of AllNodeIDs; index i of the code is i - 1.  *)
(***************************************************************************)
EXTENDS Integers, FiniteSets, SequencesExt

CONSTANTS
    N,             \* membership.NumNodes()
    Ratio,         \* NodeToLeaderRatio
    EpochLength,
    LeaderBan,     \* DefaultLeaderBan
    NumBuckets,
    Correct        \* membership.CorrectPeers(), of the simulated policy

ASSUME PolicyAssumption ==
    /\ N \in Nat \ {0} /\ Ratio \in 1 .. N
    /\ EpochLength \in Nat /\ EpochLength >= N  \* a segment of length 0 has no LastSN
    /\ LeaderBan \in Nat \ {0} /\ NumBuckets \in Nat \ {0}
    /\ Correct \subseteq 1 .. N /\ Correct # {}

Node == 1 .. N
Bucket == 0 .. NumBuckets - 1
Faults == (N - 1) \div 3
Quorum == 2 * Faults + 1
Policy == {"Simple", "Single", "Backoff", "Blacklist", "Combined", "SimulatedRandomFailures"}

\* The elements of a set of nodes in their order: at i the one above i - 1 others.
InOrder(S) ==
    [i \in 1 .. Cardinality(S) |-> CHOOSE n \in S : Cardinality({o \in S : o < n}) = i - 1]

\* What a policy remembers: ban, bannedUntil (0: no entry) and bannedList.
NewPolicy == [ban |-> [n \in Node |-> 0], until |-> [n \in Node |-> -1], list |-> <<>>]

-----------------------------------------------------------------------------

BackoffLeaders(p, e) == {n \in Node : p.ban[n] = 0 \/ p.until[n] < e}
BlacklistLeaders(p) == Node \ Range(p.list)

\* The leaders of epoch e.  The combined policy lists the keys of a map: Go
\* gives them in any order, so there is a set of possible answers.
GetLeaders(policy, p, e) ==
    CASE policy = "Simple" -> {InOrder(1 .. (N \div Ratio))}
      [] policy = "Single" -> {<<1 + (e % N)>>}
      [] policy = "Backoff" -> {InOrder(BackoffLeaders(p, e))}
      [] policy = "Blacklist" -> {InOrder(BlacklistLeaders(p))}
      [] policy = "Combined" -> SetToSeqs(BackoffLeaders(p, e) \cup BlacklistLeaders(p))
      [] policy = "SimulatedRandomFailures" -> {InOrder(Correct)}

\* "Decreasing everybody's bans" one by one until someone may lead epoch e.
Shorten(p, e) ==
    LET first == CHOOSE n \in Node : \A o \in Node : p.until[n] <= p.until[o]
        by == p.until[first] - e + 1
    IN  IF BackoffLeaders(p, e) # {} THEN p
        ELSE [p EXCEPT !.until = [n \in Node |-> @[n] - by]]

BackoffUpdate(p, e, suspect) ==
    LET ban == IF p.ban[suspect] = 0 THEN LeaderBan ELSE 2 * p.ban[suspect]
    IN  Shorten([p EXCEPT !.ban[suspect] = ban, !.until[suspect] = e + ban], e + 1)

BlacklistUpdate(p, suspect) ==
    LET list == Append(p.list, suspect)
    IN  [p EXCEPT !.list = IF Len(list) <= Faults THEN list
                           ELSE SubSeq(list, Len(list) - Faults + 1, Len(list))]

\* Update: only the policies that ban use what it keeps.
Update(policy, p, e, suspect) ==
    CASE policy = "Backoff" -> BackoffUpdate(p, e, suspect)
      [] policy = "Blacklist" -> BlacklistUpdate(p, suspect)
      [] policy = "Combined" -> BlacklistUpdate(BackoffUpdate(p, e, suspect), suspect)
      [] OTHER -> p

-----------------------------------------------------------------------------

EpochLen(segmentLength, leaders) ==
    IF segmentLength = 0 THEN EpochLength ELSE segmentLength * Len(leaders)

\* Mutation: the remainder is not distributed.
NoRemainder(length, leaders, offset, i) ==
    {offset + i - 1 + k * Len(leaders) : k \in 0 .. (length \div Len(leaders)) - 1}

\* The sequence numbers of the i-th segment of the epoch that starts at offset.
SegmentSNs(length, leaders, offset, i) ==
    LET n == Len(leaders)
        more == IF i <= (length % n) THEN 1 ELSE 0
    IN  {offset + i - 1 + k * n : k \in 0 .. (length \div n) + more - 1}

\* Round robin over all nodes, shifted by the epoch; the buckets of nodes
\* that do not lead go to the sorted leaders.
BucketOwner(b, e, leaders) ==
    LET first == CHOOSE n \in Node : (n - 1 + e) % N = b % N
        sorted == InOrder(Range(leaders))
    IN  IF first \in Range(leaders) THEN first
        ELSE sorted[1 + ((b + e) % Len(leaders))]

CreateSegments(segmentLength, leaders, e, offset) ==
    [i \in 1 .. Len(leaders) |->
        [leader |-> leaders[i],
         sns |-> SegmentSNs(EpochLen(segmentLength, leaders), leaders, offset, i),
         buckets |-> {b \in Bucket : BucketOwner(b, e, leaders) = leaders[i]}]]
=============================================================================
