----------------------------- MODULE NodeProofs -----------------------------
(* Theorems about IssNode, for any number of peers, epochs and deployments,  *)
(* any leader policy and any lengths of segments and channels.               *)
EXTENDS IssNode, FiniteSetTheorems, SequenceTheorems, WellFoundedInduction, TLAPS

-----------------------------------------------------------------------------
(* The nodes of a policy in a list *)

LEMMA Numbers ==
    /\ N \in Nat /\ N > 3 /\ IsFiniteSet(Node) /\ Cardinality(Node) = N
    /\ Faults \in Nat /\ Faults < N /\ Quorum \in Nat /\ Quorum > 0
<1>1. N \in Nat /\ N > 3
  BY PolicyAssumption, NodeAssumption
<1>2. IsFiniteSet(Node) /\ Cardinality(Node) = N
  BY <1>1, FS_Interval DEF Node
<1>3. Faults \in Nat /\ Faults < N
  BY <1>1 DEF Faults
<1> QED
  BY <1>1, <1>2, <1>3 DEF Quorum

LEMMA LeastOf ==
    ASSUME NEW T \in SUBSET Nat, T # {}
    PROVE  \E k \in T : \A m \in T : k <= m
<1>1. PICK k \in T : \A m \in T : ~ (<<m, k>> \in OpToRel(<, Nat))
  BY NatLessThanWellFounded, WFMin
<1>2. \A m \in T : ~ (m < k)
  BY <1>1 DEF OpToRel
<1>3. k \in Nat /\ \A m \in T : m \in Nat
  OBVIOUS
<1> QED
  BY <1>2, <1>3

LEMMA Quotient ==
    ASSUME NEW a \in Nat, NEW b \in Nat, 0 < b, b <= a
    PROVE  a \div b \in 1 .. a
<1>1. a = b * (a \div b) + (a % b) /\ a % b \in 0 .. b - 1 /\ a \div b \in Nat
  BY Z3
<1>2. a \div b # 0
  BY <1>1
<1>3. a \div b <= b * (a \div b)
  BY <1>1
<1> QED
  BY <1>1, <1>2, <1>3

LEMMA LenOfFunction ==
    ASSUME NEW S, NEW n \in Nat, NEW f \in [1 .. n -> S]
    PROVE  f \in Seq(S) /\ Len(f) = n
<1>1. f \in Seq(S)
  BY SeqDef
<1> QED
  BY <1>1, LenProperties

\* f lists the elements of S, each once.
Lists(f, S) ==
    /\ f \in [1 .. Cardinality(S) -> S]
    /\ \A i, j \in 1 .. Cardinality(S) : f[i] = f[j] => i = j
    /\ \A x \in S : \E i \in 1 .. Cardinality(S) : f[i] = x

\* An injective list of the right length has every element.
LEMMA ListsAll ==
    ASSUME NEW S, IsFiniteSet(S), NEW f \in [1 .. Cardinality(S) -> S],
           \A i, j \in 1 .. Cardinality(S) : f[i] = f[j] => i = j
    PROVE  Lists(f, S)
<1> DEFINE D == 1 .. Cardinality(S)
<1>1. Cardinality(S) \in Nat
  BY FS_CardinalityType
<1>2. IsFiniteSet(D) /\ Cardinality(D) = Cardinality(S)
  BY <1>1, FS_Interval
<1>3. f \in Injection(D, S)
  BY DEF Injection, IsInjective
<1>4. f \in Surjection(D, S)
  BY <1>2, <1>3, FS_Injection
<1> QED
  BY <1>4 DEF Surjection, Lists

LEMMA InOrderLists ==
    ASSUME NEW S \in SUBSET Node
    PROVE  Lists(InOrder(S), S)
<1> DEFINE n == Cardinality(S)
           Below(x) == {o \in S : o < x}
           rank == [x \in S |-> 1 + Cardinality(Below(x))]
<1>1. IsFiniteSet(S) /\ n \in Nat
  BY Numbers, FS_Subset, FS_CardinalityType
<1>2. \A x \in S : IsFiniteSet(Below(x)) /\ Cardinality(Below(x)) \in Nat
  BY <1>1, FS_Subset, FS_CardinalityType
<1>3. \A x, y \in S : x < y => Cardinality(Below(x)) < Cardinality(Below(y))
  <2> SUFFICES ASSUME NEW x \in S, NEW y \in S, x < y
               PROVE  Cardinality(Below(x)) < Cardinality(Below(y))
    OBVIOUS
  <2>0. \A z \in S : z \in Int
    BY Numbers DEF Node
  <2>1. Below(x) \subseteq Below(y) /\ x \in Below(y) /\ x \notin Below(x)
    <3>1. \A z \in S : z < x => z < y
      BY <2>0
    <3>2. ~ (x < x)
      BY <2>0
    <3> QED
      BY <3>1, <3>2
  <2> HIDE DEF Below
  <2>2. Cardinality(Below(x)) <= Cardinality(Below(y)) /\ Cardinality(Below(x)) # Cardinality(Below(y))
    BY <1>2, <2>1, FS_Subset
  <2> QED
    BY <1>2, <2>2
<1>4. \A x \in S : Cardinality(Below(x)) < n
  <2> SUFFICES ASSUME NEW x \in S PROVE Cardinality(Below(x)) < n
    OBVIOUS
  <2>1. Below(x) \in SUBSET S /\ Below(x) # S
    BY Numbers DEF Node
  <2> HIDE DEF Below
  <2>2. Cardinality(Below(x)) <= n /\ Cardinality(Below(x)) # n
    BY <1>1, <2>1, FS_Subset
  <2> QED
    BY <1>1, <1>2, <2>2
<1> HIDE DEF Below
<1>5. rank \in [S -> 1 .. n]
  BY <1>1, <1>2, <1>4
<1>6. \A x, y \in S : rank[x] = rank[y] => x = y
  BY <1>2, <1>3, Numbers DEF Node
<1>7. IsFiniteSet(1 .. n) /\ Cardinality(1 .. n) = n
  BY <1>1, FS_Interval
<1>8. rank \in Injection(S, 1 .. n)
  BY <1>5, <1>6 DEF Injection, IsInjective
<1>9. rank \in Surjection(S, 1 .. n)
  BY <1>7, <1>8, FS_Injection
<1>10. \A i \in 1 .. n : \E x \in S : Cardinality(Below(x)) = i - 1
  <2> SUFFICES ASSUME NEW i \in 1 .. n PROVE \E x \in S : Cardinality(Below(x)) = i - 1
    OBVIOUS
  <2>1. PICK x \in S : rank[x] = i
    BY <1>9 DEF Surjection
  <2> QED
    BY <1>1, <1>2, <2>1
<1>11. \A i \in 1 .. n : InOrder(S)[i] \in S /\ Cardinality(Below(InOrder(S)[i])) = i - 1
  <2> SUFFICES ASSUME NEW i \in 1 .. n
               PROVE  InOrder(S)[i] \in S /\ Cardinality(Below(InOrder(S)[i])) = i - 1
    OBVIOUS
  <2>1. InOrder(S)[i] = CHOOSE x \in S : Cardinality({o \in S : o < x}) = i - 1
    BY DEF InOrder
  <2>2. \E x \in S : Cardinality({o \in S : o < x}) = i - 1
    BY <1>10 DEF Below
  <2>3. InOrder(S)[i] \in S /\ Cardinality({o \in S : o < InOrder(S)[i]}) = i - 1
    BY <2>1, <2>2
  <2> QED
    BY <2>3 DEF Below
<1>12. InOrder(S) \in [1 .. n -> S]
  <2>1. InOrder(S) = [i \in 1 .. n |-> InOrder(S)[i]]
    BY DEF InOrder
  <2> QED
    BY <1>11, <2>1
<1>13. \A i, j \in 1 .. n : InOrder(S)[i] = InOrder(S)[j] => i = j
  BY <1>1, <1>11
<1> QED
  BY <1>1, <1>12, <1>13, ListsAll

-----------------------------------------------------------------------------
(* What a policy remembers *)

PolicyTypes == [ban : [Node -> Nat], until : [Node -> Int], list : Seq(Node)]

\* Enough to have a leader in epoch e.
PolicyFit(p, e) == p \in PolicyTypes /\ Len(p.list) <= Faults /\ BackoffLeaders(p, e) # {}

LEMMA PolicyFields ==
    ASSUME NEW p \in PolicyTypes
    PROVE  /\ p = [ban |-> p.ban, until |-> p.until, list |-> p.list]
           /\ p.ban \in [Node -> Nat] /\ p.until \in [Node -> Int] /\ p.list \in Seq(Node)
BY DEF PolicyTypes

LEMMA NewBan ==
    ASSUME NEW p \in PolicyTypes, NEW s, NEW x, NEW y
    PROVE  [p EXCEPT !.ban[s] = x, !.until[s] = y]
              = [ban |-> [p.ban EXCEPT ![s] = x], until |-> [p.until EXCEPT ![s] = y], list |-> p.list]
<1> DEFINE q == [ban |-> [p.ban EXCEPT ![s] = x], until |-> p.until, list |-> p.list]
<1>1. [p EXCEPT !.ban[s] = x, !.until[s] = y] = [[p EXCEPT !.ban[s] = x] EXCEPT !.until[s] = y]
  OBVIOUS
<1>2. [p EXCEPT !.ban[s] = x] = [p EXCEPT !.ban = [p.ban EXCEPT ![s] = x]]
  OBVIOUS
<1>3. ASSUME NEW u
      PROVE  [p EXCEPT !.ban = u] = [ban |-> u, until |-> p.until, list |-> p.list]
  <2>1. p = [ban |-> p.ban, until |-> p.until, list |-> p.list]
    BY PolicyFields
  <2> QED
    BY <2>1
<1>4. [q EXCEPT !.until[s] = y] = [q EXCEPT !.until = [q.until EXCEPT ![s] = y]]
  OBVIOUS
<1>5. [q EXCEPT !.until = [q.until EXCEPT ![s] = y]]
         = [ban |-> [p.ban EXCEPT ![s] = x], until |-> [p.until EXCEPT ![s] = y], list |-> p.list]
  OBVIOUS
<1>6. [[p EXCEPT !.ban[s] = x] EXCEPT !.until[s] = y] = [q EXCEPT !.until[s] = y]
  BY <1>2, <1>3
<1> HIDE DEF q
<1> QED
  BY <1>1, <1>4, <1>5, <1>6

LEMMA LessBan ==
    ASSUME NEW p \in PolicyTypes, NEW x
    PROVE  [p EXCEPT !.until = [n \in Node |-> @[n] - x]]
              = [ban |-> p.ban, until |-> [n \in Node |-> p.until[n] - x], list |-> p.list]
<1>1. [p EXCEPT !.until = [n \in Node |-> @[n] - x]] = [p EXCEPT !.until = [n \in Node |-> p.until[n] - x]]
  OBVIOUS
<1>2. \A u : [p EXCEPT !.until = u] = [ban |-> p.ban, until |-> u, list |-> p.list]
  BY PolicyFields
<1> QED
  BY <1>1, <1>2

LEMMA NewList ==
    ASSUME NEW p \in PolicyTypes, NEW x
    PROVE  [p EXCEPT !.list = x] = [ban |-> p.ban, until |-> p.until, list |-> x]
  BY PolicyFields

LEMMA FitLater ==
    ASSUME NEW p, NEW e \in Nat, PolicyFit(p, e)
    PROVE  PolicyFit(p, e + 1)
<1>1. p \in PolicyTypes /\ \A n \in Node : p.until[n] \in Int
  BY DEF PolicyFit, PolicyTypes
<1> QED
  BY <1>1 DEF PolicyFit, BackoffLeaders

LEMMA NewFit == PolicyFit(NewPolicy, 0)
<1>1. NewPolicy \in PolicyTypes /\ Len(NewPolicy.list) = 0
  BY EmptySeq DEF NewPolicy, PolicyTypes
<1>2. 1 \in Node /\ NewPolicy.ban[1] = 0
  BY Numbers DEF Node, NewPolicy
<1>3. 1 \in BackoffLeaders(NewPolicy, 0)
  BY <1>2 DEF BackoffLeaders
<1> QED
  BY <1>1, <1>3, Numbers DEF PolicyFit

\* Some node's ban ends first.
LEMMA FirstFree ==
    ASSUME NEW until \in [Node -> Int]
    PROVE  \E n \in Node : \A o \in Node : until[n] <= until[o]
<1> DEFINE Ends == {until[n] : n \in Node}
           S(b) == {o \in Node : until[o] < b}
<1>1. \A b \in Int : IsFiniteSet(S(b)) /\ Cardinality(S(b)) \in Nat
  BY Numbers, FS_Subset, FS_CardinalityType
<1> DEFINE T == {Cardinality(S(until[n])) : n \in Node}
<1>2. T \in SUBSET Nat /\ T # {}
  <2>1. 1 \in Node
    BY Numbers DEF Node
  <2> QED
    BY <1>1, <2>1
<1>3. PICK n \in Node : \A m \in T : Cardinality(S(until[n])) <= m
  <2>1. PICK k \in T : \A m \in T : k <= m
    BY <1>2, LeastOf
  <2> QED
    BY <2>1
<1>4. ASSUME NEW o \in Node, until[o] < until[n]
      PROVE  FALSE
  <2>1. S(until[o]) \subseteq S(until[n]) /\ o \in S(until[n]) /\ o \notin S(until[o])
    <3>1. \A z \in Node : until[z] < until[o] => until[z] < until[n]
      BY <1>4
    <3>2. ~ (until[o] < until[o])
      OBVIOUS
    <3> QED
      BY <1>4, <3>1, <3>2
  <2>2. until[o] \in Int /\ until[n] \in Int /\ Cardinality(S(until[o])) \in T
    OBVIOUS
  <2> HIDE DEF S
  <2>3. Cardinality(S(until[o])) <= Cardinality(S(until[n])) /\ Cardinality(S(until[o])) # Cardinality(S(until[n]))
    BY <1>1, <2>1, <2>2, FS_Subset
  <2> QED
    BY <1>1, <1>3, <2>2, <2>3
<1> QED
  BY <1>4

LEMMA ShortenFit ==
    ASSUME NEW p \in PolicyTypes, NEW e \in Nat, Len(p.list) <= Faults
    PROVE  PolicyFit(Shorten(p, e), e)
<1> DEFINE first == CHOOSE n \in Node : \A o \in Node : p.until[n] <= p.until[o]
           by == p.until[first] - e + 1
           q == [p EXCEPT !.until = [n \in Node |-> @[n] - by]]
<1>1. CASE BackoffLeaders(p, e) # {}
  BY <1>1 DEF Shorten, PolicyFit
<1>2. CASE BackoffLeaders(p, e) = {}
  <2>1. p.until \in [Node -> Int]
    BY DEF PolicyTypes
  <2>2. first \in Node
    BY <2>1, FirstFree
  <2> HIDE DEF first
  <2>3. p.until[first] \in Int /\ by \in Int
    BY <2>1, <2>2
  <2>4. q = [ban |-> p.ban, until |-> [n \in Node |-> p.until[n] - by], list |-> p.list]
    BY LessBan
  <2>5. q.until[first] < e
    BY <2>2, <2>3, <2>4
  <2>6. [n \in Node |-> p.until[n] - by] \in [Node -> Int]
    BY <2>1, <2>3
  <2>7. q \in PolicyTypes /\ q.list = p.list
    BY <2>4, <2>6 DEF PolicyTypes
  <2>8. first \in BackoffLeaders(q, e)
    BY <2>2, <2>5 DEF BackoffLeaders
  <2>9. Shorten(p, e) = q
    BY <1>2 DEF Shorten, first
  <2> QED
    BY <2>7, <2>8, <2>9 DEF PolicyFit
<1> QED
  BY <1>1, <1>2

LEMMA BackoffFit ==
    ASSUME NEW p, NEW e \in Nat, NEW s \in Node, PolicyFit(p, e + 1)
    PROVE  PolicyFit(BackoffUpdate(p, e, s), e + 1)
<1> DEFINE ban == IF p.ban[s] = 0 THEN LeaderBan ELSE 2 * p.ban[s]
           q == [p EXCEPT !.ban[s] = ban, !.until[s] = e + ban]
<1>1. p.ban \in [Node -> Nat] /\ p.until \in [Node -> Int] /\ p.list \in Seq(Node) /\ Len(p.list) <= Faults
  BY DEF PolicyFit, PolicyTypes
<1>2. ban \in Nat
  BY <1>1, PolicyAssumption
<1> HIDE DEF ban
<1>3. q = [ban |-> [p.ban EXCEPT ![s] = ban], until |-> [p.until EXCEPT ![s] = e + ban], list |-> p.list]
  <2>1. p \in PolicyTypes
    BY DEF PolicyFit
  <2> QED
    BY <2>1, NewBan
<1>4. BackoffUpdate(p, e, s) = Shorten(q, e + 1)
  BY DEF BackoffUpdate, ban
<1> HIDE DEF q
<1>5. [p.ban EXCEPT ![s] = ban] \in [Node -> Nat] /\ [p.until EXCEPT ![s] = e + ban] \in [Node -> Int]
  BY <1>1, <1>2
<1>6. q \in PolicyTypes /\ q.list = p.list
  BY <1>1, <1>3, <1>5 DEF PolicyTypes
<1> QED
  BY <1>1, <1>4, <1>6, ShortenFit

LEMMA BlacklistFit ==
    ASSUME NEW p, NEW e \in Nat, NEW s \in Node, PolicyFit(p, e)
    PROVE  PolicyFit(BlacklistUpdate(p, s), e)
<1> DEFINE long == Append(p.list, s)
           list == IF Len(long) <= Faults THEN long ELSE SubSeq(long, Len(long) - Faults + 1, Len(long))
<1>1. p \in PolicyTypes /\ long \in Seq(Node) /\ Len(long) \in Nat
  BY DEF PolicyFit, PolicyTypes
<1>2. BlacklistUpdate(p, s) = [ban |-> p.ban, until |-> p.until, list |-> list]
  BY <1>1, NewList DEF BlacklistUpdate
<1> HIDE DEF long
<1>3. list \in Seq(Node) /\ Len(list) <= Faults
  <2>1. CASE Len(long) <= Faults
    BY <1>1, <2>1
  <2>2. CASE Len(long) > Faults
    <3>1. Len(long) - Faults + 1 \in 1 .. Len(long) + 1 /\ Len(long) \in 0 .. Len(long)
      BY <1>1, <2>2, Numbers
    <3>2. SubSeq(long, Len(long) - Faults + 1, Len(long)) \in Seq(Node)
      BY <1>1, <3>1, SubSeqProperties
    <3>3. Len(SubSeq(long, Len(long) - Faults + 1, Len(long))) = Faults
      BY <1>1, <3>1, <2>2, Numbers, SubSeqProperties
    <3> QED
      BY <1>1, <2>2, <3>2, <3>3, Numbers
  <2> QED
    BY <1>1, <2>1, <2>2, Numbers
<1> HIDE DEF list
<1>4. BackoffLeaders(BlacklistUpdate(p, s), e) = BackoffLeaders(p, e)
  BY <1>2 DEF BackoffLeaders
<1> QED
  BY <1>1, <1>2, <1>3, <1>4 DEF PolicyFit, PolicyTypes

LEMMA UpdateFit ==
    ASSUME NEW name, NEW p, NEW e \in Nat, NEW s \in Node, PolicyFit(p, e + 1)
    PROVE  PolicyFit(Update(name, p, e, s), e + 1)
<1>1. PolicyFit(BackoffUpdate(p, e, s), e + 1) /\ e + 1 \in Nat
  BY BackoffFit
<1>2. PolicyFit(BlacklistUpdate(p, s), e + 1)
  BY <1>1, BlacklistFit
<1>3. PolicyFit(BlacklistUpdate(BackoffUpdate(p, e, s), s), e + 1)
  BY <1>1, BlacklistFit
<1> QED
  BY <1>1, <1>2, <1>3 DEF Update

-----------------------------------------------------------------------------
(* The leaders of an epoch *)

LEMMA BlacklistLeft ==
    ASSUME NEW p, NEW e \in Nat, PolicyFit(p, e)
    PROVE  BlacklistLeaders(p) # {}
<1> DEFINE list == p.list
           n == Len(list)
<1>1. list \in Seq(Node) /\ n \in Nat /\ n <= Faults
  BY DEF PolicyFit, PolicyTypes
<1> HIDE DEF list
<1>2. IsFiniteSet(1 .. n) /\ Cardinality(1 .. n) = n
  <2>1. n \in Nat
    BY <1>1
  <2> HIDE DEF n
  <2> QED
    BY <2>1, FS_Interval
<1>3. list \in [1 .. n -> Range(list)] /\ DOMAIN list = 1 .. n
  BY <1>1 DEF Range
<1>4. list \in Surjection(1 .. n, Range(list))
  BY <1>3 DEF Surjection, Range
<1>5. IsFiniteSet(Range(list)) /\ Cardinality(Range(list)) <= n
  BY <1>2, <1>4, FS_Surjection
<1>6. Range(list) # Node
  BY <1>1, <1>5, Numbers, FS_CardinalityType
<1>7. Range(list) \subseteq Node
  BY <1>1, <1>3 DEF Range
<1> QED
  BY <1>6, <1>7 DEF BlacklistLeaders, list

LEMMA OneLists ==
    ASSUME NEW x
    PROVE  Lists(<<x>>, {x})
<1>1. Cardinality({x}) = 1
  BY FS_Singleton
<1>2. <<x>> \in [1 .. 1 -> {x}] /\ <<x>>[1] = x
  OBVIOUS
<1> QED
  BY <1>1, <1>2 DEF Lists

LEMMA SeqsList ==
    ASSUME NEW S \in SUBSET Node, NEW f \in SetToSeqs(S)
    PROVE  Lists(f, S)
<1>1. IsFiniteSet(S)
  BY Numbers, FS_Subset
<1>2. f \in [1 .. Cardinality(S) -> S]
  BY DEF SetToSeqs
<1>3. \A i, j \in 1 .. Cardinality(S) : f[i] = f[j] => i = j
  BY DEF SetToSeqs
<1> QED
  BY <1>1, <1>2, <1>3, ListsAll

\* Whichever list the policy gives, it has the same nodes.
LEMMA LeadersListed ==
    ASSUME NEW name \in Policy, NEW p, NEW e \in Nat, PolicyFit(p, e)
    PROVE  \E S \in SUBSET Node : S # {} /\ \A l \in GetLeaders(name, p, e) : Lists(l, S)
<1> DEFINE Good(S) == S \in SUBSET Node /\ S # {} /\ \A l \in GetLeaders(name, p, e) : Lists(l, S)
<1>0. SUFFICES \E S : Good(S)
  OBVIOUS
<1>1. BackoffLeaders(p, e) # {} /\ BackoffLeaders(p, e) \in SUBSET Node
  BY DEF PolicyFit, BackoffLeaders
<1>2. BlacklistLeaders(p) # {} /\ BlacklistLeaders(p) \in SUBSET Node
  BY BlacklistLeft DEF BlacklistLeaders
<1>3. CASE name = "Simple"
  <2>1. N \div Ratio \in 1 .. N
    <3>1. N \in Nat /\ Ratio \in Nat /\ Ratio > 0 /\ Ratio <= N
      BY PolicyAssumption
    <3> QED
      BY <3>1, Quotient
  <2>2. 1 .. (N \div Ratio) \in SUBSET Node /\ 1 .. (N \div Ratio) # {}
    BY <2>1, Numbers DEF Node
  <2>3. GetLeaders(name, p, e) = {InOrder(1 .. (N \div Ratio))}
    BY <1>3 DEF GetLeaders
  <2>4. Good(1 .. (N \div Ratio))
    BY <2>2, <2>3, InOrderLists
  <2> QED
    BY <2>4
<1>4. CASE name = "Single"
  <2>1. e % N \in 0 .. N - 1
    BY Numbers
  <2>2. 1 + (e % N) \in Node
    BY <2>1, Numbers DEF Node
  <2>3. GetLeaders(name, p, e) = {<<1 + (e % N)>>}
    BY <1>4 DEF GetLeaders
  <2>4. Good({1 + (e % N)})
    BY <2>2, <2>3, OneLists
  <2> QED
    BY <2>4
<1>5. CASE name = "Backoff"
  <2>1. GetLeaders(name, p, e) = {InOrder(BackoffLeaders(p, e))}
    BY <1>5 DEF GetLeaders
  <2>2. Good(BackoffLeaders(p, e))
    BY <1>1, <2>1, InOrderLists
  <2> QED
    BY <2>2
<1>6. CASE name = "Blacklist"
  <2>1. GetLeaders(name, p, e) = {InOrder(BlacklistLeaders(p))}
    BY <1>6 DEF GetLeaders
  <2>2. Good(BlacklistLeaders(p))
    BY <1>2, <2>1, InOrderLists
  <2> QED
    BY <2>2
<1>7. CASE name = "Combined"
  <2>1. GetLeaders(name, p, e) = SetToSeqs(BackoffLeaders(p, e) \cup BlacklistLeaders(p))
    BY <1>7 DEF GetLeaders
  <2>2. Good(BackoffLeaders(p, e) \cup BlacklistLeaders(p))
    BY <1>1, <1>2, <2>1, SeqsList
  <2> QED
    BY <2>2
<1>8. CASE name = "SimulatedRandomFailures"
  <2>1. GetLeaders(name, p, e) = {InOrder(Correct)}
    BY <1>8 DEF GetLeaders
  <2>2. Correct \in SUBSET Node /\ Correct # {}
    BY PolicyAssumption DEF Node
  <2>3. Good(Correct)
    BY <2>1, <2>2, InOrderLists
  <2> QED
    BY <2>3
<1> QED
  BY <1>3, <1>4, <1>5, <1>6, <1>7, <1>8 DEF Policy

\* What the rest needs of them.
IsLeaders(l) ==
    /\ l \in Seq(Node) /\ Len(l) \in Nat /\ Len(l) > 0 /\ DOMAIN l = 1 .. Len(l)
    /\ \A i \in 1 .. Len(l) : l[i] \in Node
    /\ \A i, j \in 1 .. Len(l) : l[i] = l[j] => i = j

LEMMA LeadersFit ==
    ASSUME NEW name \in Policy, NEW p, NEW e \in Nat, PolicyFit(p, e)
    PROVE  /\ \A l \in GetLeaders(name, p, e) : IsLeaders(l)
           /\ \A l, m \in GetLeaders(name, p, e) : Len(l) = Len(m)
<1>1. PICK S \in SUBSET Node : S # {} /\ \A l \in GetLeaders(name, p, e) : Lists(l, S)
  BY LeadersListed
<1>2. Cardinality(S) \in Nat /\ Cardinality(S) # 0
  BY <1>1, Numbers, FS_Subset, FS_CardinalityType, FS_EmptySet
<1>3. ASSUME NEW l \in GetLeaders(name, p, e)
      PROVE  Len(l) = Cardinality(S) /\ IsLeaders(l)
  <2>1. Lists(l, S)
    BY <1>1
  <2>2. l \in [1 .. Cardinality(S) -> Node]
    BY <2>1 DEF Lists
  <2>3. l \in Seq(Node) /\ Len(l) = Cardinality(S)
    BY <1>2, <2>2, LenOfFunction
  <2> QED
    BY <1>2, <2>1, <2>2, <2>3 DEF IsLeaders, Lists
<1> QED
  BY <1>3

LEMMA EpochLenFit ==
    ASSUME NEW sl \in Nat, NEW l, IsLeaders(l)
    PROVE  EpochLen(sl, l) \in Nat /\ EpochLen(sl, l) > 0
<1>1. CASE sl = 0
  BY <1>1, PolicyAssumption DEF EpochLen
<1>2. CASE sl > 0
  <2>1. Len(l) \in Nat /\ Len(l) > 0
    BY DEF IsLeaders
  <2>2. sl * Len(l) \in Nat /\ sl * Len(l) > 0
    BY <1>2, <2>1
  <2> QED
    BY <1>2, <2>2 DEF EpochLen
<1> QED
  BY <1>1, <1>2

-----------------------------------------------------------------------------
(* What a manager makes of the entries of an epoch *)

SeenBy(name, e, b, s) ==
    IF s \in b.suspects THEN b
    ELSE [suspects |-> b.suspects \cup {s}, policy |-> Update(name, b.policy, e, s)]

\* The entry before sn, read by one who knew what f says.
ReadStep(name, d, e, f, sn) ==
    IF sn = d.first THEN [suspects |-> {}, policy |-> d.policy]
    ELSE IF sn - 1 \in d.aborted THEN SeenBy(name, e, f[sn - 1], Suspect(d, sn - 1))
    ELSE f[sn - 1]

ReadsTo(name, d, e, f, n) == f = [sn \in d.first .. n |-> ReadStep(name, d, e, f, sn)]

LEMMA ReadsExist ==
    ASSUME NEW name, NEW d, NEW e, d.first \in Int, NEW n \in Nat
    PROVE  \E f : ReadsTo(name, d, e, f, d.first + n)
<1> DEFINE a == d.first
           T == {k \in Nat : ~ \E f : ReadsTo(name, d, e, f, a + k)}
<1> SUFFICES ASSUME T # {} PROVE FALSE
  OBVIOUS
<1>1. PICK k \in T : \A m \in T : k <= m
  BY LeastOf
<1>2. a \in Int /\ k \in Nat /\ ~ \E f : ReadsTo(name, d, e, f, a + k)
  OBVIOUS
<1>3. CASE k = 0
  <2> DEFINE f == [sn \in a .. a |-> ReadStep(name, d, e, <<>>, sn)]
  <2>1. \A sn \in a .. a : ReadStep(name, d, e, <<>>, sn) = ReadStep(name, d, e, f, sn)
    BY <1>2 DEF ReadStep
  <2>2. f = [sn \in a .. a |-> ReadStep(name, d, e, f, sn)]
    BY <2>1
  <2> HIDE DEF f
  <2>3. a + k = a
    BY <1>2, <1>3
  <2> QED
    BY <1>2, <2>2, <2>3 DEF ReadsTo
<1>4. CASE k > 0
  <2>1. k - 1 \in Nat /\ k - 1 \notin T
    BY <1>1, <1>2, <1>4
  <2>2. PICK f : ReadsTo(name, d, e, f, a + (k - 1))
    BY <2>1
  <2> DEFINE g == [sn \in a .. a + k |->
                     IF sn < a + k THEN f[sn] ELSE ReadStep(name, d, e, f, a + k)]
  <2>3. f = [sn \in a .. a + (k - 1) |-> ReadStep(name, d, e, f, sn)]
    BY <2>2 DEF ReadsTo
  <2>4. \A sn \in a .. a + k : sn - 1 \in a .. a + k => g[sn - 1] = f[sn - 1]
    BY <1>2
  <2>5. \A sn \in a .. a + k : ReadStep(name, d, e, f, sn) = ReadStep(name, d, e, g, sn)
    <3> HIDE DEF g
    <3> SUFFICES ASSUME NEW sn \in a .. a + k
                 PROVE  ReadStep(name, d, e, f, sn) = ReadStep(name, d, e, g, sn)
      OBVIOUS
    <3>1. CASE sn = a
      BY <3>1 DEF ReadStep
    <3>2. CASE sn # a
      <4>1. sn - 1 \in a .. a + k
        BY <1>2, <3>2
      <4>2. g[sn - 1] = f[sn - 1]
        BY <2>4, <4>1
      <4> QED
        BY <3>2, <4>2 DEF ReadStep
    <3> QED
      BY <3>1, <3>2
  <2>6. \A sn \in a .. a + k : g[sn] = ReadStep(name, d, e, f, sn)
    <3> SUFFICES ASSUME NEW sn \in a .. a + k PROVE g[sn] = ReadStep(name, d, e, f, sn)
      OBVIOUS
    <3>1. CASE sn < a + k
      <4>1. sn \in a .. a + (k - 1)
        BY <1>2, <1>4, <3>1
      <4>2. f[sn] = ReadStep(name, d, e, f, sn)
        BY <2>3, <4>1
      <4> QED
        BY <3>1, <4>2
    <3>2. CASE sn = a + k
      BY <1>2, <3>2
    <3> QED
      BY <1>2, <3>1, <3>2
  <2>7. \A sn \in a .. a + k : g[sn] = ReadStep(name, d, e, g, sn)
    BY <2>5, <2>6
  <2>8. g = [sn \in a .. a + k |-> g[sn]]
    OBVIOUS
  <2> HIDE DEF g
  <2>9. g = [sn \in a .. a + k |-> ReadStep(name, d, e, g, sn)]
    BY <2>7, <2>8
  <2> QED
    BY <1>2, <2>9 DEF ReadsTo
<1> QED
  BY <1>2, <1>3, <1>4

LEMMA ReadsIs ==
    ASSUME NEW name, NEW d, NEW e, d.first \in Int, d.last \in Int, d.first <= d.last + 1,
           NEW sn \in d.first .. d.last + 1
    PROVE  Reads(name, d, e)[sn] = ReadStep(name, d, e, Reads(name, d, e), sn)
<1> DEFINE R == Reads(name, d, e)
<1>1. R = CHOOSE f : ReadsTo(name, d, e, f, d.last + 1)
  BY DEF Reads, ReadsTo, ReadStep, SeenBy
<1>2. \E f : ReadsTo(name, d, e, f, d.last + 1)
  <2>1. PICK f : ReadsTo(name, d, e, f, d.first + (d.last + 1 - d.first))
    <3>1. d.last + 1 - d.first \in Nat
      OBVIOUS
    <3> QED
      BY <3>1, ReadsExist
  <2>2. d.first + (d.last + 1 - d.first) = d.last + 1
    OBVIOUS
  <2> QED
    BY <2>1, <2>2
<1>3. ReadsTo(name, d, e, R, d.last + 1)
  BY <1>1, <1>2
<1> HIDE DEF R
<1>4. R[sn] = ReadStep(name, d, e, R, sn)
  BY <1>3 DEF ReadsTo
<1> QED
  BY <1>4 DEF R

Known(b, e) ==
    /\ b = [suspects |-> b.suspects, policy |-> b.policy]
    /\ b.suspects \subseteq Node /\ PolicyFit(b.policy, e + 1)

LEMMA SuspectType ==
    ASSUME NEW d, d.first \in Int, IsLeaders(d.leaders), NEW sn \in Int, d.first <= sn
    PROVE  Suspect(d, sn) \in Node
<1>1. Len(d.leaders) \in Nat /\ Len(d.leaders) > 0 /\ \A i \in 1 .. Len(d.leaders) : d.leaders[i] \in Node
  BY DEF IsLeaders
<1>2. sn - d.first \in Nat
  OBVIOUS
<1>3. (sn - d.first) % Len(d.leaders) \in 0 .. Len(d.leaders) - 1
  BY <1>1, <1>2
<1>4. 1 + ((sn - d.first) % Len(d.leaders)) \in 1 .. Len(d.leaders)
  BY <1>1, <1>3
<1> QED
  BY <1>1, <1>4 DEF Suspect

LEMMA ReadsKnown ==
    ASSUME NEW name, NEW d, NEW e \in Nat, d.first \in Int, d.last \in Int, d.first <= d.last + 1,
           IsLeaders(d.leaders), PolicyFit(d.policy, e), NEW sn \in d.first .. d.last + 1
    PROVE  Known(Reads(name, d, e)[sn], e)
<1> DEFINE R == Reads(name, d, e)
           T == {k \in Nat : d.first + k <= d.last + 1 /\ ~ Known(R[d.first + k], e)}
<1> HIDE DEF R
<1>1. \A i \in d.first .. d.last + 1 : R[i] = ReadStep(name, d, e, R, i)
  BY ReadsIs DEF R
<1>2. T = {}
  <2> SUFFICES ASSUME T # {} PROVE FALSE
    OBVIOUS
  <2>1. PICK k \in T : \A m \in T : k <= m
    BY LeastOf
  <2>2. k \in Nat /\ d.first + k <= d.last + 1 /\ ~ Known(R[d.first + k], e)
    OBVIOUS
  <2> DEFINE i == d.first + k
  <2>3. i \in d.first .. d.last + 1 /\ (i = d.first <=> k = 0)
    BY <2>2
  <2>4. CASE k = 0
    <3>1. R[i] = [suspects |-> {}, policy |-> d.policy]
      BY <1>1, <2>3, <2>4 DEF ReadStep
    <3>2. PolicyFit(d.policy, e + 1)
      BY FitLater
    <3>3. Known(R[i], e)
      BY <3>1, <3>2 DEF Known
    <3> QED
      BY <2>2, <3>3
  <2>5. CASE k > 0
    <3> DEFINE b == R[i - 1]
    <3>1. k - 1 \in Nat /\ k - 1 \notin T /\ d.first + (k - 1) = i - 1 /\ i - 1 <= d.last + 1
      BY <2>1, <2>2, <2>5
    <3>2. Known(b, e)
      BY <3>1
    <3>3. Suspect(d, i - 1) \in Node
      BY <2>2, <2>5, SuspectType
    <3>4. R[i] = IF i - 1 \in d.aborted THEN SeenBy(name, e, b, Suspect(d, i - 1)) ELSE b
      BY <1>1, <2>3, <2>5 DEF ReadStep
    <3> HIDE DEF b, i
    <3>5. PolicyFit(Update(name, b.policy, e, Suspect(d, i - 1)), e + 1)
      BY <3>2, <3>3, UpdateFit DEF Known
    <3>6. Known(SeenBy(name, e, b, Suspect(d, i - 1)), e)
      BY <3>2, <3>3, <3>5 DEF Known, SeenBy
    <3>7. Known(R[i], e)
      BY <3>2, <3>4, <3>6
    <3> QED
      BY <2>2, <3>7 DEF i
  <2> QED
    BY <2>2, <2>4, <2>5
<1>3. sn - d.first \in Nat /\ d.first + (sn - d.first) = sn /\ sn <= d.last + 1
  OBVIOUS
<1>4. sn - d.first \notin T
  BY <1>2
<1> HIDE DEF T
<1>5. Known(R[sn], e)
  BY <1>3, <1>4 DEF T
<1> QED
  BY <1>5 DEF R

-----------------------------------------------------------------------------
(* The segments divide the sequence numbers and the buckets *)

LEMMA Products ==
    ASSUME NEW a \in Nat, NEW b \in Nat, NEW n \in Nat, a < b
    PROVE  a * n + n <= b * n
<1>1. PICK c \in Nat : b = a + 1 + c
  <2>1. b - a - 1 \in Nat /\ b = a + 1 + (b - a - 1)
    OBVIOUS
  <2> QED
    BY <2>1
<1>2. b * n = a * n + n + c * n
  BY <1>1
<1>3. c * n \in Nat /\ a * n \in Nat
  OBVIOUS
<1> QED
  BY <1>2, <1>3

\* Quotient and remainder are unique.
LEMMA Unique ==
    ASSUME NEW n \in Nat, NEW k \in Nat, NEW l \in Nat, NEW i \in 0 .. n - 1, NEW j \in 0 .. n - 1,
           k * n + i = l * n + j
    PROVE  k = l /\ i = j
<1>1. k * n \in Nat /\ l * n \in Nat
  OBVIOUS
<1>2. ~ (k < l)
  <2> SUFFICES ASSUME k < l PROVE FALSE
    OBVIOUS
  <2>1. k * n + n <= l * n
    BY Products
  <2> QED
    BY <1>1, <2>1
<1>3. ~ (l < k)
  <2> SUFFICES ASSUME l < k PROVE FALSE
    OBVIOUS
  <2>1. l * n + n <= k * n
    BY Products
  <2> QED
    BY <1>1, <2>1
<1>4. k = l
  BY <1>2, <1>3
<1> QED
  BY <1>1, <1>4

LEMMA SNsDivided ==
    ASSUME NEW length \in Nat, NEW l, IsLeaders(l), NEW offset \in Nat
    PROVE  /\ UNION {SegmentSNs(length, l, offset, i) : i \in 1 .. Len(l)} = offset .. offset + length - 1
           /\ \A i, j \in 1 .. Len(l) :
                i # j => SegmentSNs(length, l, offset, i) \cap SegmentSNs(length, l, offset, j) = {}
<1> DEFINE n == Len(l)
           q == length \div n
           r == length % n
           more(i) == IF i <= r THEN 1 ELSE 0
<1>1. n \in Nat /\ n > 0
  BY DEF IsLeaders
<1>2. length = n * q + r /\ r \in 0 .. n - 1 /\ q \in Nat
  <2> HIDE DEF n
  <2> QED
    BY <1>1
<1>3. \A i \in 1 .. n : SegmentSNs(length, l, offset, i)
                          = {offset + i - 1 + k * n : k \in 0 .. q + more(i) - 1}
  BY DEF SegmentSNs
<1> HIDE DEF n, q, r
<1>4. n * q = q * n /\ q * n \in Nat
  BY <1>1, <1>2
<1>5. ASSUME NEW i \in 1 .. n, NEW k \in 0 .. q + more(i) - 1
      PROVE  offset + i - 1 + k * n \in offset .. offset + length - 1
  <2>1. k \in Nat /\ k * n \in Nat
    BY <1>1, <1>2
  <2>2. CASE k < q
    <3>1. k * n + n <= q * n
      BY <1>1, <1>2, <2>1, <2>2, Products
    <3> QED
      BY <1>1, <1>2, <1>4, <2>1, <3>1
  <2>3. CASE k = q /\ i <= r
    BY <1>1, <1>2, <1>4, <2>3
  <2> QED
    BY <1>2, <2>1, <2>2, <2>3
<1>6. ASSUME NEW sn \in offset .. offset + length - 1
      PROVE  \E i \in 1 .. n : \E k \in 0 .. q + more(i) - 1 : sn = offset + i - 1 + k * n
  <2> DEFINE d == sn - offset
             k == d \div n
             i == 1 + (d % n)
  <2>1. d \in Nat /\ d < length /\ sn = offset + d
    OBVIOUS
  <2>2. d = n * k + (d % n) /\ d % n \in 0 .. n - 1 /\ k \in Nat
    <3> HIDE DEF d
    <3> QED
      BY <1>1, <2>1
  <2>3. i \in 1 .. n /\ d = k * n + (i - 1)
    BY <1>1, <2>2
  <2> HIDE DEF d, k, i
  <2>4. k * n \in Nat
    BY <1>1, <2>2
  <2>5. k <= q
    <3> SUFFICES ASSUME q < k PROVE FALSE
      BY <1>2, <2>2
    <3>1. q * n + n <= k * n
      BY <1>1, <1>2, <2>2, Products
    <3> QED
      BY <1>1, <1>2, <1>4, <2>1, <2>3, <2>4, <3>1
  <2>6. k = q => i <= r
    BY <1>1, <1>2, <1>4, <2>1, <2>3, <2>4
  <2>7. k \in 0 .. q + more(i) - 1
    BY <1>2, <2>2, <2>5, <2>6
  <2>8. sn = offset + i - 1 + k * n
    BY <1>1, <2>1, <2>3, <2>4
  <2> QED
    BY <2>3, <2>7, <2>8
<1>7. ASSUME NEW i \in 1 .. n, NEW j \in 1 .. n, NEW k \in 0 .. q + more(i) - 1,
             NEW m \in 0 .. q + more(j) - 1, offset + i - 1 + k * n = offset + j - 1 + m * n
      PROVE  i = j
  <2>1. k \in Nat /\ m \in Nat /\ i - 1 \in 0 .. n - 1 /\ j - 1 \in 0 .. n - 1
    BY <1>1
  <2>2. k * n \in Nat /\ m * n \in Nat
    BY <1>1, <2>1
  <2>3. k * n + (i - 1) = m * n + (j - 1)
    BY <1>1, <1>7, <2>1, <2>2
  <2>4. i - 1 = j - 1
    BY <1>1, <2>1, <2>3, Unique
  <2> QED
    BY <1>1, <2>4
<1>8. UNION {SegmentSNs(length, l, offset, i) : i \in 1 .. n} = offset .. offset + length - 1
  <2>1. ASSUME NEW i \in 1 .. n, NEW sn \in SegmentSNs(length, l, offset, i)
        PROVE  sn \in offset .. offset + length - 1
    <3>1. PICK k \in 0 .. q + more(i) - 1 : sn = offset + i - 1 + k * n
      BY <1>3
    <3> QED
      BY <1>5, <3>1
  <2>2. ASSUME NEW sn \in offset .. offset + length - 1
        PROVE  \E i \in 1 .. n : sn \in SegmentSNs(length, l, offset, i)
    <3>1. PICK i \in 1 .. n : \E k \in 0 .. q + more(i) - 1 : sn = offset + i - 1 + k * n
      BY <1>6
    <3> QED
      BY <1>3, <3>1
  <2> QED
    BY <2>1, <2>2
<1>9. ASSUME NEW i \in 1 .. n, NEW j \in 1 .. n, i # j,
             NEW sn \in SegmentSNs(length, l, offset, i), sn \in SegmentSNs(length, l, offset, j)
      PROVE  FALSE
  <2>1. PICK k \in 0 .. q + more(i) - 1 : sn = offset + i - 1 + k * n
    BY <1>3
  <2>2. PICK m \in 0 .. q + more(j) - 1 : sn = offset + j - 1 + m * n
    BY <1>3, <1>9
  <2> QED
    BY <1>7, <1>9, <2>1, <2>2
<1> QED
  BY <1>8, <1>9 DEF n

LEMMA OwnerLeads ==
    ASSUME NEW l, IsLeaders(l), NEW e \in Nat, NEW b \in Nat
    PROVE  BucketOwner(b, e, l) \in Range(l)
<1> DEFINE sorted == InOrder(Range(l))
           n == Len(l)
<1>1. n \in Nat /\ n > 0 /\ l \in [1 .. n -> Range(l)] /\ Range(l) \in SUBSET Node
  BY DEF IsLeaders, Range
<1>2. IsFiniteSet(1 .. n) /\ Cardinality(1 .. n) = n
  <2> HIDE DEF n
  <2> QED
    BY <1>1, FS_Interval
<1>3. l \in Surjection(1 .. n, Range(l)) /\ l \in Injection(1 .. n, Range(l))
  BY <1>1 DEF IsLeaders, Range, Surjection, Injection, IsInjective
<1>4. Cardinality(Range(l)) = n
  BY <1>2, <1>3, FS_Surjection
<1>5. Lists(sorted, Range(l))
  BY <1>1, InOrderLists
<1> HIDE DEF n, sorted
<1>6. (b + e) % n \in 0 .. n - 1
  BY <1>1
<1>7. sorted[1 + ((b + e) % n)] \in Range(l)
  BY <1>1, <1>4, <1>5, <1>6 DEF Lists
<1> QED
  BY <1>7 DEF BucketOwner, sorted, n

LEMMA BucketsDivided ==
    ASSUME NEW l, IsLeaders(l), NEW e \in Nat, NEW sl, NEW offset
    PROVE  LET c == CreateSegments(sl, l, e, offset)
           IN  /\ UNION {c[i].buckets : i \in 1 .. Len(l)} = Bucket
               /\ \A i, j \in 1 .. Len(l) : i # j => c[i].buckets \cap c[j].buckets = {}
<1> DEFINE c == CreateSegments(sl, l, e, offset)
<1>1. \A i \in 1 .. Len(l) : c[i].buckets = {b \in Bucket : BucketOwner(b, e, l) = l[i]}
  BY DEF CreateSegments
<1>2. \A b \in Bucket : \E i \in 1 .. Len(l) : BucketOwner(b, e, l) = l[i]
  <2> SUFFICES ASSUME NEW b \in Bucket PROVE \E i \in 1 .. Len(l) : BucketOwner(b, e, l) = l[i]
    OBVIOUS
  <2>1. b \in Nat
    BY PolicyAssumption DEF Bucket
  <2>2. BucketOwner(b, e, l) \in Range(l)
    BY <2>1, OwnerLeads
  <2> QED
    BY <2>2 DEF Range, IsLeaders
<1>3. \A i, j \in 1 .. Len(l) : l[i] = l[j] => i = j
  BY DEF IsLeaders
<1> HIDE DEF c
<1>4. UNION {c[i].buckets : i \in 1 .. Len(l)} = Bucket
  BY <1>1, <1>2
<1>5. \A i, j \in 1 .. Len(l) : i # j => c[i].buckets \cap c[j].buckets = {}
  BY <1>1, <1>3
<1> QED
  BY <1>4, <1>5 DEF c

-----------------------------------------------------------------------------
(* The inductive invariant *)

EpochData == [policy : PolicyTypes, leaders : Seq(Node), first : Nat, last : Nat, aborted : SUBSET Nat]

Past == 0 .. Len(decided) - 1
Start(e) == IF e = 0 THEN 0 ELSE LastSN(e - 1) + 1

\* An epoch follows from those before it.
EpochOK(e) ==
    LET d == decided[e + 1]
    IN  /\ d.first = Start(e) /\ d.policy = PolicyAfter(e) /\ PolicyFit(d.policy, e)
        /\ d.leaders \in GetLeaders(config.policy, d.policy, e)
        /\ d.last = d.first + EpochLen(config.segmentLength, d.leaders) - 1

History ==
    /\ config \in Deployments
    /\ decided \in Seq(EpochData) /\ Len(decided) <= config.epochs
    /\ \A e \in Past : EpochOK(e)
    /\ \A e, f \in Past : e < f => LastSN(e) < FirstSN(f)

\* The manager has read the decided entries in order, and knows what follows from them.
HasRead ==
    /\ epoch < Len(decided) =>
         /\ handled \in FirstSN(epoch) .. LastSN(epoch) + 1
         /\ Reads(config.policy, decided[epoch + 1], epoch)[handled]
               = [suspects |-> suspects, policy |-> policy]
    /\ epoch = Len(decided) => suspects = {} /\ policy = PolicyAfter(epoch) /\ handled = Start(epoch)

\* Its segments are those of leaders that follow from the entries decided before.
HasSegments ==
    \E l \in GetLeaders(config.policy, PolicyAfter(epoch), epoch) :
        /\ segments = CreateSegments(config.segmentLength, l, epoch, Start(epoch))
        /\ lastEpochSN = Start(epoch) + EpochLen(config.segmentLength, l) - 1

\* It sends one checkpoint per epoch, after the last entry.
Position ==
    /\ pc \in {"issue", "read", "checkpoint", "wait", "exit"}
    /\ pc \in {"issue", "read"} => handled <= lastEpochSN
    /\ pc \in {"checkpoint", "wait", "exit"} => epoch < Len(decided) /\ handled = lastEpochSN + 1
    /\ sent = IF pc \in {"wait", "exit"} THEN epoch + 1 ELSE epoch

ManagerOK ==
    /\ epoch \in 0 .. Len(decided) /\ handled \in 0 .. firstEmpty
    /\ HasRead /\ HasSegments /\ Position /\ toIssue \subseteq DOMAIN segments

LogOK ==
    /\ committed \subseteq Decided /\ firstEmpty \in Nat
    /\ 0 .. firstEmpty - 1 \subseteq committed /\ firstEmpty \notin committed
    /\ last \in Int /\ -1 <= last /\ last <= lastEpochSN /\ 0 .. last \subseteq committed

TransferOK == arriving \cup backlog \cup fetching \cup missing \subseteq Decided

KillersOK ==
    /\ killer \in [Epoch -> {"off", "started", "subscribed", "waiting", "entry", "done"}]
    /\ killQ \in [Epoch -> Seq(Past)]
    /\ \A e \in Epoch : (killer[e] # "off" => e <= epoch)
                        /\ (killer[e] \in {"entry", "done"} => e < Len(decided))

CheckpointsOK ==
    /\ own \in 0 .. sent /\ arrived \in [Epoch -> 0 .. N - 1]
    /\ checkpoint \in Past \cup {-1} /\ pending \in [Epoch -> 0 .. Quorum - 1] /\ stuck \in BOOLEAN
    /\ stableQ \in Seq(Past) /\ catchQ \in Seq(Past)

NodeInv == History /\ ManagerOK /\ LogOK /\ TransferOK /\ KillersOK /\ CheckpointsOK /\ FetchedIsKept

-----------------------------------------------------------------------------
(* What has been decided *)

LEMMA ConfigType ==
    ASSUME config \in Deployments
    PROVE  /\ config.policy \in Policy /\ config.segmentLength \in Nat
           /\ config.epochs \in Nat /\ config.epochs <= Epochs /\ Epochs \in Nat
           /\ config.lossy \in {0, 1}
BY NodeAssumption DEF Deployment

LEMMA EpochFacts ==
    ASSUME History, NEW e \in Past
    PROVE  /\ e \in Nat /\ e + 1 \in 1 .. Len(decided) /\ decided[e + 1] \in EpochData
           /\ FirstSN(e) \in Nat /\ LastSN(e) \in Nat /\ FirstSN(e) <= LastSN(e) /\ FirstSN(e) = Start(e)
           /\ IsLeaders(decided[e + 1].leaders) /\ PolicyFit(decided[e + 1].policy, e)
           /\ decided[e + 1].policy = PolicyAfter(e)
           /\ \A l \in GetLeaders(config.policy, PolicyAfter(e), e) :
                Start(e) + EpochLen(config.segmentLength, l) - 1 = LastSN(e)
<1> DEFINE d == decided[e + 1]
<1>1. e \in Nat /\ e + 1 \in 1 .. Len(decided) /\ d \in EpochData
  BY DEF History, Past
<1>2. d.first \in Nat /\ d.last \in Nat
  BY <1>1 DEF EpochData
<1>3. config.policy \in Policy /\ config.segmentLength \in Nat
  BY ConfigType DEF History
<1>4. /\ d.first = Start(e) /\ d.policy = PolicyAfter(e) /\ PolicyFit(d.policy, e)
      /\ d.leaders \in GetLeaders(config.policy, d.policy, e)
      /\ d.last = d.first + EpochLen(config.segmentLength, d.leaders) - 1
  BY DEF History, EpochOK
<1> HIDE DEF d
<1>5. IsLeaders(d.leaders)
  BY <1>1, <1>3, <1>4, LeadersFit
<1>6. EpochLen(config.segmentLength, d.leaders) \in Nat /\ EpochLen(config.segmentLength, d.leaders) > 0
  BY <1>3, <1>5, EpochLenFit
<1>7. ASSUME NEW l \in GetLeaders(config.policy, PolicyAfter(e), e)
      PROVE  Start(e) + EpochLen(config.segmentLength, l) - 1 = LastSN(e)
  <2>1. Len(l) = Len(d.leaders)
    BY <1>1, <1>3, <1>4, LeadersFit
  <2>2. EpochLen(config.segmentLength, l) = EpochLen(config.segmentLength, d.leaders)
    BY <2>1 DEF EpochLen
  <2> QED
    BY <1>4, <2>2 DEF LastSN, d
<1>8. FirstSN(e) = d.first /\ LastSN(e) = d.last
  BY DEF FirstSN, LastSN, d
<1> QED
  BY <1>1, <1>2, <1>4, <1>5, <1>6, <1>7, <1>8 DEF d

\* What the next epoch starts from.
LEMMA StartFacts ==
    ASSUME History, NEW e \in 0 .. Len(decided)
    PROVE  Start(e) \in Nat /\ PolicyFit(PolicyAfter(e), e)
<1>1. CASE e = 0
  BY <1>1, NewFit DEF Start, PolicyAfter
<1>2. CASE e # 0
  <2> DEFINE d == decided[e]
             R == Reads(config.policy, d, e - 1)
  <2>0. Len(decided) \in Nat
    BY DEF History
  <2>1. e - 1 \in Past /\ e - 1 \in Nat /\ (e - 1) + 1 = e
    BY <1>2, <2>0 DEF Past
  <2>2. /\ FirstSN(e - 1) \in Nat /\ LastSN(e - 1) \in Nat /\ FirstSN(e - 1) <= LastSN(e - 1)
        /\ IsLeaders(d.leaders) /\ PolicyFit(d.policy, e - 1)
    BY <2>1, EpochFacts
  <2>3. FirstSN(e - 1) = d.first /\ LastSN(e - 1) = d.last
    BY <2>1 DEF FirstSN, LastSN
  <2> HIDE DEF d
  <2>4. /\ d.first \in Int /\ d.last \in Int /\ d.first <= d.last + 1
        /\ LastSN(e - 1) + 1 \in d.first .. d.last + 1
    BY <2>2, <2>3
  <2>5. Known(R[LastSN(e - 1) + 1], e - 1)
    BY <2>1, <2>2, <2>4, ReadsKnown
  <2>6. PolicyFit(R[LastSN(e - 1) + 1].policy, e)
    BY <2>1, <2>5 DEF Known
  <2>7. PolicyAfter(e) = R[LastSN(e - 1) + 1].policy
    BY <1>2 DEF PolicyAfter, d
  <2> QED
    BY <1>2, <2>2, <2>6, <2>7 DEF Start
<1> QED
  BY <1>1, <1>2

LEMMA DecidedIs ==
    ASSUME History
    PROVE  /\ Decided = 0 .. Start(Len(decided)) - 1 /\ SNs = Decided
           /\ Len(decided) \in Nat /\ Start(Len(decided)) \in Nat
           /\ \A e \in Past : LastSN(e) < Start(Len(decided))
<1>1. Len(decided) \in Nat /\ (decided = <<>> <=> Len(decided) = 0)
  BY EmptySeq DEF History
<1>2. Start(Len(decided)) \in Nat
  BY <1>1, StartFacts
<1>3. CASE decided = <<>>
  BY <1>1, <1>3 DEF Decided, SNs, Start, Past
<1>4. CASE decided # <<>>
  <2> DEFINE n == Len(decided)
  <2>1. n - 1 \in Past /\ (n - 1) + 1 = n
    BY <1>1, <1>4 DEF Past
  <2>2. Start(n) = LastSN(n - 1) + 1 /\ decided[n].last = LastSN(n - 1)
    BY <1>1, <1>4, <2>1 DEF Start, LastSN
  <2>3. LastSN(n - 1) \in Nat /\ FirstSN(n - 1) <= LastSN(n - 1) /\ FirstSN(n - 1) \in Nat
    BY <2>1, EpochFacts
  <2>4. Decided = 0 .. Start(n) - 1 /\ SNs = Decided
    BY <1>4, <2>2, <2>3 DEF Decided, SNs
  <2>5. ASSUME NEW e \in Past PROVE LastSN(e) < Start(n)
    <3>1. LastSN(e) \in Nat /\ e \in Nat
      BY EpochFacts
    <3>2. CASE e = n - 1
      BY <2>2, <2>3, <3>2
    <3>3. CASE e # n - 1
      <4>1. e < n - 1
        BY <1>1, <3>3 DEF Past
      <4>2. LastSN(e) < FirstSN(n - 1)
        BY <2>1, <4>1 DEF History
      <4> QED
        BY <2>2, <2>3, <3>1, <4>2
    <3> QED
      BY <3>2, <3>3
  <2> QED
    BY <1>1, <1>2, <2>4, <2>5
<1> QED
  BY <1>3, <1>4

LEMMA HistoryKept ==
    ASSUME History, UNCHANGED world
    PROVE  /\ History' /\ Decided' = Decided /\ Past' = Past /\ Len(decided)' = Len(decided)
           /\ \A e : /\ Start(e)' = Start(e) /\ PolicyAfter(e)' = PolicyAfter(e)
                     /\ FirstSN(e)' = FirstSN(e) /\ LastSN(e)' = LastSN(e)
<1>1. config' = config /\ decided' = decided
  BY DEF world
<1>2. \A e : FirstSN(e)' = FirstSN(e) /\ LastSN(e)' = LastSN(e)
  BY <1>1 DEF FirstSN, LastSN
<1>3. Decided' = Decided /\ Past' = Past
  BY <1>1 DEF Decided, Past
<1>4. \A e : Start(e)' = Start(e) /\ PolicyAfter(e)' = PolicyAfter(e)
  BY <1>1, <1>2 DEF Start, PolicyAfter
<1>5. \A e : EpochOK(e) => EpochOK(e)'
  BY <1>1, <1>4 DEF EpochOK
<1> QED
  BY <1>1, <1>2, <1>3, <1>4, <1>5 DEF History

-----------------------------------------------------------------------------
(* The initial states *)

LEMMA InitInv == Init => NodeInv
<1> SUFFICES ASSUME Init PROVE NodeInv
  OBVIOUS
<1>1. /\ config \in Deployments /\ decided = <<>> /\ epoch = 0 /\ handled = 0 /\ firstEmpty = 0
      /\ suspects = {} /\ policy = NewPolicy /\ pc = "issue" /\ sent = 0
  BY DEF Init
<1>2. Len(decided) = 0 /\ Past = {} /\ decided \in Seq(EpochData)
  <2>1. <<>> \in Seq(EpochData) /\ Len(<<>>) = 0
    OBVIOUS
  <2> QED
    BY <1>1, <2>1 DEF Past
<1>3. History
  BY <1>1, <1>2, ConfigType DEF History
<1>4. Start(0) = 0 /\ PolicyAfter(0) = NewPolicy
  BY DEF Start, PolicyAfter
<1>5. PICK l \in GetLeaders(config.policy, NewPolicy, 0) :
        /\ segments = CreateSegments(config.segmentLength, l, 0, 0)
        /\ lastEpochSN = EpochLen(config.segmentLength, l) - 1
        /\ toIssue = 1 .. Len(l)
  BY DEF Init
<1>6. IsLeaders(l)
  BY <1>1, <1>5, ConfigType, NewFit, LeadersFit
<1>7. EpochLen(config.segmentLength, l) \in Nat /\ EpochLen(config.segmentLength, l) > 0
  BY <1>1, <1>6, ConfigType, EpochLenFit
<1>8. HasSegments
  BY <1>1, <1>4, <1>5, <1>7 DEF HasSegments
<1>9. toIssue \subseteq DOMAIN segments
  BY <1>5 DEF CreateSegments
<1>10. ManagerOK
  <2>1. HasRead
    BY <1>1, <1>2, <1>4 DEF HasRead
  <2>2. Position
    BY <1>1, <1>5, <1>7 DEF Position
  <2> QED
    BY <1>1, <1>2, <1>8, <1>9, <2>1, <2>2 DEF ManagerOK
<1>11. LogOK
  BY <1>5, <1>7 DEF Init, LogOK
<1>12. TransferOK /\ FetchedIsKept
  BY DEF Init, TransferOK, FetchedIsKept
<1>13. KillersOK
  BY DEF Init, KillersOK
<1>14. CheckpointsOK
  <2>1. 0 \in 0 .. Quorum - 1 /\ 0 \in 0 .. N - 1
    BY Numbers
  <2>2. arrived \in [Epoch -> 0 .. N - 1] /\ pending \in [Epoch -> 0 .. Quorum - 1]
    BY <2>1 DEF Init
  <2>3. stableQ \in Seq(Past) /\ catchQ \in Seq(Past)
    BY DEF Init
  <2>4. own = 0 /\ sent = 0 /\ checkpoint = -1
    BY DEF Init
  <2>5. stuck = FALSE
    BY DEF Init
  <2>6. own \in 0 .. sent /\ checkpoint \in Past \cup {-1}
    BY <2>4
  <2> QED
    BY <2>2, <2>3, <2>5, <2>6 DEF CheckpointsOK
<1> QED
  BY <1>3, <1>10, <1>11, <1>12, <1>13, <1>14 DEF NodeInv

-----------------------------------------------------------------------------
(* What the steps share *)

\* publishEntries finds the first hole, and never goes back.
LEMMA Stored ==
    ASSUME History, LogOK, NEW S \in SUBSET Decided, StoreEntry(S)
    PROVE  /\ committed' = committed \cup S /\ committed' \subseteq Decided
           /\ firstEmpty' \in Nat /\ firstEmpty <= firstEmpty'
           /\ 0 .. firstEmpty' - 1 \subseteq committed' /\ firstEmpty' \notin committed'
<1> DEFINE all == committed \cup S
           T == {k \in Nat : k \notin all}
           Hole(sn) == sn \notin all /\ 0 .. sn - 1 \subseteq all
           m == Start(Len(decided))
<1>1. all \subseteq Decided /\ committed \subseteq all
  BY DEF LogOK
<1>2. Decided = 0 .. m - 1 /\ m \in Nat
  BY DecidedIs
<1>3. committed' = all /\ firstEmpty' = CHOOSE sn \in 0 .. Cardinality(all) : Hole(sn)
  BY DEF StoreEntry
<1> HIDE DEF all, m
<1>4. m \in T
  BY <1>1, <1>2
<1>5. PICK k \in T : \A i \in T : k <= i
  BY <1>4, LeastOf
<1>6. k \in Nat /\ Hole(k)
  BY <1>5
<1>7. k <= Cardinality(all)
  <2>1. IsFiniteSet(0 .. m - 1)
    BY <1>2, FS_Interval
  <2>2. IsFiniteSet(all)
    BY <1>1, <1>2, <2>1, FS_Subset
  <2>3. Cardinality(0 .. k - 1) = k
    BY <1>6, FS_Interval
  <2>4. Cardinality(0 .. k - 1) <= Cardinality(all)
    BY <1>6, <2>2, FS_Subset
  <2> QED
    BY <2>3, <2>4
<1>8. Cardinality(all) \in Nat
  <2>1. IsFiniteSet(0 .. m - 1)
    BY <1>2, FS_Interval
  <2>2. IsFiniteSet(all)
    BY <1>1, <1>2, <2>1, FS_Subset
  <2> QED
    BY <2>2, FS_CardinalityType
<1>9. k \in 0 .. Cardinality(all)
  BY <1>6, <1>7, <1>8
<1>10. firstEmpty' \in 0 .. Cardinality(all) /\ Hole(firstEmpty')
  <2> HIDE DEF Hole
  <2> QED
    BY <1>3, <1>6, <1>9
<1>11. firstEmpty' \in Nat /\ firstEmpty' \notin all /\ 0 .. firstEmpty' - 1 \subseteq all
  <2>1. PICK f : f = firstEmpty' /\ f \in 0 .. Cardinality(all) /\ Hole(f)
    BY <1>10
  <2>2. f \in Nat
    BY <1>8, <2>1
  <2> QED
    BY <2>1, <2>2
<1>12. firstEmpty <= firstEmpty'
  <2>1. firstEmpty \in Nat /\ 0 .. firstEmpty - 1 \subseteq all
    BY <1>1 DEF LogOK
  <2> QED
    BY <1>11, <2>1
<1> QED
  BY <1>1, <1>3, <1>11, <1>12 DEF all

LEMMA ManagerKept ==
    ASSUME History, ManagerOK, UNCHANGED <<world, managerVars, sent>>,
           firstEmpty \in Nat, firstEmpty' \in Nat, firstEmpty <= firstEmpty'
    PROVE  ManagerOK'
<1>1. /\ config' = config /\ decided' = decided /\ pc' = pc /\ epoch' = epoch /\ handled' = handled
      /\ suspects' = suspects /\ policy' = policy /\ segments' = segments
      /\ lastEpochSN' = lastEpochSN /\ toIssue' = toIssue /\ sent' = sent
  BY DEF world, managerVars
<1>2. \A e : /\ Start(e)' = Start(e) /\ PolicyAfter(e)' = PolicyAfter(e)
             /\ FirstSN(e)' = FirstSN(e) /\ LastSN(e)' = LastSN(e)
  BY HistoryKept
<1>3. HasRead'
  BY <1>1, <1>2 DEF ManagerOK, HasRead
<1>4. HasSegments'
  BY <1>1, <1>2 DEF ManagerOK, HasSegments
<1>5. Position'
  BY <1>1 DEF ManagerOK, Position
<1>6. epoch' \in 0 .. Len(decided') /\ handled' \in 0 .. firstEmpty' /\ toIssue' \subseteq DOMAIN segments'
  BY <1>1 DEF ManagerOK
<1> QED
  BY <1>3, <1>4, <1>5, <1>6 DEF ManagerOK

LEMMA LogKept ==
    ASSUME History, LogOK, UNCHANGED <<world, logVars, last, lastEpochSN>>
    PROVE  LogOK'
BY HistoryKept DEF LogOK, logVars

LEMMA TransferKept ==
    ASSUME History, TransferOK, UNCHANGED <<world, arriving, backlog, fetchVars>>
    PROVE  TransferOK'
BY HistoryKept DEF TransferOK, fetchVars

LEMMA KillersKept ==
    ASSUME History, KillersOK, UNCHANGED <<world, killVars, epoch>>
    PROVE  KillersOK'
BY HistoryKept DEF KillersOK, killVars

LEMMA CheckpointsKept ==
    ASSUME History, CheckpointsOK, UNCHANGED <<world, msgVars, checkVars>>
    PROVE  CheckpointsOK'
BY HistoryKept DEF CheckpointsOK, msgVars, checkVars

LEMMA FetchedKept ==
    ASSUME FetchedIsKept, UNCHANGED <<arriving, backlog, issued, fetchVars>>, committed \subseteq committed'
    PROVE  FetchedIsKept'
BY DEF FetchedIsKept, fetchVars

LEMMA LogStored ==
    ASSUME History, LogOK, NEW S \in SUBSET Decided, StoreEntry(S), UNCHANGED <<world, last, lastEpochSN>>
    PROVE  LogOK' /\ firstEmpty \in Nat /\ firstEmpty' \in Nat /\ firstEmpty <= firstEmpty'
<1>1. /\ committed' = committed \cup S /\ committed' \subseteq Decided
      /\ firstEmpty' \in Nat /\ firstEmpty <= firstEmpty'
      /\ 0 .. firstEmpty' - 1 \subseteq committed' /\ firstEmpty' \notin committed'
  BY Stored
<1>2. Decided' = Decided
  BY HistoryKept
<1> QED
  BY <1>1, <1>2 DEF LogOK

\* An epoch whose segments the manager has issued ends where it thinks.
LEMMA PastBelow ==
    ASSUME History, ManagerOK
    PROVE  /\ epoch < Len(decided) => epoch \in Past /\ lastEpochSN = LastSN(epoch)
           /\ \A e \in Past : e <= epoch => LastSN(e) <= lastEpochSN
           /\ lastEpochSN \in Nat
<1>1. PICK l \in GetLeaders(config.policy, PolicyAfter(epoch), epoch) :
          lastEpochSN = Start(epoch) + EpochLen(config.segmentLength, l) - 1
  BY DEF ManagerOK, HasSegments
<1>2. epoch \in 0 .. Len(decided) /\ epoch \in Nat /\ Len(decided) \in Nat
  BY DecidedIs DEF ManagerOK
<1>3. Start(epoch) \in Nat /\ PolicyFit(PolicyAfter(epoch), epoch)
  BY <1>2, StartFacts
<1>4. EpochLen(config.segmentLength, l) \in Nat /\ EpochLen(config.segmentLength, l) > 0
  BY <1>1, <1>2, <1>3, ConfigType, LeadersFit, EpochLenFit DEF History
<1>5. epoch < Len(decided) => epoch \in Past /\ lastEpochSN = LastSN(epoch)
  BY <1>1, <1>2, EpochFacts DEF Past
<1>6. ASSUME NEW e \in Past, e <= epoch PROVE LastSN(e) <= lastEpochSN
  <2>1. e \in Nat /\ LastSN(e) \in Nat
    BY EpochFacts
  <2>2. CASE epoch = Len(decided)
    <3>1. LastSN(e) < Start(epoch)
      BY <2>2, DecidedIs
    <3> QED
      BY <1>1, <1>3, <1>4, <2>1, <3>1
  <2>3. CASE epoch < Len(decided) /\ e = epoch
    BY <1>5, <2>1, <2>3
  <2>4. CASE epoch < Len(decided) /\ e < epoch
    <3>1. LastSN(e) < FirstSN(epoch)
      BY <1>5, <2>4 DEF History
    <3>2. FirstSN(epoch) \in Nat /\ LastSN(epoch) \in Nat /\ FirstSN(epoch) <= LastSN(epoch)
      BY <1>5, <2>4, EpochFacts
    <3> QED
      BY <1>5, <2>1, <2>4, <3>1, <3>2
  <2> QED
    BY <1>2, <1>6, <2>1, <2>2, <2>3, <2>4
<1> QED
  BY <1>1, <1>3, <1>4, <1>5, <1>6

-----------------------------------------------------------------------------
(* The log, the state transfer and the backlog *)

LEMMA CommitEntryStep ==
    ASSUME NodeInv, NEW sn, CommitEntry(sn)
    PROVE  NodeInv'
<1>1. /\ History /\ ManagerOK /\ LogOK /\ TransferOK /\ KillersOK /\ CheckpointsOK /\ FetchedIsKept
      /\ {sn} \in SUBSET Decided /\ StoreEntry({sn})
      /\ UNCHANGED <<world, msgVars, checkVars, killVars, managerVars, ordererVars, fetchVars>>
  BY DEF NodeInv, CommitEntry
<1>2. /\ UNCHANGED <<world, managerVars, sent>> /\ UNCHANGED <<world, last, lastEpochSN>>
      /\ UNCHANGED <<world, arriving, backlog, fetchVars>> /\ UNCHANGED <<world, killVars, epoch>>
      /\ UNCHANGED <<arriving, backlog, issued, fetchVars>>
  BY <1>1 DEF msgVars, managerVars, ordererVars
<1>3. LogOK' /\ firstEmpty \in Nat /\ firstEmpty' \in Nat /\ firstEmpty <= firstEmpty'
  BY <1>1, <1>2, LogStored
<1>4. committed \subseteq committed'
  BY <1>1 DEF StoreEntry
<1>5. History' /\ ManagerOK' /\ TransferOK' /\ KillersOK'
  BY <1>1, <1>2, <1>3, HistoryKept, ManagerKept, TransferKept, KillersKept
<1>6. CheckpointsOK' /\ FetchedIsKept'
  BY <1>1, <1>2, <1>4, CheckpointsKept, FetchedKept
<1> QED
  BY <1>3, <1>5, <1>6 DEF NodeInv

LEMMA FetchDoneStep ==
    ASSUME NodeInv, NEW sn, FetchDone(sn)
    PROVE  NodeInv'
<1>1. /\ History /\ ManagerOK /\ LogOK /\ TransferOK /\ KillersOK /\ CheckpointsOK /\ FetchedIsKept
      /\ fetching' = fetching \ {sn} /\ missing' = missing
      /\ UNCHANGED <<world, msgVars, checkVars, killVars, managerVars, ordererVars, logVars>>
  BY DEF NodeInv, FetchDone
<1>2. /\ UNCHANGED <<world, managerVars, sent>> /\ UNCHANGED <<world, logVars, last, lastEpochSN>>
      /\ UNCHANGED <<world, killVars, epoch>> /\ UNCHANGED <<arriving, backlog, issued>>
      /\ firstEmpty' = firstEmpty /\ committed' = committed
  BY <1>1 DEF msgVars, managerVars, ordererVars, logVars
<1>3. firstEmpty \in Nat /\ firstEmpty' \in Nat /\ firstEmpty <= firstEmpty'
  BY <1>1, <1>2 DEF LogOK
<1>4. History' /\ Decided' = Decided /\ ManagerOK' /\ LogOK' /\ KillersOK' /\ CheckpointsOK'
  BY <1>1, <1>2, <1>3, HistoryKept, ManagerKept, LogKept, KillersKept, CheckpointsKept
<1>5. TransferOK' /\ FetchedIsKept'
  BY <1>1, <1>2, <1>4 DEF TransferOK, FetchedIsKept
<1> QED
  BY <1>4, <1>5 DEF NodeInv

LEMMA HandleResponseStep ==
    ASSUME NodeInv, NEW sn, HandleResponse(sn)
    PROVE  NodeInv'
<1>1. /\ History /\ ManagerOK /\ LogOK /\ TransferOK /\ KillersOK /\ CheckpointsOK /\ FetchedIsKept
      /\ sn \in fetching /\ missing' = missing \ {sn}
      /\ UNCHANGED <<world, msgVars, checkVars, killVars, managerVars, issued, last, backlog, fetching>>
  BY DEF NodeInv, HandleResponse
<1>2. /\ UNCHANGED <<world, managerVars, sent>> /\ UNCHANGED <<world, last, lastEpochSN>>
      /\ UNCHANGED <<world, killVars, epoch>>
  BY <1>1 DEF msgVars, managerVars
<1>3. sn \in Decided /\ sn \in Nat /\ last \in Int /\ Decided' = Decided
  BY <1>1, HistoryKept, DecidedIs DEF TransferOK, LogOK
<1>4. /\ LogOK' /\ firstEmpty \in Nat /\ firstEmpty' \in Nat /\ firstEmpty <= firstEmpty'
      /\ committed \subseteq committed' /\ arriving \subseteq arriving' /\ arriving' \subseteq arriving \cup {sn}
      /\ sn \in committed' \cup arriving'
  <2>1. CASE sn > last /\ sn \in issued
    <3>1. StoreEntry({sn}) /\ arriving' = arriving
      BY <1>3, <2>1 DEF HandleResponse
    <3>2. {sn} \in SUBSET Decided
      BY <1>3
    <3>3. LogOK' /\ firstEmpty \in Nat /\ firstEmpty' \in Nat /\ firstEmpty <= firstEmpty'
      BY <1>1, <1>2, <3>1, <3>2, LogStored
    <3> QED
      BY <3>1, <3>3 DEF StoreEntry
  <2>2. CASE sn > last /\ sn \notin issued
    <3>1. UNCHANGED logVars /\ arriving' = arriving \cup {sn}
      BY <1>3, <2>2 DEF HandleResponse
    <3>2. UNCHANGED <<world, logVars, last, lastEpochSN>>
      BY <1>2, <3>1
    <3>3. LogOK'
      BY <1>1, <3>2, LogKept
    <3> QED
      BY <1>1, <3>1, <3>3 DEF logVars, LogOK
  <2>3. CASE sn <= last
    <3>1. UNCHANGED logVars /\ arriving' = arriving
      BY <1>3, <2>3 DEF HandleResponse
    <3>2. UNCHANGED <<world, logVars, last, lastEpochSN>>
      BY <1>2, <3>1
    <3>3. LogOK'
      BY <1>1, <3>2, LogKept
    <3>4. sn \in committed
      BY <1>1, <1>3, <2>3 DEF LogOK
    <3> QED
      BY <1>1, <3>1, <3>3, <3>4 DEF logVars, LogOK
  <2> QED
    BY <1>3, <2>1, <2>2, <2>3
<1>5. History' /\ ManagerOK' /\ KillersOK' /\ CheckpointsOK'
  BY <1>1, <1>2, <1>4, HistoryKept, ManagerKept, KillersKept, CheckpointsKept
<1>6. TransferOK'
  BY <1>1, <1>3, <1>4 DEF TransferOK
<1>7. FetchedIsKept'
  BY <1>1, <1>4 DEF FetchedIsKept
<1> QED
  BY <1>4, <1>5, <1>6, <1>7 DEF NodeInv

LEMMA BacklogAppendStep ==
    ASSUME NodeInv, NEW sn, BacklogAppend(sn)
    PROVE  NodeInv'
<1>1. /\ History /\ ManagerOK /\ LogOK /\ TransferOK /\ KillersOK /\ CheckpointsOK /\ FetchedIsKept
      /\ sn \in arriving /\ arriving' = arriving \ {sn}
      /\ backlog' = (IF sn > last THEN backlog \cup {sn} ELSE backlog)
      /\ StoreEntry({sn} \cap issued)
      /\ UNCHANGED <<world, msgVars, checkVars, killVars, managerVars, issued, last, fetchVars>>
  BY DEF NodeInv, BacklogAppend
<1>2. /\ UNCHANGED <<world, managerVars, sent>> /\ UNCHANGED <<world, last, lastEpochSN>>
      /\ UNCHANGED <<world, killVars, epoch>> /\ UNCHANGED <<fetching, missing>>
  BY <1>1 DEF msgVars, managerVars, fetchVars
<1>3. sn \in Decided /\ sn \in Nat /\ last \in Int /\ Decided' = Decided
  BY <1>1, HistoryKept, DecidedIs DEF TransferOK, LogOK
<1>4. LogOK' /\ firstEmpty \in Nat /\ firstEmpty' \in Nat /\ firstEmpty <= firstEmpty'
  <2>1. {sn} \cap issued \in SUBSET Decided
    BY <1>3
  <2> QED
    BY <1>1, <1>2, <2>1, LogStored
<1>5. committed' = committed \cup ({sn} \cap issued)
  BY <1>1 DEF StoreEntry
<1>6. History' /\ ManagerOK' /\ KillersOK' /\ CheckpointsOK'
  BY <1>1, <1>2, <1>4, HistoryKept, ManagerKept, KillersKept, CheckpointsKept
<1>7. TransferOK'
  BY <1>1, <1>2, <1>3 DEF TransferOK
<1>8. sn \in committed' \cup (backlog' \ issued')
  <2>1. CASE sn > last
    BY <1>1, <1>5, <2>1
  <2>2. CASE sn <= last
    BY <1>1, <1>3, <1>5, <2>2 DEF LogOK
  <2> QED
    BY <1>3, <2>1, <2>2
<1>9. FetchedIsKept'
  BY <1>1, <1>2, <1>5, <1>8 DEF FetchedIsKept
<1> QED
  BY <1>4, <1>6, <1>7, <1>9 DEF NodeInv

LEMMA CatchUpStep ==
    ASSUME NodeInv, CatchUp
    PROVE  NodeInv'
<1> DEFINE e == Head(catchQ)
           missed == Missing(LastSN(e))
<1>1. /\ History /\ ManagerOK /\ LogOK /\ TransferOK /\ KillersOK /\ CheckpointsOK /\ FetchedIsKept
      /\ catchQ # <<>> /\ catchQ' = Tail(catchQ)
      /\ fetching' = fetching \cup missed /\ missing' = missing \cup missed
      /\ UNCHANGED <<world, msgVars, checkpoint, pending, stuck, stableQ, killVars, managerVars,
                     ordererVars, logVars>>
  BY DEF NodeInv, CatchUp
<1>2. /\ UNCHANGED <<world, managerVars, sent>> /\ UNCHANGED <<world, logVars, last, lastEpochSN>>
      /\ UNCHANGED <<world, killVars, epoch>> /\ UNCHANGED <<arriving, backlog, issued>>
      /\ firstEmpty' = firstEmpty /\ committed' = committed /\ UNCHANGED msgVars
  BY <1>1 DEF msgVars, managerVars, ordererVars, logVars
<1>3. firstEmpty \in Nat /\ firstEmpty' \in Nat /\ firstEmpty <= firstEmpty'
  BY <1>1, <1>2 DEF LogOK
<1>4. History' /\ Decided' = Decided /\ Past' = Past /\ ManagerOK' /\ LogOK' /\ KillersOK'
  BY <1>1, <1>2, <1>3, HistoryKept, ManagerKept, LogKept, KillersKept
<1>5. e \in Past /\ Tail(catchQ) \in Seq(Past)
  <2>1. catchQ \in Seq(Past)
    BY <1>1 DEF CheckpointsOK
  <2> QED
    BY <1>1, <2>1, HeadTailProperties
<1>6. CheckpointsOK'
  BY <1>1, <1>4, <1>5 DEF CheckpointsOK, msgVars
<1>7. missed \subseteq Decided
  <2>1. LastSN(e) \in Nat /\ LastSN(e) < Start(Len(decided))
    BY <1>1, <1>5, EpochFacts, DecidedIs
  <2>2. Decided = 0 .. Start(Len(decided)) - 1 /\ Start(Len(decided)) \in Nat
    BY <1>1, DecidedIs
  <2>3. missed \subseteq firstEmpty .. LastSN(e)
    BY DEF Missing
  <2> HIDE DEF missed
  <2> QED
    BY <1>3, <2>1, <2>2, <2>3
<1> HIDE DEF missed
<1>8. TransferOK' /\ FetchedIsKept'
  BY <1>1, <1>2, <1>4, <1>7 DEF TransferOK, FetchedIsKept
<1> QED
  BY <1>4, <1>6, <1>8 DEF NodeInv

-----------------------------------------------------------------------------
(* The checkpointer, and killSegment *)

LEMMA PastIsEpoch ==
    ASSUME History
    PROVE  Past \subseteq Epoch /\ \A e \in Nat : e < Len(decided) => e \in Past
BY ConfigType, DecidedIs DEF History, Past, Epoch

\* A message that is handled keeps the types of what the checkpointer holds.
LEMMA HandleFacts ==
    ASSUME History, KillersOK, CheckpointsOK, UNCHANGED <<world, epoch>>, NEW e \in Past, Handle(e)
    PROVE  /\ KillersOK'
           /\ checkpoint' \in Past \cup {-1} /\ pending' \in [Epoch -> 0 .. Quorum - 1]
           /\ stuck' \in BOOLEAN /\ stableQ' \in Seq(Past) /\ catchQ' \in Seq(Past)
<1>1. e \in Epoch /\ e \in Nat /\ Past' = Past /\ Quorum \in Nat
  BY PastIsEpoch, EpochFacts, HistoryKept, Numbers
<1>2. /\ checkpoint \in Past \cup {-1} /\ pending \in [Epoch -> 0 .. Quorum - 1]
      /\ stuck \in BOOLEAN /\ stableQ \in Seq(Past) /\ catchQ \in Seq(Past)
      /\ killQ \in [Epoch -> Seq(Past)]
  BY DEF CheckpointsOK, KillersOK
<1>3. CASE UNCHANGED <<checkVars, killVars>>
  <2>1. KillersOK'
    BY <1>3, KillersKept
  <2> QED
    BY <1>2, <1>3, <2>1 DEF checkVars
<1>4. CASE /\ ~ Enough(e) /\ pending' = [pending EXCEPT ![e] = @ + 1]
           /\ UNCHANGED <<checkpoint, stuck, stableQ, catchQ, killVars>>
  <2>1. KillersOK'
    BY <1>4, KillersKept
  <2>2. pending[e] + 1 \in 0 .. Quorum - 1
    BY <1>1, <1>2, <1>4 DEF Enough
  <2>3. pending' \in [Epoch -> 0 .. Quorum - 1]
    BY <1>1, <1>2, <1>4, <2>2
  <2> QED
    BY <1>2, <1>4, <2>1, <2>3
<1>5. CASE CommitCheckpoint(e) /\ pending' = Prune(e) /\ UNCHANGED killer
  <2>1. /\ checkpoint' = (IF e > checkpoint THEN e ELSE checkpoint)
        /\ stableQ' = Append(stableQ, e) /\ catchQ' = Append(catchQ, e)
        /\ killQ' \in [Epoch -> Seq(Past)]
    <3>1. PICK R, F : killQ' = [k \in Epoch |-> IF k \in R \ F THEN Append(killQ[k], e) ELSE killQ[k]]
      BY <1>5 DEF CommitCheckpoint
    <3>2. \A k \in Epoch : killQ[k] \in Seq(Past) /\ Append(killQ[k], e) \in Seq(Past)
      BY <1>2
    <3>3. killQ' \in [Epoch -> Seq(Past)]
      BY <3>1, <3>2
    <3> QED
      BY <1>5, <3>3 DEF CommitCheckpoint
  <2>2. stuck' \in BOOLEAN
    BY <1>5 DEF CommitCheckpoint
  <2>3. \A k \in Epoch : (IF k <= e THEN 0 ELSE pending[k]) \in 0 .. Quorum - 1
    BY <1>1, <1>2, Numbers
  <2>4. pending' \in [Epoch -> 0 .. Quorum - 1]
    BY <1>5, <2>3 DEF Prune
  <2>5. KillersOK'
    BY <1>1, <1>5, <2>1, HistoryKept DEF KillersOK
  <2>6. stableQ' \in Seq(Past) /\ catchQ' \in Seq(Past)
    BY <1>2, <2>1
  <2> QED
    BY <1>2, <2>1, <2>2, <2>4, <2>5, <2>6
<1> QED
  BY <1>3, <1>4, <1>5 DEF Handle

LEMMA HandleKeeps ==
    ASSUME NodeInv, UNCHANGED <<world, sent, managerVars, ordererVars, logVars, fetchVars>>
    PROVE  /\ History /\ ManagerOK /\ KillersOK /\ CheckpointsOK /\ UNCHANGED <<world, epoch>>
           /\ History' /\ ManagerOK' /\ LogOK' /\ TransferOK' /\ FetchedIsKept'
<1>1. History /\ ManagerOK /\ LogOK /\ TransferOK /\ KillersOK /\ CheckpointsOK /\ FetchedIsKept
  BY DEF NodeInv
<1>2. /\ UNCHANGED <<world, managerVars, sent>> /\ UNCHANGED <<world, logVars, last, lastEpochSN>>
      /\ UNCHANGED <<world, arriving, backlog, fetchVars>>
      /\ UNCHANGED <<arriving, backlog, issued, fetchVars>>
      /\ UNCHANGED <<world, epoch>> /\ firstEmpty' = firstEmpty /\ committed' = committed
  BY DEF managerVars, ordererVars, logVars
<1>3. firstEmpty \in Nat /\ firstEmpty' \in Nat /\ firstEmpty <= firstEmpty'
  BY <1>1, <1>2 DEF LogOK
<1>4. History' /\ ManagerOK' /\ LogOK' /\ TransferOK'
  BY <1>1, <1>2, <1>3, HistoryKept, ManagerKept, LogKept, TransferKept
<1>5. FetchedIsKept'
  BY <1>1, <1>2, FetchedKept
<1> QED
  BY <1>1, <1>2, <1>4, <1>5

LEMMA HandleCheckpointStep ==
    ASSUME NodeInv, NEW e \in Epoch, HandleCheckpoint(e)
    PROVE  NodeInv'
<1>1. /\ Handle(e) /\ e < Len(decided) /\ arrived[e] < N - 1 /\ own' = own /\ sent' = sent
      /\ arrived' = [arrived EXCEPT ![e] = @ + 1]
      /\ UNCHANGED <<world, sent, managerVars, ordererVars, logVars, fetchVars>>
  BY DEF HandleCheckpoint
<1>2. /\ History /\ KillersOK /\ CheckpointsOK /\ UNCHANGED <<world, epoch>>
      /\ History' /\ ManagerOK' /\ LogOK' /\ TransferOK' /\ FetchedIsKept'
  BY <1>1, HandleKeeps
<1>3. e \in Past /\ Past' = Past
  BY <1>1, <1>2, PastIsEpoch, HistoryKept DEF Epoch
<1>4. /\ KillersOK'
      /\ checkpoint' \in Past \cup {-1} /\ pending' \in [Epoch -> 0 .. Quorum - 1]
      /\ stuck' \in BOOLEAN /\ stableQ' \in Seq(Past) /\ catchQ' \in Seq(Past)
  BY <1>1, <1>2, <1>3, HandleFacts
<1>5. arrived' \in [Epoch -> 0 .. N - 1] /\ own' \in 0 .. sent'
  <2>1. arrived \in [Epoch -> 0 .. N - 1] /\ own \in 0 .. sent
    BY <1>2 DEF CheckpointsOK
  <2>2. arrived[e] + 1 \in 0 .. N - 1
    BY <1>1, <2>1, Numbers
  <2> QED
    BY <1>1, <2>1, <2>2
<1> QED
  BY <1>2, <1>3, <1>4, <1>5 DEF NodeInv, CheckpointsOK

LEMMA OwnIsPast ==
    ASSUME History, ManagerOK, own \in 0 .. sent
    PROVE  sent \in 0 .. Len(decided) /\ (own < sent => own \in Past)
BY DecidedIs, PastIsEpoch DEF ManagerOK, Position

LEMMA HandleOwnStep ==
    ASSUME NodeInv, HandleOwnCheckpoint
    PROVE  NodeInv'
<1>1. /\ Handle(own) /\ own < sent /\ own' = own + 1 /\ arrived' = arrived /\ sent' = sent
      /\ UNCHANGED <<world, sent, managerVars, ordererVars, logVars, fetchVars>>
  BY DEF HandleOwnCheckpoint
<1>2. /\ History /\ ManagerOK /\ KillersOK /\ CheckpointsOK /\ UNCHANGED <<world, epoch>>
      /\ History' /\ ManagerOK' /\ LogOK' /\ TransferOK' /\ FetchedIsKept'
  BY <1>1, HandleKeeps
<1>3. own \in 0 .. sent /\ arrived \in [Epoch -> 0 .. N - 1]
  BY <1>2 DEF CheckpointsOK
<1>4. sent \in 0 .. Len(decided) /\ own \in Past /\ Past' = Past /\ Len(decided) \in Nat
  BY <1>1, <1>2, <1>3, OwnIsPast, HistoryKept, DecidedIs
<1>5. /\ KillersOK'
      /\ checkpoint' \in Past \cup {-1} /\ pending' \in [Epoch -> 0 .. Quorum - 1]
      /\ stuck' \in BOOLEAN /\ stableQ' \in Seq(Past) /\ catchQ' \in Seq(Past)
  BY <1>1, <1>2, <1>4, HandleFacts
<1>6. arrived' \in [Epoch -> 0 .. N - 1] /\ own' \in 0 .. sent'
  BY <1>1, <1>3, <1>4
<1> QED
  BY <1>2, <1>4, <1>5, <1>6 DEF NodeInv, CheckpointsOK

LEMMA KillKeeps ==
    ASSUME NodeInv,
           UNCHANGED <<world, msgVars, checkVars, managerVars, ordererVars, logVars, fetchVars>>
    PROVE  /\ History /\ ManagerOK /\ KillersOK /\ CheckpointsOK
           /\ Past' = Past /\ epoch' = epoch /\ Len(decided)' = Len(decided)
           /\ History' /\ ManagerOK' /\ LogOK' /\ TransferOK' /\ CheckpointsOK' /\ FetchedIsKept'
<1>1. UNCHANGED <<world, sent, managerVars, ordererVars, logVars, fetchVars>>
  BY DEF msgVars
<1>2. /\ History /\ ManagerOK /\ KillersOK /\ CheckpointsOK /\ UNCHANGED <<world, epoch>>
      /\ History' /\ ManagerOK' /\ LogOK' /\ TransferOK' /\ FetchedIsKept'
  BY <1>1, HandleKeeps
<1> QED
  BY <1>2, HistoryKept, CheckpointsKept

LEMMA KillSubscribeStep ==
    ASSUME NodeInv, NEW e \in Epoch, KillSubscribe(e)
    PROVE  NodeInv'
<1>1. /\ killer[e] = "started" /\ killer' = [killer EXCEPT ![e] = "subscribed"] /\ killQ' = killQ
      /\ UNCHANGED <<world, msgVars, checkVars, managerVars, ordererVars, logVars, fetchVars>>
  BY DEF KillSubscribe
<1>2. /\ KillersOK /\ Past' = Past /\ epoch' = epoch /\ Len(decided)' = Len(decided)
      /\ History' /\ ManagerOK' /\ LogOK' /\ TransferOK' /\ CheckpointsOK' /\ FetchedIsKept'
  BY <1>1, KillKeeps
<1>3. KillersOK'
  BY <1>1, <1>2 DEF KillersOK
<1> QED
  BY <1>2, <1>3 DEF NodeInv

LEMMA KillReadStep ==
    ASSUME NodeInv, NEW e \in Epoch, KillRead(e)
    PROVE  NodeInv'
<1>1. UNCHANGED <<world, msgVars, checkVars, managerVars, ordererVars, logVars, fetchVars>>
  BY DEF KillRead
<1>2. /\ History /\ KillersOK /\ CheckpointsOK
      /\ Past' = Past /\ epoch' = epoch /\ Len(decided)' = Len(decided)
      /\ History' /\ ManagerOK' /\ LogOK' /\ TransferOK' /\ CheckpointsOK' /\ FetchedIsKept'
  BY <1>1, KillKeeps
<1>3. killQ \in [Epoch -> Seq(Past)] /\ e \in Nat /\ Len(decided) \in Nat /\ Past = 0 .. Len(decided) - 1
  BY <1>2, DecidedIs DEF KillersOK, Epoch, Past
<1>4. CASE /\ killer[e] = "subscribed" /\ killQ' = killQ
           /\ killer' = [killer EXCEPT ![e] = IF checkpoint >= e THEN "entry" ELSE "waiting"]
  <2>1. checkpoint >= e => e < Len(decided)
    BY <1>2, <1>3 DEF CheckpointsOK
  <2>2. KillersOK'
    BY <1>2, <1>4, <2>1 DEF KillersOK
  <2> QED
    BY <1>2, <2>2 DEF NodeInv
<1>5. CASE /\ killer[e] = "waiting" /\ killQ[e] # <<>> /\ killQ' = [killQ EXCEPT ![e] = Tail(@)]
           /\ killer' = [killer EXCEPT ![e] = IF Head(killQ[e]) >= e THEN "entry" ELSE "waiting"]
  <2>1. Head(killQ[e]) \in Past /\ Tail(killQ[e]) \in Seq(Past)
    BY <1>3, <1>5, HeadTailProperties
  <2>2. Head(killQ[e]) >= e => e < Len(decided)
    BY <1>3, <2>1
  <2>3. killQ' \in [Epoch -> Seq(Past)]
    BY <1>3, <1>5, <2>1
  <2>4. KillersOK'
    BY <1>2, <1>5, <2>2, <2>3 DEF KillersOK
  <2> QED
    BY <1>2, <2>4 DEF NodeInv
<1> QED
  BY <1>4, <1>5 DEF KillRead

LEMMA KillFinishStep ==
    ASSUME NodeInv, NEW e \in Epoch, KillFinish(e)
    PROVE  NodeInv'
<1> DEFINE s == LastSN(e)
<1>1. /\ History /\ ManagerOK /\ LogOK /\ TransferOK /\ KillersOK /\ CheckpointsOK /\ FetchedIsKept
      /\ killer[e] = "entry" /\ firstEmpty > s
      /\ killer' = [killer EXCEPT ![e] = "done"] /\ killQ' = killQ
      /\ last' = (IF s > last THEN s ELSE last)
      /\ backlog' = {sn \in backlog : ~ (sn <= s)}
      /\ issued' = {sn \in issued : ~ (sn <= s)} /\ arriving' = arriving
      /\ UNCHANGED <<world, msgVars, checkVars, managerVars, logVars, fetchVars>>
  BY DEF NodeInv, KillFinish
<1>2. /\ UNCHANGED <<world, managerVars, sent>> /\ lastEpochSN' = lastEpochSN /\ epoch' = epoch
      /\ firstEmpty' = firstEmpty /\ committed' = committed /\ UNCHANGED <<fetching, missing>>
  BY <1>1 DEF msgVars, managerVars, logVars, fetchVars
<1>3. firstEmpty \in Nat /\ firstEmpty' \in Nat /\ firstEmpty <= firstEmpty'
  BY <1>1, <1>2 DEF LogOK
<1>4. /\ History' /\ Decided' = Decided /\ Past' = Past /\ Len(decided)' = Len(decided)
      /\ ManagerOK' /\ CheckpointsOK'
  BY <1>1, <1>2, <1>3, HistoryKept, ManagerKept, CheckpointsKept
<1>5. e \in Past /\ e <= epoch
  <2>1. e <= epoch /\ e < Len(decided) /\ e \in Nat
    BY <1>1 DEF KillersOK, Epoch
  <2> QED
    BY <1>1, <2>1, PastIsEpoch
<1>6. s \in Nat /\ s <= lastEpochSN /\ lastEpochSN \in Nat
  BY <1>1, <1>5, EpochFacts, PastBelow
<1> HIDE DEF s
<1>7. 0 .. s \subseteq committed
  <2>1. 0 .. s \subseteq 0 .. firstEmpty - 1
    BY <1>1, <1>3, <1>6
  <2> QED
    BY <1>1, <2>1 DEF LogOK
<1>8. LogOK'
  <2>1. last \in Int /\ -1 <= last /\ last <= lastEpochSN /\ 0 .. last \subseteq committed
    BY <1>1 DEF LogOK
  <2>2. last' \in Int /\ -1 <= last' /\ last' <= lastEpochSN /\ 0 .. last' \subseteq committed
    BY <1>1, <1>6, <1>7, <2>1
  <2> QED
    BY <1>1, <1>2, <1>4, <2>2 DEF LogOK
<1>9. TransferOK'
  BY <1>1, <1>2, <1>4 DEF TransferOK
<1>10. KillersOK'
  <2>1. e < Len(decided)
    BY <1>1, <1>5, DecidedIs DEF Past
  <2> QED
    BY <1>1, <1>2, <1>4, <1>5, <2>1 DEF KillersOK
<1>11. FetchedIsKept'
  <2> SUFFICES ASSUME NEW sn \in fetching \ missing
               PROVE  sn \in committed \cup arriving \cup (backlog' \ issued')
    BY <1>1, <1>2 DEF FetchedIsKept
  <2>1. sn \in committed \cup arriving \cup (backlog \ issued) /\ sn \in Nat
    BY <1>1, DecidedIs DEF FetchedIsKept, TransferOK
  <2>2. CASE sn <= s
    BY <1>6, <1>7, <2>1, <2>2
  <2>3. CASE ~ (sn <= s)
    BY <1>1, <2>1, <2>3
  <2> QED
    BY <2>2, <2>3
<1> QED
  BY <1>4, <1>8, <1>9, <1>10, <1>11 DEF NodeInv

-----------------------------------------------------------------------------
(* The manager *)

\* The steps of the manager that leave the log and the orderer alone.
LEMMA ManagerKeeps ==
    ASSUME NodeInv,
           UNCHANGED <<world, own, arrived, checkpoint, pending, stuck, catchQ, killVars, ordererVars,
                       logVars, fetchVars>>,
           sent <= sent', stableQ' \in Seq(Past), sent' \in Nat, lastEpochSN' \in Nat,
           lastEpochSN <= lastEpochSN', epoch <= epoch', epoch' \in Nat
    PROVE  /\ History' /\ LogOK' /\ TransferOK' /\ KillersOK' /\ CheckpointsOK' /\ FetchedIsKept'
           /\ firstEmpty' = firstEmpty /\ firstEmpty \in Nat
<1>1. /\ History /\ ManagerOK /\ LogOK /\ TransferOK /\ KillersOK /\ CheckpointsOK /\ FetchedIsKept
  BY DEF NodeInv
<1>2. /\ UNCHANGED <<world, arriving, backlog, fetchVars>>
      /\ UNCHANGED <<arriving, backlog, issued, fetchVars>> /\ UNCHANGED killVars
      /\ firstEmpty' = firstEmpty /\ committed' = committed /\ last' = last
  BY DEF ordererVars, logVars
<1>3. /\ History' /\ Decided' = Decided /\ Past' = Past /\ Len(decided)' = Len(decided)
  BY <1>1, HistoryKept
<1>4. TransferOK'
  BY <1>1, <1>2, TransferKept
<1>5. FetchedIsKept'
  BY <1>1, <1>2, FetchedKept
<1>6. lastEpochSN \in Nat /\ epoch \in Nat
  BY <1>1, PastBelow, DecidedIs DEF ManagerOK
<1>7. LogOK'
  BY <1>1, <1>2, <1>3, <1>6 DEF LogOK
<1>8. KillersOK'
  <2>1. killer' = killer /\ killQ' = killQ
    BY DEF killVars
  <2>2. \A e \in Epoch : e <= epoch => e <= epoch'
    BY <1>6 DEF Epoch
  <2> QED
    BY <1>1, <1>3, <2>1, <2>2 DEF KillersOK
<1>9. CheckpointsOK'
  <2>1. own \in 0 .. sent /\ sent \in Nat
    BY <1>1, <1>6 DEF CheckpointsOK, ManagerOK, Position
  <2>2. own' \in 0 .. sent'
    BY <2>1
  <2> QED
    BY <1>1, <1>3, <2>2 DEF CheckpointsOK
<1> QED
  BY <1>1, <1>2, <1>3, <1>4, <1>5, <1>7, <1>8, <1>9 DEF LogOK

\* An epoch that is not over yet.
LEMMA Current ==
    ASSUME NodeInv, epoch < Len(decided)
    PROVE  LET d == decided[epoch + 1]
           IN  /\ epoch \in Past /\ epoch \in Nat /\ d.first \in Nat /\ d.last \in Nat /\ d.first <= d.last
               /\ d.first = Start(epoch) /\ d.last = lastEpochSN
               /\ FirstSN(epoch) = d.first /\ LastSN(epoch) = d.last
               /\ handled \in d.first .. d.last + 1
               /\ IsLeaders(d.leaders) /\ PolicyFit(d.policy, epoch)
               /\ Reads(config.policy, d, epoch)[handled] = [suspects |-> suspects, policy |-> policy]
<1>1. History /\ ManagerOK
  BY DEF NodeInv
<1>2. epoch \in Past /\ lastEpochSN = LastSN(epoch)
  BY <1>1, PastBelow
<1>3. FirstSN(epoch) = decided[epoch + 1].first /\ LastSN(epoch) = decided[epoch + 1].last
  BY DEF FirstSN, LastSN
<1>4. /\ handled \in FirstSN(epoch) .. LastSN(epoch) + 1
      /\ Reads(config.policy, decided[epoch + 1], epoch)[handled]
               = [suspects |-> suspects, policy |-> policy]
  BY <1>1 DEF ManagerOK, HasRead
<1> QED
  BY <1>1, <1>2, <1>3, <1>4, EpochFacts

LEMMA HasReadAfter ==
    ASSUME UNCHANGED world, NEW n, epoch' = n, n # Len(decided),
           handled' \in FirstSN(n) .. LastSN(n) + 1,
           Reads(config.policy, decided[n + 1], n)[handled'] = [suspects |-> suspects', policy |-> policy']
    PROVE  HasRead'
<1>1. config' = config /\ decided' = decided
  BY DEF world
<1> QED
  BY <1>1 DEF HasRead, FirstSN, LastSN

LEMMA HandleEntryStep ==
    ASSUME NodeInv, HandleEntry
    PROVE  NodeInv'
<1> DEFINE d == decided[epoch + 1]
           s == Suspect(d, handled)
           first == handled \in d.aborted /\ s \notin suspects
           name == config.policy
<1>1. /\ History /\ ManagerOK /\ LogOK /\ CheckpointsOK
      /\ pc = "read" /\ handled < firstEmpty
      /\ suspects' = (IF first THEN suspects \cup {s} ELSE suspects)
      /\ policy' = (IF first THEN Update(name, policy, epoch, s) ELSE policy)
      /\ handled' = handled + 1
      /\ pc' = (IF handled = lastEpochSN THEN "checkpoint" ELSE "read")
      /\ UNCHANGED <<world, msgVars, checkVars, killVars, epoch, segments, lastEpochSN,
                     toIssue, ordererVars, logVars, fetchVars>>
  BY DEF NodeInv, HandleEntry
<1>2. /\ UNCHANGED <<world, own, arrived, checkpoint, pending, stuck, catchQ, killVars, ordererVars,
                     logVars, fetchVars>>
      /\ sent' = sent /\ stableQ' = stableQ
  BY <1>1 DEF msgVars, checkVars
<1>3. epoch \in 0 .. Len(decided) /\ Len(decided) \in Nat /\ handled <= lastEpochSN /\ sent = epoch
  BY <1>1, DecidedIs DEF ManagerOK, Position
<1>4. epoch < Len(decided)
  <2> SUFFICES ASSUME epoch = Len(decided) PROVE FALSE
    BY <1>3
  <2>1. handled = Start(Len(decided)) /\ handled \in Nat
    BY <1>1, <1>3, DecidedIs DEF ManagerOK, HasRead
  <2>2. handled \in committed
    BY <1>1, <2>1 DEF LogOK
  <2>3. handled \in 0 .. Start(Len(decided)) - 1
    BY <1>1, <2>2, DecidedIs DEF LogOK
  <2> QED
    BY <2>1, <2>3
<1>5. /\ epoch \in Past /\ epoch \in Nat /\ d.first \in Nat /\ d.last \in Nat /\ d.first <= d.last
      /\ d.first = Start(epoch) /\ d.last = lastEpochSN
      /\ FirstSN(epoch) = d.first /\ LastSN(epoch) = d.last
      /\ handled \in d.first .. d.last + 1
      /\ IsLeaders(d.leaders) /\ PolicyFit(d.policy, epoch)
      /\ Reads(name, d, epoch)[handled] = [suspects |-> suspects, policy |-> policy]
  BY <1>4, Current
<1>6. /\ History' /\ LogOK' /\ TransferOK' /\ KillersOK' /\ CheckpointsOK' /\ FetchedIsKept'
      /\ firstEmpty' = firstEmpty /\ firstEmpty \in Nat
  <2>1. sent <= sent' /\ sent' \in Nat
    BY <1>2, <1>3
  <2>2. stableQ' \in Seq(Past)
    BY <1>1, <1>2 DEF CheckpointsOK
  <2>3. lastEpochSN' \in Nat /\ lastEpochSN <= lastEpochSN' /\ epoch <= epoch' /\ epoch' \in Nat
    BY <1>1, <1>5
  <2> QED
    BY <1>2, <2>1, <2>2, <2>3, ManagerKeeps
<1>7. Reads(name, d, epoch)[handled + 1] = [suspects |-> suspects', policy |-> policy']
  <2> DEFINE R == Reads(name, d, epoch)
             b == [suspects |-> suspects, policy |-> policy]
  <2> HIDE DEF d
  <2>1. handled + 1 \in d.first .. d.last + 1 /\ handled + 1 # d.first /\ (handled + 1) - 1 = handled
    BY <1>3, <1>5
  <2>2. d.first \in Int /\ d.last \in Int /\ d.first <= d.last + 1
    BY <1>5
  <2>3. R[handled + 1] = ReadStep(name, d, epoch, R, handled + 1)
    BY <2>1, <2>2, ReadsIs
  <2>4. R[handled + 1] = IF handled \in d.aborted THEN SeenBy(name, epoch, R[handled], s) ELSE R[handled]
    BY <2>1, <2>3 DEF ReadStep
  <2>5. R[handled] = b
    BY <1>5
  <2> SUFFICES R[handled + 1] = [suspects |-> suspects', policy |-> policy']
    OBVIOUS
  <2> HIDE DEF R, s
  <2>6. CASE handled \notin d.aborted
    BY <1>1, <2>4, <2>5, <2>6
  <2>7. CASE handled \in d.aborted
    <3>1. R[handled + 1] = SeenBy(name, epoch, b, s)
      BY <2>4, <2>5, <2>7
    <3>2. CASE s \in suspects
      BY <1>1, <3>1, <3>2 DEF SeenBy
    <3>3. CASE s \notin suspects
      <4>1. suspects' = suspects \cup {s} /\ policy' = Update(name, policy, epoch, s)
        BY <1>1, <2>7, <3>3
      <4>2. SeenBy(name, epoch, b, s) = [suspects |-> suspects \cup {s}, policy |-> Update(name, policy, epoch, s)]
        BY <3>3 DEF SeenBy
      <4> QED
        BY <3>1, <4>1, <4>2
    <3> QED
      BY <3>2, <3>3
  <2> QED
    BY <2>6, <2>7
<1>8. /\ config' = config /\ decided' = decided /\ epoch' = epoch /\ Len(decided)' = Len(decided)
      /\ \A e : /\ Start(e)' = Start(e) /\ PolicyAfter(e)' = PolicyAfter(e)
                /\ FirstSN(e)' = FirstSN(e) /\ LastSN(e)' = LastSN(e)
  BY <1>1, HistoryKept DEF world
<1>9. HasRead'
  <2>1. handled' \in FirstSN(epoch) .. LastSN(epoch) + 1
    BY <1>1, <1>3, <1>5
  <2>2. Reads(config.policy, decided[epoch + 1], epoch)[handled']
          = [suspects |-> suspects', policy |-> policy']
    BY <1>1, <1>7
  <2>3. UNCHANGED world /\ epoch' = epoch /\ epoch # Len(decided)
    BY <1>1, <1>3, <1>4
  <2> QED
    BY <2>1, <2>2, <2>3, HasReadAfter
<1>10. HasSegments'
  BY <1>1, <1>8 DEF ManagerOK, HasSegments
<1>11. Position'
  <2>1. handled' = handled + 1 /\ lastEpochSN' = lastEpochSN /\ sent' = epoch' /\ epoch' < Len(decided)'
    BY <1>1, <1>2, <1>3, <1>4, <1>8
  <2>2. CASE handled = lastEpochSN
    <3>1. pc' = "checkpoint"
      BY <1>1, <2>2
    <3> QED
      BY <2>1, <2>2, <3>1 DEF Position
  <2>3. CASE handled # lastEpochSN
    <3>1. pc' = "read"
      BY <1>1, <2>3
    <3>2. handled' <= lastEpochSN'
      BY <1>3, <1>5, <2>1, <2>3
    <3> QED
      BY <2>1, <3>1, <3>2 DEF Position
  <2> QED
    BY <2>2, <2>3
<1>12. ManagerOK'
  <2>1. handled' \in 0 .. firstEmpty'
    BY <1>1, <1>5, <1>6
  <2>2. epoch' \in 0 .. Len(decided)' /\ toIssue' \subseteq DOMAIN segments'
    BY <1>1, <1>3, <1>8 DEF ManagerOK
  <2> QED
    BY <1>9, <1>10, <1>11, <2>1, <2>2 DEF ManagerOK
<1> QED
  BY <1>6, <1>12 DEF NodeInv

LEMMA LaunchStep ==
    ASSUME NodeInv, LaunchCheckpoint
    PROVE  NodeInv'
<1>1. /\ History /\ ManagerOK /\ CheckpointsOK
      /\ pc = "checkpoint" /\ sent' = sent + 1 /\ pc' = "wait"
      /\ UNCHANGED <<world, own, arrived, checkVars, killVars, epoch, handled, suspects, policy, segments,
                     lastEpochSN, toIssue, ordererVars, logVars, fetchVars>>
  BY DEF NodeInv, LaunchCheckpoint
<1>2. /\ UNCHANGED <<world, own, arrived, checkpoint, pending, stuck, catchQ, killVars, ordererVars,
                     logVars, fetchVars>>
      /\ stableQ' = stableQ
  BY <1>1 DEF checkVars
<1>3. epoch \in 0 .. Len(decided) /\ Len(decided) \in Nat /\ epoch \in Nat /\ sent = epoch /\ lastEpochSN \in Nat
  BY <1>1, DecidedIs, PastBelow DEF ManagerOK, Position
<1>4. /\ History' /\ LogOK' /\ TransferOK' /\ KillersOK' /\ CheckpointsOK' /\ FetchedIsKept'
      /\ firstEmpty' = firstEmpty /\ firstEmpty \in Nat
  <2>1. sent <= sent' /\ sent' \in Nat
    BY <1>1, <1>3
  <2>2. stableQ' \in Seq(Past)
    BY <1>1, <1>2 DEF CheckpointsOK
  <2>3. lastEpochSN' \in Nat /\ lastEpochSN <= lastEpochSN' /\ epoch <= epoch' /\ epoch' \in Nat
    BY <1>1, <1>3
  <2> QED
    BY <1>2, <2>1, <2>2, <2>3, ManagerKeeps
<1>5. /\ config' = config /\ decided' = decided /\ Len(decided)' = Len(decided)
      /\ \A e : /\ Start(e)' = Start(e) /\ PolicyAfter(e)' = PolicyAfter(e)
                /\ FirstSN(e)' = FirstSN(e) /\ LastSN(e)' = LastSN(e)
  BY <1>1, HistoryKept DEF world
<1>6. HasRead'
  BY <1>1, <1>5 DEF ManagerOK, HasRead
<1>7. HasSegments'
  BY <1>1, <1>5 DEF ManagerOK, HasSegments
<1>8. Position'
  BY <1>1, <1>3, <1>5 DEF ManagerOK, Position
<1>9. ManagerOK'
  BY <1>1, <1>4, <1>5, <1>6, <1>7, <1>8 DEF ManagerOK
<1> QED
  BY <1>4, <1>9 DEF NodeInv

LEMMA NextEpochStep ==
    ASSUME NodeInv, NextEpoch
    PROVE  NodeInv'
<1>1. /\ History /\ ManagerOK /\ LogOK /\ CheckpointsOK
      /\ pc = "wait" /\ stableQ # <<>> /\ stableQ' = Tail(stableQ)
      /\ handled' = handled /\ policy' = policy /\ sent' = sent
      /\ UNCHANGED <<world, msgVars, checkpoint, pending, stuck, catchQ, killVars, handled,
                     policy, ordererVars, logVars, fetchVars>>
  BY DEF NodeInv, NextEpoch, msgVars
<1>2. /\ UNCHANGED <<world, own, arrived, checkpoint, pending, stuck, catchQ, killVars, ordererVars,
                     logVars, fetchVars>>
  BY <1>1 DEF msgVars
<1>3. /\ epoch < Len(decided) /\ Len(decided) \in Nat /\ epoch \in Nat /\ sent = epoch + 1
      /\ handled = lastEpochSN + 1
  BY <1>1, DecidedIs DEF ManagerOK, Position
<1> DEFINE d == decided[epoch + 1]
           n == epoch + 1
<1>4. /\ epoch \in Past /\ d.first \in Nat /\ d.last \in Nat /\ d.first <= d.last
      /\ d.last = lastEpochSN /\ LastSN(epoch) = d.last
      /\ Reads(config.policy, d, epoch)[handled] = [suspects |-> suspects, policy |-> policy]
  BY <1>3, Current
<1>5. stableQ' \in Seq(Past)
  <2>1. stableQ \in Seq(Past)
    BY <1>1 DEF CheckpointsOK
  <2> QED
    BY <1>1, <2>1, HeadTailProperties
<1>6. /\ config' = config /\ decided' = decided /\ Len(decided)' = Len(decided)
      /\ \A e : /\ Start(e)' = Start(e) /\ PolicyAfter(e)' = PolicyAfter(e)
                /\ FirstSN(e)' = FirstSN(e) /\ LastSN(e)' = LastSN(e)
  BY <1>1, HistoryKept DEF world
<1>7. CASE pc' = "exit" /\ UNCHANGED <<epoch, suspects, segments, lastEpochSN, toIssue>>
  <2>1. /\ History' /\ LogOK' /\ TransferOK' /\ KillersOK' /\ CheckpointsOK' /\ FetchedIsKept'
        /\ firstEmpty' = firstEmpty /\ firstEmpty \in Nat
    BY <1>1, <1>2, <1>3, <1>4, <1>5, <1>7, ManagerKeeps
  <2>2. HasRead' /\ HasSegments'
    <3>1. HasRead'
      BY <1>1, <1>6, <1>7 DEF ManagerOK, HasRead
    <3>2. HasSegments'
      BY <1>1, <1>6, <1>7 DEF ManagerOK, HasSegments
    <3> QED
      BY <3>1, <3>2
  <2>3. Position'
    BY <1>1, <1>3, <1>6, <1>7 DEF ManagerOK, Position
  <2>4. ManagerOK'
    BY <1>1, <1>6, <1>7, <2>1, <2>2, <2>3 DEF ManagerOK
  <2> QED
    BY <2>1, <2>4 DEF NodeInv
<1>8. CASE /\ pc' = "issue" /\ epoch' = n /\ suspects' = {}
           /\ \E l \in GetLeaders(config.policy, policy, n) :
                /\ segments' = CreateSegments(config.segmentLength, l, n, handled)
                /\ lastEpochSN' = lastEpochSN + EpochLen(config.segmentLength, l)
                /\ toIssue' = 1 .. Len(l)
  <2>1. n \in 0 .. Len(decided) /\ n \in Nat /\ n # 0 /\ n - 1 = epoch
    BY <1>3
  <2>2. Start(n) = handled
    BY <1>3, <1>4, <2>1 DEF Start
  <2>3. PolicyAfter(n) = policy
    <3>1. PolicyAfter(n) = Reads(config.policy, d, epoch)[handled].policy
      BY <1>3, <1>4, <2>1 DEF PolicyAfter
    <3> QED
      BY <1>4, <3>1
  <2> HIDE DEF n
  <2>4. PICK l \in GetLeaders(config.policy, PolicyAfter(n), n) :
                /\ segments' = CreateSegments(config.segmentLength, l, n, Start(n))
                /\ lastEpochSN' = lastEpochSN + EpochLen(config.segmentLength, l)
                /\ toIssue' = 1 .. Len(l)
    BY <1>8, <2>2, <2>3
  <2>5. PolicyFit(PolicyAfter(n), n)
    BY <1>1, <2>1, StartFacts
  <2>6. IsLeaders(l)
    BY <1>1, <2>1, <2>4, <2>5, ConfigType, LeadersFit DEF History
  <2>7. EpochLen(config.segmentLength, l) \in Nat /\ EpochLen(config.segmentLength, l) > 0
    BY <1>1, <2>6, ConfigType, EpochLenFit DEF History
  <2>8. lastEpochSN' \in Nat /\ lastEpochSN <= lastEpochSN' /\ handled <= lastEpochSN'
    BY <1>3, <1>4, <2>4, <2>7
  <2>9. epoch' = n /\ epoch <= epoch' /\ epoch' \in Nat /\ sent' = epoch' /\ sent <= sent' /\ sent' \in Nat
    BY <1>1, <1>3, <1>8, <2>1
  <2>10. /\ History' /\ LogOK' /\ TransferOK' /\ KillersOK' /\ CheckpointsOK' /\ FetchedIsKept'
         /\ firstEmpty' = firstEmpty /\ firstEmpty \in Nat
    BY <1>2, <1>5, <2>8, <2>9, ManagerKeeps
  <2>11. HasRead'
    <3>1. CASE n = Len(decided)
      BY <1>1, <1>6, <1>8, <2>2, <2>3, <2>9, <3>1 DEF HasRead
    <3>2. CASE n < Len(decided)
      <4> DEFINE f == decided[n + 1]
      <4>1. n \in Past
        BY <1>1, <2>1, <3>2, PastIsEpoch
      <4>2. /\ FirstSN(n) = Start(n) /\ f.policy = PolicyAfter(n)
            /\ FirstSN(n) \in Nat /\ LastSN(n) \in Nat /\ FirstSN(n) <= LastSN(n)
        BY <1>1, <4>1, EpochFacts
      <4>3. FirstSN(n) = f.first /\ LastSN(n) = f.last
        BY DEF FirstSN, LastSN
      <4> HIDE DEF f
      <4>4. f.first \in Int /\ f.last \in Int /\ f.first <= f.last + 1 /\ handled = f.first
        BY <2>2, <4>2, <4>3
      <4>5. handled \in f.first .. f.last + 1
        BY <4>4
      <4>6. Reads(config.policy, f, n)[handled]
              = ReadStep(config.policy, f, n, Reads(config.policy, f, n), handled)
        BY <4>4, <4>5, ReadsIs
      <4>7. Reads(config.policy, f, n)[handled] = [suspects |-> {}, policy |-> policy]
        BY <2>3, <4>2, <4>4, <4>6 DEF ReadStep
      <4>8. handled' \in FirstSN(n) .. LastSN(n) + 1 /\ n # Len(decided)
        BY <1>1, <2>1, <3>2, <4>3, <4>5
      <4>9. Reads(config.policy, decided[n + 1], n)[handled'] = [suspects |-> suspects', policy |-> policy']
        BY <1>1, <1>8, <4>7 DEF f
      <4> QED
        BY <1>1, <2>9, <4>8, <4>9, HasReadAfter
    <3> QED
      BY <1>3, <2>1, <3>1, <3>2
  <2>12. HasSegments'
    <3>1. lastEpochSN' = Start(n) + EpochLen(config.segmentLength, l) - 1
      BY <1>3, <1>4, <2>2, <2>4, <2>7
    <3> QED
      BY <1>6, <2>4, <2>9, <3>1 DEF HasSegments
  <2>13. Position'
    BY <1>1, <1>8, <2>8, <2>9 DEF Position
  <2>14. toIssue' \subseteq DOMAIN segments'
    BY <2>4 DEF CreateSegments
  <2>15. ManagerOK'
    BY <1>1, <1>6, <2>1, <2>9, <2>10, <2>11, <2>12, <2>13, <2>14 DEF ManagerOK
  <2> QED
    BY <2>10, <2>15 DEF NodeInv
<1> QED
  BY <1>7, <1>8 DEF NextEpoch

LEMMA IssueStep ==
    ASSUME NodeInv, NEW i \in toIssue, IssueSegment(i)
    PROVE  NodeInv'
<1> DEFINE S == backlog \cap segments[i].sns
<1>1. /\ History /\ ManagerOK /\ LogOK /\ TransferOK /\ KillersOK /\ CheckpointsOK /\ FetchedIsKept
      /\ pc = "issue" /\ toIssue' = toIssue \ {i} /\ pc' \in {"issue", "read"}
      /\ issued' = issued \cup segments[i].sns /\ StoreEntry(S)
      /\ killer' = [e \in Epoch |-> IF e = epoch THEN "started" ELSE killer[e]]
      /\ UNCHANGED <<world, msgVars, checkVars, killQ, epoch, handled, suspects, policy, segments,
                     lastEpochSN, last, arriving, backlog, fetchVars>>
  BY DEF NodeInv, IssueSegment
<1>2. S \in SUBSET Decided /\ UNCHANGED <<world, last, lastEpochSN>>
  BY <1>1 DEF TransferOK
<1>3. LogOK' /\ firstEmpty \in Nat /\ firstEmpty' \in Nat /\ firstEmpty <= firstEmpty'
  BY <1>1, <1>2, LogStored
<1>4. committed' = committed \cup S
  BY <1>1 DEF StoreEntry
<1>5. UNCHANGED <<world, arriving, backlog, fetchVars>> /\ UNCHANGED <<fetching, missing>> /\ sent' = sent
  BY <1>1 DEF fetchVars, msgVars
<1>6. /\ History' /\ TransferOK' /\ CheckpointsOK' /\ Past' = Past /\ Len(decided)' = Len(decided)
      /\ \A e : /\ Start(e)' = Start(e) /\ PolicyAfter(e)' = PolicyAfter(e)
                /\ FirstSN(e)' = FirstSN(e) /\ LastSN(e)' = LastSN(e)
  BY <1>1, <1>5, HistoryKept, TransferKept, CheckpointsKept
<1>7. KillersOK'
  <2>1. /\ killer \in [Epoch -> {"off", "started", "subscribed", "waiting", "entry", "done"}]
        /\ killQ \in [Epoch -> Seq(Past)] /\ epoch \in Nat
        /\ \A e \in Epoch : (killer[e] # "off" => e <= epoch)
                            /\ (killer[e] \in {"entry", "done"} => e < Len(decided))
    BY <1>1, DecidedIs DEF KillersOK, ManagerOK
  <2>2. killer' \in [Epoch -> {"off", "started", "subscribed", "waiting", "entry", "done"}]
    BY <1>1, <2>1
  <2>3. killQ' \in [Epoch -> Seq(Past)']
    BY <1>1, <1>6, <2>1
  <2>4. ASSUME NEW e \in Epoch
        PROVE  (killer'[e] # "off" => e <= epoch') /\ (killer'[e] \in {"entry", "done"} => e < Len(decided)')
    BY <1>1, <1>6, <2>1
  <2> QED
    BY <2>2, <2>3, <2>4 DEF KillersOK
<1>8. ManagerOK'
  <2>0. config' = config /\ decided' = decided
    BY <1>1 DEF world
  <2>1. HasRead'
    BY <1>1, <1>6, <2>0 DEF ManagerOK, HasRead
  <2>2. HasSegments'
    BY <1>1, <1>6, <2>0 DEF ManagerOK, HasSegments
  <2>3. Position'
    <3>1. handled <= lastEpochSN /\ sent = epoch
      BY <1>1 DEF ManagerOK, Position
    <3> QED
      BY <1>1, <1>5, <3>1 DEF Position
  <2>4. epoch' \in 0 .. Len(decided)' /\ toIssue' \subseteq DOMAIN segments'
    BY <1>1, <1>6 DEF ManagerOK
  <2>5. handled' \in 0 .. firstEmpty'
    BY <1>1, <1>3 DEF ManagerOK
  <2> QED
    BY <2>1, <2>2, <2>3, <2>4, <2>5 DEF ManagerOK
<1>9. FetchedIsKept'
  BY <1>1, <1>4, <1>5 DEF FetchedIsKept
<1> QED
  BY <1>3, <1>6, <1>7, <1>8, <1>9 DEF NodeInv

-----------------------------------------------------------------------------
(* The next epoch is decided *)

LEMMA SeqWider ==
    ASSUME NEW S, NEW T, S \subseteq T, NEW q \in Seq(S)
    PROVE  q \in Seq(T)
OBVIOUS

LEMMA DecideStep ==
    ASSUME NodeInv, Decide
    PROVE  NodeInv'
<1> DEFINE e == Len(decided)
<1>1. /\ History /\ ManagerOK /\ LogOK /\ TransferOK /\ KillersOK /\ CheckpointsOK /\ FetchedIsKept
      /\ e < config.epochs
      /\ UNCHANGED <<config, msgVars, checkVars, killVars, managerVars, ordererVars, logVars, fetchVars>>
  BY DEF NodeInv, Decide
<1>2. PICK l \in GetLeaders(config.policy, PolicyAfter(e), e) :
        LET end == Start(e) + EpochLen(config.segmentLength, l) - 1
        IN  \E A \in SUBSET ((Start(e) .. end) \cap config.abortable) :
              decided' = Append(decided, [policy |-> PolicyAfter(e), leaders |-> l,
                                          first |-> Start(e), last |-> end, aborted |-> A])
  BY DEF Decide, Start
<1> DEFINE start == Start(e)
           end == start + EpochLen(config.segmentLength, l) - 1
<1>3. PICK A \in SUBSET ((start .. end) \cap config.abortable) :
        decided' = Append(decided, [policy |-> PolicyAfter(e), leaders |-> l,
                                    first |-> start, last |-> end, aborted |-> A])
  BY <1>2
<1> DEFINE rec == [policy |-> PolicyAfter(e), leaders |-> l, first |-> start, last |-> end, aborted |-> A]
<1>4. /\ e \in Nat /\ start \in Nat /\ PolicyFit(PolicyAfter(e), e)
      /\ decided \in Seq(EpochData) /\ config' = config
  BY <1>1, DecidedIs, StartFacts DEF History
<1>5. IsLeaders(l)
  BY <1>1, <1>2, <1>4, ConfigType, LeadersFit DEF History
<1>6. EpochLen(config.segmentLength, l) \in Nat /\ EpochLen(config.segmentLength, l) > 0
  BY <1>1, <1>5, ConfigType, EpochLenFit DEF History
<1> HIDE DEF start
<1>7. end \in Nat /\ start <= end
  BY <1>4, <1>6
<1> HIDE DEF end
<1>8. rec \in EpochData
  <2>1. A \in SUBSET Nat
    BY <1>4, <1>7
  <2>2. PolicyAfter(e) \in PolicyTypes /\ l \in Seq(Node)
    BY <1>4, <1>5 DEF PolicyFit, IsLeaders
  <2> QED
    BY <1>4, <1>7, <2>1, <2>2 DEF EpochData
<1>9. /\ rec.policy = PolicyAfter(e) /\ rec.leaders = l /\ rec.first = start /\ rec.last = end
  OBVIOUS
<1>10. decided' = Append(decided, rec)
  BY <1>3 DEF end, start
<1> HIDE DEF rec
<1>11. /\ decided' \in Seq(EpochData) /\ Len(decided') = e + 1
       /\ \A i \in 1 .. e : decided'[i] = decided[i]
       /\ decided'[e + 1] = rec
  BY <1>4, <1>8, <1>10, AppendProperties
<1>12. PICK m : m = e
  OBVIOUS
<1> HIDE DEF e
<1>13. Past = 0 .. m - 1 /\ Past' = 0 .. m /\ m \in Nat
  BY <1>4, <1>11, <1>12 DEF Past, e
<1>14. ASSUME NEW k \in 0 .. m - 1
       PROVE  FirstSN(k)' = FirstSN(k) /\ LastSN(k)' = LastSN(k)
  <2>1. k + 1 \in 1 .. e
    BY <1>12, <1>13
  <2> QED
    BY <1>11, <2>1 DEF FirstSN, LastSN
<1>15. ASSUME NEW k \in 0 .. m
       PROVE  Start(k)' = Start(k) /\ PolicyAfter(k)' = PolicyAfter(k)
  <2>1. CASE k = 0
    BY <2>1 DEF Start, PolicyAfter
  <2>2. CASE k # 0
    <3>1. k \in 1 .. e /\ k - 1 \in 0 .. m - 1
      BY <1>12, <1>13, <2>2
    <3>2. decided'[k] = decided[k] /\ LastSN(k - 1)' = LastSN(k - 1)
      BY <1>11, <1>14, <3>1
    <3> QED
      BY <1>4, <2>2, <3>2 DEF Start, PolicyAfter
  <2> QED
    BY <2>1, <2>2
<1>16. FirstSN(m)' = start /\ LastSN(m)' = end
  BY <1>9, <1>11, <1>12 DEF FirstSN, LastSN
<1>17. ASSUME NEW k \in 0 .. m PROVE EpochOK(k)'
  <2>1. CASE k \in 0 .. m - 1
    <3>1. k + 1 \in 1 .. e
      BY <1>12, <1>13, <2>1
    <3>2. EpochOK(k)
      BY <1>1, <1>13, <2>1 DEF History
    <3>3. decided'[k + 1] = decided[k + 1]
      BY <1>11, <3>1
    <3> QED
      BY <1>4, <1>15, <3>2, <3>3 DEF EpochOK
  <2>2. CASE k = m
    <3>1. decided'[k + 1] = rec
      BY <1>11, <1>12, <2>2
    <3>2. start = Start(k)' /\ PolicyAfter(e) = PolicyAfter(k)'
      BY <1>12, <1>15, <2>2 DEF start
    <3>3. rec.leaders \in GetLeaders(config.policy, rec.policy, k)
      BY <1>2, <1>9, <1>12, <2>2
    <3>4. rec.last = rec.first + EpochLen(config.segmentLength, rec.leaders) - 1
      BY <1>9 DEF end
    <3>5. PolicyFit(rec.policy, k)
      BY <1>4, <1>9, <1>12, <2>2
    <3> QED
      BY <1>4, <1>9, <3>1, <3>2, <3>3, <3>4, <3>5 DEF EpochOK
  <2> QED
    BY <1>13, <2>1, <2>2
<1>18. ASSUME NEW k \in 0 .. m, NEW f \in 0 .. m, k < f PROVE LastSN(k)' < FirstSN(f)'
  <2>1. k \in 0 .. m - 1
    BY <1>13, <1>18
  <2>2. LastSN(k)' = LastSN(k) /\ k \in Past
    BY <1>13, <1>14, <2>1
  <2>3. CASE f \in 0 .. m - 1
    <3>1. FirstSN(f)' = FirstSN(f) /\ f \in Past
      BY <1>13, <1>14, <2>3
    <3>2. LastSN(k) < FirstSN(f)
      BY <1>1, <1>18, <2>2, <3>1 DEF History
    <3> QED
      BY <2>2, <3>1, <3>2
  <2>4. CASE f = m
    <3>1. LastSN(k) < start
      BY <1>1, <2>2, DecidedIs DEF start, e
    <3> QED
      BY <1>16, <2>2, <2>4, <3>1
  <2> QED
    BY <1>13, <2>3, <2>4
<1>19. History'
  <2>1. config' \in Deployments /\ config.epochs \in Nat
    BY <1>1, <1>4, ConfigType DEF History
  <2>2. Len(decided') <= config'.epochs
    BY <1>1, <1>4, <1>11, <2>1
  <2>3. Past' = 0 .. m
    BY <1>13
  <2> QED
    BY <1>11, <1>17, <1>18, <2>1, <2>2, <2>3 DEF History
<1>20. /\ epoch' = epoch /\ epoch \in 0 .. m /\ firstEmpty' = firstEmpty /\ committed' = committed
       /\ handled' = handled /\ suspects' = suspects /\ policy' = policy /\ pc' = pc /\ sent' = sent
       /\ segments' = segments /\ lastEpochSN' = lastEpochSN /\ toIssue' = toIssue /\ last' = last
       /\ arriving' = arriving /\ backlog' = backlog /\ fetching' = fetching /\ missing' = missing
       /\ issued' = issued /\ killer' = killer /\ killQ' = killQ /\ own' = own /\ arrived' = arrived
       /\ checkpoint' = checkpoint /\ pending' = pending /\ stuck' = stuck /\ stableQ' = stableQ
       /\ catchQ' = catchQ
  BY <1>1, <1>12 DEF msgVars, checkVars, killVars, managerVars, ordererVars, logVars, fetchVars,
                     ManagerOK, e
<1>21. Len(decided') = m + 1 /\ Len(decided) = m
  BY <1>11, <1>12 DEF e
<1>22. HasRead'
  <2>1. HasRead
    BY <1>1 DEF ManagerOK
  <2>2. CASE epoch < m
    <3>1. /\ handled \in FirstSN(epoch) .. LastSN(epoch) + 1
          /\ Reads(config.policy, decided[epoch + 1], epoch)[handled]
                = [suspects |-> suspects, policy |-> policy]
      BY <1>21, <2>1, <2>2 DEF HasRead
    <3>2. epoch + 1 \in 1 .. e
      BY <1>12, <1>13, <1>20, <2>2
    <3>3. decided'[epoch + 1] = decided[epoch + 1]
      BY <1>11, <3>2
    <3>4. epoch # m + 1
      BY <1>13, <2>2
    <3> QED
      BY <1>4, <1>20, <1>21, <3>1, <3>3, <3>4 DEF HasRead, FirstSN, LastSN
  <2>3. CASE epoch = m
    <3>1. suspects = {} /\ policy = PolicyAfter(e) /\ handled = start
      BY <1>12, <1>21, <2>1, <2>3 DEF HasRead, start
    <3>2. start \in rec.first .. rec.last + 1 /\ rec.first \in Int /\ rec.last \in Int /\ rec.first <= rec.last + 1
      BY <1>4, <1>7, <1>9
    <3>3. Reads(config.policy, rec, epoch)[start]
            = ReadStep(config.policy, rec, epoch, Reads(config.policy, rec, epoch), start)
      BY <3>2, ReadsIs
    <3>4. Reads(config.policy, rec, epoch)[start] = [suspects |-> {}, policy |-> PolicyAfter(e)]
      BY <1>9, <3>3 DEF ReadStep
    <3>5. decided'[epoch + 1] = rec
      BY <1>11, <1>12, <2>3
    <3>6. epoch # m + 1
      BY <1>13, <2>3
    <3> QED
      BY <1>4, <1>20, <1>21, <3>1, <3>2, <3>4, <3>5, <3>6 DEF HasRead, FirstSN, LastSN
  <2> QED
    BY <1>13, <1>20, <2>2, <2>3
<1>23. HasSegments'
  <2>1. PICK k \in 0 .. m : k = epoch /\ k = epoch'
    BY <1>20
  <2>2. PICK g \in GetLeaders(config.policy, PolicyAfter(k), k) :
          /\ segments = CreateSegments(config.segmentLength, g, k, Start(k))
          /\ lastEpochSN = Start(k) + EpochLen(config.segmentLength, g) - 1
    BY <1>1, <2>1 DEF ManagerOK, HasSegments
  <2>3. PolicyAfter(epoch)' = PolicyAfter(k) /\ Start(epoch)' = Start(k)
    <3>1. PolicyAfter(k)' = PolicyAfter(k) /\ Start(k)' = Start(k)
      BY <1>15
    <3>2. PolicyAfter(epoch)' = PolicyAfter(k)' /\ Start(epoch)' = Start(k)'
      BY <2>1 DEF PolicyAfter, Start, LastSN
    <3> QED
      BY <3>1, <3>2
  <2> QED
    BY <1>4, <1>20, <2>1, <2>2, <2>3 DEF HasSegments
<1>24. Position'
  <2>1. epoch < m => epoch < m + 1
    BY <1>13, <1>20
  <2> QED
    BY <1>1, <1>20, <1>21, <2>1 DEF ManagerOK, Position
<1>25. ManagerOK'
  <2>1. epoch' \in 0 .. Len(decided')
    BY <1>13, <1>20, <1>21
  <2> QED
    BY <1>1, <1>20, <1>22, <1>23, <1>24, <2>1 DEF ManagerOK
<1>26. Decided \subseteq Decided'
  <2>1. Decided = 0 .. start - 1
    BY <1>1, DecidedIs DEF start, e
  <2>2. decided' # <<>> /\ decided'[Len(decided')].last = end
    BY <1>9, <1>11, <1>12, <1>13, <1>21
  <2>3. Decided' = 0 .. end
    BY <2>2 DEF Decided
  <2> QED
    BY <1>4, <1>7, <2>1, <2>3
<1>27. LogOK'
  BY <1>1, <1>20, <1>26 DEF LogOK
<1>28. TransferOK' /\ FetchedIsKept'
  BY <1>1, <1>20, <1>26 DEF TransferOK, FetchedIsKept
<1>29. Past \subseteq Past'
  BY <1>13
<1>30. KillersOK'
  <2>1. killQ' \in [Epoch -> Seq(Past')]
    <3>1. \A k \in Epoch : killQ[k] \in Seq(Past')
      BY <1>1, <1>29, SeqWider DEF KillersOK
    <3> QED
      BY <1>1, <1>20, <3>1 DEF KillersOK
  <2>2. \A k \in Epoch : k < m => k < m + 1
    BY <1>13 DEF Epoch
  <2> QED
    BY <1>1, <1>20, <1>21, <2>1, <2>2 DEF KillersOK
<1>31. CheckpointsOK'
  <2>1. stableQ' \in Seq(Past') /\ catchQ' \in Seq(Past')
    BY <1>1, <1>20, <1>29, SeqWider DEF CheckpointsOK
  <2>2. /\ own \in 0 .. sent /\ arrived \in [Epoch -> 0 .. N - 1]
        /\ checkpoint \in Past \cup {-1} /\ pending \in [Epoch -> 0 .. Quorum - 1] /\ stuck \in BOOLEAN
    BY <1>1 DEF CheckpointsOK
  <2> QED
    BY <1>20, <1>29, <2>1, <2>2 DEF CheckpointsOK
<1> QED
  BY <1>19, <1>25, <1>27, <1>28, <1>30, <1>31 DEF NodeInv

-----------------------------------------------------------------------------

LEMMA StutterStep ==
    ASSUME NodeInv, UNCHANGED vars
    PROVE  NodeInv'
<1>1. /\ History /\ ManagerOK /\ LogOK /\ TransferOK /\ KillersOK /\ CheckpointsOK /\ FetchedIsKept
      /\ UNCHANGED <<world, msgVars, checkVars, managerVars, ordererVars, logVars, fetchVars>>
      /\ UNCHANGED <<world, killVars, epoch>>
  BY DEF NodeInv, vars, managerVars
<1>2. /\ History' /\ ManagerOK' /\ LogOK' /\ TransferOK' /\ CheckpointsOK' /\ FetchedIsKept'
  BY <1>1, KillKeeps
<1>3. KillersOK'
  BY <1>1, KillersKept
<1> QED
  BY <1>2, <1>3 DEF NodeInv

LEMMA NextInv ==
    ASSUME NodeInv, [Next]_vars
    PROVE  NodeInv'
<1>1. CASE Decide
  BY <1>1, DecideStep
<1>2. ASSUME NEW e \in Epoch, HandleCheckpoint(e) PROVE NodeInv'
  BY <1>2, HandleCheckpointStep
<1>3. CASE HandleOwnCheckpoint
  BY <1>3, HandleOwnStep
<1>4. ASSUME NEW sn \in Decided, CommitEntry(sn) \/ Fetch(sn) PROVE NodeInv'
  <2>1. CASE CommitEntry(sn)
    BY <2>1, CommitEntryStep
  <2>2. CASE HandleResponse(sn)
    BY <2>2, HandleResponseStep
  <2>3. CASE FetchDone(sn)
    BY <2>3, FetchDoneStep
  <2> QED
    BY <1>4, <2>1, <2>2, <2>3 DEF Fetch
<1>5. ASSUME NEW e \in Epoch, Killing(e) PROVE NodeInv'
  <2>1. CASE KillSubscribe(e)
    BY <2>1, KillSubscribeStep
  <2>2. CASE KillRead(e)
    BY <2>2, KillReadStep
  <2>3. CASE KillFinish(e)
    BY <2>3, KillFinishStep
  <2> QED
    BY <1>5, <2>1, <2>2, <2>3 DEF Killing
<1>6. CASE Manager
  <2>1. CASE HandleEntry
    BY <2>1, HandleEntryStep
  <2>2. CASE LaunchCheckpoint
    BY <2>2, LaunchStep
  <2>3. CASE NextEpoch
    BY <2>3, NextEpochStep
  <2>4. ASSUME NEW i \in toIssue, IssueSegment(i) PROVE NodeInv'
    BY <2>4, IssueStep
  <2> QED
    BY <1>6, <2>1, <2>2, <2>3, <2>4 DEF Manager
<1>7. CASE CatchUp
  BY <1>7, CatchUpStep
<1>8. CASE Backlog
  <2>1. PICK sn \in arriving : BacklogAppend(sn)
    BY <1>8 DEF Backlog
  <2> QED
    BY <2>1, BacklogAppendStep
<1>9. CASE UNCHANGED vars
  BY <1>9, StutterStep
<1> QED
  BY <1>1, <1>2, <1>3, <1>4, <1>5, <1>6, <1>7, <1>8, <1>9 DEF Next

-----------------------------------------------------------------------------

LEMMA InvIsType ==
    ASSUME NodeInv
    PROVE  TypeOK
<1>1. /\ History /\ ManagerOK /\ LogOK /\ TransferOK /\ KillersOK /\ CheckpointsOK
  BY DEF NodeInv
<1>2. Len(decided) \in Nat /\ Len(decided) <= Epochs /\ Epochs \in Nat /\ Past \subseteq Epoch /\ SNs = Decided
  BY <1>1, ConfigType, DecidedIs, PastIsEpoch DEF History
<1>3. own \in 0 .. sent /\ sent \in 0 .. Epochs
  BY <1>1, <1>2, OwnIsPast DEF CheckpointsOK
<1>4. stableQ \in Seq(Epoch) /\ catchQ \in Seq(Epoch) /\ checkpoint \in Epoch \cup {-1}
  BY <1>1, <1>2, SeqWider DEF CheckpointsOK
<1>5. killQ \in [Epoch -> Seq(Epoch)]
  <2>1. killQ \in [Epoch -> Seq(Past)]
    BY <1>1 DEF KillersOK
  <2>2. \A k \in Epoch : killQ[k] \in Seq(Epoch)
    BY <1>2, <2>1, SeqWider
  <2> QED
    BY <2>1, <2>2
<1>6. epoch \in 0 .. Epochs /\ handled \in 0 .. firstEmpty /\ toIssue \subseteq DOMAIN segments
  BY <1>1, <1>2 DEF ManagerOK
<1>7. suspects \subseteq Node
  <2>1. CASE epoch = Len(decided)
    BY <1>1, <2>1 DEF ManagerOK, HasRead
  <2>2. CASE epoch < Len(decided)
    <3> DEFINE d == decided[epoch + 1]
    <3>1. /\ epoch \in Nat /\ d.first \in Nat /\ d.last \in Nat /\ d.first <= d.last
          /\ handled \in d.first .. d.last + 1 /\ IsLeaders(d.leaders) /\ PolicyFit(d.policy, epoch)
          /\ Reads(config.policy, d, epoch)[handled] = [suspects |-> suspects, policy |-> policy]
      BY <2>2, Current
    <3> HIDE DEF d
    <3>2. d.first \in Int /\ d.last \in Int /\ d.first <= d.last + 1
      BY <3>1
    <3>3. Known(Reads(config.policy, d, epoch)[handled], epoch)
      BY <3>1, <3>2, ReadsKnown
    <3> QED
      BY <3>1, <3>3 DEF Known
  <2> QED
    BY <1>1, <1>2, <2>1, <2>2 DEF ManagerOK
<1>8. last \in -1 .. lastEpochSN
  BY <1>1, PastBelow DEF LogOK
<1>9. /\ committed \subseteq SNs /\ firstEmpty \in Nat
      /\ 0 .. firstEmpty - 1 \subseteq committed /\ firstEmpty \notin committed
      /\ arriving \cup backlog \cup fetching \cup missing \subseteq SNs
  BY <1>1, <1>2 DEF LogOK, TransferOK
<1>10. /\ killer \in [Epoch -> {"off", "started", "subscribed", "waiting", "entry", "done"}]
       /\ arrived \in [Epoch -> 0 .. N - 1] /\ pending \in [Epoch -> 0 .. Quorum - 1] /\ stuck \in BOOLEAN
       /\ pc \in {"issue", "read", "checkpoint", "wait", "exit"}
  BY <1>1 DEF KillersOK, CheckpointsOK, ManagerOK, Position
<1> QED
  BY <1>3, <1>4, <1>5, <1>6, <1>7, <1>8, <1>9, <1>10 DEF TypeOK

\* But for the combined policy there is nothing to choose.
LEMMA OneAnswer ==
    ASSUME NEW name \in Policy, name # "Combined", NEW p, NEW e, NEW l \in GetLeaders(name, p, e)
    PROVE  GetLeaders(name, p, e) = {l}
<1>1. \E m : GetLeaders(name, p, e) = {m}
  BY DEF GetLeaders, Policy
<1> QED
  BY <1>1

LEMMA InvAgrees ==
    ASSUME NodeInv
    PROVE  SegmentsAgree
<1>1. History /\ epoch \in 0 .. Len(decided) /\ epoch \in Nat
  BY DecidedIs DEF NodeInv, ManagerOK
<1>2. PICK l \in GetLeaders(config.policy, PolicyAfter(epoch), epoch) :
          /\ segments = CreateSegments(config.segmentLength, l, epoch, Start(epoch))
          /\ lastEpochSN = Start(epoch) + EpochLen(config.segmentLength, l) - 1
  BY DEF NodeInv, ManagerOK, HasSegments
<1>3. Start(epoch) \in Nat /\ PolicyFit(PolicyAfter(epoch), epoch)
  BY <1>1, StartFacts
<1>4. IsLeaders(l)
  BY <1>1, <1>2, <1>3, ConfigType, LeadersFit DEF History
<1> DEFINE offset == Start(epoch)
           length == EpochLen(config.segmentLength, l)
           n == Len(l)
<1>5. length \in Nat /\ length > 0
  BY <1>1, <1>4, ConfigType, EpochLenFit DEF History
<1>6. /\ DOMAIN segments = 1 .. n
      /\ \A i \in 1 .. n : segments[i].sns = SegmentSNs(length, l, offset, i)
  BY <1>2 DEF CreateSegments
<1> HIDE DEF length, offset
<1>7. /\ UNION {segments[i].sns : i \in DOMAIN segments} = offset .. lastEpochSN
      /\ \A i, j \in DOMAIN segments : i # j => segments[i].sns \cap segments[j].sns = {}
  <2>1. /\ UNION {SegmentSNs(length, l, offset, i) : i \in 1 .. n} = offset .. offset + length - 1
        /\ \A i, j \in 1 .. n :
             i # j => SegmentSNs(length, l, offset, i) \cap SegmentSNs(length, l, offset, j) = {}
    BY <1>3, <1>4, <1>5, SNsDivided DEF offset
  <2>2. {segments[i].sns : i \in DOMAIN segments} = {SegmentSNs(length, l, offset, i) : i \in 1 .. n}
    BY <1>6
  <2>3. lastEpochSN = offset + length - 1
    BY <1>2 DEF offset, length
  <2> QED
    BY <1>6, <2>1, <2>2, <2>3
<1>8. /\ UNION {segments[i].buckets : i \in DOMAIN segments} = Bucket
      /\ \A i, j \in DOMAIN segments : i # j => segments[i].buckets \cap segments[j].buckets = {}
  BY <1>1, <1>2, <1>4, <1>6, BucketsDivided
<1>9. offset = IF epoch = 0 THEN 0 ELSE LastSN(epoch - 1) + 1
  BY DEF offset, Start
<1>10. segments = CreateSegments(config.segmentLength, l, epoch, offset)
  BY <1>2 DEF offset
<1>11. config.policy # "Combined" => GetLeaders(config.policy, PolicyAfter(epoch), epoch) = {l}
  BY <1>1, <1>2, ConfigType, OneAnswer DEF History
<1> QED
  BY <1>2, <1>7, <1>8, <1>9, <1>10, <1>11 DEF SegmentsAgree

-----------------------------------------------------------------------------
(* No checkpoint is stable without a quorum, whichever messages get lost *)

\* The log, the manager or the goroutine of a segment has been told that e is stable.
Told(e) ==
    \/ checkpoint = e
    \/ \E i \in 1 .. Len(stableQ) : stableQ[i] = e
    \/ \E k \in Epoch : \E i \in 1 .. Len(killQ[k]) : killQ[k][i] = e

\* Nothing is kept that was not sent, and nothing is told without a quorum.
Backing ==
    /\ \A e \in Epoch : pending[e] <= Had(e)
    /\ \A e \in Epoch : Told(e) => Vouched(e)
    /\ QuorumBehind

LEMMA HadType ==
    ASSUME CheckpointsOK
    PROVE  /\ own \in Nat /\ arrived \in [Epoch -> 0 .. N - 1] /\ pending \in [Epoch -> 0 .. Quorum - 1]
           /\ \A k \in Epoch : /\ Had(k) \in Nat /\ pending[k] \in Nat /\ arrived[k] \in Nat
                               /\ k \in Nat
<1>1. own \in Nat /\ arrived \in [Epoch -> 0 .. N - 1] /\ pending \in [Epoch -> 0 .. Quorum - 1]
  BY DEF CheckpointsOK
<1>2. ASSUME NEW k \in Epoch
      PROVE  Had(k) \in Nat /\ pending[k] \in Nat /\ arrived[k] \in Nat /\ k \in Nat
  <2>1. pending[k] \in 0 .. Quorum - 1 /\ arrived[k] \in 0 .. N - 1
    BY <1>1
  <2>2. (IF own > k THEN 1 ELSE 0) \in Nat
    OBVIOUS
  <2>3. k \in Nat
    BY DEF Epoch
  <2> QED
    BY <2>1, <2>2, <2>3, Numbers DEF Had
<1> QED
  BY <1>1, <1>2

\* It is enough that what a step tells, and what it lets go, has a quorum then.
LEMMA BackedStep ==
    ASSUME Backing, epoch \in Nat, epoch <= Epochs, epoch' = epoch,
           \A e \in Epoch : pending[e]' <= Had(e)',
           \A e \in Epoch : Vouched(e) => Vouched(e)',
           \A e \in Epoch : Told(e)' => Told(e) \/ Vouched(e)',
           \A e \in Epoch : Abandoned(e)' => Abandoned(e) \/ \E k \in Epoch : k >= e /\ Told(k)
    PROVE  Backing'
<1>1. \A e \in Epoch : Told(e) => Vouched(e)
  BY DEF Backing
<1>2. \A e \in Epoch : Told(e)' => Vouched(e)'
  BY <1>1
<1>3. \A e \in 0 .. epoch' - 1 : Vouched(e)'
  <2>1. \A e \in 0 .. epoch' - 1 : e \in Epoch /\ e \in 0 .. epoch - 1
    BY NodeAssumption DEF Epoch
  <2> QED
    BY <2>1 DEF Backing, QuorumBehind
<1>4. ASSUME NEW e \in Epoch, Abandoned(e)' PROVE \E k \in Epoch : k >= e /\ Vouched(k)'
  <2>1. PICK k \in Epoch : k >= e /\ Vouched(k)
    BY <1>1, <1>4 DEF Backing, QuorumBehind
  <2> QED
    BY <2>1
<1>5. QuorumBehind'
  BY <1>3, <1>4 DEF QuorumBehind
<1> QED
  BY <1>2, <1>5 DEF Backing

\* What does not touch the messages and the channels.
LEMMA BackingKept ==
    ASSUME Backing, UNCHANGED <<own, arrived, checkpoint, pending, stableQ, killQ, epoch>>,
           \A e \in Epoch : Abandoned(e)' => Abandoned(e)
    PROVE  Backing'
<1>1. \A e : Had(e)' = Had(e) /\ (Vouched(e)' <=> Vouched(e)) /\ (Told(e)' <=> Told(e))
  BY DEF Had, Vouched, Told
<1>2. QuorumBehind'
  BY <1>1 DEF Backing, QuorumBehind
<1> QED
  BY <1>1, <1>2 DEF Backing

LEMMA Appended ==
    ASSUME NEW S, NEW q \in Seq(S), NEW x, NEW y, NEW i \in 1 .. Len(Append(q, x)), Append(q, x)[i] = y
    PROVE  y = x \/ \E j \in 1 .. Len(q) : q[j] = y
<1>1. Len(q) \in Nat /\ Len(Append(q, x)) = Len(q) + 1
  OBVIOUS
<1>2. CASE i = Len(q) + 1
  BY <1>1, <1>2
<1>3. CASE i \in 1 .. Len(q)
  BY <1>1, <1>3
<1> QED
  BY <1>1, <1>2, <1>3

LEMMA InTail ==
    ASSUME NEW S, NEW q \in Seq(S), q # <<>>, NEW i \in 1 .. Len(Tail(q))
    PROVE  \E j \in 1 .. Len(q) : q[j] = Tail(q)[i]
<1>1. Len(q) \in Nat /\ Len(Tail(q)) = Len(q) - 1 /\ Tail(q)[i] = q[i + 1]
  BY HeadTailProperties, EmptySeq
<1>2. i + 1 \in 1 .. Len(q)
  BY <1>1
<1> QED
  BY <1>1, <1>2

LEMMA AtHead ==
    ASSUME NEW S, NEW q \in Seq(S), q # <<>>
    PROVE  1 \in 1 .. Len(q) /\ q[1] = Head(q) /\ q[1] \in S
<1>1. Len(q) \in Nat /\ Len(q) # 0
  BY EmptySeq
<1> QED
  BY <1>1

\* A message is handled: it is kept, or with it the quorum is complete.
LEMMA HandleBacked ==
    ASSUME History, CheckpointsOK, KillersOK, Backing, epoch' = epoch, NEW e \in Epoch, Handle(e),
           \A k \in Epoch : Had(k)' = IF k = e THEN Had(k) + 1 ELSE Had(k),
           epoch \in Nat, epoch <= Epochs
    PROVE  Backing'
<1>1. /\ \A k \in Epoch : Had(k) \in Nat /\ pending[k] \in Nat /\ k \in Nat
      /\ pending \in [Epoch -> 0 .. Quorum - 1] /\ Quorum \in Nat
      /\ stableQ \in Seq(Past) /\ killQ \in [Epoch -> Seq(Past)]
      /\ \A k \in Epoch : killQ[k] \in Seq(Past)
  BY HadType, Numbers DEF CheckpointsOK, KillersOK
<1>2. \A k \in Epoch : Vouched(k) => Vouched(k)'
  <2> SUFFICES ASSUME NEW k \in Epoch, Had(k) >= Quorum PROVE Had(k)' >= Quorum
    BY DEF Vouched
  <2>1. Had(k)' = Had(k) + 1 \/ Had(k)' = Had(k)
    OBVIOUS
  <2> QED
    BY <1>1, <2>1
<1>3. \A k \in Epoch : pending[k] <= Had(k)
  BY DEF Backing
<1>4. \A k \in Epoch : Abandoned(k)' => Abandoned(k)
  BY DEF Handle, killVars, Abandoned
<1>5. ASSUME \A k \in Epoch : pending'[k] <= Had(k)',
             \A k \in Epoch : Told(k)' => Told(k) \/ Vouched(k)'
      PROVE  Backing'
  BY <1>2, <1>4, <1>5, BackedStep
<1>6. CASE UNCHANGED <<checkVars, killVars>>
  <2>1. /\ checkpoint' = checkpoint /\ pending' = pending /\ stableQ' = stableQ /\ killQ' = killQ
    BY <1>6 DEF checkVars, killVars
  <2>2. \A k \in Epoch : pending'[k] <= Had(k)'
    <3> SUFFICES ASSUME NEW k \in Epoch PROVE pending[k] <= Had(k)'
      BY <2>1
    <3>1. pending[k] <= Had(k) /\ Had(k) \in Nat /\ pending[k] \in Nat
      BY <1>1, <1>3
    <3>2. Had(k)' = Had(k) + 1 \/ Had(k)' = Had(k)
      OBVIOUS
    <3> QED
      BY <3>1, <3>2
  <2>3. \A k \in Epoch : Told(k)' => Told(k)
    BY <2>1 DEF Told
  <2> QED
    BY <1>5, <2>2, <2>3
<1>7. CASE /\ pending' = [pending EXCEPT ![e] = @ + 1]
           /\ UNCHANGED <<checkpoint, stuck, stableQ, catchQ, killVars>>
  <2>1. /\ checkpoint' = checkpoint /\ stableQ' = stableQ /\ killQ' = killQ
    BY <1>7 DEF killVars
  <2>2. \A k \in Epoch : pending'[k] <= Had(k)'
    <3> SUFFICES ASSUME NEW k \in Epoch PROVE pending'[k] <= Had(k)'
      OBVIOUS
    <3>1. pending'[k] = IF k = e THEN pending[k] + 1 ELSE pending[k]
      BY <1>1, <1>7
    <3>2. CASE k = e
      BY <1>1, <1>3, <3>1, <3>2
    <3>3. CASE k # e
      BY <1>1, <1>3, <3>1, <3>3
    <3> QED
      BY <3>2, <3>3
  <2>3. \A k \in Epoch : Told(k)' => Told(k)
    BY <2>1 DEF Told
  <2> QED
    BY <1>5, <2>2, <2>3
<1>8. CASE Enough(e) /\ CommitCheckpoint(e) /\ pending' = Prune(e)
  <2>1. Vouched(e)'
    <3>1. pending[e] + 1 >= Quorum /\ Had(e)' = Had(e) + 1 /\ pending[e] <= Had(e)
      BY <1>3, <1>8 DEF Enough
    <3> QED
      BY <1>1, <3>1 DEF Vouched
  <2>2. /\ checkpoint' = e \/ checkpoint' = checkpoint
        /\ stableQ' = Append(stableQ, e)
        /\ \A k \in Epoch : killQ'[k] = Append(killQ[k], e) \/ killQ'[k] = killQ[k]
    BY <1>8 DEF CommitCheckpoint
  <2>3. ASSUME NEW k \in Epoch, Told(k)' PROVE k = e \/ Told(k)
    <3>1. CASE checkpoint' = k
      BY <2>2, <3>1 DEF Told
    <3>2. CASE \E i \in 1 .. Len(stableQ') : stableQ'[i] = k
      <4>1. PICK i \in 1 .. Len(stableQ') : stableQ'[i] = k
        BY <3>2
      <4>2. i \in 1 .. Len(Append(stableQ, e)) /\ Append(stableQ, e)[i] = k
        BY <2>2, <4>1
      <4>3. k = e \/ \E j \in 1 .. Len(stableQ) : stableQ[j] = k
        BY <1>1, <4>2, Appended
      <4> QED
        BY <4>3 DEF Told
    <3>3. CASE \E g \in Epoch : \E i \in 1 .. Len(killQ'[g]) : killQ'[g][i] = k
      <4>1. PICK g \in Epoch : \E i \in 1 .. Len(killQ'[g]) : killQ'[g][i] = k
        BY <3>3
      <4>2. CASE killQ'[g] = killQ[g]
        BY <4>1, <4>2 DEF Told
      <4>3. CASE killQ'[g] = Append(killQ[g], e)
        <5>1. PICK i \in 1 .. Len(Append(killQ[g], e)) : Append(killQ[g], e)[i] = k
          BY <4>1, <4>3
        <5>2. k = e \/ \E j \in 1 .. Len(killQ[g]) : killQ[g][j] = k
          BY <1>1, <5>1, Appended
        <5> QED
          BY <5>2 DEF Told
      <4> QED
        BY <2>2, <4>2, <4>3
    <3> QED
      BY <2>3, <3>1, <3>2, <3>3 DEF Told
  <2>4. \A k \in Epoch : pending'[k] <= Had(k)'
    <3> SUFFICES ASSUME NEW k \in Epoch PROVE pending'[k] <= Had(k)'
      OBVIOUS
    <3>1. pending'[k] = 0 \/ pending'[k] = pending[k]
      BY <1>8 DEF Prune
    <3>2. pending[k] <= Had(k) /\ Had(k) \in Nat /\ pending[k] \in Nat
      BY <1>1, <1>3
    <3>3. Had(k)' = Had(k) + 1 \/ Had(k)' = Had(k)
      OBVIOUS
    <3> QED
      BY <3>1, <3>2, <3>3
  <2>5. \A k \in Epoch : Told(k)' => Told(k) \/ Vouched(k)'
    BY <2>1, <2>3
  <2> QED
    BY <1>5, <2>4, <2>5
<1> QED
  BY <1>6, <1>7, <1>8 DEF Handle

LEMMA HandleCheckpointBacked ==
    ASSUME NodeInv, Backing, NEW e \in Epoch, HandleCheckpoint(e)
    PROVE  Backing'
<1>1. /\ Handle(e) /\ arrived' = [arrived EXCEPT ![e] = @ + 1] /\ own' = own /\ epoch' = epoch
  BY DEF HandleCheckpoint, managerVars
<1>2. History /\ CheckpointsOK /\ KillersOK /\ epoch \in Nat /\ epoch <= Epochs
  BY DecidedIs, ConfigType DEF NodeInv, ManagerOK, History
<1>3. \A k \in Epoch : Had(k)' = IF k = e THEN Had(k) + 1 ELSE Had(k)
  <2> SUFFICES ASSUME NEW k \in Epoch PROVE Had(k)' = IF k = e THEN Had(k) + 1 ELSE Had(k)
    OBVIOUS
  <2>1. arrived[k] \in Nat /\ arrived \in [Epoch -> 0 .. N - 1]
    BY <1>2, HadType
  <2>2. arrived'[k] = IF k = e THEN arrived[k] + 1 ELSE arrived[k]
    BY <1>1, <2>1
  <2> QED
    BY <1>1, <2>1, <2>2 DEF Had
<1> QED
  BY <1>1, <1>2, <1>3, HandleBacked

LEMMA HandleOwnBacked ==
    ASSUME NodeInv, Backing, HandleOwnCheckpoint
    PROVE  Backing'
<1>1. own < sent /\ Handle(own) /\ own' = own + 1 /\ arrived' = arrived /\ epoch' = epoch
  BY DEF HandleOwnCheckpoint, managerVars
<1>2. History /\ ManagerOK /\ CheckpointsOK /\ KillersOK /\ epoch \in Nat /\ epoch <= Epochs
  BY DecidedIs, ConfigType DEF NodeInv, ManagerOK, History
<1>3. own \in Past /\ Past \subseteq Epoch
  BY <1>1, <1>2, OwnIsPast, PastIsEpoch DEF CheckpointsOK
<1>4. PICK e \in Epoch : e = own
  BY <1>3
<1>5. \A k \in Epoch : Had(k)' = IF k = e THEN Had(k) + 1 ELSE Had(k)
  <2> SUFFICES ASSUME NEW k \in Epoch PROVE Had(k)' = IF k = e THEN Had(k) + 1 ELSE Had(k)
    OBVIOUS
  <2>1. arrived[k] \in Nat /\ own \in Nat /\ k \in Nat
    BY <1>2, HadType
  <2>2. CASE k = e
    BY <1>1, <1>4, <2>1, <2>2 DEF Had
  <2>3. CASE k # e
    <3>1. own' > k <=> own > k
      BY <1>1, <1>4, <2>1, <2>3
    <3> QED
      BY <1>1, <2>3, <3>1 DEF Had
  <2> QED
    BY <2>2, <2>3
<1>6. Handle(e)
  BY <1>1, <1>4
<1> QED
  BY <1>1, <1>2, <1>5, <1>6, HandleBacked

\* The goroutine of a segment takes the checkpoint of the log, or one it was sent.
LEMMA KillReadBacked ==
    ASSUME NodeInv, Backing, NEW e \in Epoch, KillRead(e)
    PROVE  Backing'
<1>1. /\ own' = own /\ arrived' = arrived /\ checkpoint' = checkpoint /\ pending' = pending
      /\ stableQ' = stableQ /\ epoch' = epoch
  BY DEF KillRead, msgVars, checkVars, managerVars
<1>2. /\ killQ \in [Epoch -> Seq(Past)] /\ killQ[e] \in Seq(Past) /\ Past \subseteq Epoch
      /\ checkpoint \in Past \cup {-1} /\ e \in Nat
      /\ killer \in [Epoch -> {"off", "started", "subscribed", "waiting", "entry", "done"}]
  <2>1. /\ killQ \in [Epoch -> Seq(Past)] /\ checkpoint \in Past \cup {-1}
        /\ killer \in [Epoch -> {"off", "started", "subscribed", "waiting", "entry", "done"}]
    BY DEF NodeInv, KillersOK, CheckpointsOK
  <2>2. Past \subseteq Epoch
    BY PastIsEpoch DEF NodeInv
  <2>3. e \in Nat
    BY DEF Epoch
  <2> QED
    BY <2>1, <2>2, <2>3
<1>3. epoch \in Nat /\ epoch <= Epochs
  BY DecidedIs, ConfigType DEF NodeInv, ManagerOK, History
<1>4. \A k : Had(k)' = Had(k) /\ (Vouched(k) => Vouched(k)')
  BY <1>1 DEF Had, Vouched
<1>5. \A k \in Epoch : k # e => killer'[k] = killer[k] /\ killQ'[k] = killQ[k]
  BY <1>2 DEF KillRead
<1>6. killQ'[e] = killQ[e] \/ (killQ[e] # <<>> /\ killQ'[e] = Tail(killQ[e]))
  BY <1>2 DEF KillRead
<1>7. ASSUME NEW k \in Epoch, Told(k)' PROVE Told(k)
  <2>1. ASSUME NEW g \in Epoch, NEW i \in 1 .. Len(killQ'[g]), killQ'[g][i] = k
        PROVE  \E j \in 1 .. Len(killQ[g]) : killQ[g][j] = k
    <3>1. CASE killQ'[g] = killQ[g]
      BY <2>1, <3>1
    <3>2. CASE g = e /\ killQ[e] # <<>> /\ killQ'[e] = Tail(killQ[e])
      <4>1. i \in 1 .. Len(Tail(killQ[e])) /\ Tail(killQ[e])[i] = k
        BY <2>1, <3>2
      <4>2. \E j \in 1 .. Len(killQ[e]) : killQ[e][j] = Tail(killQ[e])[i]
        BY <1>2, <3>2, <4>1, InTail
      <4> QED
        BY <3>2, <4>1, <4>2
    <3> QED
      BY <1>5, <1>6, <3>1, <3>2
  <2> QED
    BY <1>1, <1>7, <2>1 DEF Told
<1>8. Abandoned(e)' => \E k \in Epoch : k >= e /\ Told(k)
  <2>1. CASE killer' = [killer EXCEPT ![e] = IF checkpoint >= e THEN "entry" ELSE "waiting"]
    <3>1. Abandoned(e)' => checkpoint >= e
      BY <1>2, <2>1 DEF Abandoned
    <3>2. checkpoint >= e => checkpoint \in Epoch
      BY <1>2
    <3> QED
      BY <3>1, <3>2 DEF Told
  <2>2. CASE /\ killQ[e] # <<>>
             /\ killer' = [killer EXCEPT ![e] = IF Head(killQ[e]) >= e THEN "entry" ELSE "waiting"]
    <3>1. Abandoned(e)' => Head(killQ[e]) >= e
      BY <1>2, <2>2 DEF Abandoned
    <3>2. 1 \in 1 .. Len(killQ[e]) /\ killQ[e][1] = Head(killQ[e]) /\ killQ[e][1] \in Past
      BY <1>2, <2>2, AtHead
    <3>3. Head(killQ[e]) \in Epoch /\ Told(Head(killQ[e]))
      BY <1>2, <3>2 DEF Told
    <3> QED
      BY <3>1, <3>3
  <2> QED
    BY <2>1, <2>2 DEF KillRead
<1>9. \A k \in Epoch : Abandoned(k)' => Abandoned(k) \/ \E m \in Epoch : m >= k /\ Told(m)
  BY <1>5, <1>8 DEF Abandoned
<1>10. \A k \in Epoch : pending'[k] <= Had(k)'
  BY <1>1, <1>4 DEF Backing
<1> QED
  BY <1>1, <1>3, <1>4, <1>7, <1>9, <1>10, BackedStep

\* The manager takes a stable checkpoint: that of its epoch, or it exits.
LEMMA NextEpochBacked ==
    ASSUME NodeInv, Backing, NextEpoch
    PROVE  Backing'
<1>1. stableQ \in Seq(Past) /\ epoch \in Nat /\ Past \subseteq Epoch
  BY DecidedIs, PastIsEpoch DEF NodeInv, CheckpointsOK, ManagerOK
<1>2. /\ stableQ # <<>> /\ stableQ' = Tail(stableQ)
      /\ own' = own /\ arrived' = arrived /\ checkpoint' = checkpoint /\ pending' = pending
      /\ killer' = killer /\ killQ' = killQ
  BY DEF NextEpoch, msgVars, killVars
<1>3. \A e : Had(e)' = Had(e) /\ (Vouched(e)' <=> Vouched(e))
  BY <1>2 DEF Had, Vouched
<1>4. ASSUME NEW k \in Epoch, Told(k)' PROVE Told(k)
  <2>1. ASSUME NEW i \in 1 .. Len(stableQ'), stableQ'[i] = k
        PROVE  \E j \in 1 .. Len(stableQ) : stableQ[j] = k
    <3>1. i \in 1 .. Len(Tail(stableQ)) /\ Tail(stableQ)[i] = k
      BY <1>2, <2>1
    <3>2. \E j \in 1 .. Len(stableQ) : stableQ[j] = Tail(stableQ)[i]
      BY <1>1, <1>2, <3>1, InTail
    <3> QED
      BY <3>1, <3>2
  <2> QED
    BY <1>2, <1>4, <2>1 DEF Told
<1>5. \A k \in 0 .. epoch' - 1 : Vouched(k)
  <2>1. \A k \in 0 .. epoch - 1 : Vouched(k)
    BY DEF Backing, QuorumBehind
  <2>2. CASE epoch' = epoch
    BY <2>1, <2>2
  <2>3. CASE Head(stableQ) = epoch /\ epoch' = epoch + 1
    <3>1. 1 \in 1 .. Len(stableQ) /\ stableQ[1] = epoch /\ epoch \in Epoch
      BY <1>1, <1>2, <2>3, AtHead
    <3>2. Told(epoch)
      BY <3>1 DEF Told
    <3>3. Vouched(epoch)
      BY <3>1, <3>2 DEF Backing
    <3>4. \A k \in 0 .. epoch' - 1 : k \in 0 .. epoch - 1 \/ k = epoch
      BY <1>1, <2>3
    <3> QED
      BY <2>1, <3>3, <3>4
  <2> QED
    BY <2>2, <2>3 DEF NextEpoch
<1>6. \A e \in Epoch : Abandoned(e)' => \E k \in Epoch : k >= e /\ Vouched(k)
  BY <1>2 DEF Backing, QuorumBehind, Abandoned
<1>7. QuorumBehind'
  BY <1>3, <1>5, <1>6 DEF QuorumBehind
<1>8. \A e \in Epoch : Told(e)' => Vouched(e)'
  BY <1>3, <1>4 DEF Backing
<1>9. \A e \in Epoch : pending'[e] <= Had(e)'
  BY <1>2, <1>3 DEF Backing
<1> QED
  BY <1>7, <1>8, <1>9 DEF Backing

LEMMA NextBacked ==
    ASSUME NodeInv, Backing, [Next]_vars
    PROVE  Backing'
<1> DEFINE Kept == /\ UNCHANGED <<own, arrived, checkpoint, pending, stableQ, killQ, epoch>>
                   /\ \A e \in Epoch : Abandoned(e)' => Abandoned(e)
           Still == UNCHANGED <<own, arrived, checkpoint, pending, stableQ, killQ, epoch, killer>>
<1>0. Kept => Backing'
  BY BackingKept
<1>s. Still => Kept
  BY DEF Abandoned
<1>k. killer \in [Epoch -> {"off", "started", "subscribed", "waiting", "entry", "done"}]
  BY DEF NodeInv, KillersOK
<1>1. Decide => Still
  BY DEF Decide, msgVars, checkVars, killVars, managerVars
<1>2. ASSUME NEW e \in Epoch, HandleCheckpoint(e) PROVE Backing'
  BY <1>2, HandleCheckpointBacked
<1>3. CASE HandleOwnCheckpoint
  BY <1>3, HandleOwnBacked
<1>4. ASSUME NEW sn, CommitEntry(sn) \/ Fetch(sn) PROVE Still
  <2>1. CommitEntry(sn) => Still
    BY DEF CommitEntry, msgVars, checkVars, killVars, managerVars
  <2>2. HandleResponse(sn) => Still
    BY DEF HandleResponse, msgVars, checkVars, killVars, managerVars
  <2>3. FetchDone(sn) => Still
    BY DEF FetchDone, msgVars, checkVars, killVars, managerVars
  <2> QED
    BY <1>4, <2>1, <2>2, <2>3 DEF Fetch
<1>5. ASSUME NEW e \in Epoch, Killing(e) PROVE Backing'
  <2>1. KillSubscribe(e) => Kept
    BY <1>k DEF KillSubscribe, Abandoned, msgVars, checkVars, managerVars
  <2>2. KillRead(e) => Backing'
    BY KillReadBacked
  <2>3. KillFinish(e) => Kept
    BY <1>k DEF KillFinish, Abandoned, msgVars, checkVars, managerVars
  <2> QED
    BY <1>0, <1>5, <2>1, <2>2, <2>3 DEF Killing
<1>6. CASE Manager
  <2>1. HandleEntry => Still
    BY DEF HandleEntry, msgVars, checkVars, killVars
  <2>2. LaunchCheckpoint => Still
    BY DEF LaunchCheckpoint, checkVars, killVars
  <2>3. NextEpoch => Backing'
    BY NextEpochBacked
  <2>4. ASSUME NEW i, IssueSegment(i) PROVE Kept
    BY <2>4 DEF IssueSegment, Abandoned, msgVars, checkVars
  <2> QED
    BY <1>0, <1>s, <1>6, <2>1, <2>2, <2>3, <2>4 DEF Manager
<1>7. CatchUp => Still
  BY DEF CatchUp, msgVars, killVars, managerVars
<1>8. ASSUME NEW sn, BacklogAppend(sn) PROVE Still
  BY <1>8 DEF BacklogAppend, msgVars, checkVars, killVars, managerVars
<1>9. UNCHANGED vars => Still
  BY DEF vars, msgVars, checkVars, killVars, managerVars
<1> HIDE DEF Kept, Still
<1> QED
  BY <1>0, <1>s, <1>1, <1>2, <1>3, <1>4, <1>5, <1>6, <1>7, <1>8, <1>9 DEF Next, Backlog

LEMMA InitBacked == Init => Backing
<1> SUFFICES ASSUME Init PROVE Backing
  OBVIOUS
<1>1. /\ arrived = [e \in Epoch |-> 0] /\ own = 0 /\ checkpoint = -1 /\ pending = [e \in Epoch |-> 0]
      /\ stableQ = <<>> /\ epoch = 0 /\ killer = [e \in Epoch |-> "off"]
      /\ killQ = [e \in Epoch |-> <<>>]
  BY DEF Init
<1>2. \A e \in Epoch : e \in Nat
  BY DEF Epoch
<1>3. \A e \in Epoch : pending[e] <= Had(e)
  <2> SUFFICES ASSUME NEW e \in Epoch PROVE pending[e] <= Had(e)
    OBVIOUS
  <2>1. e \in Nat /\ pending[e] = 0 /\ arrived[e] = 0
    BY <1>1, <1>2
  <2> QED
    BY <1>1, <2>1 DEF Had
<1>4. \A e \in Epoch : ~ Told(e)
  BY <1>1, <1>2 DEF Told
<1>5. QuorumBehind
  BY <1>1 DEF QuorumBehind, Abandoned
<1> QED
  BY <1>3, <1>4, <1>5 DEF Backing

-----------------------------------------------------------------------------

\* What the steps of the log, the manager, the checkpointer, the state transfer
\* and the backlog preserve together, from any interleaving of their goroutines:
\* the manager has read the decided entries in order, knows what follows from
\* them and runs the segments of its epoch; the log has no hole below
\* firstEmptySN; nothing that a checkpoint lets the orderer forget is missing.
THEOREM Invariance == Spec => []NodeInv
<1>1. Init => NodeInv
  BY InitInv
<1>2. NodeInv /\ [Next]_vars => NodeInv'
  BY NextInv
<1> QED
  BY <1>1, <1>2, PTL DEF Spec

\* The variables have their types; in particular a peer sends one checkpoint
\* message per epoch and only counts own ones it has sent, and what is in the
\* state transfer or the backlog has been decided.
THEOREM TypeCorrect == Spec => []TypeOK
<1>1. NodeInv => TypeOK
  BY InvIsType
<1> QED
  BY <1>1, Invariance, PTL

\* SegmentsAgree: the segments a peer issues divide the sequence numbers and the
\* buckets under every leader policy, and under all of them but the combined one
\* they are a function of the decided entries of earlier epochs, so that all peers
\* issue the same ones however their logs were filled.  Of the combined policy,
\* which lists a map, it says only that the leaders are one of its answers.
THEOREM Agreement == Spec => []SegmentsAgree
<1>1. NodeInv => SegmentsAgree
  BY InvAgrees
<1> QED
  BY <1>1, Invariance, PTL

\* FetchedIsKept: an entry that the state transfer has stopped asking for is in
\* the log or on its way there, also when its answer crosses the start or the
\* end of the instance.
THEOREM Fetched == Spec => []FetchedIsKept
<1>1. NodeInv => FetchedIsKept
  BY DEF NodeInv
<1> QED
  BY <1>1, Invariance, PTL

\* QuorumBehind: the manager leaves no epoch, and the orderer forgets no instance,
\* without a quorum of checkpoint messages for the end of that epoch or of a later
\* one, also when connections lose messages, when later checkpoints overtake
\* earlier ones and whichever checkpointer runs.
THEOREM StableHasQuorum == Spec => []QuorumBehind
<1>1. Init => NodeInv /\ Backing
  BY InitInv, InitBacked
<1>2. NodeInv /\ Backing /\ [Next]_vars => NodeInv' /\ Backing'
  BY NextInv, NextBacked
<1>3. Backing => QuorumBehind
  BY DEF Backing
<1> QED
  BY <1>1, <1>2, <1>3, PTL DEF Spec

=============================================================================
