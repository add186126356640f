----------------------------- MODULE TraceProofs -----------------------------
(***************************************************************************)
(* What a trace answers, for any plant, any request and any limits: every  *)
(* maximal walk of the plant once, unless a limit of paths cut it; then    *)
(* nothing nearer than what is there; and no loose end when it says        *)
(* complete.                                                               *)
(*                                                                         *)
(* The walk visits nodes: the simple walks of the plant within the limit   *)
(* of hops.  The nodes on from a queued one are still to be visited, and   *)
(* no queued node lies on from another; the paths are what the visited     *)
(* nodes record, each once.  Visiting a node puts its children in its      *)
(* place.  So when the queue is empty all nodes were visited.              *)
(*                                                                         *)
(* The recursive definitions, Reach and SimpleWalks, are followed up to n  *)
(* with the least number at which they would go wrong.                     *)
(***************************************************************************)
EXTENDS Trace, TLAPS, FiniteSetTheorems, SequenceTheorems, WellFoundedInduction

(***************************************************************************)
(* Numbers                                                                 *)
(***************************************************************************)
\* A set of numbers that is not empty has a least one.
LEMMA LeastMember ==
  ASSUME NEW S \in SUBSET Nat, S # {}
  PROVE  \E n \in S : \A m \in S : n <= m
<1> DEFINE below == {p \in Nat \X Nat : p[1] < p[2]}
<1>1. IsWellFoundedOn(below, Nat)
  BY NatLessThanWellFounded DEF OpToRel
<1>2. \A n, m \in Nat : m < n => <<m, n>> \in below
  OBVIOUS
<1> HIDE DEF below
<1>3. PICK n \in S : \A m \in S : <<m, n>> \notin below
  BY <1>1, WFMin
<1>4. ASSUME NEW m \in S PROVE n <= m
  <2>1. n \in Nat /\ m \in Nat /\ ~(m < n)
    BY <1>2, <1>3
  <2> QED BY <2>1
<1> QED BY <1>4

\* Induction up to n, for one set.
LEMMA UpTo ==
  ASSUME NEW n \in Nat, NEW S, 0 \in S, \A k \in 1..n : k - 1 \in S => k \in S
  PROVE  0..n \subseteq S
<1> SUFFICES ASSUME (0..n) \ S # {} PROVE FALSE
  OBVIOUS
<1>1. (0..n) \ S \in SUBSET Nat
  OBVIOUS
<1>2. PICK k \in (0..n) \ S : \A m \in (0..n) \ S : k <= m
  BY <1>1, LeastMember
<1>3. k \in 1..n /\ k - 1 \in 0..n /\ ~(k <= k - 1)
  BY <1>2
<1> QED BY <1>2, <1>3

(***************************************************************************)
(* Part(s, at) lists the entries of s at the positions at, each once.      *)
(***************************************************************************)
Rank(at, i) == Cardinality({j \in at : j <= i})

\* p takes the positions of the sequence r to the positions at of s.
Picks(r, p, s, at) ==
  /\ DOMAIN r = 1..Len(r)
  /\ \A k \in DOMAIN r : p[k] \in at /\ r[k] = s[p[k]]
  /\ \A k, l \in DOMAIN r : p[k] = p[l] => k = l
  /\ \A i \in at : \E k \in DOMAIN r : p[k] = i

\* The ranks of the members of a set of positions number it from 1.
LEMMA RankOrders ==
  ASSUME NEW n \in Nat, NEW at \in SUBSET (1..n)
  PROVE  /\ IsFiniteSet(at) /\ Cardinality(at) \in Nat
         /\ \A i \in at : Rank(at, i) \in 1..Cardinality(at)
         /\ \A i, j \in at : Rank(at, i) = Rank(at, j) => i = j
<1>1. IsFiniteSet(at) /\ Cardinality(at) \in Nat
  <2>1. IsFiniteSet(1..n)
    BY FS_Interval
  <2> QED BY <2>1, FS_Subset, FS_CardinalityType
<1> DEFINE upTo(i) == {j \in at : j <= i}
<1>2. \A i \in at : IsFiniteSet(upTo(i)) /\ upTo(i) \in SUBSET at /\ i \in upTo(i) /\ i \in 1..n
  BY <1>1, FS_Subset
<1>3. ASSUME NEW i \in at PROVE Rank(at, i) \in 1..Cardinality(at)
  <2>1. Cardinality(upTo(i)) \in Nat /\ Cardinality(upTo(i)) <= Cardinality(at)
    <3> HIDE DEF upTo
    <3> QED BY <1>1, <1>2, FS_Subset, FS_CardinalityType
  <2>2. Cardinality(upTo(i)) # 0
    <3> HIDE DEF upTo
    <3> QED BY <1>2, FS_EmptySet
  <2> QED BY <2>1, <2>2, <1>1 DEF Rank
<1>4. ASSUME NEW i \in at, NEW j \in at, i <= j, Rank(at, i) = Rank(at, j) PROVE i = j
  <2>1. upTo(i) \in SUBSET upTo(j)
    <3>1. \A k \in at : k \in Nat
      OBVIOUS
    <3>2. \A k \in at : k <= i => k <= j
      BY <1>4, <3>1
    <3> QED BY <3>2
  <2>2. Cardinality(upTo(i)) = Cardinality(upTo(j))
    BY <1>4 DEF Rank
  <2>3. upTo(i) = upTo(j)
    <3> HIDE DEF upTo
    <3> QED BY <1>2, <2>1, <2>2, FS_Subset
  <2>4. j \in upTo(i)
    BY <1>2, <2>3
  <2> QED BY <1>2, <1>4, <2>4
<1>5. ASSUME NEW i \in at, NEW j \in at, Rank(at, i) = Rank(at, j) PROVE i = j
  <2>1. i \in Nat /\ j \in Nat
    BY <1>2
  <2>2. CASE i <= j
    BY <1>4, <1>5, <2>2
  <2>3. CASE j <= i
    BY <1>4, <1>5, <2>3
  <2> QED BY <2>1, <2>2, <2>3
<1> QED BY <1>1, <1>3, <1>5

\* Part takes each position of at once.
LEMMA PartPicks ==
  ASSUME NEW s, NEW n \in Nat, DOMAIN s = 1..n, NEW at \in SUBSET (1..n)
  PROVE  \E p : Picks(Part(s, at), p, s, at)
<1> DEFINE m == Cardinality(at)
           rank == [i \in at |-> Rank(at, i)]
           p == [k \in 1..m |-> CHOOSE i \in at : Rank(at, i) = k]
<1>1. m \in Nat /\ IsFiniteSet(at)
  BY RankOrders
<1>2. rank \in Injection(at, 1..m)
  <2>1. \A i \in at : rank[i] = Rank(at, i)
    OBVIOUS
  <2>2. rank \in [at -> 1..m]
    <3>1. \A i \in at : Rank(at, i) \in 1..m
      BY RankOrders
    <3> HIDE DEF m
    <3> QED BY <3>1
  <2>3. \A i, j \in at : rank[i] = rank[j] => i = j
    BY <2>1, RankOrders
  <2> HIDE DEF rank, m
  <2> QED BY <2>2, <2>3 DEF Injection, IsInjective
<1>3. IsFiniteSet(1..m) /\ Cardinality(1..m) = m
  <2> HIDE DEF m
  <2> QED BY <1>1, FS_Interval
<1>4. rank \in Surjection(at, 1..m)
  <2> HIDE DEF rank
  <2> QED BY <1>2, <1>3, FS_Injection
<1>5. ASSUME NEW k \in 1..m PROVE p[k] \in at /\ Rank(at, p[k]) = k
  <2>1. \E i \in at : Rank(at, i) = k
    BY <1>4 DEF Surjection
  <2> QED BY <2>1
<1>6. ASSUME NEW i \in at PROVE Rank(at, i) \in 1..m /\ p[Rank(at, i)] = i
  <2>1. Rank(at, i) \in 1..m
    BY RankOrders
  <2> QED BY <2>1, <1>5, RankOrders
<1>7. Part(s, at) = [k \in 1..m |-> s[p[k]]]
  BY DEF Part, Rank
<1> HIDE DEF p, m, rank
<1>8. DOMAIN Part(s, at) = 1..m /\ Len(Part(s, at)) = m /\ \A k \in 1..m : Part(s, at)[k] = s[p[k]]
  BY <1>1, <1>7
<1>9. \A k, l \in 1..m : p[k] = p[l] => k = l
  BY <1>5
<1> QED BY <1>5, <1>6, <1>8, <1>9 DEF Picks

LEMMA PartIsSeq ==
  ASSUME NEW S, NEW s \in Seq(S), NEW at \in SUBSET DOMAIN s
  PROVE  /\ Part(s, at) \in Seq(S)
         /\ ToSet(Part(s, at)) = {s[i] : i \in at}
         /\ \A k, l \in DOMAIN Part(s, at) :
              Part(s, at)[k] = Part(s, at)[l] /\ (\A i, j \in at : s[i] = s[j] => i = j) => k = l
<1>1. Len(s) \in Nat /\ DOMAIN s = 1..Len(s)
  OBVIOUS
<1>2. PICK p : Picks(Part(s, at), p, s, at)
  BY <1>1, PartPicks
<1>3. Len(Part(s, at)) \in Nat
  <2>1. Cardinality(at) \in Nat
    BY <1>1, RankOrders
  <2>2. Part(s, at) = [k \in 1..Cardinality(at) |-> s[CHOOSE i \in at : Cardinality({j \in at : j <= i}) = k]]
    BY DEF Part
  <2> QED BY <2>1, <2>2
<1>4. Part(s, at) \in Seq(S)
  <2>1. \A k \in 1..Len(Part(s, at)) : Part(s, at)[k] \in S
    BY <1>2 DEF Picks
  <2>2. Part(s, at) = [k \in 1..Len(Part(s, at)) |-> Part(s, at)[k]]
    <3>1. DOMAIN Part(s, at) = 1..Len(Part(s, at))
      BY <1>2 DEF Picks
    <3>2. Part(s, at) = [k \in DOMAIN Part(s, at) |-> Part(s, at)[k]]
      BY DEF Part
    <3> QED BY <3>1, <3>2
  <2> QED BY <1>3, <2>1, <2>2
<1>5. ToSet(Part(s, at)) = {s[i] : i \in at}
  BY <1>2 DEF Picks, ToSet
<1>6. ASSUME NEW k \in DOMAIN Part(s, at), NEW l \in DOMAIN Part(s, at),
             Part(s, at)[k] = Part(s, at)[l], \A i, j \in at : s[i] = s[j] => i = j
      PROVE  k = l
  BY <1>2, <1>6 DEF Picks
<1> QED BY <1>4, <1>5, <1>6

(***************************************************************************)
(* Walks.  SimpleWalks(q, n) is built up step by step; the same walks can  *)
(* be told one by one, each from its own prefixes.                         *)
(***************************************************************************)
Steps(q) == {h.step : h \in PlantHops(q.net, q.direction)}

Prior(w, i) == SubSeq(w, 1, i - 1)

IsSimple(q, w) ==
  \A i \in 1..Len(w) : w[i] \in Onward(q, Prior(w, i)) /\ w[i].to \notin Met(q, Prior(w, i))

Walks(q, n) == {w \in Seq(Steps(q)) : Len(w) = n /\ IsSimple(q, w)}

Free(q, w) == {h \in Onward(q, w) : h.to \notin Met(q, w)}

Grown(q, W) == UNION {{Append(w, h) : h \in Free(q, w)} : w \in W}

LEMMA OnwardAreSteps == \A q, w : Onward(q, w) \subseteq Steps(q)
BY DEF Onward, Steps

\* What Append leaves of a sequence and of its prefixes.
LEMMA AppendBefore ==
  ASSUME NEW S, NEW w \in Seq(S), NEW h \in S
  PROVE  /\ Append(w, h) \in Seq(S) /\ Len(Append(w, h)) = Len(w) + 1 /\ Append(w, h) # <<>>
         /\ Append(w, h)[Len(w) + 1] = h
         /\ \A i \in 1..Len(w) : Append(w, h)[i] = w[i] /\ Prior(Append(w, h), i) = Prior(w, i)
         /\ Prior(Append(w, h), Len(w) + 1) = w
<1> DEFINE u == Append(w, h)
<1>1. /\ u \in Seq(S) /\ Len(u) = Len(w) + 1 /\ u # <<>> /\ u[Len(w) + 1] = h
      /\ \A i \in 1..Len(w) : u[i] = w[i]
  OBVIOUS
<1>2. Len(w) \in Nat
  OBVIOUS
<1> HIDE DEF u
<1>3. ASSUME NEW i \in 1..(Len(w) + 1) PROVE Prior(u, i) = SubSeq(w, 1, i - 1)
  <2>1. i - 1 \in 0..Len(w) /\ i - 1 <= Len(u)
    BY <1>1, <1>2
  <2>2. \A j \in 1..(i - 1) : u[j] = w[j]
    BY <1>1, <2>1
  <2>3. SubSeq(u, 1, i - 1) = [j \in 1..(i - 1) |-> u[j]]
    BY <1>1, <2>1
  <2>4. SubSeq(w, 1, i - 1) = [j \in 1..(i - 1) |-> w[j]]
    BY <2>1
  <2> QED BY <2>2, <2>3, <2>4 DEF Prior
<1>4. SubSeq(w, 1, Len(w)) = w
  OBVIOUS
<1>5. Prior(u, Len(w) + 1) = w
  BY <1>2, <1>3, <1>4
<1>6. \A i \in 1..Len(w) : Prior(u, i) = Prior(w, i)
  BY <1>2, <1>3 DEF Prior
<1> QED BY <1>1, <1>5, <1>6 DEF u

\* A walk is simple when its front is and its last step is free.
LEMMA SimpleAppend ==
  ASSUME NEW q, NEW w \in Seq(Steps(q)), NEW h \in Steps(q)
  PROVE  IsSimple(q, Append(w, h)) <=> IsSimple(q, w) /\ h \in Free(q, w)
<1> DEFINE u == Append(w, h)
<1>1. /\ Len(u) = Len(w) + 1 /\ Len(w) \in Nat /\ u[Len(w) + 1] = h
      /\ \A i \in 1..Len(w) : u[i] = w[i] /\ Prior(u, i) = Prior(w, i)
      /\ Prior(u, Len(w) + 1) = w
  BY AppendBefore
<1> HIDE DEF u
<1>2. 1..Len(u) = 1..Len(w) \cup {Len(w) + 1}
  BY <1>1
<1>3. IsSimple(q, u) <=>
        /\ \A i \in 1..Len(w) : u[i] \in Onward(q, Prior(u, i)) /\ u[i].to \notin Met(q, Prior(u, i))
        /\ h \in Onward(q, w) /\ h.to \notin Met(q, w)
  BY <1>1, <1>2 DEF IsSimple
<1>4. IsSimple(q, u) <=> IsSimple(q, w) /\ h \in Free(q, w)
  BY <1>1, <1>3 DEF IsSimple, Free
<1> QED BY <1>4 DEF u

LEMMA FrontAndLast ==
  ASSUME NEW S, NEW u \in Seq(S), u # <<>>
  PROVE  /\ Len(u) - 1 \in Nat
         /\ Prior(u, Len(u)) \in Seq(S) /\ Len(Prior(u, Len(u))) = Len(u) - 1
         /\ u[Len(u)] \in S
         /\ u = Append(Prior(u, Len(u)), u[Len(u)])
<1> DEFINE n == Len(u)
<1>1. n \in Nat /\ n # 0 /\ n \in 1..n /\ DOMAIN u = 1..n
  OBVIOUS
<1>2. u[n] \in S
  BY <1>1
<1>3. SubSeq(u, 1, n - 1) = [j \in 1..(n - 1) |-> u[j]]
  BY <1>1
<1>4. \A j \in 1..(n - 1) : u[j] \in S
  BY <1>1
<1>5. n - 1 \in Nat /\ SubSeq(u, 1, n - 1) \in Seq(S) /\ Len(SubSeq(u, 1, n - 1)) = n - 1
  BY <1>1, <1>3, <1>4
<1>6. u = Append(SubSeq(u, 1, n - 1), u[n])
  <2> DEFINE v == SubSeq(u, 1, n - 1)
  <2>1. v \in Seq(S) /\ Len(v) = n - 1 /\ \A j \in 1..(n - 1) : v[j] = u[j]
    BY <1>3, <1>5
  <2> HIDE DEF v
  <2>2. Append(v, u[n]) \in Seq(S) /\ Len(Append(v, u[n])) = n
    BY <2>1, <1>1, <1>2
  <2>3. \A j \in 1..n : Append(v, u[n])[j] = u[j]
    BY <2>1, <1>1, <1>2
  <2>4. Append(v, u[n]) = u
    BY <2>2, <2>3, <1>1, SeqEqual
  <2> QED BY <2>4 DEF v
<1> QED BY <1>2, <1>5, <1>6 DEF Prior

\* One more step grows the simple walks of n - 1 steps into those of n.
LEMMA GrownWalks ==
  ASSUME NEW q, NEW n \in Nat, n # 0
  PROVE  Grown(q, Walks(q, n - 1)) = Walks(q, n)
<1>1. ASSUME NEW w \in Walks(q, n - 1), NEW h \in Free(q, w)
      PROVE  Append(w, h) \in Walks(q, n)
  <2>1. w \in Seq(Steps(q)) /\ h \in Steps(q)
    BY OnwardAreSteps DEF Walks, Free
  <2>2. Append(w, h) \in Seq(Steps(q)) /\ Len(Append(w, h)) = n
    BY <2>1, AppendBefore DEF Walks
  <2>3. IsSimple(q, Append(w, h))
    BY <2>1, SimpleAppend DEF Walks
  <2> QED BY <2>2, <2>3 DEF Walks
<1>2. ASSUME NEW u \in Walks(q, n)
      PROVE  \E w \in Walks(q, n - 1) : \E h \in Free(q, w) : u = Append(w, h)
  <2> DEFINE w == Prior(u, Len(u))
             h == u[Len(u)]
  <2>1. u \in Seq(Steps(q)) /\ u # <<>> /\ Len(u) = n
    BY DEF Walks
  <2>2. w \in Seq(Steps(q)) /\ Len(w) = n - 1 /\ h \in Steps(q) /\ u = Append(w, h)
    BY <2>1, FrontAndLast
  <2> HIDE DEF w, h
  <2>3. IsSimple(q, w) /\ h \in Free(q, w)
    BY <2>2, SimpleAppend DEF Walks
  <2> QED BY <2>2, <2>3 DEF Walks
<1>3. \A u : u \in Grown(q, Walks(q, n - 1)) <=>
               \E w \in Walks(q, n - 1) : \E h \in Free(q, w) : u = Append(w, h)
  BY DEF Grown
<1>4. ASSUME NEW u \in Grown(q, Walks(q, n - 1)) PROVE u \in Walks(q, n)
  <2>1. PICK w \in Walks(q, n - 1) : \E h \in Free(q, w) : u = Append(w, h)
    BY <1>3
  <2> QED BY <1>1, <2>1
<1>5. ASSUME NEW u \in Walks(q, n) PROVE u \in Grown(q, Walks(q, n - 1))
  BY <1>2, <1>3
<1> QED BY <1>4, <1>5

LEMMA WalksOfNone == ASSUME NEW q PROVE Walks(q, 0) = {<<>>}
<1>1. \A w \in Seq(Steps(q)) : Len(w) = 0 <=> w = <<>>
  OBVIOUS
<1>2. <<>> \in Seq(Steps(q)) /\ IsSimple(q, <<>>)
  BY DEF IsSimple
<1> QED BY <1>1, <1>2 DEF Walks

RunsWalks(it, n, q) == it = [k \in 0..n |-> IF k = 0 THEN {<<>>} ELSE Grown(q, it[k - 1])]

\* Any function built as SimpleWalks builds it holds the simple walks.
LEMMA WalksRun ==
  ASSUME NEW q, NEW n \in Nat, NEW it, RunsWalks(it, n, q)
  PROVE  it[n] = Walks(q, n)
<1> DEFINE S == {k \in 0..n : it[k] = Walks(q, k)}
<1>1. 0 \in S
  BY WalksOfNone DEF RunsWalks
<1>2. ASSUME NEW k \in 1..n, k - 1 \in S PROVE k \in S
  <2>1. k \in 0..n /\ k # 0 /\ k \in Nat
    OBVIOUS
  <2>2. it[k] = Grown(q, it[k - 1])
    BY <2>1 DEF RunsWalks
  <2> QED BY <1>2, <2>1, <2>2, GrownWalks
<1> HIDE DEF S
<1>3. 0..n \subseteq S
  BY <1>1, <1>2, UpTo
<1> QED BY <1>3 DEF S

\* The recursive reference definition, for every number of steps.
LEMMA SimpleWalksAre == ASSUME NEW q, NEW n \in Nat PROVE SimpleWalks(q, n) = Walks(q, n)
<1> DEFINE it == [k \in 0..n |-> Walks(q, k)]
           run == CHOOSE x : RunsWalks(x, n, q)
<1>1. RunsWalks(it, n, q)
  <2>1. ASSUME NEW k \in 0..n PROVE it[k] = IF k = 0 THEN {<<>>} ELSE Grown(q, it[k - 1])
    <3>1. k # 0 => k - 1 \in 0..n /\ k \in Nat
      OBVIOUS
    <3> QED BY <3>1, GrownWalks, WalksOfNone
  <2>2. it = [k \in 0..n |-> it[k]]
    OBVIOUS
  <2> HIDE DEF it
  <2> QED BY <2>1, <2>2 DEF RunsWalks
<1>2. RunsWalks(run, n, q)
  BY <1>1
<1>3. SimpleWalks(q, n) = run[n]
  BY DEF SimpleWalks, RunsWalks, Grown, Free
<1> HIDE DEF run
<1> QED BY <1>2, <1>3, WalksRun

(***************************************************************************)
(* Reach.  One hop of the recursive query is one hop of the plant.         *)
(***************************************************************************)
Links(net) == ToSet(net.fibers) \cup ToSet(net.connections) \cup ToSet(net.internals)

\* One hop crosses a link or a splitter.
LEMMA NeighborsSplit ==
  \A net, direction, t, u : u \in Neighbors(net, direction, t) <=>
    \/ \E l \in Links(net) : t \in {l.a, l.b} /\ u = Other(l, t)
    \/ \E s \in ToSet(net.splitters) :
         \/ direction = "downstream" /\ s.input = t /\ u = s.output
         \/ direction # "downstream" /\ s.output = t /\ u = s.input
<1> SUFFICES ASSUME NEW net, NEW direction, NEW t, NEW u
             PROVE  u \in Neighbors(net, direction, t) <=>
                      \/ \E l \in Links(net) : t \in {l.a, l.b} /\ u = Other(l, t)
                      \/ \E s \in ToSet(net.splitters) :
                           \/ direction = "downstream" /\ s.input = t /\ u = s.output
                           \/ direction # "downstream" /\ s.output = t /\ u = s.input
  OBVIOUS
<1> DEFINE across(rows) == {Other(l, t) : l \in {l \in ToSet(rows) : t \in {l.a, l.b}}}
           links == UNION {across(rows) : rows \in {net.fibers, net.connections, net.internals}}
           legs == IF direction = "downstream"
                     THEN {s.output : s \in {s \in ToSet(net.splitters) : s.input = t}}
                     ELSE {s.input : s \in {s \in ToSet(net.splitters) : s.output = t}}
<1>1. Neighbors(net, direction, t) = links \cup legs
  BY DEF Neighbors
<1>2. \A rows : u \in across(rows) <=> \E l \in ToSet(rows) : t \in {l.a, l.b} /\ u = Other(l, t)
  OBVIOUS
<1>3. u \in legs <=> \E s \in ToSet(net.splitters) :
                       \/ direction = "downstream" /\ s.input = t /\ u = s.output
                       \/ direction # "downstream" /\ s.output = t /\ u = s.input
  BY Zenon
<1>4. u \in links <=> u \in across(net.fibers) \/ u \in across(net.connections) \/ u \in across(net.internals)
  <2> HIDE DEF across
  <2> QED OBVIOUS
<1> HIDE DEF across, links, legs
<1> QED BY <1>1, <1>2, <1>3, <1>4 DEF Links

LEMMA BothWaysHolds ==
  \A kind, rows, h : h \in BothWays(kind, rows) <=>
    \E l \in ToSet(rows) : \/ h = PlantHop(l.a, kind, l.id, l.b)
                           \/ h = PlantHop(l.b, kind, l.id, l.a)
BY DEF BothWays

LEMMA HopFields ==
  \A from, kind, id, to :
    /\ PlantHop(from, kind, id, to).from = from
    /\ PlantHop(from, kind, id, to).step = [kind |-> kind, id |-> id, to |-> to]
    /\ PlantHop(from, kind, id, to).step.kind = kind
    /\ PlantHop(from, kind, id, to).step.id = id
    /\ PlantHop(from, kind, id, to).step.to = to
BY DEF PlantHop

Leg(s, direction) ==
  IF direction = "downstream" THEN PlantHop(s.input, "splitter", s.id, s.output)
                              ELSE PlantHop(s.output, "splitter", s.id, s.input)

LEMMA PlantHopsSplit ==
  \A net, direction, h : h \in PlantHops(net, direction) <=>
    \/ h \in BothWays("fiber_segment", net.fibers)
    \/ h \in BothWays("connection", net.connections)
    \/ h \in BothWays("internal_edge", net.internals)
    \/ \E s \in ToSet(net.splitters) : h = Leg(s, direction)
BY DEF PlantHops, Leg

\* The hops of one table of links from t are the steps over its links at t.
LEMMA LinkHops ==
  \A kind, rows, t, x :
    (\E h \in BothWays(kind, rows) : h.from = t /\ h.step = x)
      <=> \E l \in ToSet(rows) : t \in {l.a, l.b} /\ x = [kind |-> kind, id |-> l.id, to |-> Other(l, t)]
<1> SUFFICES ASSUME NEW kind, NEW rows, NEW t, NEW x
             PROVE  (\E h \in BothWays(kind, rows) : h.from = t /\ h.step = x)
                      <=> \E l \in ToSet(rows) : t \in {l.a, l.b} /\ x = [kind |-> kind, id |-> l.id, to |-> Other(l, t)]
  OBVIOUS
<1>1. ASSUME NEW h \in BothWays(kind, rows), h.from = t, h.step = x
      PROVE  \E l \in ToSet(rows) : t \in {l.a, l.b} /\ x = [kind |-> kind, id |-> l.id, to |-> Other(l, t)]
  <2>1. PICK l \in ToSet(rows) : \/ h = PlantHop(l.a, kind, l.id, l.b)
                                 \/ h = PlantHop(l.b, kind, l.id, l.a)
    BY BothWaysHolds
  <2>2. \/ t = l.a /\ x = [kind |-> kind, id |-> l.id, to |-> l.b]
        \/ t = l.b /\ x = [kind |-> kind, id |-> l.id, to |-> l.a]
    <3>1. CASE h = PlantHop(l.a, kind, l.id, l.b)
      <4>1. h.from = l.a /\ h.step = [kind |-> kind, id |-> l.id, to |-> l.b]
        BY <3>1, HopFields
      <4> QED BY <4>1, <1>1
    <3>2. CASE h = PlantHop(l.b, kind, l.id, l.a)
      <4>1. h.from = l.b /\ h.step = [kind |-> kind, id |-> l.id, to |-> l.a]
        BY <3>2, HopFields
      <4> QED BY <4>1, <1>1
    <3> QED BY <2>1, <3>1, <3>2
  <2>3. \/ t = l.a /\ Other(l, t) = l.b
        \/ t = l.b /\ Other(l, t) = l.a
        \/ t = l.a /\ t = l.b
    BY <2>2 DEF Other
  <2>4. x = [kind |-> kind, id |-> l.id, to |-> Other(l, t)]
    BY <2>2, <2>3 DEF Other
  <2> QED BY <2>2, <2>4
<1>2. ASSUME NEW l \in ToSet(rows), t \in {l.a, l.b},
             x = [kind |-> kind, id |-> l.id, to |-> Other(l, t)]
      PROVE  \E h \in BothWays(kind, rows) : h.from = t /\ h.step = x
  <2>1. CASE t = l.a
    <3>1. PlantHop(l.a, kind, l.id, l.b) \in BothWays(kind, rows)
      BY BothWaysHolds
    <3>2. x = [kind |-> kind, id |-> l.id, to |-> l.b]
      BY <1>2, <2>1 DEF Other
    <3> QED BY <2>1, <3>1, <3>2, HopFields
  <2>2. CASE t # l.a
    <3>1. PlantHop(l.b, kind, l.id, l.a) \in BothWays(kind, rows)
      BY BothWaysHolds
    <3>2. t = l.b /\ x = [kind |-> kind, id |-> l.id, to |-> l.a]
      BY <1>2, <2>2 DEF Other
    <3> QED BY <3>1, <3>2, HopFields
  <2> QED BY <2>1, <2>2
<1> QED BY <1>1, <1>2

\* The step that crosses the link l, of a table of that kind, from t.
Cross(kind, l, t) == [kind |-> kind, id |-> l.id, to |-> Other(l, t)]

\* The steps of the plant from t.
StepAt(net, direction, t, x) ==
  \/ \E l \in ToSet(net.fibers) : t \in {l.a, l.b} /\ x = Cross("fiber_segment", l, t)
  \/ \E l \in ToSet(net.connections) : t \in {l.a, l.b} /\ x = Cross("connection", l, t)
  \/ \E l \in ToSet(net.internals) : t \in {l.a, l.b} /\ x = Cross("internal_edge", l, t)
  \/ \E s \in ToSet(net.splitters) :
       \/ /\ direction = "downstream" /\ s.input = t
          /\ x = [kind |-> "splitter", id |-> s.id, to |-> s.output]
       \/ /\ direction # "downstream" /\ s.output = t
          /\ x = [kind |-> "splitter", id |-> s.id, to |-> s.input]

\* The hops of the plant from t make the steps from t.
LEMMA StepsFrom ==
  \A net, direction, t, x :
    (\E h \in PlantHops(net, direction) : h.from = t /\ h.step = x) <=> StepAt(net, direction, t, x)
<1> SUFFICES ASSUME NEW net, NEW direction, NEW t, NEW x
             PROVE  (\E h \in PlantHops(net, direction) : h.from = t /\ h.step = x) <=> StepAt(net, direction, t, x)
  OBVIOUS
<1>1. (\E h \in PlantHops(net, direction) : h.from = t /\ h.step = x) <=>
        \/ \E h \in BothWays("fiber_segment", net.fibers) : h.from = t /\ h.step = x
        \/ \E h \in BothWays("connection", net.connections) : h.from = t /\ h.step = x
        \/ \E h \in BothWays("internal_edge", net.internals) : h.from = t /\ h.step = x
        \/ \E s \in ToSet(net.splitters) : Leg(s, direction).from = t /\ Leg(s, direction).step = x
  BY PlantHopsSplit
<1>2. \A s : Leg(s, direction).from = t /\ Leg(s, direction).step = x <=>
           \/ /\ direction = "downstream" /\ s.input = t
              /\ x = [kind |-> "splitter", id |-> s.id, to |-> s.output]
           \/ /\ direction # "downstream" /\ s.output = t
              /\ x = [kind |-> "splitter", id |-> s.id, to |-> s.input]
  <2> SUFFICES ASSUME NEW s
               PROVE  Leg(s, direction).from = t /\ Leg(s, direction).step = x <=>
           \/ /\ direction = "downstream" /\ s.input = t
              /\ x = [kind |-> "splitter", id |-> s.id, to |-> s.output]
           \/ /\ direction # "downstream" /\ s.output = t
              /\ x = [kind |-> "splitter", id |-> s.id, to |-> s.input]
    OBVIOUS
  <2>1. CASE direction = "downstream"
    <3>1. /\ Leg(s, direction).from = s.input
          /\ Leg(s, direction).step = [kind |-> "splitter", id |-> s.id, to |-> s.output]
      BY <2>1, HopFields DEF Leg
    <3> QED BY <2>1, <3>1
  <2>2. CASE direction # "downstream"
    <3>1. /\ Leg(s, direction).from = s.output
          /\ Leg(s, direction).step = [kind |-> "splitter", id |-> s.id, to |-> s.input]
      BY <2>2, HopFields DEF Leg
    <3> QED BY <2>2, <3>1
  <2> QED BY <2>1, <2>2
<1>3. \A kind, rows :
        (\E h \in BothWays(kind, rows) : h.from = t /\ h.step = x)
          <=> \E l \in ToSet(rows) : t \in {l.a, l.b} /\ x = [kind |-> kind, id |-> l.id, to |-> Other(l, t)]
  BY LinkHops
<1>4. (\E s \in ToSet(net.splitters) : Leg(s, direction).from = t /\ Leg(s, direction).step = x) <=>
      \E s \in ToSet(net.splitters) :
           \/ /\ direction = "downstream" /\ s.input = t
              /\ x = [kind |-> "splitter", id |-> s.id, to |-> s.output]
           \/ /\ direction # "downstream" /\ s.output = t
              /\ x = [kind |-> "splitter", id |-> s.id, to |-> s.input]
  BY <1>2
<1> QED BY <1>1, <1>3, <1>4 DEF StepAt, Cross

LEMMA NeighborsAreHops ==
  ASSUME NEW net, NEW direction, NEW t, NEW u
  PROVE  u \in Neighbors(net, direction, t)
           <=> \E h \in PlantHops(net, direction) : h.from = t /\ h.step.to = u
<1>1. ASSUME u \in Neighbors(net, direction, t)
      PROVE  \E h \in PlantHops(net, direction) : h.from = t /\ h.step.to = u
  <2>1. CASE \E l \in Links(net) : t \in {l.a, l.b} /\ u = Other(l, t)
    <3>1. \E l, kind :
            /\ \/ l \in ToSet(net.fibers) /\ kind = "fiber_segment"
               \/ l \in ToSet(net.connections) /\ kind = "connection"
               \/ l \in ToSet(net.internals) /\ kind = "internal_edge"
            /\ t \in {l.a, l.b} /\ u = Other(l, t)
      BY <2>1 DEF Links
    <3>2. PICK l, kind :
            /\ \/ l \in ToSet(net.fibers) /\ kind = "fiber_segment"
               \/ l \in ToSet(net.connections) /\ kind = "connection"
               \/ l \in ToSet(net.internals) /\ kind = "internal_edge"
            /\ t \in {l.a, l.b} /\ u = Other(l, t)
      BY <3>1
    <3>3. StepAt(net, direction, t, Cross(kind, l, t)) /\ Cross(kind, l, t).to = u
      BY <3>2 DEF StepAt, Cross
    <3> QED BY <3>3, StepsFrom
  <2>2. CASE \E s \in ToSet(net.splitters) :
               \/ direction = "downstream" /\ s.input = t /\ u = s.output
               \/ direction # "downstream" /\ s.output = t /\ u = s.input
    <3>1. PICK s \in ToSet(net.splitters) :
               \/ direction = "downstream" /\ s.input = t /\ u = s.output
               \/ direction # "downstream" /\ s.output = t /\ u = s.input
      BY <2>2
    <3>2. StepAt(net, direction, t, [kind |-> "splitter", id |-> s.id, to |-> u])
      BY <3>1 DEF StepAt
    <3> QED BY <3>2, StepsFrom
  <2> QED BY <1>1, <2>1, <2>2, NeighborsSplit
<1>2. ASSUME NEW h \in PlantHops(net, direction), h.from = t, h.step.to = u
      PROVE  u \in Neighbors(net, direction, t)
  <2>1. PICK x : x = h.step
    OBVIOUS
  <2>2. \E g \in PlantHops(net, direction) : g.from = t /\ g.step = x
    BY <1>2, <2>1
  <2>3. StepAt(net, direction, t, x)
    BY <2>2, StepsFrom
  <2>4. x.to = u
    BY <1>2, <2>1
  <2>5. \A kind, id, to : x = [kind |-> kind, id |-> id, to |-> to] => u = to
    BY <2>4
  <2>6. \/ \E l \in Links(net) : t \in {l.a, l.b} /\ u = Other(l, t)
        \/ \E s \in ToSet(net.splitters) :
             \/ direction = "downstream" /\ s.input = t /\ u = s.output
             \/ direction # "downstream" /\ s.output = t /\ u = s.input
    BY <2>3, <2>5 DEF Links, StepAt, Cross
  <2> QED BY <2>6, NeighborsSplit
<1> QED BY <1>1, <1>2

Spread(net, direction, S) == UNION {{t} \union Neighbors(net, direction, t) : t \in S}

LEMMA SpreadHolds ==
  \A net, direction, S, u :
    u \in Spread(net, direction, S) <=> \E t \in S : u = t \/ u \in Neighbors(net, direction, t)
BY DEF Spread

RunsReach(it, n, net, direction, start) ==
  it = [k \in 0..n |-> IF k = 0 THEN {start} ELSE Spread(net, direction, it[k - 1])]

\* The recursive query has a result for every number of hops.
LEMMA ReachExists ==
  ASSUME NEW n \in Nat, NEW net, NEW direction, NEW start
  PROVE  \E it : RunsReach(it, n, net, direction, start)
<1> DEFINE S == {m \in 0..n : \E it : RunsReach(it, m, net, direction, start)}
<1>1. 0 \in S
  <2> DEFINE it == [k \in 0..0 |-> {start}]
  <2>1. RunsReach(it, 0, net, direction, start)
    BY DEF RunsReach
  <2> QED BY <2>1
<1>2. ASSUME NEW m \in 1..n, m - 1 \in S PROVE m \in S
  <2>1. PICK it : RunsReach(it, m - 1, net, direction, start)
    BY <1>2
  <2> DEFINE jt == [k \in 0..m |-> IF k = m THEN Spread(net, direction, it[m - 1]) ELSE it[k]]
  <2>2. ASSUME NEW k \in 0..m PROVE jt[k] = IF k = 0 THEN {start} ELSE Spread(net, direction, jt[k - 1])
    <3>1. CASE k = m
      BY <3>1
    <3>2. CASE k # m
      <4>1. k \in 0..(m - 1) /\ (k # 0 => k - 1 \in 0..m /\ k - 1 # m)
        BY <3>2
      <4>2. it[k] = IF k = 0 THEN {start} ELSE Spread(net, direction, it[k - 1])
        BY <2>1, <4>1 DEF RunsReach
      <4> QED BY <3>2, <4>1, <4>2
    <3> QED BY <3>1, <3>2
  <2>3. jt = [k \in 0..m |-> jt[k]]
    OBVIOUS
  <2> HIDE DEF jt
  <2>4. RunsReach(jt, m, net, direction, start)
    BY <2>2, <2>3 DEF RunsReach
  <2> QED BY <2>4
<1> HIDE DEF S
<1>3. 0..n \subseteq S
  BY <1>1, <1>2, UpTo
<1> QED BY <1>3 DEF S

LEMMA ReachRuns ==
  ASSUME NEW n \in Nat, NEW net, NEW direction, NEW start
  PROVE  \E it : /\ Reach(net, direction, start, n) = it[n]
                 /\ it[0] = {start}
                 /\ \A k \in 1..n : it[k] = Spread(net, direction, it[k - 1])
<1> DEFINE run == CHOOSE it : RunsReach(it, n, net, direction, start)
<1>1. RunsReach(run, n, net, direction, start)
  BY ReachExists
<1>2. Reach(net, direction, start, n) = run[n]
  BY DEF Reach, RunsReach, Spread
<1> HIDE DEF run
<1>3. run[0] = {start}
  BY <1>1 DEF RunsReach
<1>4. \A k \in 1..n : run[k] = Spread(net, direction, run[k - 1])
  <2> SUFFICES ASSUME NEW k \in 1..n
               PROVE  run[k] = Spread(net, direction, run[k - 1])
    OBVIOUS
  <2>1. k \in 0..n /\ k # 0
    OBVIOUS
  <2> QED BY <1>1, <2>1 DEF RunsReach
<1> QED BY <1>2, <1>3, <1>4

\* Reach is the least set with the start and closed under hops.
LEMMA ReachLeast ==
  ASSUME NEW n \in Nat, NEW net, NEW direction, NEW start, NEW V, start \in V,
         \A t \in V : Neighbors(net, direction, t) \subseteq V
  PROVE  Reach(net, direction, start, n) \subseteq V
<1>1. PICK it : /\ Reach(net, direction, start, n) = it[n]
                /\ it[0] = {start}
                /\ \A k \in 1..n : it[k] = Spread(net, direction, it[k - 1])
  BY ReachRuns
<1> DEFINE S == {k \in 0..n : it[k] \subseteq V}
<1>2. 0 \in S
  BY <1>1
<1>3. ASSUME NEW k \in 1..n, k - 1 \in S PROVE k \in S
  <2>1. it[k - 1] \subseteq V
    BY <1>3
  <2>2. Spread(net, direction, it[k - 1]) \subseteq V
    BY <2>1, SpreadHolds
  <2> QED BY <1>1, <2>2
<1> HIDE DEF S
<1>4. 0..n \subseteq S
  BY <1>2, <1>3, UpTo
<1> QED BY <1>1, <1>4 DEF S

LEMMA EndOfAppend ==
  \A S, start : \A w \in Seq(S) : \A h \in S : End(start, Append(w, h)) = h.to
<1> SUFFICES ASSUME NEW S, NEW w \in Seq(S), NEW start, NEW h \in S
             PROVE  End(start, Append(w, h)) = h.to
  OBVIOUS
<1>1. Append(w, h) # <<>> /\ Len(Append(w, h)) = Len(w) + 1 /\ Append(w, h)[Len(w) + 1] = h
  BY AppendBefore
<1> QED BY <1>1 DEF End, Last

\* A simple walk of at most n steps ends where n hops reach.
LEMMA WalksAreReached ==
  ASSUME NEW q, NEW n \in Nat, NEW m \in 0..n, NEW w \in Walks(q, m)
  PROVE  End(q.start, w) \in Reach(q.net, q.direction, q.start, n)
<1>0. \A net, direction, start :
        \E it : /\ Reach(net, direction, start, n) = it[n]
                /\ it[0] = {start}
                /\ \A k \in 1..n : it[k] = Spread(net, direction, it[k - 1])
  BY ReachRuns
<1>1. PICK it : /\ Reach(q.net, q.direction, q.start, n) = it[n]
                /\ it[0] = {q.start}
                /\ \A k \in 1..n : it[k] = Spread(q.net, q.direction, it[k - 1])
  BY <1>0
<1> DEFINE S == {k \in 0..n : \A u \in Walks(q, k) : End(q.start, u) \in it[k]}
           G == {k \in 0..n : \A j \in 0..k : it[j] \subseteq it[k]}
<1>2. 0 \in S
  BY <1>1, WalksOfNone DEF End
<1>3. ASSUME NEW k \in 1..n, k - 1 \in S PROVE k \in S
  <2>1. ASSUME NEW u \in Walks(q, k) PROVE End(q.start, u) \in it[k]
    <3>1. k \in Nat /\ k # 0
      OBVIOUS
    <3>2. PICK v \in Walks(q, k - 1) : \E h \in Free(q, v) : u = Append(v, h)
      BY <3>1, GrownWalks DEF Grown
    <3>3. PICK h \in Free(q, v) : u = Append(v, h)
      BY <3>2
    <3>4. v \in Seq(Steps(q)) /\ h \in Steps(q) /\ h \in Onward(q, v)
      BY OnwardAreSteps DEF Walks, Free
    <3>5. End(q.start, u) = h.to
      BY <3>3, <3>4, EndOfAppend
    <3>6. \E g \in PlantHops(q.net, q.direction) : g.from = End(q.start, v) /\ g.step.to = h.to
      BY <3>4 DEF Onward
    <3>7. h.to \in Neighbors(q.net, q.direction, End(q.start, v))
      BY <3>6, NeighborsAreHops
    <3>8. End(q.start, v) \in it[k - 1]
      BY <1>3
    <3> QED BY <1>1, <3>5, <3>7, <3>8, SpreadHolds
  <2> QED BY <2>1
<1>4. 0 \in G
  OBVIOUS
<1>5. ASSUME NEW k \in 1..n, k - 1 \in G PROVE k \in G
  <2>1. it[k - 1] \subseteq it[k]
    BY <1>1, SpreadHolds
  <2>2. \A j \in 0..k : j = k \/ j \in 0..(k - 1)
    OBVIOUS
  <2>3. \A j \in 0..(k - 1) : it[j] \subseteq it[k - 1]
    BY <1>5
  <2> QED BY <2>1, <2>2, <2>3
<1> HIDE DEF S, G
<1>6. 0..n \subseteq S
  BY <1>2, <1>3, UpTo
<1>7. 0..n \subseteq G
  BY <1>4, <1>5, UpTo
<1>8. End(q.start, w) \in it[m]
  BY <1>6 DEF S
<1>9. it[m] \subseteq it[n]
  BY <1>7 DEF G
<1> QED BY <1>1, <1>8, <1>9

(***************************************************************************)
(* Lists(A, S): the sequence A holds the members of S, each one once.      *)
(***************************************************************************)
Lists(A, S) ==
  /\ A \in Seq(S)
  /\ \A x \in S : \E k \in DOMAIN A : A[k] = x
  /\ \A k, l \in DOMAIN A : A[k] = A[l] => k = l

\* Part of a list lists the part of the set.
LEMMA ListsPart ==
  ASSUME NEW S, NEW A, Lists(A, S), NEW D
  PROVE  Lists(Part(A, {i \in DOMAIN A : A[i] \in D}), S \cap D)
<1> DEFINE at == {i \in DOMAIN A : A[i] \in D}
           B == Part(A, at)
<1>1. A \in Seq(S) /\ at \in SUBSET DOMAIN A /\ \A i \in DOMAIN A : A[i] \in S
  BY DEF Lists
<1>2. {A[i] : i \in at} = S \cap D
  BY <1>1 DEF Lists
<1>3. \A i, j \in at : A[i] = A[j] => i = j
  BY DEF Lists
<1> HIDE DEF at
<1>4. /\ B \in Seq(S) /\ ToSet(B) = S \cap D
      /\ \A k, l \in DOMAIN B : B[k] = B[l] => k = l
  BY <1>1, <1>2, <1>3, PartIsSeq
<1> HIDE DEF B
<1>5. \A x \in S \cap D : \E k \in DOMAIN B : B[k] = x
  BY <1>4 DEF ToSet
<1>6. \A k \in DOMAIN B : B[k] \in S \cap D
  BY <1>4 DEF ToSet
<1>7. B \in Seq(S \cap D)
  <2>1. Len(B) \in Nat /\ DOMAIN B = 1..Len(B) /\ B = [k \in 1..Len(B) |-> B[k]]
    BY <1>4
  <2> QED BY <2>1, <1>6
<1>8. Lists(B, S \cap D)
  BY <1>4, <1>5, <1>7 DEF Lists
<1> QED BY <1>8 DEF B, at

\* An injection of the members carries a list over.
LEMMA ListsMap ==
  ASSUME NEW S, NEW A, Lists(A, S), NEW f, NEW T,
         \A x \in S : f[x] \in T,
         \A y \in T : \E x \in S : f[x] = y,
         \A x, y \in S : f[x] = f[y] => x = y
  PROVE  Lists([i \in DOMAIN A |-> f[A[i]]], T)
<1> DEFINE B == [i \in DOMAIN A |-> f[A[i]]]
<1>1. A \in Seq(S) /\ Len(A) \in Nat /\ DOMAIN A = 1..Len(A) /\ \A i \in DOMAIN A : A[i] \in S
  BY DEF Lists
<1>2. DOMAIN B = DOMAIN A /\ \A i \in DOMAIN A : B[i] = f[A[i]]
  OBVIOUS
<1>3. B \in Seq(T)
  BY <1>1
<1> HIDE DEF B
<1>4. \A y \in T : \E k \in DOMAIN B : B[k] = y
  BY <1>1, <1>2 DEF Lists
<1>5. \A k, l \in DOMAIN B : B[k] = B[l] => k = l
  BY <1>1, <1>2 DEF Lists
<1>6. Lists(B, T)
  BY <1>3, <1>4, <1>5 DEF Lists
<1> QED BY <1>6 DEF B

LEMMA ListsConcat ==
  ASSUME NEW S, NEW A, Lists(A, S), NEW T, NEW B, Lists(B, T), S \cap T = {}
  PROVE  Lists(A \o B, S \cup T)
<1> DEFINE C == A \o B
           n == Len(A)
           m == Len(B)
<1>1. A \in Seq(S) /\ B \in Seq(T) /\ n \in Nat /\ m \in Nat /\ DOMAIN A = 1..n /\ DOMAIN B = 1..m
  BY DEF Lists
<1>2. A \in Seq(S \cup T) /\ B \in Seq(S \cup T)
  BY <1>1
<1>3. /\ C \in Seq(S \cup T) /\ DOMAIN C = 1..(n + m)
      /\ \A k \in 1..n : C[k] = A[k]
      /\ \A k \in 1..m : C[n + k] = B[k]
  BY <1>2
<1>4. \A k \in 1..n : A[k] \in S
  BY <1>1
<1>5. \A k \in 1..m : B[k] \in T
  BY <1>1
<1> HIDE DEF C, n, m
<1>6. ASSUME NEW x \in S \cup T PROVE \E k \in DOMAIN C : C[k] = x
  <2>1. CASE x \in S
    <3>1. PICK k \in 1..n : A[k] = x
      BY <2>1, <1>1 DEF Lists
    <3>2. k \in 1..(n + m)
      BY <1>1
    <3> QED BY <1>3, <3>1, <3>2
  <2>2. CASE x \in T
    <3>1. PICK k \in 1..m : B[k] = x
      BY <2>2, <1>1 DEF Lists
    <3>2. n + k \in 1..(n + m)
      BY <1>1
    <3> QED BY <1>3, <3>1, <3>2
  <2> QED BY <2>1, <2>2
<1>7. ASSUME NEW k \in 1..(n + m), NEW l \in 1..(n + m), k <= l, C[k] = C[l] PROVE k = l
  <2>1. CASE l \in 1..n
    <3>1. k \in 1..n
      BY <1>1, <1>7, <2>1
    <3> QED BY <1>1, <1>3, <1>7, <2>1, <3>1 DEF Lists
  <2>2. CASE l \notin 1..n
    <3>1. l - n \in 1..m /\ l = n + (l - n)
      BY <1>1, <2>2
    <3>2. C[l] = B[l - n] /\ C[l] \in T
      BY <1>3, <1>5, <3>1
    <3>3. k \notin 1..n
      BY <1>3, <1>4, <1>7, <3>2
    <3>4. k - n \in 1..m /\ k = n + (k - n)
      BY <1>1, <3>3
    <3>5. C[k] = B[k - n]
      BY <1>3, <3>4
    <3>6. k - n = l - n
      BY <1>1, <1>7, <3>1, <3>2, <3>4, <3>5 DEF Lists
    <3> QED BY <1>1, <3>6
  <2> QED BY <2>1, <2>2
<1>8. \A k, l \in DOMAIN C : C[k] = C[l] => k = l
  <2> SUFFICES ASSUME NEW k \in 1..(n + m), NEW l \in 1..(n + m), C[k] = C[l] PROVE k = l
    BY <1>3
  <2>1. k <= l \/ l <= k
    BY <1>1
  <2> QED BY <2>1, <1>7
<1>9. Lists(C, S \cup T)
  BY <1>3, <1>6, <1>8 DEF Lists
<1> QED BY <1>9 DEF C

LEMMA ListsNoMore ==
  ASSUME NEW S, NEW A, Lists(A, S) PROVE A = <<>> <=> S = {}
<1>1. A \in Seq(S) /\ DOMAIN A = 1..Len(A) /\ Len(A) \in Nat /\ (A = <<>> <=> Len(A) = 0)
  BY DEF Lists
<1>2. A = <<>> => S = {}
  BY <1>1 DEF Lists
<1>3. A # <<>> => 1 \in DOMAIN A /\ A[1] \in S
  BY <1>1
<1> QED BY <1>2, <1>3

(***************************************************************************)
(* The loaded part of the plant.  A node within the limit of hops finds in *)
(* it every row that touches its terminal, so its transitions are the      *)
(* steps onward in the whole plant.                                        *)
(***************************************************************************)
\* A table of links: each row once, and no id twice.
Table(rows) ==
  /\ Lists(rows, ToSet(rows))
  /\ \A l, r \in ToSet(rows) : l.id = r.id => l = r

LEMMA TableOf ==
  ASSUME NEW rows, rows \in Seq(ToSet(rows)), \A i, j \in DOMAIN rows : rows[i].id = rows[j].id => i = j
  PROVE  Table(rows)
<1>1. \A l \in ToSet(rows) : \E i \in DOMAIN rows : rows[i] = l
  BY DEF ToSet
<1>2. \A l, r \in ToSet(rows) : l.id = r.id => l = r
  BY <1>1
<1>3. \A i, j \in DOMAIN rows : rows[i] = rows[j] => i = j
  OBVIOUS
<1> QED BY <1>1, <1>2, <1>3 DEF Table, Lists

\* Across one table of the loaded part lists the steps over that table.
LEMMA AcrossLists ==
  ASSUME NEW kind, NEW rows, Table(rows), NEW reach, NEW t \in reach, NEW w
  PROVE  LET loaded == Part(rows, {i \in DOMAIN rows : {rows[i].a, rows[i].b} \intersect reach # {}})
         IN  Lists(Across(kind, loaded, t, w),
                   {Cross(kind, l, t) : l \in {l \in ToSet(rows) : t \in {l.a, l.b} /\ ~Arrived(w, kind, l.id)}})
<1> DEFINE R == ToSet(rows)
           D == {l \in R : {l.a, l.b} \intersect reach # {}}
           O == {l \in R : t \in {l.a, l.b} /\ ~Arrived(w, kind, l.id)}
           loaded == Part(rows, {i \in DOMAIN rows : {rows[i].a, rows[i].b} \intersect reach # {}})
           open == Part(loaded, {i \in DOMAIN loaded :
                     t \in {loaded[i].a, loaded[i].b} /\ ~Arrived(w, kind, loaded[i].id)})
<1>1. Lists(loaded, D)
  <2>1. \A i \in DOMAIN rows : rows[i] \in R
    BY DEF ToSet
  <2>2. {i \in DOMAIN rows : {rows[i].a, rows[i].b} \intersect reach # {}} = {i \in DOMAIN rows : rows[i] \in D}
    BY <2>1
  <2>3. Lists(rows, R) /\ R \cap D = D
    BY DEF Table
  <2> HIDE DEF D, R
  <2> QED BY <2>2, <2>3, ListsPart
<1> HIDE DEF loaded
<1>2. Lists(open, O)
  <2>1. \A i \in DOMAIN loaded : loaded[i] \in D
    BY <1>1 DEF Lists
  <2>2. {i \in DOMAIN loaded : t \in {loaded[i].a, loaded[i].b} /\ ~Arrived(w, kind, loaded[i].id)}
          = {i \in DOMAIN loaded : loaded[i] \in O}
    BY <2>1
  <2>3. D \cap O = O
    OBVIOUS
  <2>4. open = Part(loaded, {i \in DOMAIN loaded : loaded[i] \in O})
    BY <2>2
  <2> HIDE DEF D, O, open
  <2>5. Lists(Part(loaded, {i \in DOMAIN loaded : loaded[i] \in O}), D \cap O)
    BY <1>1, ListsPart
  <2> QED BY <2>3, <2>4, <2>5
<1> HIDE DEF open
<1> DEFINE f == [l \in R |-> Cross(kind, l, t)]
           T == {Cross(kind, l, t) : l \in O}
<1>3. \A l \in O : f[l] = Cross(kind, l, t)
  OBVIOUS
<1>4. \A l, r \in O : f[l] = f[r] => l = r
  <2>1. \A l, r \in R : Cross(kind, l, t) = Cross(kind, r, t) => l.id = r.id
    BY DEF Cross
  <2>2. \A l, r \in R : l.id = r.id => l = r
    BY DEF Table
  <2> QED BY <1>3, <2>1, <2>2
<1>5. \A l \in O : f[l] \in T
  BY <1>3
<1>6. \A x \in T : \E l \in O : f[l] = x
  BY <1>3
<1>7. Across(kind, loaded, t, w) = [i \in DOMAIN open |-> f[open[i]]]
  <2>1. \A i \in DOMAIN open : open[i] \in O
    BY <1>2 DEF Lists
  <2>2. \A i \in DOMAIN open : f[open[i]] = Cross(kind, open[i], t)
    BY <1>3, <2>1
  <2>3. Across(kind, loaded, t, w) = [i \in DOMAIN open |-> Cross(kind, open[i], t)]
    BY DEF Across, Cross, open
  <2> HIDE DEF f, T, O
  <2> QED BY <2>2, <2>3
<1> HIDE DEF f, T, O
<1>8. Lists([i \in DOMAIN open |-> f[open[i]]], T)
  BY <1>2, <1>4, <1>5, <1>6, ListsMap
<1> QED BY <1>7, <1>8 DEF T, O, loaded

\* So does a splitter, over its rows at t.
LEMMA SplitterLists ==
  ASSUME NEW rows, rows \in Seq(ToSet(rows)),
         \A i, j \in DOMAIN rows : rows[i].output = rows[j].output => i = j,
         NEW reach, NEW t \in reach, NEW direction
  PROVE  LET entry(s) == IF direction = "downstream" THEN s.input ELSE s.output
             exit(s) == IF direction = "downstream" THEN s.output ELSE s.input
             loaded == Part(rows, {i \in DOMAIN rows : entry(rows[i]) \in reach})
         IN  Lists(ThroughSplitter([splitters |-> loaded], direction, t),
                   {SplitterHop(s, exit(s)) : s \in {s \in ToSet(rows) : entry(s) = t}})
<1> DEFINE R == ToSet(rows)
           entry(s) == IF direction = "downstream" THEN s.input ELSE s.output
           exit(s) == IF direction = "downstream" THEN s.output ELSE s.input
           D == {s \in R : entry(s) \in reach}
           O == {s \in R : entry(s) = t}
           loaded == Part(rows, {i \in DOMAIN rows : entry(rows[i]) \in reach})
           outs == IF direction = "downstream" THEN OutputsOf(loaded, t) ELSE OutputAt(loaded, t)
<1>1. Lists(rows, R) /\ \A s, r \in R : s.output = r.output => s = r
  BY DEF Lists, ToSet
<1>2. Lists(loaded, D)
  <2>1. \A i \in DOMAIN rows : rows[i] \in R
    BY DEF ToSet
  <2>2. {i \in DOMAIN rows : entry(rows[i]) \in reach} = {i \in DOMAIN rows : rows[i] \in D}
    BY <2>1
  <2>3. R \cap D = D
    OBVIOUS
  <2>4. loaded = Part(rows, {i \in DOMAIN rows : rows[i] \in D})
    BY <2>2
  <2> HIDE DEF D, R, entry, loaded
  <2>5. Lists(Part(rows, {i \in DOMAIN rows : rows[i] \in D}), R \cap D)
    BY <1>1, ListsPart
  <2> QED BY <2>3, <2>4, <2>5
<1> HIDE DEF loaded
<1>3. outs = Part(loaded, {i \in DOMAIN loaded : entry(loaded[i]) = t})
  <2>1. CASE direction = "downstream"
    BY <2>1 DEF OutputsOf
  <2>2. CASE direction # "downstream"
    <3>1. \A i \in DOMAIN loaded : loaded[i] \in R
      BY <1>2 DEF Lists
    <3>2. loaded \in Seq(D) /\ \A i \in DOMAIN loaded : \A j \in 1..i - 1 : j \in DOMAIN loaded /\ j # i
      BY <1>2 DEF Lists
    <3>3. \A i, j \in DOMAIN loaded : loaded[i].output = loaded[j].output => i = j
      BY <1>1, <1>2, <3>1 DEF Lists
    <3>4. \A i \in DOMAIN loaded : loaded[i].output = t => \A j \in 1..i - 1 : loaded[j].output # t
      BY <3>2, <3>3
    <3>5. {i \in DOMAIN loaded : loaded[i].output = t /\ \A j \in 1..i - 1 : loaded[j].output # t}
            = {i \in DOMAIN loaded : entry(loaded[i]) = t}
      BY <2>2, <3>4
    <3> HIDE DEF entry
    <3> QED BY <2>2, <3>5 DEF OutputAt
  <2> QED BY <2>1, <2>2
<1>4. Lists(outs, O)
  <2>1. \A i \in DOMAIN loaded : loaded[i] \in D
    BY <1>2 DEF Lists
  <2>2. {i \in DOMAIN loaded : entry(loaded[i]) = t} = {i \in DOMAIN loaded : loaded[i] \in O}
    BY <2>1
  <2>3. D \cap O = O
    OBVIOUS
  <2>4. outs = Part(loaded, {i \in DOMAIN loaded : loaded[i] \in O})
    BY <1>3, <2>2
  <2> HIDE DEF D, O, entry, outs
  <2>5. Lists(Part(loaded, {i \in DOMAIN loaded : loaded[i] \in O}), D \cap O)
    BY <1>2, ListsPart
  <2> QED BY <2>3, <2>4, <2>5
<1> DEFINE f == [s \in R |-> SplitterHop(s, exit(s))]
           T == {SplitterHop(s, exit(s)) : s \in O}
<1>5. \A s \in O : f[s] = SplitterHop(s, exit(s))
  OBVIOUS
<1>6. \A s, r \in O : f[s] = f[r] => s = r
  <2>1. CASE direction = "downstream"
    <3>1. \A s, r \in O : f[s] = f[r] => s.output = r.output
      BY <1>5, <2>1 DEF SplitterHop
    <3> QED BY <1>1, <3>1
  <2>2. CASE direction # "downstream"
    <3>1. \A s, r \in O : s.output = r.output
      BY <2>2
    <3> QED BY <1>1, <3>1
  <2> QED BY <2>1, <2>2
<1>7. \A s \in O : f[s] \in T
  BY <1>5
<1>8. \A x \in T : \E s \in O : f[s] = x
  BY <1>5
<1>9. ThroughSplitter([splitters |-> loaded], direction, t) = [i \in DOMAIN outs |-> f[outs[i]]]
  <2>1. \A i \in DOMAIN outs : outs[i] \in O
    BY <1>4 DEF Lists
  <2>2. \A i \in DOMAIN outs : f[outs[i]] = SplitterHop(outs[i], exit(outs[i]))
    BY <1>5, <2>1
  <2>3. ThroughSplitter([splitters |-> loaded], direction, t) = [i \in DOMAIN outs |-> SplitterHop(outs[i], exit(outs[i]))]
    <3>1. CASE direction = "downstream"
      BY <3>1 DEF ThroughSplitter
    <3>2. CASE direction # "downstream"
      BY <3>2 DEF ThroughSplitter
    <3> QED BY <3>1, <3>2
  <2> HIDE DEF f, T, O, outs, exit
  <2> QED BY <2>2, <2>3
<1> HIDE DEF f, T, O, outs
<1>10. Lists([i \in DOMAIN outs |-> f[outs[i]]], T)
  BY <1>4, <1>6, <1>7, <1>8, ListsMap
<1> QED BY <1>9, <1>10 DEF T, O, loaded

Entry(s, direction) == IF direction = "downstream" THEN s.input ELSE s.output
Exit(s, direction) == IF direction = "downstream" THEN s.output ELSE s.input

\* The steps from t over the links of one table, but for the element just crossed.
LinkSteps(kind, rows, t, w) ==
  {Cross(kind, l, t) : l \in {l \in ToSet(rows) : t \in {l.a, l.b} /\ ~Arrived(w, kind, l.id)}}

LegSteps(rows, direction, t) ==
  {SplitterHop(s, Exit(s, direction)) : s \in {s \in ToSet(rows) : Entry(s, direction) = t}}

\* The last step of a walk leads from where its front ends to its end.
LEMMA WalkSteps ==
  ASSUME NEW q, NEW w \in Seq(Steps(q)), IsSimple(q, w), w # <<>>
  PROVE  /\ Prior(w, Len(w)) \in Seq(Steps(q)) /\ IsSimple(q, Prior(w, Len(w)))
         /\ Len(Prior(w, Len(w))) = Len(w) - 1
         /\ w[Len(w)] \in Free(q, Prior(w, Len(w))) /\ Last(w) = w[Len(w)]
         /\ End(q.start, w) = w[Len(w)].to
         /\ StepAt(q.net, q.direction, End(q.start, Prior(w, Len(w))), Last(w))
         /\ End(q.start, Prior(w, Len(w))) \in Met(q, Prior(w, Len(w)))
<1> DEFINE v == Prior(w, Len(w))
           h == w[Len(w)]
<1>1. v \in Seq(Steps(q)) /\ Len(v) = Len(w) - 1 /\ h \in Steps(q) /\ w = Append(v, h)
  BY FrontAndLast
<1>2. Last(w) = h
  BY DEF Last
<1>3. End(q.start, w) = h.to
  BY <1>2 DEF End
<1> HIDE DEF v, h
<1>4. IsSimple(q, v) /\ h \in Free(q, v)
  BY <1>1, SimpleAppend
<1>5. StepAt(q.net, q.direction, End(q.start, v), h)
  <2>1. \E g \in PlantHops(q.net, q.direction) : g.from = End(q.start, v) /\ g.step = h
    BY <1>4 DEF Free, Onward
  <2> QED BY <2>1, StepsFrom
<1>6. End(q.start, v) \in Met(q, v)
  <2>1. CASE v = <<>>
    BY <2>1 DEF End, Met
  <2>2. CASE v # <<>>
    <3>1. Len(v) \in DOMAIN v /\ Last(v) = v[Len(v)]
      BY <1>1, <2>2 DEF Last
    <3> QED BY <2>2, <3>1 DEF End, Met
  <2> QED BY <2>1, <2>2
<1> QED BY <1>1, <1>2, <1>3, <1>4, <1>5, <1>6 DEF v, h

\* The element a step crosses, as a row of its table.
LEMMA StepsOfSplitters ==
  ASSUME NEW net, NEW direction, NEW t, NEW x, StepAt(net, direction, t, x), x.kind = "splitter"
  PROVE  \E s \in ToSet(net.splitters) :
           x.id = s.id /\ Entry(s, direction) = t /\ x.to = Exit(s, direction)
<1>1. \A kind, l, u : x = Cross(kind, l, u) => kind = "splitter"
  BY DEF Cross
<1>2. PICK s \in ToSet(net.splitters) :
       \/ /\ direction = "downstream" /\ s.input = t
          /\ x = [kind |-> "splitter", id |-> s.id, to |-> s.output]
       \/ /\ direction # "downstream" /\ s.output = t
          /\ x = [kind |-> "splitter", id |-> s.id, to |-> s.input]
  BY <1>1 DEF StepAt
<1>3. CASE direction = "downstream"
  <2>1. s.input = t /\ x = [kind |-> "splitter", id |-> s.id, to |-> s.output]
    BY <1>2, <1>3
  <2>2. x.id = s.id /\ x.to = s.output
    BY <2>1
  <2> QED BY <1>3, <2>1, <2>2 DEF Entry, Exit
<1>4. CASE direction # "downstream"
  <2>1. s.output = t /\ x = [kind |-> "splitter", id |-> s.id, to |-> s.input]
    BY <1>2, <1>4
  <2>2. x.id = s.id /\ x.to = s.input
    BY <2>1
  <2> QED BY <1>4, <2>1, <2>2 DEF Entry, Exit
<1> QED BY <1>3, <1>4

\* A walk never leaves a splitter over the side it came in by.
LEMMA SplitterNotRetraced ==
  ASSUME NEW q, WellFormed(q), NEW w \in Seq(Steps(q)), IsSimple(q, w),
         NEW s \in ToSet(q.net.splitters), Entry(s, q.direction) = End(q.start, w)
  PROVE  ~Arrived(w, "splitter", s.id)
<1> SUFFICES ASSUME w # <<>>, Last(w).kind = "splitter" PROVE FALSE
  BY DEF Arrived
<1>1. /\ End(q.start, w) = Last(w).to
      /\ StepAt(q.net, q.direction, End(q.start, Prior(w, Len(w))), Last(w))
  BY WalkSteps
<1>2. PICK x : x = Last(w)
  OBVIOUS
<1>3. PICK r \in ToSet(q.net.splitters) : x.to = Exit(r, q.direction)
  BY <1>1, <1>2, StepsOfSplitters
<1>4. \E i \in DOMAIN q.net.splitters : s = q.net.splitters[i]
  BY DEF ToSet
<1>5. \E i \in DOMAIN q.net.splitters : r = q.net.splitters[i]
  BY DEF ToSet
<1>6. s.input # r.output /\ r.input # s.output
  BY <1>4, <1>5 DEF WellFormed
<1> QED BY <1>1, <1>2, <1>3, <1>6 DEF Entry, Exit

\* The steps onward, table by table.
LEMMA OnwardSplits ==
  ASSUME NEW q, WellFormed(q), NEW w \in Seq(Steps(q)), IsSimple(q, w)
  PROVE  Onward(q, w) = LinkSteps("fiber_segment", q.net.fibers, End(q.start, w), w)
                          \cup LinkSteps("connection", q.net.connections, End(q.start, w), w)
                          \cup LinkSteps("internal_edge", q.net.internals, End(q.start, w), w)
                          \cup LegSteps(q.net.splitters, q.direction, End(q.start, w))
<1>1. PICK t : t = End(q.start, w)
  OBVIOUS
<1> DEFINE sort == [fibers |-> "fiber_segment", connections |-> "connection", internals |-> "internal_edge"]
           Pass(x) == ~Arrived(w, x.kind, x.id)
<1>2. \A x : x \in Onward(q, w) <=> StepAt(q.net, q.direction, t, x) /\ Pass(x)
  <2>1. \A x : x \in Onward(q, w) <=>
           (\E h \in PlantHops(q.net, q.direction) : h.from = t /\ h.step = x) /\ Pass(x)
    BY <1>1 DEF Onward, Arrived
  <2> HIDE DEF Pass
  <2> QED BY <2>1, StepsFrom
<1>3. \A kind, l : Cross(kind, l, t).kind = kind /\ Cross(kind, l, t).id = l.id
  BY DEF Cross
<1>4. \A kind, rows, x : x \in LinkSteps(kind, rows, t, w) <=>
         (\E l \in ToSet(rows) : t \in {l.a, l.b} /\ x = Cross(kind, l, t)) /\ Pass(x)
  BY <1>3 DEF LinkSteps
<1>5. \A s : /\ SplitterHop(s, s.output) = [kind |-> "splitter", id |-> s.id, to |-> s.output]
             /\ SplitterHop(s, s.input) = [kind |-> "splitter", id |-> s.id, to |-> s.input]
             /\ SplitterHop(s, s.output).kind = "splitter" /\ SplitterHop(s, s.output).id = s.id
             /\ SplitterHop(s, s.input).kind = "splitter" /\ SplitterHop(s, s.input).id = s.id
  BY DEF SplitterHop
<1>6. \A s \in ToSet(q.net.splitters) : Entry(s, q.direction) = t => ~Arrived(w, "splitter", s.id)
  BY <1>1, SplitterNotRetraced
<1>7. \A x : x \in LegSteps(q.net.splitters, q.direction, t) <=>
         \E s \in ToSet(q.net.splitters) :
           \/ /\ q.direction = "downstream" /\ s.input = t
              /\ x = [kind |-> "splitter", id |-> s.id, to |-> s.output]
           \/ /\ q.direction # "downstream" /\ s.output = t
              /\ x = [kind |-> "splitter", id |-> s.id, to |-> s.input]
  <2>1. \A x : x \in LegSteps(q.net.splitters, q.direction, t) <=>
          \E s \in ToSet(q.net.splitters) : Entry(s, q.direction) = t /\ x = SplitterHop(s, Exit(s, q.direction))
    BY DEF LegSteps
  <2>2. CASE q.direction = "downstream"
    <3>1. \A s : Entry(s, q.direction) = s.input /\ Exit(s, q.direction) = s.output
      BY <2>2 DEF Entry, Exit
    <3>2. \A s : SplitterHop(s, Exit(s, q.direction)) = [kind |-> "splitter", id |-> s.id, to |-> s.output]
      BY <3>1, <1>5
    <3> QED BY <2>1, <2>2, <3>1, <3>2
  <2>3. CASE q.direction # "downstream"
    <3>1. \A s : Entry(s, q.direction) = s.output /\ Exit(s, q.direction) = s.input
      BY <2>3 DEF Entry, Exit
    <3>2. \A s : SplitterHop(s, Exit(s, q.direction)) = [kind |-> "splitter", id |-> s.id, to |-> s.input]
      BY <3>1, <1>5
    <3> QED BY <2>1, <2>3, <3>1, <3>2
  <2> QED BY <2>2, <2>3
<1>8. \A x : x \in LegSteps(q.net.splitters, q.direction, t) => Pass(x)
  <2> SUFFICES ASSUME NEW x \in LegSteps(q.net.splitters, q.direction, t) PROVE Pass(x)
    OBVIOUS
  <2>1. PICK s \in ToSet(q.net.splitters) : Entry(s, q.direction) = t /\ x = SplitterHop(s, Exit(s, q.direction))
    BY DEF LegSteps
  <2>2. x.kind = "splitter" /\ x.id = s.id
    BY <2>1 DEF SplitterHop
  <2> QED BY <2>1, <2>2, <1>6
<1> HIDE DEF Pass
<1>9. \A x : x \in Onward(q, w) <=>
         \/ x \in LinkSteps("fiber_segment", q.net.fibers, t, w)
         \/ x \in LinkSteps("connection", q.net.connections, t, w)
         \/ x \in LinkSteps("internal_edge", q.net.internals, t, w)
         \/ x \in LegSteps(q.net.splitters, q.direction, t)
  BY <1>2, <1>4, <1>7, <1>8 DEF StepAt
<1> QED BY <1>1, <1>9

\* What load_trace_graph keeps: the rows at a reached terminal.
Loaded(q, g, reach) ==
  /\ g.terminals \subseteq q.net.terminals /\ g.role = q.net.role /\ g.linked = q.net.linked
  /\ g.fibers = Part(q.net.fibers, {i \in DOMAIN q.net.fibers :
       {q.net.fibers[i].a, q.net.fibers[i].b} \intersect reach # {}})
  /\ g.connections = Part(q.net.connections, {i \in DOMAIN q.net.connections :
       {q.net.connections[i].a, q.net.connections[i].b} \intersect reach # {}})
  /\ g.internals = Part(q.net.internals, {i \in DOMAIN q.net.internals :
       {q.net.internals[i].a, q.net.internals[i].b} \intersect reach # {}})
  /\ g.splitters = Part(q.net.splitters, {i \in DOMAIN q.net.splitters :
       (IF q.direction = "downstream" THEN q.net.splitters[i].input
                               ELSE q.net.splitters[i].output) \in reach})

LEMMA LoadedRows ==
  ASSUME NEW q, WellFormed(q), NEW g, NEW reach,
         reach = Reach(q.net, q.direction, q.start, q.maxHops),
         g = LoadTraceGraph(q.net, q.direction, q.start, q.maxHops)
  PROVE  Loaded(q, g, reach)
<1>1. PICK net : net = q.net
  OBVIOUS
<1>2. DOMAIN net = {"terminals", "fibers", "connections", "internals", "splitters", "role", "linked"}
  BY <1>1 DEF WellFormed
<1> DEFINE touching(rows) == Part(rows, {i \in DOMAIN rows : {rows[i].a, rows[i].b} \intersect reach # {}})
           entered(rows) == Part(rows, {i \in DOMAIN rows :
              (IF q.direction = "downstream" THEN rows[i].input ELSE rows[i].output) \in reach})
<1>3. g = [net EXCEPT !.terminals = @ \intersect reach,
                      !.fibers = touching(@), !.connections = touching(@), !.internals = touching(@),
                      !.splitters = entered(@)]
  BY <1>1 DEF LoadTraceGraph
<1> HIDE DEF touching, entered
<1>4. /\ g.terminals = net.terminals \intersect reach /\ g.role = net.role /\ g.linked = net.linked
      /\ g.fibers = touching(net.fibers) /\ g.connections = touching(net.connections)
      /\ g.internals = touching(net.internals) /\ g.splitters = entered(net.splitters)
  BY <1>2, <1>3
<1> QED BY <1>1, <1>4 DEF touching, entered, Loaded

\* The transitions of a node list the steps onward in the whole plant.
LEMMA TransitionsList ==
  ASSUME NEW q, WellFormed(q), NEW w \in Seq(Steps(q)), IsSimple(q, w), Len(w) <= q.maxHops
  PROVE  Lists(Transitions(LoadTraceGraph(q.net, q.direction, q.start, q.maxHops), q.direction, End(q.start, w), w),
               Onward(q, w))
<1>1. PICK t : t = End(q.start, w)
  OBVIOUS
<1>2. PICK reach : reach = Reach(q.net, q.direction, q.start, q.maxHops)
  OBVIOUS
<1>3. PICK g : g = LoadTraceGraph(q.net, q.direction, q.start, q.maxHops)
  OBVIOUS
<1>4. q.maxHops \in Nat /\ Len(w) \in 0..q.maxHops /\ w \in Walks(q, Len(w))
  BY DEF WellFormed, Walks
<1>5. t \in reach
  BY <1>1, <1>2, <1>4, WalksAreReached
<1>17. Loaded(q, g, reach)
  BY <1>2, <1>3, LoadedRows
<1>6. Table(q.net.fibers) /\ Table(q.net.connections) /\ Table(q.net.internals)
  <2>1. \A rows \in LinkRows(q.net) :
          rows \in Seq(ToSet(rows)) /\ \A i, j \in DOMAIN rows : rows[i].id = rows[j].id => i = j
    BY DEF WellFormed
  <2>2. \A rows \in LinkRows(q.net) : Table(rows)
    BY <2>1, TableOf
  <2> QED BY <2>2 DEF LinkRows
<1>7. \A kind, rows : Table(rows) =>
        Lists(Across(kind, Part(rows, {i \in DOMAIN rows : {rows[i].a, rows[i].b} \intersect reach # {}}), t, w),
              LinkSteps(kind, rows, t, w))
  BY <1>5, AcrossLists DEF LinkSteps
<1>8. /\ Lists(Across("fiber_segment", g.fibers, t, w), LinkSteps("fiber_segment", q.net.fibers, t, w))
      /\ Lists(Across("connection", g.connections, t, w), LinkSteps("connection", q.net.connections, t, w))
      /\ Lists(Across("internal_edge", g.internals, t, w), LinkSteps("internal_edge", q.net.internals, t, w))
  <2>1. /\ g.fibers = Part(q.net.fibers, {i \in DOMAIN q.net.fibers :
              {q.net.fibers[i].a, q.net.fibers[i].b} \intersect reach # {}})
        /\ g.connections = Part(q.net.connections, {i \in DOMAIN q.net.connections :
              {q.net.connections[i].a, q.net.connections[i].b} \intersect reach # {}})
        /\ g.internals = Part(q.net.internals, {i \in DOMAIN q.net.internals :
              {q.net.internals[i].a, q.net.internals[i].b} \intersect reach # {}})
    BY <1>17 DEF Loaded
  <2> QED BY <2>1, <1>6, <1>7
<1>9. Lists(ThroughSplitter(g, q.direction, t), LegSteps(q.net.splitters, q.direction, t))
  <2>1. PICK rows : rows = q.net.splitters
    OBVIOUS
  <2>2. rows \in Seq(ToSet(rows)) /\ \A i, j \in DOMAIN rows : rows[i].output = rows[j].output => i = j
    BY <2>1 DEF WellFormed
  <2> DEFINE loaded == Part(rows, {i \in DOMAIN rows :
                (IF q.direction = "downstream" THEN rows[i].input ELSE rows[i].output) \in reach})
  <2>3. Lists(ThroughSplitter([splitters |-> loaded], q.direction, t), LegSteps(rows, q.direction, t))
    <3>1. Lists(ThroughSplitter([splitters |-> loaded], q.direction, t),
                {SplitterHop(s, (IF q.direction = "downstream" THEN s.output ELSE s.input)) :
                   s \in {s \in ToSet(rows) : (IF q.direction = "downstream" THEN s.input ELSE s.output) = t}})
      BY <1>5, <2>2, SplitterLists
    <3> QED BY <3>1 DEF LegSteps, Entry, Exit
  <2>4. g.splitters = loaded
    BY <1>17, <2>1 DEF Loaded
  <2> HIDE DEF loaded
  <2>5. ThroughSplitter(g, q.direction, t) = ThroughSplitter([splitters |-> loaded], q.direction, t)
    BY <2>4 DEF ThroughSplitter
  <2> QED BY <2>1, <2>3, <2>5
<1> DEFINE F == LinkSteps("fiber_segment", q.net.fibers, t, w)
           C == LinkSteps("connection", q.net.connections, t, w)
           I == LinkSteps("internal_edge", q.net.internals, t, w)
           S == LegSteps(q.net.splitters, q.direction, t)
<1>10. /\ \A x \in F : x.kind = "fiber_segment"
       /\ \A x \in C : x.kind = "connection"
       /\ \A x \in I : x.kind = "internal_edge"
       /\ \A x \in S : x.kind = "splitter"
  BY DEF LinkSteps, LegSteps, Cross, SplitterHop
<1>11. Onward(q, w) = F \cup C \cup I \cup S
  BY <1>1, OnwardSplits
<1> HIDE DEF F, C, I, S
<1>12. F \cap C = {} /\ (F \cup C) \cap I = {} /\ (F \cup C \cup I) \cap S = {}
  BY <1>10
<1>13. Transitions(g, q.direction, t, w)
         = ((Across("fiber_segment", g.fibers, t, w) \o Across("connection", g.connections, t, w))
              \o Across("internal_edge", g.internals, t, w)) \o ThroughSplitter(g, q.direction, t)
  BY DEF Transitions
<1>14. Lists(Across("fiber_segment", g.fibers, t, w) \o Across("connection", g.connections, t, w), F \cup C)
  BY <1>8, <1>12, ListsConcat DEF F, C
<1>15. Lists((Across("fiber_segment", g.fibers, t, w) \o Across("connection", g.connections, t, w))
              \o Across("internal_edge", g.internals, t, w), F \cup C \cup I)
  BY <1>8, <1>12, <1>14, ListsConcat DEF I
<1>16. Lists(((Across("fiber_segment", g.fibers, t, w) \o Across("connection", g.connections, t, w))
              \o Across("internal_edge", g.internals, t, w)) \o ThroughSplitter(g, q.direction, t), F \cup C \cup I \cup S)
  BY <1>9, <1>12, <1>15, ListsConcat DEF S
<1> QED BY <1>1, <1>3, <1>11, <1>13, <1>16

(***************************************************************************)
(* The nodes of the walk, what each one records and what it queues.        *)
(***************************************************************************)
Nodes(q) == {w \in Seq(Steps(q)) : Len(w) <= q.maxHops /\ IsSimple(q, w)}

Returns(q, w) == {h \in Onward(q, w) : h.to \in Met(q, w)}

Extended(w, X) == {Append(w, h) : h \in X}

Kids(q, w) == IF Len(w) < q.maxHops THEN Extended(w, Free(q, w)) ELSE {}

Result(q, w) ==
  IF Len(w) < q.maxHops /\ Onward(q, w) # {} THEN Extended(w, Returns(q, w)) ELSE {w}

Results(q, W) == UNION {Result(q, w) : w \in W}

LEMMA ResultsHold == \A q, W, p : p \in Results(q, W) <=> \E w \in W : p \in Result(q, w)
BY DEF Results

LEMMA NodesAreWalks ==
  ASSUME NEW q, q.maxHops \in Nat, NEW w
  PROVE  /\ w \in Nodes(q) /\ Len(w) = q.maxHops <=> w \in SimpleWalks(q, q.maxHops)
         /\ w \in Nodes(q) /\ Len(w) < q.maxHops
              <=> \E n \in 0..(q.maxHops - 1) : w \in SimpleWalks(q, n)
<1>1. \A n \in Nat : w \in SimpleWalks(q, n) <=> w \in Seq(Steps(q)) /\ Len(w) = n /\ IsSimple(q, w)
  BY SimpleWalksAre DEF Walks
<1>2. w \in Seq(Steps(q)) => Len(w) \in Nat
  OBVIOUS
<1>3. w \in Nodes(q) <=> w \in Seq(Steps(q)) /\ Len(w) <= q.maxHops /\ IsSimple(q, w)
  BY DEF Nodes
<1>4. ASSUME w \in Nodes(q), Len(w) < q.maxHops
      PROVE  \E n \in 0..(q.maxHops - 1) : w \in SimpleWalks(q, n)
  <2>1. Len(w) \in 0..(q.maxHops - 1) /\ Len(w) \in Nat
    BY <1>2, <1>3, <1>4
  <2>2. w \in SimpleWalks(q, Len(w))
    BY <1>1, <1>3, <1>4, <2>1
  <2> QED BY <2>1, <2>2
<1>5. ASSUME NEW n \in 0..(q.maxHops - 1), w \in SimpleWalks(q, n)
      PROVE  w \in Nodes(q) /\ Len(w) < q.maxHops
  <2>1. n \in Nat /\ n < q.maxHops
    OBVIOUS
  <2> QED BY <1>1, <1>3, <1>5, <2>1
<1>6. w \in Nodes(q) /\ Len(w) = q.maxHops <=> w \in SimpleWalks(q, q.maxHops)
  BY <1>1, <1>3
<1> QED BY <1>4, <1>5, <1>6

\* The reference result is what the nodes record.
LEMMA ExpectedAreResults ==
  ASSUME NEW q, q.maxHops \in Nat
  PROVE  ExpectedPaths(q) = Results(q, Nodes(q))
<1> DEFINE inner == UNION {SimpleWalks(q, n) : n \in 0..(q.maxHops - 1)}
           I == {w \in Nodes(q) : Len(w) < q.maxHops}
           C == {w \in Nodes(q) : Len(w) = q.maxHops}
<1>1. inner = I
  <2>1. \A w : w \in inner <=> \E n \in 0..(q.maxHops - 1) : w \in SimpleWalks(q, n)
    OBVIOUS
  <2>2. \A w : w \in inner <=> w \in Nodes(q) /\ Len(w) < q.maxHops
    BY <2>1, NodesAreWalks
  <2> QED BY <2>2
<1>2. SimpleWalks(q, q.maxHops) = C
  BY NodesAreWalks
<1>3. ExpectedPaths(q) = {w \in I : Onward(q, w) = {}}
                           \cup (UNION {Extended(w, Returns(q, w)) : w \in I}) \cup C
  BY <1>1, <1>2 DEF ExpectedPaths, Extended, Returns
<1>4. \A w \in Nodes(q) : Len(w) \in Nat /\ Len(w) <= q.maxHops
  BY DEF Nodes
<1>5. \A w \in Nodes(q) : w \in I \/ w \in C
  BY <1>4
<1>6. \A w \in C : Result(q, w) = {w} /\ w \in Nodes(q)
  BY DEF Result
<1>7. \A w \in I : /\ w \in Nodes(q)
                   /\ Onward(q, w) = {} => Result(q, w) = {w} /\ Returns(q, w) = {}
                   /\ Onward(q, w) # {} => Result(q, w) = Extended(w, Returns(q, w))
  BY DEF Result, Returns
<1>8. \A p : p \in ExpectedPaths(q) <=>
         \/ p \in I /\ Onward(q, p) = {}
         \/ \E w \in I : p \in Extended(w, Returns(q, w))
         \/ p \in C
  <2> HIDE DEF I, C
  <2> QED BY <1>3
<1>9. \A w, X, p : p \in Extended(w, X) => X # {}
  BY DEF Extended
<1> HIDE DEF I, C
<1>10. ASSUME NEW p \in ExpectedPaths(q) PROVE p \in Results(q, Nodes(q))
  <2>1. CASE p \in I /\ Onward(q, p) = {}
    BY <2>1, <1>7, ResultsHold
  <2>2. CASE \E w \in I : p \in Extended(w, Returns(q, w))
    <3>1. PICK w \in I : p \in Extended(w, Returns(q, w))
      BY <2>2
    <3>2. Onward(q, w) # {}
      BY <1>7, <1>9, <3>1
    <3> QED BY <3>1, <3>2, <1>7, ResultsHold
  <2>3. CASE p \in C
    BY <2>3, <1>6, ResultsHold
  <2> QED BY <2>1, <2>2, <2>3, <1>8
<1>11. ASSUME NEW p \in Results(q, Nodes(q)) PROVE p \in ExpectedPaths(q)
  <2>1. PICK w \in Nodes(q) : p \in Result(q, w)
    BY ResultsHold
  <2>2. CASE w \in I
    BY <2>1, <2>2, <1>7, <1>8
  <2>3. CASE w \in C
    BY <2>1, <2>3, <1>6, <1>8
  <2> QED BY <2>2, <2>3, <1>5
<1> QED BY <1>10, <1>11

LEMMA AppendOnto ==
  ASSUME NEW q, NEW w \in Seq(Steps(q))
  PROVE  \A X \in SUBSET Steps(q) : \A u \in Extended(w, X) :
           \E h \in X : /\ u = Append(w, h) /\ u \in Seq(Steps(q)) /\ u # <<>>
                        /\ Len(u) = Len(w) + 1 /\ Prior(u, Len(u)) = w /\ u[Len(u)] = h
<1> SUFFICES ASSUME NEW X \in SUBSET Steps(q), NEW u \in Extended(w, X)
             PROVE  \E h \in X : /\ u = Append(w, h) /\ u \in Seq(Steps(q)) /\ u # <<>>
                        /\ Len(u) = Len(w) + 1 /\ Prior(u, Len(u)) = w /\ u[Len(u)] = h
  OBVIOUS
<1>1. PICK h \in X : u = Append(w, h)
  BY DEF Extended
<1>2. h \in Steps(q)
  OBVIOUS
<1> QED BY <1>1, <1>2, AppendBefore

\* No two nodes record the same path.
LEMMA ResultsApart ==
  ASSUME NEW q, NEW v \in Nodes(q), NEW w \in Nodes(q), NEW p \in Result(q, v), p \in Result(q, w)
  PROVE  v = w
<1> DEFINE Back(u) == /\ p \in Seq(Steps(q)) /\ Prior(p, Len(p)) = u /\ ~IsSimple(q, p)
<1>1. ASSUME NEW u \in Nodes(q), p \in Result(q, u)
      PROVE  (p = u /\ IsSimple(q, u)) \/ Back(u)
  <2>1. u \in Seq(Steps(q)) /\ IsSimple(q, u)
    BY DEF Nodes
  <2>2. CASE Len(u) < q.maxHops /\ Onward(q, u) # {}
    <3>1. p \in Extended(u, Returns(q, u))
      BY <1>1, <2>2 DEF Result
    <3>2. Returns(q, u) \subseteq Steps(q)
      BY OnwardAreSteps DEF Returns
    <3>3. PICK h \in Returns(q, u) : p = Append(u, h) /\ p \in Seq(Steps(q)) /\ Prior(p, Len(p)) = u
      BY <2>1, <3>1, <3>2, AppendOnto
    <3>4. h \in Steps(q) /\ h \notin Free(q, u)
      BY <3>2 DEF Returns, Free
    <3>5. ~IsSimple(q, p)
      BY <2>1, <3>3, <3>4, SimpleAppend
    <3> QED BY <3>3, <3>5
  <2>3. CASE ~(Len(u) < q.maxHops /\ Onward(q, u) # {})
    <3>1. p = u
      BY <1>1, <2>3 DEF Result
    <3> QED BY <2>1, <3>1
  <2> QED BY <2>2, <2>3
<1>2. (p = v /\ IsSimple(q, v)) \/ Back(v)
  BY <1>1
<1>3. (p = w /\ IsSimple(q, w)) \/ Back(w)
  BY <1>1
<1> QED BY <1>2, <1>3

(***************************************************************************)
(* One node visited.                                                       *)
(***************************************************************************)
\* Appending the listed steps lists the longer walks.
LEMMA FollowLists ==
  ASSUME NEW q, NEW w \in Seq(Steps(q)), NEW X \in SUBSET Steps(q), NEW A, Lists(A, X)
  PROVE  Lists([i \in DOMAIN A |-> Append(w, A[i])], Extended(w, X))
<1> DEFINE f == [h \in X |-> Append(w, h)]
           T == Extended(w, X)
<1>1. \A h \in X : f[h] = Append(w, h)
  OBVIOUS
<1>2. \A x \in X : f[x] \in T
  BY <1>1 DEF Extended
<1>3. \A y \in T : \E x \in X : f[x] = y
  BY <1>1 DEF Extended
<1>4. \A x, y \in X : f[x] = f[y] => x = y
  <2> SUFFICES ASSUME NEW x \in X, NEW y \in X, Append(w, x) = Append(w, y) PROVE x = y
    BY <1>1
  <2>1. \A h \in Steps(q) : Append(w, h)[Len(w) + 1] = h
    BY AppendBefore
  <2>2. x \in Steps(q) /\ y \in Steps(q)
    OBVIOUS
  <2> QED BY <2>1, <2>2
<1>5. [i \in DOMAIN A |-> Append(w, A[i])] = [i \in DOMAIN A |-> f[A[i]]]
  <2>1. \A i \in DOMAIN A : A[i] \in X
    BY DEF Lists
  <2> HIDE DEF f
  <2> QED BY <1>1, <2>1
<1> HIDE DEF f, T
<1>6. Lists([i \in DOMAIN A |-> f[A[i]]], T)
  BY <1>2, <1>3, <1>4, ListsMap
<1> QED BY <1>5, <1>6 DEF T

\* What Visit computes at the node w from its transitions hops.
Visits(q, w, hops, back, ahead) ==
  /\ hops = <<>> <=> Onward(q, w) = {}
  /\ back # <<>> <=> Returns(q, w) # {}
  /\ Lists([i \in DOMAIN back |-> Append(w, back[i])], Extended(w, Returns(q, w)))
  /\ Lists([i \in DOMAIN ahead |-> Append(w, ahead[i])], Extended(w, Free(q, w)))

\* The two loops of a visit part the transitions into returns and free steps.
LEMMA VisitLists ==
  ASSUME NEW q, WellFormed(q), NEW w \in Nodes(q)
  PROVE  LET hops == Transitions(LoadTraceGraph(q.net, q.direction, q.start, q.maxHops),
                                 q.direction, End(q.start, w), w)
             seen == Visited(q.start, w)
         IN  Visits(q, w, hops, Part(hops, {i \in DOMAIN hops : hops[i].to \in seen}),
                                Part(hops, {i \in DOMAIN hops : hops[i].to \notin seen}))
<1> DEFINE hops == Transitions(LoadTraceGraph(q.net, q.direction, q.start, q.maxHops),
                               q.direction, End(q.start, w), w)
           seen == Visited(q.start, w)
           back == Part(hops, {i \in DOMAIN hops : hops[i].to \in seen})
           ahead == Part(hops, {i \in DOMAIN hops : hops[i].to \notin seen})
<1>1. w \in Seq(Steps(q)) /\ IsSimple(q, w) /\ Len(w) <= q.maxHops
  BY DEF Nodes
<1>2. Lists(hops, Onward(q, w))
  BY <1>1, TransitionsList
<1>3. seen = Met(q, w)
  BY DEF Visited, Met
<1> HIDE DEF hops, seen
<1>4. \A i \in DOMAIN hops : hops[i] \in Onward(q, w)
  BY <1>2 DEF Lists
<1>5. Lists(back, Returns(q, w))
  <2>1. {i \in DOMAIN hops : hops[i].to \in seen} = {i \in DOMAIN hops : hops[i] \in Returns(q, w)}
    BY <1>3, <1>4 DEF Returns
  <2>2. back = Part(hops, {i \in DOMAIN hops : hops[i] \in Returns(q, w)})
    BY <2>1
  <2>3. Onward(q, w) \cap Returns(q, w) = Returns(q, w)
    BY DEF Returns
  <2> HIDE DEF back
  <2>4. Lists(Part(hops, {i \in DOMAIN hops : hops[i] \in Returns(q, w)}), Onward(q, w) \cap Returns(q, w))
    BY <1>2, ListsPart
  <2> QED BY <2>2, <2>3, <2>4
<1>6. Lists(ahead, Free(q, w))
  <2>1. {i \in DOMAIN hops : hops[i].to \notin seen} = {i \in DOMAIN hops : hops[i] \in Free(q, w)}
    BY <1>3, <1>4 DEF Free
  <2>2. ahead = Part(hops, {i \in DOMAIN hops : hops[i] \in Free(q, w)})
    BY <2>1
  <2>3. Onward(q, w) \cap Free(q, w) = Free(q, w)
    BY DEF Free
  <2> HIDE DEF ahead
  <2>4. Lists(Part(hops, {i \in DOMAIN hops : hops[i] \in Free(q, w)}), Onward(q, w) \cap Free(q, w))
    BY <1>2, ListsPart
  <2> QED BY <2>2, <2>3, <2>4
<1> HIDE DEF back, ahead
<1>7. Returns(q, w) \in SUBSET Steps(q) /\ Free(q, w) \in SUBSET Steps(q)
  BY OnwardAreSteps DEF Returns, Free
<1>8. Lists([i \in DOMAIN back |-> Append(w, back[i])], Extended(w, Returns(q, w)))
  BY <1>1, <1>5, <1>7, FollowLists
<1>9. Lists([i \in DOMAIN ahead |-> Append(w, ahead[i])], Extended(w, Free(q, w)))
  BY <1>1, <1>6, <1>7, FollowLists
<1>10. hops = <<>> <=> Onward(q, w) = {}
  BY <1>2, ListsNoMore
<1>11. back # <<>> <=> Returns(q, w) # {}
  BY <1>5, ListsNoMore
<1>12. Visits(q, w, hops, back, ahead)
  BY <1>8, <1>9, <1>10, <1>11 DEF Visits
<1> QED BY <1>12 DEF hops, seen, back, ahead

(***************************************************************************)
(* The nodes still to be visited: those on from a queued one.              *)
(***************************************************************************)
StartsWith(w, v) == Len(v) <= Len(w) /\ \A i \in 1..Len(v) : w[i] = v[i]

Waits(q, T) == {w \in Nodes(q) : \E v \in T : StartsWith(w, v)}

\* No queued node lies on from another one.
Apart(T) == \A u, v \in T : StartsWith(u, v) => u = v

\* What lies on from an appended walk, and what it lies on from.
LEMMA PrefixOfAppend ==
  ASSUME NEW S, NEW v \in Seq(S), NEW h \in S, NEW w \in Seq(S)
  PROVE  /\ StartsWith(w, Append(v, h)) <=> StartsWith(w, v) /\ Len(v) < Len(w) /\ w[Len(v) + 1] = h
         /\ StartsWith(Append(v, h), w) <=> StartsWith(v, w) \/ w = Append(v, h)
<1> DEFINE u == Append(v, h)
<1>1. /\ u \in Seq(S) /\ Len(u) = Len(v) + 1 /\ u[Len(v) + 1] = h
      /\ \A i \in 1..Len(v) : u[i] = v[i]
  OBVIOUS
<1>2. Len(v) \in Nat /\ Len(w) \in Nat
  OBVIOUS
<1>3. 1..Len(u) = 1..Len(v) \cup {Len(v) + 1}
  BY <1>1, <1>2
<1> HIDE DEF u
<1>4. StartsWith(w, u) <=> StartsWith(w, v) /\ Len(v) < Len(w) /\ w[Len(v) + 1] = h
  <2>1. Len(u) <= Len(w) <=> Len(v) < Len(w)
    BY <1>1, <1>2
  <2>2. (\A i \in 1..Len(u) : w[i] = u[i]) <=> (\A i \in 1..Len(v) : w[i] = v[i]) /\ w[Len(v) + 1] = h
    BY <1>1, <1>3
  <2>3. Len(v) < Len(w) => Len(v) <= Len(w)
    BY <1>2
  <2> QED BY <2>1, <2>2, <2>3 DEF StartsWith
<1>5. ASSUME StartsWith(u, w), w # u PROVE StartsWith(v, w)
  <2>1. Len(w) <= Len(u) /\ \A i \in 1..Len(w) : u[i] = w[i]
    BY <1>5 DEF StartsWith
  <2>2. Len(w) # Len(u)
    BY <1>1, <1>5, <2>1, SeqEqual
  <2>3. Len(w) <= Len(v) /\ 1..Len(w) \subseteq 1..Len(v)
    BY <1>1, <1>2, <2>1, <2>2
  <2> QED BY <1>1, <2>1, <2>3 DEF StartsWith
<1>6. ASSUME StartsWith(v, w) PROVE StartsWith(u, w)
  <2>1. Len(w) <= Len(v) /\ \A i \in 1..Len(w) : v[i] = w[i]
    BY <1>6 DEF StartsWith
  <2>2. Len(w) <= Len(u) /\ 1..Len(w) \subseteq 1..Len(v)
    BY <1>1, <1>2, <2>1
  <2> QED BY <1>1, <2>1, <2>2 DEF StartsWith
<1>7. StartsWith(u, u)
  BY <1>1, <1>2 DEF StartsWith
<1> QED BY <1>4, <1>5, <1>6, <1>7 DEF u

\* A node on from v is v, or lies on from a child of v.
LEMMA OnFromChild ==
  ASSUME NEW q, q.maxHops \in Nat, NEW v \in Nodes(q), NEW w \in Nodes(q)
  PROVE  StartsWith(w, v) <=> w = v \/ \E u \in Kids(q, v) : StartsWith(w, u)
<1>1. /\ v \in Seq(Steps(q)) /\ IsSimple(q, v) /\ w \in Seq(Steps(q)) /\ IsSimple(q, w)
      /\ Len(w) <= q.maxHops /\ Len(v) \in Nat /\ Len(w) \in Nat
  BY DEF Nodes
<1>2. \A h \in Steps(q) :
        StartsWith(w, Append(v, h)) <=> StartsWith(w, v) /\ Len(v) < Len(w) /\ w[Len(v) + 1] = h
  BY <1>1, PrefixOfAppend
<1>3. ASSUME StartsWith(w, v), w # v
      PROVE  \E u \in Kids(q, v) : StartsWith(w, u)
  <2>1. Len(v) <= Len(w) /\ \A i \in 1..Len(v) : w[i] = v[i]
    BY <1>3 DEF StartsWith
  <2>2. Len(v) # Len(w)
    BY <1>1, <1>3, <2>1, SeqEqual
  <2>3. Len(v) < Len(w) /\ Len(v) < q.maxHops /\ Len(v) + 1 \in 1..Len(w)
    BY <1>1, <2>1, <2>2
  <2>4. Prior(w, Len(v) + 1) = v
    <3>1. SubSeq(w, 1, Len(v)) \in Seq(Steps(q)) /\ Len(SubSeq(w, 1, Len(v))) = Len(v)
          /\ \A i \in 1..Len(v) : SubSeq(w, 1, Len(v))[i] = w[i]
      BY <1>1, <2>1, <2>3
    <3>2. SubSeq(w, 1, Len(v)) = v
      <4> DEFINE u == SubSeq(w, 1, Len(v))
      <4>1. u \in Seq(Steps(q)) /\ Len(u) = Len(v) /\ \A i \in 1..Len(v) : u[i] = v[i]
        BY <2>1, <3>1
      <4> HIDE DEF u
      <4>2. u = v
        BY <1>1, <4>1, SeqEqual
      <4> QED BY <4>2 DEF u
    <3>3. (Len(v) + 1) - 1 = Len(v)
      BY <1>1
    <3> QED BY <3>2, <3>3 DEF Prior
  <2>5. w[Len(v) + 1] \in Free(q, v)
    BY <1>1, <2>3, <2>4 DEF IsSimple, Free
  <2>6. w[Len(v) + 1] \in Steps(q)
    BY <2>5, OnwardAreSteps DEF Free
  <2>7. StartsWith(w, Append(v, w[Len(v) + 1]))
    BY <1>2, <1>3, <2>3, <2>6
  <2> QED BY <2>3, <2>5, <2>7 DEF Kids, Extended
<1>4. ASSUME NEW u \in Kids(q, v), StartsWith(w, u) PROVE StartsWith(w, v)
  <2>1. u \in Extended(v, Free(q, v))
    BY DEF Kids
  <2>2. PICK h \in Free(q, v) : u = Append(v, h)
    BY <2>1 DEF Extended
  <2>3. h \in Steps(q)
    BY OnwardAreSteps DEF Free
  <2> QED BY <1>2, <1>4, <2>2, <2>3
<1>5. w = v => StartsWith(w, v)
  BY <1>1 DEF StartsWith
<1> QED BY <1>3, <1>4, <1>5

LEMMA KidsAreNodes ==
  ASSUME NEW q, q.maxHops \in Nat, NEW v \in Nodes(q), NEW u \in Kids(q, v)
  PROVE  /\ u \in Nodes(q) /\ Len(u) = Len(v) + 1
         /\ \E h \in Free(q, v) : h \in Steps(q) /\ u = Append(v, h)
<1>1. Len(v) < q.maxHops /\ u \in Extended(v, Free(q, v))
  BY DEF Kids
<1>2. v \in Seq(Steps(q)) /\ IsSimple(q, v) /\ Len(v) \in Nat
  BY DEF Nodes
<1>3. Free(q, v) \subseteq Steps(q)
  BY OnwardAreSteps DEF Free
<1>4. PICK h \in Free(q, v) : u = Append(v, h) /\ u \in Seq(Steps(q)) /\ Len(u) = Len(v) + 1
  BY <1>1, <1>2, <1>3, AppendOnto
<1>5. IsSimple(q, u)
  BY <1>2, <1>3, <1>4, SimpleAppend
<1>6. Len(u) <= q.maxHops
  BY <1>1, <1>2, <1>4
<1> QED BY <1>3, <1>4, <1>5, <1>6 DEF Nodes

\* Visiting the node v of the queue: its children take its place.
TakeItsPlace(q, T, v, next) ==
  /\ next \in SUBSET Nodes(q) /\ Apart(next) /\ (T \ {v}) \cap Kids(q, v) = {}
  /\ Nodes(q) \ Waits(q, next) = (Nodes(q) \ Waits(q, T)) \cup {v}
  /\ v \in Waits(q, T)

LEMMA VisitPending ==
  ASSUME NEW q, q.maxHops \in Nat, NEW T \in SUBSET Nodes(q), Apart(T), NEW v \in T
  PROVE  TakeItsPlace(q, T, v, (T \ {v}) \cup Kids(q, v))
<1> DEFINE next == (T \ {v}) \cup Kids(q, v)
<1>1. v \in Nodes(q) /\ v \in Seq(Steps(q)) /\ Len(v) \in Nat
  BY DEF Nodes
<1>2. \A w \in Nodes(q) : w \in Seq(Steps(q)) /\ Len(w) \in Nat /\ StartsWith(w, w)
  BY DEF Nodes, StartsWith
<1>3. \A u \in Kids(q, v) : /\ u \in Nodes(q) /\ Len(u) = Len(v) + 1
                            /\ \E h \in Free(q, v) : h \in Steps(q) /\ u = Append(v, h)
  BY <1>1, KidsAreNodes
<1>4. \A w \in Nodes(q) : StartsWith(w, v) <=> w = v \/ \E u \in Kids(q, v) : StartsWith(w, u)
  BY <1>1, OnFromChild
<1>5. ASSUME NEW w \in T, NEW u \in Kids(q, v), w # v
      PROVE  ~StartsWith(w, u) /\ ~StartsWith(u, w)
  <2>1. w \in Nodes(q) /\ ~StartsWith(w, v) /\ ~StartsWith(v, w)
    BY <1>5 DEF Apart
  <2>2. ~StartsWith(w, u)
    BY <1>4, <2>1
  <2>3. PICK h \in Steps(q) : u = Append(v, h)
    BY <1>3
  <2>4. StartsWith(u, w) <=> StartsWith(v, w) \/ w = u
    BY <1>1, <1>2, <2>1, <2>3, PrefixOfAppend
  <2>5. StartsWith(u, u)
    BY <1>2, <1>3
  <2> QED BY <2>1, <2>2, <2>4, <2>5
<1>6. ASSUME NEW a \in Kids(q, v), NEW b \in Kids(q, v), StartsWith(a, b) PROVE a = b
  <2>1. a \in Seq(Steps(q)) /\ b \in Seq(Steps(q)) /\ Len(a) = Len(b)
    BY <1>2, <1>3
  <2> QED BY <1>6, <2>1, SeqEqual DEF StartsWith
<1>7. v \notin Kids(q, v)
  BY <1>1, <1>3
<1>8. Apart(next)
  BY <1>5, <1>6 DEF Apart
<1>9. (T \ {v}) \cap Kids(q, v) = {}
  BY <1>5, <1>2, <1>3
<1>10. next \in SUBSET Nodes(q)
  BY <1>3
<1>11. ASSUME NEW w \in Nodes(q)
       PROVE  w \in Waits(q, next) <=> w \in Waits(q, T) /\ w # v
  <2>1. w \in Waits(q, next) <=>
          (\E u \in T : u # v /\ StartsWith(w, u)) \/ (\E u \in Kids(q, v) : StartsWith(w, u))
    BY DEF Waits
  <2>2. w \in Waits(q, T) <=> (\E u \in T : u # v /\ StartsWith(w, u)) \/ StartsWith(w, v)
    BY DEF Waits
  <2>3. ASSUME w = v, NEW u \in T, u # v PROVE ~StartsWith(w, u)
    BY <2>3 DEF Apart
  <2>4. ASSUME w = v, NEW u \in Kids(q, v) PROVE ~StartsWith(w, u)
    <3>1. Len(u) = Len(v) + 1
      BY <1>3
    <3> QED BY <1>1, <2>4, <3>1 DEF StartsWith
  <2> QED BY <1>4, <2>1, <2>2, <2>3, <2>4
<1>12. v \in Waits(q, T)
  BY <1>1, <1>2 DEF Waits
<1>13. Nodes(q) \ Waits(q, next) = (Nodes(q) \ Waits(q, T)) \cup {v}
  BY <1>1, <1>11
<1> HIDE DEF next
<1>14. next = (T \ {v}) \cup Kids(q, v)
  BY DEF next
<1>15. TakeItsPlace(q, T, v, next)
  BY <1>8, <1>9, <1>10, <1>12, <1>13 DEF TakeItsPlace
<1> QED BY <1>14, <1>15

LEMMA ListsTail ==
  ASSUME NEW T, NEW Q, Lists(Q, T), Q # <<>>
  PROVE  Lists(Tail(Q), T \ {Head(Q)}) /\ Head(Q) \in T
<1> DEFINE R == Tail(Q)
<1>1. Q \in Seq(T) /\ Len(Q) \in Nat /\ Len(Q) # 0 /\ DOMAIN Q = 1..Len(Q) /\ Head(Q) = Q[1]
  BY DEF Lists
<1>2. /\ R \in Seq(T) /\ Len(R) = Len(Q) - 1 /\ DOMAIN R = 1..(Len(Q) - 1)
      /\ \A k \in 1..(Len(Q) - 1) : R[k] = Q[k + 1]
  BY <1>1
<1> HIDE DEF R
<1>3. \A k \in 1..(Len(Q) - 1) : k + 1 \in DOMAIN Q /\ k + 1 # 1
  BY <1>1
<1>4. \A k \in DOMAIN R : R[k] \in T \ {Q[1]}
  <2>1. \A k \in DOMAIN Q : Q[k] \in T
    BY <1>1
  <2>2. \A k \in DOMAIN Q : Q[k] = Q[1] => k = 1
    BY <1>1 DEF Lists
  <2> QED BY <1>2, <1>3, <2>1, <2>2
<1>5. R \in Seq(T \ {Q[1]})
  <2>1. Len(R) \in Nat /\ R = [k \in 1..Len(R) |-> R[k]] /\ DOMAIN R = 1..Len(R)
    BY <1>2
  <2> QED BY <1>4, <2>1
<1>6. ASSUME NEW x \in T \ {Q[1]} PROVE \E k \in DOMAIN R : R[k] = x
  <2>1. PICK k \in 1..Len(Q) : Q[k] = x
    BY <1>1 DEF Lists
  <2>2. k # 1 /\ k - 1 \in 1..(Len(Q) - 1) /\ (k - 1) + 1 = k
    BY <1>1, <2>1
  <2> QED BY <1>2, <2>1, <2>2
<1>7. ASSUME NEW k \in DOMAIN R, NEW l \in DOMAIN R, R[k] = R[l] PROVE k = l
  <2>1. Q[k + 1] = Q[l + 1]
    BY <1>2, <1>7
  <2>2. k + 1 = l + 1
    BY <1>2, <1>3, <2>1 DEF Lists
  <2> QED BY <1>2, <2>2
<1>8. Lists(R, T \ {Q[1]})
  BY <1>5, <1>6, <1>7 DEF Lists
<1>9. Q[1] \in T
  BY <1>1
<1> QED BY <1>1, <1>8, <1>9 DEF R

LEMMA ListsToSet == ASSUME NEW T, NEW Q, Lists(Q, T) PROVE ToSet(Q) = T
<1>1. \A k \in DOMAIN Q : Q[k] \in T
  BY DEF Lists
<1>2. \A x \in T : \E k \in DOMAIN Q : Q[k] = x
  BY DEF Lists
<1> QED BY <1>1, <1>2 DEF ToSet

LEMMA ListsCount ==
  ASSUME NEW T, NEW Q, Lists(Q, T)
  PROVE  Cardinality(T) = Len(Q)
<1>1. Q \in Seq(T) /\ Len(Q) \in Nat /\ DOMAIN Q = 1..Len(Q)
  BY DEF Lists
<1>2. Q \in [1..Len(Q) -> T]
  BY <1>1
<1>3. \A k, l \in 1..Len(Q) : Q[k] = Q[l] => k = l
  BY <1>1 DEF Lists
<1>4. \A x \in T : \E k \in 1..Len(Q) : Q[k] = x
  BY <1>1 DEF Lists
<1>5. Q \in Bijection(1..Len(Q), T)
  BY <1>2, <1>3, <1>4 DEF Bijection, Injection, Surjection, IsInjective
<1>6. IsFiniteSet(1..Len(Q)) /\ Cardinality(1..Len(Q)) = Len(Q)
  BY <1>1, FS_Interval
<1>7. ExistsBijection(1..Len(Q), T)
  BY <1>5 DEF ExistsBijection
<1> QED BY <1>6, <1>7, FS_Bijection

(***************************************************************************)
(* The invariant of the walk, over the values of its variables: Q is the   *)
(* queue, P the paths, cy, li and inc the three flags.                     *)
(***************************************************************************)
\* What a visited node leaves in the flags.
Marked(q, w, cy, li, inc) ==
  /\ Len(w) = q.maxHops => li
  /\ Len(w) < q.maxHops /\ Returns(q, w) # {} => cy
  /\ Len(w) < q.maxHops /\ Onward(q, w) = {} /\ ~IsEndpointValid(q.net, q.direction, End(q.start, w)) => inc

\* The queue is in order of length, within one step; no path is two steps longer.
Levels(Q, P) ==
  /\ \A i, j \in DOMAIN Q : i <= j => Len(Q[i]) <= Len(Q[j]) /\ Len(Q[j]) <= Len(Q[i]) + 1
  /\ \A i \in DOMAIN Q, k \in DOMAIN P : Len(P[k]) <= Len(Q[i]) + 1

\* The nodes that were visited.
Past(q, Q) == Nodes(q) \ Waits(q, ToSet(Q))

Walked(q, Q, P, cy, li, inc) ==
  /\ Lists(Q, ToSet(Q)) /\ ToSet(Q) \subseteq Nodes(q) /\ Apart(ToSet(Q))
  /\ Lists(P, Results(q, Past(q, Q)))
  /\ Levels(Q, P)
  /\ \A w \in Past(q, Q) : Marked(q, w, cy, li, inc)

LEMMA ResultLengths ==
  ASSUME NEW q, q.maxHops \in Nat, NEW v \in Nodes(q), NEW p \in Result(q, v)
  PROVE  /\ p \in Seq(Steps(q)) /\ Len(p) \in Nat /\ Len(p) <= Len(v) + 1
<1>1. v \in Seq(Steps(q)) /\ Len(v) \in Nat
  BY DEF Nodes
<1>2. CASE Len(v) < q.maxHops /\ Onward(q, v) # {}
  <2>1. p \in Extended(v, Returns(q, v)) /\ Returns(q, v) \subseteq Steps(q)
    BY <1>2, OnwardAreSteps DEF Result, Returns
  <2>2. p \in Seq(Steps(q)) /\ Len(p) = Len(v) + 1
    BY <1>1, <2>1, AppendOnto
  <2> QED BY <1>1, <2>2
<1>3. CASE ~(Len(v) < q.maxHops /\ Onward(q, v) # {})
  BY <1>1, <1>3 DEF Result
<1> QED BY <1>2, <1>3

\* C is A, then B.
Joined(C, A, B) ==
  /\ DOMAIN C = 1..(Len(A) + Len(B))
  /\ \A i \in 1..Len(A) : C[i] = A[i]
  /\ \A k \in 1..Len(B) : C[Len(A) + k] = B[k]

LEMMA ConcatAt == ASSUME NEW S, NEW A \in Seq(S), NEW B \in Seq(S) PROVE Joined(A \o B, A, B)
BY DEF Joined

\* Breadth first: the children are one step longer, and go to the end.
LEMMA LevelsStep ==
  ASSUME NEW q, q.maxHops \in Nat, NEW Q, NEW P, Levels(Q, P), Q # <<>>,
         NEW T \in SUBSET Nodes(q), Lists(Q, T),
         NEW R \in SUBSET Seq(Steps(q)), Lists(P, R),
         NEW A, Lists(A, Result(q, Head(Q))), NEW B, Lists(B, Kids(q, Head(Q)))
  PROVE  Levels(Tail(Q) \o B, P \o A)
<1> DEFINE n == Len(Q)
           v == Head(Q)
           Q2 == Tail(Q) \o B
           P2 == P \o A
<1>1. /\ Q \in Seq(T) /\ n \in Nat /\ n # 0 /\ DOMAIN Q = 1..n /\ v = Q[1] /\ v \in T /\ v \in Nodes(q)
  BY DEF Lists
<1>2. \A w \in Nodes(q) : Len(w) \in Nat
  BY DEF Nodes
<1>3. \A i \in 1..n : Len(Q[i]) \in Nat /\ Len(v) <= Len(Q[i]) /\ Len(Q[i]) <= Len(v) + 1
  <2>1. \A i \in 1..n : 1 <= i /\ 1 \in 1..n /\ Q[i] \in Nodes(q)
    BY <1>1
  <2> QED BY <1>1, <1>2, <2>1 DEF Levels
<1>4. B \in Seq(Kids(q, v)) /\ Len(B) \in Nat /\ DOMAIN B = 1..Len(B)
  BY DEF Lists
<1>5. \A k \in 1..Len(B) : Len(B[k]) = Len(v) + 1
  <2>1. \A u \in Kids(q, v) : Len(u) = Len(v) + 1
    BY <1>1, KidsAreNodes
  <2>2. \A k \in 1..Len(B) : B[k] \in Kids(q, v)
    BY <1>4
  <2> QED BY <2>1, <2>2
<1>6. /\ DOMAIN Q2 = 1..(n - 1 + Len(B))
      /\ \A i \in 1..(n - 1) : Q2[i] = Q[i + 1]
      /\ \A k \in 1..Len(B) : Q2[n - 1 + k] = B[k]
  <2> DEFINE S == T \cup Kids(q, v)
             R2 == Tail(Q)
  <2>1. /\ R2 \in Seq(S) /\ Len(R2) = n - 1 /\ B \in Seq(S)
        /\ \A i \in 1..(n - 1) : R2[i] = Q[i + 1]
    BY <1>1, <1>4
  <2> HIDE DEF R2, S, v, n
  <2>2. /\ DOMAIN (R2 \o B) = 1..(Len(R2) + Len(B))
        /\ \A i \in 1..Len(R2) : (R2 \o B)[i] = R2[i]
        /\ \A k \in 1..Len(B) : (R2 \o B)[Len(R2) + k] = B[k]
    <3>1. Joined(R2 \o B, R2, B)
      BY <2>1, ConcatAt
    <3> QED BY <3>1 DEF Joined
  <2>3. /\ DOMAIN (R2 \o B) = 1..(n - 1 + Len(B))
        /\ \A i \in 1..(n - 1) : (R2 \o B)[i] = Q[i + 1]
        /\ \A k \in 1..Len(B) : (R2 \o B)[n - 1 + k] = B[k]
    BY <2>1, <2>2
  <2> QED BY <2>3 DEF R2
<1> HIDE DEF v, Q2, n
<1>7. \A i \in DOMAIN Q2 : \/ /\ i \in 1..(n - 1) /\ i + 1 \in 1..n /\ Q2[i] = Q[i + 1]
                           \/ /\ i > n - 1 /\ Len(Q2[i]) = Len(v) + 1
  <2> SUFFICES ASSUME NEW i \in DOMAIN Q2, i \notin 1..(n - 1)
               PROVE  i > n - 1 /\ Len(Q2[i]) = Len(v) + 1
    BY <1>1, <1>6
  <2>1. i > n - 1 /\ i - (n - 1) \in 1..Len(B) /\ n - 1 + (i - (n - 1)) = i
    BY <1>1, <1>4, <1>6
  <2> QED BY <1>5, <1>6, <2>1
<1>8. \A i \in DOMAIN Q2 : Len(Q2[i]) \in Nat /\ Len(v) <= Len(Q2[i]) /\ Len(Q2[i]) <= Len(v) + 1
  <2> SUFFICES ASSUME NEW i \in DOMAIN Q2
               PROVE  Len(Q2[i]) \in Nat /\ Len(v) <= Len(Q2[i]) /\ Len(Q2[i]) <= Len(v) + 1
    OBVIOUS
  <2>1. Len(v) \in Nat
    BY <1>1, <1>2
  <2>2. CASE i + 1 \in 1..n /\ Q2[i] = Q[i + 1]
    BY <1>3, <2>2
  <2>3. CASE Len(Q2[i]) = Len(v) + 1
    BY <2>1, <2>3
  <2> QED BY <1>7, <2>2, <2>3
<1>9. ASSUME NEW i \in DOMAIN Q2, NEW j \in DOMAIN Q2, i <= j
      PROVE  Len(Q2[i]) <= Len(Q2[j]) /\ Len(Q2[j]) <= Len(Q2[i]) + 1
  <2>1. Len(v) \in Nat
    BY <1>1, <1>2
  <2>2. Len(Q2[j]) <= Len(Q2[i]) + 1
    BY <1>8, <2>1
  <2>3. CASE j > n - 1 /\ Len(Q2[j]) = Len(v) + 1
    BY <1>8, <2>2, <2>3
  <2>4. CASE j \in 1..(n - 1) /\ j + 1 \in 1..n /\ Q2[j] = Q[j + 1]
    <3>1. i \in Nat /\ i \in 1..(n - 1)
      BY <1>1, <1>6, <1>9, <2>4, <1>4
    <3>2. i + 1 \in 1..n /\ Q2[i] = Q[i + 1] /\ i + 1 <= j + 1
      BY <1>1, <1>6, <1>9, <2>4, <3>1
    <3>3. Len(Q[i + 1]) <= Len(Q[j + 1])
      BY <1>1, <2>4, <3>2 DEF Levels
    <3> QED BY <2>2, <2>4, <3>2, <3>3
  <2> QED BY <1>7, <2>3, <2>4
<1>10. \A k \in DOMAIN P2 : Len(P2[k]) \in Nat /\ Len(P2[k]) <= Len(v) + 1
  <2>1. \A p \in Result(q, v) : p \in Seq(Steps(q)) /\ Len(p) \in Nat /\ Len(p) <= Len(v) + 1
    BY <1>1, ResultLengths
  <2>2. P \in Seq(R) /\ Len(P) \in Nat /\ DOMAIN P = 1..Len(P)
    BY DEF Lists
  <2>3. A \in Seq(Result(q, v)) /\ Len(A) \in Nat /\ DOMAIN A = 1..Len(A)
    BY DEF Lists, v
  <2>4. \A k \in 1..Len(P) : Len(P[k]) \in Nat /\ Len(P[k]) <= Len(v) + 1
    <3>1. \A k \in 1..Len(P) : P[k] \in Seq(Steps(q))
      BY <2>2
    <3>2. \A k \in 1..Len(P) : Len(P[k]) \in Nat
      BY <3>1
    <3>3. \A k \in DOMAIN P : 1 \in DOMAIN Q /\ Len(P[k]) <= Len(Q[1]) + 1
      BY <1>1 DEF Levels
    <3> QED BY <1>1, <2>2, <3>2, <3>3
  <2>5. \A k \in 1..Len(A) : Len(A[k]) \in Nat /\ Len(A[k]) <= Len(v) + 1
    BY <2>1, <2>3
  <2> DEFINE S == R \cup Result(q, v)
  <2>6. P \in Seq(S) /\ A \in Seq(S)
    BY <2>2, <2>3
  <2> HIDE DEF S
  <2>7. /\ DOMAIN P2 = 1..(Len(P) + Len(A))
        /\ \A k \in 1..Len(P) : P2[k] = P[k]
        /\ \A k \in 1..Len(A) : P2[Len(P) + k] = A[k]
    BY <2>6
  <2> HIDE DEF P2
  <2> SUFFICES ASSUME NEW k \in DOMAIN P2 PROVE Len(P2[k]) \in Nat /\ Len(P2[k]) <= Len(v) + 1
    OBVIOUS
  <2>8. CASE k \in 1..Len(P)
    BY <2>4, <2>7, <2>8
  <2>9. CASE k \notin 1..Len(P)
    <3>1. k - Len(P) \in 1..Len(A) /\ Len(P) + (k - Len(P)) = k
      BY <2>2, <2>3, <2>7, <2>9
    <3>2. P2[k] = A[k - Len(P)]
      BY <2>7, <3>1
    <3> QED BY <2>5, <3>1, <3>2
  <2> QED BY <2>8, <2>9
<1> HIDE DEF P2
<1>11. \A i \in DOMAIN Q2, k \in DOMAIN P2 : Len(P2[k]) <= Len(Q2[i]) + 1
  <2>1. Len(v) \in Nat
    BY <1>1, <1>2
  <2> QED BY <1>8, <1>10, <2>1
<1>12. Levels(Q2, P2)
  BY <1>9, <1>11 DEF Levels
<1> QED BY <1>12 DEF Q2, P2

\* One node visited: its result joins the paths, its children the queue.
LEMMA WalkedStep ==
  ASSUME NEW q, q.maxHops \in Nat, NEW Q, NEW P, NEW cy, NEW li, NEW inc,
         Walked(q, Q, P, cy, li, inc), Q # <<>>,
         NEW A, Lists(A, Result(q, Head(Q))), NEW B, Lists(B, Kids(q, Head(Q))),
         NEW cy2, NEW li2, NEW inc2, cy => cy2, li => li2, inc => inc2,
         Marked(q, Head(Q), cy2, li2, inc2)
  PROVE  Walked(q, Tail(Q) \o B, P \o A, cy2, li2, inc2)
<1> DEFINE T == ToSet(Q)
           v == Head(Q)
           next == (T \ {v}) \cup Kids(q, v)
           D == Past(q, Q)
           Q2 == Tail(Q) \o B
           P2 == P \o A
<1>1. /\ Lists(Q, T) /\ T \in SUBSET Nodes(q) /\ Apart(T)
      /\ Lists(P, Results(q, D)) /\ Levels(Q, P)
      /\ \A w \in D : Marked(q, w, cy, li, inc)
  BY DEF Walked
<1>2. Lists(Tail(Q), T \ {v}) /\ v \in T /\ v \in Nodes(q)
  <2> HIDE DEF T, v
  <2>1. Lists(Tail(Q), T \ {Head(Q)}) /\ Head(Q) \in T
    BY <1>1, ListsTail
  <2> QED BY <1>1, <2>1 DEF v
<1>3. D = Nodes(q) \ Waits(q, T)
  BY DEF Past
<1> HIDE DEF D, T, v
<1>4. /\ next \in SUBSET Nodes(q) /\ Apart(next) /\ (T \ {v}) \cap Kids(q, v) = {}
      /\ Nodes(q) \ Waits(q, next) = D \cup {v}
      /\ v \in Waits(q, T)
  <2>1. T \in SUBSET Nodes(q) /\ Apart(T) /\ v \in T
    BY <1>1, <1>2
  <2> HIDE DEF next
  <2>2. /\ (T \ {v}) \cup Kids(q, v) \in SUBSET Nodes(q) /\ Apart((T \ {v}) \cup Kids(q, v))
        /\ (T \ {v}) \cap Kids(q, v) = {}
        /\ Nodes(q) \ Waits(q, (T \ {v}) \cup Kids(q, v)) = (Nodes(q) \ Waits(q, T)) \cup {v}
        /\ v \in Waits(q, T)
    <3>1. TakeItsPlace(q, T, v, (T \ {v}) \cup Kids(q, v))
      BY <2>1, VisitPending
    <3> QED BY <3>1 DEF TakeItsPlace
  <2>3. next = (T \ {v}) \cup Kids(q, v)
    BY DEF next
  <2> QED BY <1>3, <2>2, <2>3
<1> HIDE DEF next
<1>5. Lists(Q2, next)
  <2>1. Lists(B, Kids(q, v))
    BY DEF v
  <2>2. Lists(Q2, (T \ {v}) \cup Kids(q, v))
    BY <1>2, <1>4, <2>1, ListsConcat
  <2> QED BY <2>2 DEF next
<1>6. ToSet(Q2) = next
  <2> HIDE DEF Q2
  <2> QED BY <1>5, ListsToSet
<1> HIDE DEF Q2
<1>7. Past(q, Q2) = D \cup {v}
  BY <1>4, <1>6 DEF Past
<1>8. Lists(P2, Results(q, D) \cup Result(q, v))
  <2>1. Lists(A, Result(q, v))
    BY DEF v
  <2>2. Results(q, D) \cap Result(q, v) = {}
    <3> SUFFICES ASSUME NEW p \in Results(q, D), p \in Result(q, v) PROVE FALSE
      OBVIOUS
    <3>1. PICK w \in D : p \in Result(q, w)
      BY ResultsHold
    <3>2. w \in Nodes(q) /\ w # v
      BY <1>3, <1>4
    <3> QED BY <1>2, <3>1, <3>2, ResultsApart
  <2> QED BY <1>1, <2>1, <2>2, ListsConcat
<1>9. Results(q, D \cup {v}) = Results(q, D) \cup Result(q, v)
  BY DEF Results
<1>10. Levels(Q2, P2)
  <2>1. Results(q, D) \in SUBSET Seq(Steps(q))
    <3>1. \A w \in D : w \in Nodes(q)
      BY <1>3
    <3>2. \A w \in Nodes(q) : \A p \in Result(q, w) : p \in Seq(Steps(q))
      BY ResultLengths
    <3> QED BY <3>1, <3>2, ResultsHold
  <2>2. Levels(Tail(Q) \o B, P \o A)
    BY <1>1, <2>1, LevelsStep
  <2> QED BY <2>2 DEF Q2
<1> HIDE DEF P2
<1>11. \A w \in D \cup {v} : Marked(q, w, cy2, li2, inc2)
  <2>1. ASSUME NEW w, Marked(q, w, cy, li, inc) PROVE Marked(q, w, cy2, li2, inc2)
    BY <2>1, Zenon DEF Marked
  <2>2. Marked(q, v, cy2, li2, inc2)
    BY DEF v
  <2> QED BY <1>1, <2>1, <2>2
<1>12. Walked(q, Q2, P2, cy2, li2, inc2)
  BY <1>4, <1>5, <1>6, <1>7, <1>8, <1>9, <1>10, <1>11 DEF Walked
<1> QED BY <1>12 DEF Q2, P2

(***************************************************************************)
(* A walk that was cut nowhere leaves no loose end.                        *)
(***************************************************************************)
\* The step that goes back over the element just crossed leads back to where it was crossed from.
LEMMA BackOverElement ==
  ASSUME NEW q, WellFormed(q), NEW w \in Seq(Steps(q)), IsSimple(q, w), w # <<>>,
         NEW x, StepAt(q.net, q.direction, End(q.start, w), x),
         x.kind = Last(w).kind, x.id = Last(w).id
  PROVE  x.to = End(q.start, Prior(w, Len(w)))
<1>1. PICK t : t = End(q.start, w)
  OBVIOUS
<1>2. PICK f : f = End(q.start, Prior(w, Len(w)))
  OBVIOUS
<1>3. PICK y : y = Last(w)
  OBVIOUS
<1>4. y.to = t /\ StepAt(q.net, q.direction, f, y) /\ StepAt(q.net, q.direction, t, x)
      /\ x.kind = y.kind /\ x.id = y.id
  BY <1>1, <1>2, <1>3, WalkSteps
<1>5. x.kind # "splitter"
  <2> SUFFICES ASSUME x.kind = "splitter" PROVE FALSE
    OBVIOUS
  <2>1. PICK s \in ToSet(q.net.splitters) : Entry(s, q.direction) = t /\ x.id = s.id
    BY <1>4, StepsOfSplitters
  <2>2. ~Arrived(w, "splitter", s.id)
    BY <1>1, <2>1, SplitterNotRetraced
  <2> QED BY <1>3, <1>4, <2>1, <2>2 DEF Arrived
<1> DEFINE rowsOf(kind) == IF kind = "fiber_segment" THEN q.net.fibers
                           ELSE IF kind = "connection" THEN q.net.connections ELSE q.net.internals
<1>6. ASSUME NEW u, NEW z, StepAt(q.net, q.direction, u, z), z.kind = x.kind
      PROVE  \E l \in ToSet(rowsOf(x.kind)) : u \in {l.a, l.b} /\ z.id = l.id /\ z.to = Other(l, u)
  <2>1. \A kind, l : z = Cross(kind, l, u) => kind = x.kind /\ z.id = l.id /\ z.to = Other(l, u)
    BY <1>6 DEF Cross
  <2>2. \A id, to : z = [kind |-> "splitter", id |-> id, to |-> to] => z.kind = "splitter"
    OBVIOUS
  <2>3. \/ \E l \in ToSet(q.net.fibers) : u \in {l.a, l.b} /\ z = Cross("fiber_segment", l, u)
        \/ \E l \in ToSet(q.net.connections) : u \in {l.a, l.b} /\ z = Cross("connection", l, u)
        \/ \E l \in ToSet(q.net.internals) : u \in {l.a, l.b} /\ z = Cross("internal_edge", l, u)
    BY <1>5, <1>6, <2>2 DEF StepAt
  <2>4. CASE \E l \in ToSet(q.net.fibers) : u \in {l.a, l.b} /\ z = Cross("fiber_segment", l, u)
    BY <2>1, <2>4
  <2>5. CASE \E l \in ToSet(q.net.connections) : u \in {l.a, l.b} /\ z = Cross("connection", l, u)
    BY <2>1, <2>5
  <2>6. CASE \E l \in ToSet(q.net.internals) : u \in {l.a, l.b} /\ z = Cross("internal_edge", l, u)
    BY <2>1, <2>6
  <2> QED BY <2>3, <2>4, <2>5, <2>6
<1>7. PICK l \in ToSet(rowsOf(x.kind)) : f \in {l.a, l.b} /\ y.id = l.id /\ y.to = Other(l, f)
  BY <1>4, <1>6
<1>8. PICK r \in ToSet(rowsOf(x.kind)) : t \in {r.a, r.b} /\ x.id = r.id /\ x.to = Other(r, t)
  BY <1>4, <1>6
<1>9. l = r
  <2>1. rowsOf(x.kind) \in LinkRows(q.net)
    BY DEF LinkRows
  <2>2. PICK rows : rows = rowsOf(x.kind)
    OBVIOUS
  <2>3. \A i, j \in DOMAIN rows : rows[i].id = rows[j].id => i = j
    BY <2>1, <2>2 DEF WellFormed
  <2>4. (\E i \in DOMAIN rows : l = rows[i]) /\ (\E i \in DOMAIN rows : r = rows[i])
    BY <1>7, <1>8, <2>2 DEF ToSet
  <2>5. l.id = r.id
    BY <1>4, <1>7, <1>8
  <2> QED BY <2>3, <2>4, <2>5
<1>10. Other(l, Other(l, f)) = f
  BY <1>7 DEF Other
<1> QED BY <1>2, <1>4, <1>7, <1>8, <1>9, <1>10

\* The walk was cut nowhere and met no cycle.
Unhindered(q) == \A w \in Nodes(q) : Len(w) < q.maxHops /\ Returns(q, w) = {}

LEMMA StartIsNode == ASSUME NEW q, q.maxHops \in Nat PROVE <<>> \in Nodes(q) /\ End(q.start, <<>>) = q.start
BY DEF Nodes, IsSimple, End

\* Then every terminal the light reaches is the end of a node.
LEMMA ReachedByNodes ==
  ASSUME NEW q, WellFormed(q), Unhindered(q), NEW n \in Nat,
         NEW t \in Reach(q.net, q.direction, q.start, n)
  PROVE  \E w \in Nodes(q) : End(q.start, w) = t
<1> DEFINE V == {End(q.start, w) : w \in Nodes(q)}
<1>0. q.maxHops \in Nat
  BY DEF WellFormed
<1>1. q.start \in V
  BY <1>0, StartIsNode
<1>2. ASSUME NEW w \in Nodes(q), NEW u \in Neighbors(q.net, q.direction, End(q.start, w))
      PROVE  u \in V
  <2>1. w \in Seq(Steps(q)) /\ IsSimple(q, w)
    BY DEF Nodes
  <2>2. PICK h \in PlantHops(q.net, q.direction) : h.from = End(q.start, w) /\ h.step.to = u
    BY <1>2, NeighborsAreHops
  <2>3. PICK x : x = h.step
    OBVIOUS
  <2>4. CASE x \in Onward(q, w)
    <3>1. x \in Free(q, w)
      BY <2>4 DEF Unhindered, Returns, Free
    <3>2. Append(w, x) \in Kids(q, w)
      BY <3>1 DEF Kids, Extended, Unhindered
    <3>3. Append(w, x) \in Nodes(q)
      BY <1>0, <3>2, KidsAreNodes
    <3>4. x \in Steps(q)
      BY <2>4, OnwardAreSteps
    <3>5. End(q.start, Append(w, x)) = u
      BY <2>1, <2>2, <2>3, <3>4, EndOfAppend
    <3> QED BY <3>3, <3>5
  <2>5. CASE x \notin Onward(q, w)
    <3>1. w # <<>> /\ <<Last(w).kind, Last(w).id>> = <<x.kind, x.id>>
      BY <2>2, <2>3, <2>5 DEF Onward
    <3>2. StepAt(q.net, q.direction, End(q.start, w), x)
      <4>1. \E g \in PlantHops(q.net, q.direction) : g.from = End(q.start, w) /\ g.step = x
        BY <2>2, <2>3
      <4> QED BY <4>1, StepsFrom
    <3>3. x.to = End(q.start, Prior(w, Len(w)))
      BY <2>1, <3>1, <3>2, BackOverElement
    <3>4. Prior(w, Len(w)) \in Nodes(q)
      <4>1. /\ Prior(w, Len(w)) \in Seq(Steps(q)) /\ IsSimple(q, Prior(w, Len(w)))
            /\ Len(Prior(w, Len(w))) = Len(w) - 1
        BY <2>1, <3>1, WalkSteps
      <4>2. Len(w) \in Nat /\ Len(w) <= q.maxHops
        BY DEF Nodes
      <4> QED BY <1>0, <4>1, <4>2 DEF Nodes
    <3> QED BY <2>2, <2>3, <3>3, <3>4
  <2> QED BY <2>4, <2>5
<1> HIDE DEF V
<1>3. \A u \in V : Neighbors(q.net, q.direction, u) \subseteq V
  BY <1>2 DEF V
<1>4. \A net, direction, start : start \in V /\ (\A u \in V : Neighbors(net, direction, u) \subseteq V)
        => Reach(net, direction, start, n) \subseteq V
  BY ReachLeast
<1>5. Reach(q.net, q.direction, q.start, n) \subseteq V
  BY <1>1, <1>3, <1>4
<1> QED BY <1>5 DEF V

(***************************************************************************)
(* The elements at a terminal, and the steps over them.                    *)
(***************************************************************************)
TableOfKind == [fiber_segment |-> "fibers", connection |-> "connections",
                internal_edge |-> "internals", splitter |-> "splitters"]

ElementsOf(net, t) ==
  (UNION {{<<kind, l.id>> : l \in {l \in ToSet(net[kind]) : t \in {l.a, l.b}}} :
            kind \in {"fibers", "connections", "internals"}})
    \union {<<"splitters", s.id>> : s \in {s \in ToSet(net.splitters) :
                                             t \in {s.input, s.output}}}

LEMMA ElementsHold ==
  \A net, t, e : e \in ElementsOf(net, t) <=>
    \/ \E l \in ToSet(net.fibers) : t \in {l.a, l.b} /\ e = <<"fibers", l.id>>
    \/ \E l \in ToSet(net.connections) : t \in {l.a, l.b} /\ e = <<"connections", l.id>>
    \/ \E l \in ToSet(net.internals) : t \in {l.a, l.b} /\ e = <<"internals", l.id>>
    \/ \E s \in ToSet(net.splitters) : t \in {s.input, s.output} /\ e = <<"splitters", s.id>>
<1> SUFFICES ASSUME NEW net, NEW t, NEW e
             PROVE  e \in ElementsOf(net, t) <=>
    \/ \E l \in ToSet(net.fibers) : t \in {l.a, l.b} /\ e = <<"fibers", l.id>>
    \/ \E l \in ToSet(net.connections) : t \in {l.a, l.b} /\ e = <<"connections", l.id>>
    \/ \E l \in ToSet(net.internals) : t \in {l.a, l.b} /\ e = <<"internals", l.id>>
    \/ \E s \in ToSet(net.splitters) : t \in {s.input, s.output} /\ e = <<"splitters", s.id>>
  OBVIOUS
<1> DEFINE at(kind) == {<<kind, l.id>> : l \in {l \in ToSet(net[kind]) : t \in {l.a, l.b}}}
           legs == {<<"splitters", s.id>> : s \in {s \in ToSet(net.splitters) : t \in {s.input, s.output}}}
<1>1. ElementsOf(net, t) = (UNION {at(kind) : kind \in {"fibers", "connections", "internals"}}) \cup legs
  BY DEF ElementsOf
<1>2. \A kind : e \in at(kind) <=> \E l \in ToSet(net[kind]) : t \in {l.a, l.b} /\ e = <<kind, l.id>>
  OBVIOUS
<1>3. e \in legs <=> \E s \in ToSet(net.splitters) : t \in {s.input, s.output} /\ e = <<"splitters", s.id>>
  OBVIOUS
<1> HIDE DEF at, legs
<1>4. e \in ElementsOf(net, t) <=> e \in at("fibers") \/ e \in at("connections") \/ e \in at("internals") \/ e \in legs
  BY <1>1
<1> QED BY <1>2, <1>3, <1>4

LEMMA IdsAreFinite ==
  ASSUME NEW name, NEW rows, rows \in Seq(ToSet(rows))
  PROVE  IsFiniteSet({<<name, l.id>> : l \in ToSet(rows)})
<1> DEFINE n == Len(rows)
           T == {<<name, l.id>> : l \in ToSet(rows)}
           f == [i \in 1..n |-> <<name, rows[i].id>>]
<1>1. n \in Nat /\ DOMAIN rows = 1..n
  OBVIOUS
<1>2. T = {<<name, rows[i].id>> : i \in 1..n}
  BY <1>1 DEF ToSet
<1>3. f \in Surjection(1..n, T)
  <2>1. f \in [1..n -> T]
    BY <1>2
  <2>2. \A x \in T : \E i \in 1..n : f[i] = x
    BY <1>2
  <2> HIDE DEF f, T, n
  <2> QED BY <2>1, <2>2 DEF Surjection
<1>4. IsFiniteSet(1..n)
  <2> HIDE DEF n
  <2> QED BY <1>1, FS_Interval
<1> HIDE DEF f, T, n
<1>5. IsFiniteSet(T)
  BY <1>3, <1>4, FS_Surjection
<1> QED BY <1>5 DEF T

LEMMA ElementsAreFinite ==
  ASSUME NEW q, WellFormed(q), NEW t
  PROVE  IsFiniteSet(ElementsOf(q.net, t))
<1> DEFINE ids(name, rows) == {<<name, l.id>> : l \in ToSet(rows)}
           all == ids("fibers", q.net.fibers) \cup ids("connections", q.net.connections)
                    \cup ids("internals", q.net.internals) \cup ids("splitters", q.net.splitters)
<1>1. \A rows \in LinkRows(q.net) : rows \in Seq(ToSet(rows))
  BY DEF WellFormed
<1>2. \A name, rows : rows \in Seq(ToSet(rows)) => IsFiniteSet(ids(name, rows))
  BY IdsAreFinite
<1>3. q.net.splitters \in Seq(ToSet(q.net.splitters))
  BY DEF WellFormed
<1>4. ElementsOf(q.net, t) \subseteq all
  BY ElementsHold
<1> HIDE DEF ids
<1>5. /\ IsFiniteSet(ids("fibers", q.net.fibers)) /\ IsFiniteSet(ids("connections", q.net.connections))
      /\ IsFiniteSet(ids("internals", q.net.internals)) /\ IsFiniteSet(ids("splitters", q.net.splitters))
  BY <1>1, <1>2, <1>3 DEF LinkRows
<1>6. IsFiniteSet(all)
  BY <1>5, FS_Union
<1> QED BY <1>4, <1>6, FS_Subset

\* Every step from t, and every step to t, crosses an element at t.
LEMMA StepsCrossElements ==
  ASSUME NEW net, NEW direction, NEW t, NEW x, StepAt(net, direction, t, x)
  PROVE  /\ x.kind \in Kinds
         /\ <<TableOfKind[x.kind], x.id>> \in ElementsOf(net, t)
         /\ <<TableOfKind[x.kind], x.id>> \in ElementsOf(net, x.to)
<1> DEFINE Fine(z) == /\ z.kind \in Kinds
                      /\ <<TableOfKind[z.kind], z.id>> \in ElementsOf(net, t)
                      /\ <<TableOfKind[z.kind], z.id>> \in ElementsOf(net, z.to)
<1>1. \A l : t \in {l.a, l.b} => Other(l, t) \in {l.a, l.b}
  BY DEF Other
<1>2. \A kind, l : Cross(kind, l, t).kind = kind /\ Cross(kind, l, t).id = l.id /\ Cross(kind, l, t).to = Other(l, t)
  BY DEF Cross
<1>3. TableOfKind["fiber_segment"] = "fibers" /\ TableOfKind["connection"] = "connections"
      /\ TableOfKind["internal_edge"] = "internals" /\ TableOfKind["splitter"] = "splitters"
  BY DEF TableOfKind
<1>4. ASSUME NEW l \in ToSet(net.fibers), t \in {l.a, l.b}, x = Cross("fiber_segment", l, t) PROVE Fine(x)
  BY <1>1, <1>2, <1>3, <1>4, ElementsHold DEF Kinds
<1>5. ASSUME NEW l \in ToSet(net.connections), t \in {l.a, l.b}, x = Cross("connection", l, t) PROVE Fine(x)
  BY <1>1, <1>2, <1>3, <1>5, ElementsHold DEF Kinds
<1>6. ASSUME NEW l \in ToSet(net.internals), t \in {l.a, l.b}, x = Cross("internal_edge", l, t) PROVE Fine(x)
  BY <1>1, <1>2, <1>3, <1>6, ElementsHold DEF Kinds
<1>7. ASSUME NEW s \in ToSet(net.splitters), NEW to, t \in {s.input, s.output}, to \in {s.input, s.output},
             x = [kind |-> "splitter", id |-> s.id, to |-> to]
      PROVE  Fine(x)
  <2>1. x.kind = "splitter" /\ x.id = s.id /\ x.to = to
    BY <1>7
  <2> QED BY <1>3, <1>7, <2>1, ElementsHold DEF Kinds
<1> HIDE DEF Fine
<1>8. Fine(x)
  BY <1>4, <1>5, <1>6, <1>7 DEF StepAt
<1> QED BY <1>8 DEF Fine

\* Where nothing but the element just crossed ends, no step goes on.
LEMMA DeadEnds ==
  ASSUME NEW q, WellFormed(q), NEW w \in Nodes(q), NEW t, t = End(q.start, w),
         Cardinality(ElementsOf(q.net, t)) <= (IF t = q.start THEN 0 ELSE 1)
  PROVE  Onward(q, w) = {}
<1> SUFFICES ASSUME NEW x \in Onward(q, w) PROVE FALSE
  OBVIOUS
<1> DEFINE E == ElementsOf(q.net, t)
<1>1. IsFiniteSet(E)
  BY ElementsAreFinite
<1>2. w \in Seq(Steps(q)) /\ IsSimple(q, w)
  BY DEF Nodes
<1>3. StepAt(q.net, q.direction, t, x) /\ (w # <<>> => <<Last(w).kind, Last(w).id>> # <<x.kind, x.id>>)
  <2>1. \E h \in PlantHops(q.net, q.direction) : h.from = t /\ h.step = x
    BY DEF Onward
  <2>2. w # <<>> => <<Last(w).kind, Last(w).id>> # <<x.kind, x.id>>
    BY DEF Onward
  <2> QED BY <2>1, <2>2, StepsFrom
<1>4. x.kind \in Kinds /\ <<TableOfKind[x.kind], x.id>> \in E
  BY <1>3, StepsCrossElements
<1> HIDE DEF E
<1>5. Cardinality(E) \in Nat /\ Cardinality(E) # 0
  BY <1>1, <1>4, FS_EmptySet, FS_CardinalityType
<1>6. t # q.start /\ Cardinality(E) = 1
  BY <1>5 DEF E
<1>7. w # <<>>
  BY <1>6 DEF End
<1>8. PICK y : y = Last(w)
  OBVIOUS
<1>9. y.to = t /\ \E f : StepAt(q.net, q.direction, f, y)
  <2>1. /\ Last(w) = w[Len(w)] /\ End(q.start, w) = w[Len(w)].to
        /\ StepAt(q.net, q.direction, End(q.start, Prior(w, Len(w))), Last(w))
    BY <1>2, <1>7, WalkSteps
  <2>2. StepAt(q.net, q.direction, End(q.start, Prior(w, Len(w))), y)
    BY <1>8, <2>1
  <2> QED BY <1>8, <2>1, <2>2
<1>10. y.kind \in Kinds /\ <<TableOfKind[y.kind], y.id>> \in E
  BY <1>9, StepsCrossElements DEF E
<1>11. PICK e : E = {e}
  BY <1>1, <1>6, FS_Singleton
<1>12. TableOfKind[x.kind] = TableOfKind[y.kind] /\ x.id = y.id
  BY <1>4, <1>10, <1>11
<1>13. x.kind = y.kind
  BY <1>4, <1>10, <1>12 DEF TableOfKind, Kinds
<1> QED BY <1>3, <1>7, <1>8, <1>12, <1>13

(***************************************************************************)
(* The invariant of the request.                                           *)
(***************************************************************************)
FormedQueries == \A q \in Queries : WellFormed(q)

IInv ==
  /\ query \in Queries
  /\ pc \in {"load", "walk", "done", "not_found"}
  /\ cycle \in BOOLEAN /\ limited \in BOOLEAN /\ incomplete \in BOOLEAN
  /\ pc \in {"load", "not_found"} => queue = <<>> /\ paths = <<>> /\ graph = [query.net EXCEPT !.terminals = {}]
  /\ pc \in {"walk", "done"} =>
       /\ graph = LoadTraceGraph(query.net, query.direction, query.start, query.maxHops)
       /\ query.start \in query.net.terminals
       /\ Walked(query, queue, paths, cycle, limited, incomplete)
  /\ pc = "done" /\ queue # <<>> => Len(paths) >= query.maxResults /\ limited

LEMMA InitIInv == Init => IInv
BY DEF Init, IInv

\* Nothing visited, the start queued.
LEMMA WalkedFirst ==
  ASSUME NEW q, q.maxHops \in Nat, NEW cy, NEW li, NEW inc
  PROVE  Walked(q, << <<>> >>, <<>>, cy, li, inc)
<1> DEFINE Q == << <<>> >>
<1>1. Q \in Seq({<<>>}) /\ DOMAIN Q = {1} /\ Q[1] = <<>>
  OBVIOUS
<1>2. Len(<<>>) = 0 /\ DOMAIN <<>> = {} /\ <<>> \in Seq({})
  OBVIOUS
<1> HIDE DEF Q
<1>3. Lists(Q, {<<>>}) /\ ToSet(Q) = {<<>>}
  BY <1>1 DEF Lists, ToSet
<1>4. <<>> \in Nodes(q)
  BY StartIsNode
<1>5. Apart({<<>>})
  BY DEF Apart
<1>6. Past(q, Q) = {}
  <2>1. \A w \in Nodes(q) : StartsWith(w, <<>>)
    <3> SUFFICES ASSUME NEW w \in Nodes(q) PROVE StartsWith(w, <<>>)
      OBVIOUS
    <3>1. Len(w) \in Nat
      BY DEF Nodes
    <3> QED BY <1>2, <3>1 DEF StartsWith
  <2>2. Waits(q, {<<>>}) = Nodes(q)
    BY <2>1 DEF Waits
  <2> QED BY <1>3, <2>2 DEF Past
<1>7. Lists(<<>>, {}) /\ Results(q, {}) = {}
  BY <1>2 DEF Lists, Results
<1>8. Levels(Q, <<>>)
  BY <1>1, <1>2 DEF Levels
<1>9. Walked(q, Q, <<>>, cy, li, inc)
  BY <1>3, <1>4, <1>5, <1>6, <1>7, <1>8 DEF Walked
<1> QED BY <1>9 DEF Q

LEMMA ListsOne == ASSUME NEW v PROVE Lists(<<v>>, {v})
BY DEF Lists

LEMMA ListsNone == Lists(<<>>, {})
BY DEF Lists

LEMMA HeadIsNode ==
  ASSUME NEW q, NEW Q, NEW P, NEW cy, NEW li, NEW inc, Walked(q, Q, P, cy, li, inc), Q # <<>>
  PROVE  Head(Q) \in Nodes(q) /\ Tail(Q) \in Seq(Nodes(q)) /\ P \in Seq(Results(q, Past(q, Q)))
<1>1. Lists(Q, ToSet(Q)) /\ ToSet(Q) \subseteq Nodes(q) /\ Lists(P, Results(q, Past(q, Q)))
  BY DEF Walked
<1>2. Q \in Seq(ToSet(Q)) /\ P \in Seq(Results(q, Past(q, Q)))
  BY <1>1 DEF Lists
<1>3. Q \in Seq(Nodes(q))
  <2>1. PICK T : T = ToSet(Q)
    OBVIOUS
  <2> QED BY <1>1, <1>2, <2>1
<1> QED BY <1>2, <1>3

\* Every step of the request keeps the invariant.
LEMMA NextIInv ==
  ASSUME FormedQueries, IInv, [Next]_vars
  PROVE  IInv'
<1>1. query \in Queries /\ WellFormed(query) /\ query.maxHops \in Nat
  BY DEF IInv, FormedQueries, WellFormed
<1>2. CASE Load
  <2>1. Walked(query, << <<>> >>, <<>>, cycle, limited, incomplete)
    BY <1>1, WalkedFirst
  <2>2. paths = <<>>
    BY <1>2 DEF Load, IInv
  <2> QED BY <1>2, <2>1, <2>2 DEF Load, IInv
<1>3. CASE NotFound
  BY <1>3 DEF NotFound, IInv
<1>4. CASE StopAtResultLimit
  <2>1. Walked(query, queue, paths, cycle, limited, incomplete) => Walked(query, queue, paths, cycle, TRUE, incomplete)
    <3>1. \A w : Marked(query, w, cycle, limited, incomplete) => Marked(query, w, cycle, TRUE, incomplete)
      BY DEF Marked
    <3> QED BY <3>1 DEF Walked
  <2> QED BY <1>4, <2>1 DEF StopAtResultLimit, IInv
<1>5. CASE CutAtHopLimit
  <2>1. pc = "walk" /\ queue # <<>> /\ Walked(query, queue, paths, cycle, limited, incomplete)
        /\ Len(Head(queue)) >= query.maxHops /\ limited' = TRUE
        /\ paths' = Append(paths, Head(queue)) /\ queue' = Tail(queue)
        /\ UNCHANGED <<query, graph, cycle, incomplete, pc>>
    BY <1>5 DEF CutAtHopLimit, IInv
  <2>2. /\ Head(queue) \in Nodes(query) /\ Tail(queue) \in Seq(Nodes(query))
        /\ paths \in Seq(Results(query, Past(query, queue)))
    BY <2>1, HeadIsNode
  <2>3. ~(Len(Head(queue)) < query.maxHops)
    <3>1. Len(Head(queue)) \in Nat
      BY <2>2 DEF Nodes
    <3> QED BY <1>1, <2>1, <3>1
  <2>4. Result(query, Head(queue)) = {Head(queue)} /\ Kids(query, Head(queue)) = {}
    BY <2>3 DEF Result, Kids
  <2>5. Lists(<<Head(queue)>>, Result(query, Head(queue))) /\ Lists(<<>>, Kids(query, Head(queue)))
    BY <2>4, ListsOne, ListsNone
  <2>6. Marked(query, Head(queue), cycle, limited', incomplete)
    BY <2>1, <2>3 DEF Marked
  <2>7. Walked(query, Tail(queue) \o <<>>, paths \o <<Head(queue)>>, cycle, limited', incomplete)
    <3>1. (cycle => cycle) /\ (limited => limited') /\ (incomplete => incomplete)
      BY <2>1
    <3>2. PICK A : A = <<Head(queue)>>
      OBVIOUS
    <3>3. PICK B : B = <<>>
      OBVIOUS
    <3>4. Lists(A, Result(query, Head(queue))) /\ Lists(B, Kids(query, Head(queue)))
      BY <2>5, <3>2, <3>3
    <3>5. Walked(query, queue, paths, cycle, limited, incomplete) /\ queue # <<>>
      BY <2>1
    <3>6. Walked(query, Tail(queue) \o B, paths \o A, cycle, limited', incomplete)
      BY <1>1, <2>6, <3>1, <3>4, <3>5, WalkedStep
    <3> QED BY <3>2, <3>3, <3>6
  <2>8. Tail(queue) \o <<>> = queue' /\ paths \o <<Head(queue)>> = paths'
    <3>1. Tail(queue) \o <<>> = Tail(queue)
      BY <2>2
    <3>2. PICK S : S = Results(query, Past(query, queue)) \cup {Head(queue)}
      OBVIOUS
    <3>3. paths \in Seq(S) /\ Head(queue) \in S
      BY <2>2, <3>2
    <3>4. paths \o <<Head(queue)>> = Append(paths, Head(queue))
      BY <3>3
    <3> QED BY <2>1, <3>1, <3>4
  <2>9. Walked(query, queue, paths, cycle, limited, incomplete)'
    BY <2>1, <2>7, <2>8
  <2> QED BY <2>1, <2>9 DEF IInv
<1>6. CASE Visit
  <2> DEFINE trail == Head(queue)
             t     == End(query.start, trail)
             hops  == Transitions(graph, query.direction, t, trail)
             seen  == Visited(query.start, trail)
             back  == Part(hops, {i \in DOMAIN hops : hops[i].to \in seen})
             ahead == Part(hops, {i \in DOMAIN hops : hops[i].to \notin seen})
             openEnd == hops = <<>> /\ ~IsEndpointValid(graph, query.direction, t)
             follow(hs) == [i \in DOMAIN hs |-> Append(trail, hs[i])]
             added == IF hops = <<>> THEN <<trail>> ELSE follow(back)
  <2>1. /\ pc = "walk" /\ queue # <<>> /\ Walked(query, queue, paths, cycle, limited, incomplete)
        /\ Len(trail) < query.maxHops
        /\ graph = LoadTraceGraph(query.net, query.direction, query.start, query.maxHops)
    BY <1>6 DEF Visit, IInv
  <2>2. /\ incomplete' = (incomplete \/ openEnd)
        /\ cycle' = (cycle \/ back # <<>>)
        /\ paths' = paths \o added
        /\ queue' = Tail(queue) \o follow(ahead)
        /\ UNCHANGED <<query, graph, limited, pc>>
    BY <1>6 DEF Visit, Behind
  <2>3. trail \in Nodes(query)
    BY <2>1, HeadIsNode
  <2>4. Visits(query, trail, hops, back, ahead)
    BY <1>1, <2>1, <2>3, VisitLists
  <2>5. IsEndpointValid(graph, query.direction, t) <=> IsEndpointValid(query.net, query.direction, t)
    <3>1. graph.role = query.net.role /\ graph.linked = query.net.linked
      <4>1. Loaded(query, graph, Reach(query.net, query.direction, query.start, query.maxHops))
        BY <1>1, <2>1, LoadedRows
      <4> QED BY <4>1 DEF Loaded
    <3> QED BY <3>1 DEF IsEndpointValid
  <2> HIDE DEF hops, seen, back, ahead, trail, t
  <2>6. Lists(added, Result(query, trail))
    <3>1. CASE hops = <<>>
      <4>1. Onward(query, trail) = {}
        BY <2>4, <3>1 DEF Visits
      <4> QED BY <3>1, <4>1, ListsOne DEF Result
    <3>2. CASE hops # <<>>
      <4>1. Onward(query, trail) # {}
        BY <2>4, <3>2 DEF Visits
      <4>2. Result(query, trail) = Extended(trail, Returns(query, trail))
        BY <2>1, <4>1 DEF Result
      <4> QED BY <2>4, <3>2, <4>2 DEF Visits
    <3> QED BY <3>1, <3>2
  <2>7. Lists(follow(ahead), Kids(query, trail))
    <3>1. Kids(query, trail) = Extended(trail, Free(query, trail))
      BY <2>1 DEF Kids
    <3> QED BY <2>4, <3>1 DEF Visits
  <2>8. Marked(query, trail, cycle', limited, incomplete')
    <3>1. Len(trail) # query.maxHops
      <4>1. Len(trail) \in Nat
        BY <2>3 DEF Nodes
      <4> QED BY <1>1, <2>1, <4>1
    <3>2. Returns(query, trail) # {} => cycle'
      BY <2>2, <2>4 DEF Visits
    <3>3. Onward(query, trail) = {} /\ ~IsEndpointValid(query.net, query.direction, t) => incomplete'
      BY <2>2, <2>4, <2>5 DEF Visits
    <3> QED BY <3>1, <3>2, <3>3 DEF Marked, t
  <2> HIDE DEF added, follow
  <2>9. (cycle => cycle') /\ (limited => limited) /\ (incomplete => incomplete')
    BY <2>2
  <2>10. Walked(query, Tail(queue) \o follow(ahead), paths \o added, cycle', limited, incomplete')
    <3>1. Lists(added, Result(query, Head(queue))) /\ Lists(follow(ahead), Kids(query, Head(queue)))
          /\ Marked(query, Head(queue), cycle', limited, incomplete')
      BY <2>6, <2>7, <2>8 DEF trail
    <3> QED BY <1>1, <2>1, <2>9, <3>1, WalkedStep
  <2>11. Walked(query, queue, paths, cycle, limited, incomplete)'
    BY <2>2, <2>10
  <2>12. cycle' \in BOOLEAN /\ incomplete' \in BOOLEAN
    BY <2>2 DEF IInv
  <2> HIDE DEF openEnd
  <2> QED BY <2>1, <2>2, <2>11, <2>12 DEF IInv
<1>7. CASE Respond
  BY <1>7 DEF Respond, IInv
<1>8. CASE UNCHANGED vars
  BY <1>8 DEF vars, IInv
<1> QED BY <1>2, <1>3, <1>4, <1>5, <1>6, <1>7, <1>8 DEF Next

\* Steps lead over known kinds to terminals that exist.
LEMMA StepsOfPlant ==
  ASSUME NEW q, WellFormed(q), NEW x \in Steps(q)
  PROVE  x.kind \in Kinds /\ x.to \in q.net.terminals
<1>1. PICK h \in PlantHops(q.net, q.direction) : x = h.step
  BY DEF Steps
<1>2. PICK t : t = h.from
  OBVIOUS
<1>3. StepAt(q.net, q.direction, t, x)
  <2>1. \E g \in PlantHops(q.net, q.direction) : g.from = t /\ g.step = x
    BY <1>1, <1>2
  <2> QED BY <2>1, StepsFrom
<1>4. x.kind \in Kinds
  BY <1>3, StepsCrossElements
<1>5. \A rows \in LinkRows(q.net) : \A l \in ToSet(rows) : {l.a, l.b} \subseteq q.net.terminals
  <2>1. \A rows \in LinkRows(q.net) : \A i \in DOMAIN rows : {rows[i].a, rows[i].b} \subseteq q.net.terminals
    BY DEF WellFormed
  <2>2. \A rows : \A l \in ToSet(rows) : \E i \in DOMAIN rows : l = rows[i]
    BY DEF ToSet
  <2> QED BY <2>1, <2>2
<1>6. \A l \in Links(q.net) : {l.a, l.b} \subseteq q.net.terminals
  BY <1>5 DEF Links, LinkRows
<1>7. \A s \in ToSet(q.net.splitters) : {s.input, s.output} \subseteq q.net.terminals
  BY DEF WellFormed
<1>8. x.to \in Neighbors(q.net, q.direction, t)
  <2>1. \E g \in PlantHops(q.net, q.direction) : g.from = t /\ g.step.to = x.to
    BY <1>1, <1>2
  <2> QED BY <2>1, NeighborsAreHops
<1>9. \/ \E l \in Links(q.net) : t \in {l.a, l.b} /\ x.to = Other(l, t)
      \/ \E s \in ToSet(q.net.splitters) : x.to \in {s.input, s.output}
  BY <1>8, NeighborsSplit
<1>10. \A l : Other(l, t) \in {l.a, l.b}
  BY DEF Other
<1> QED BY <1>4, <1>6, <1>7, <1>9, <1>10

(***************************************************************************)
(* What the invariant says of a response.                                  *)
(***************************************************************************)
LEMMA TypesFollow == ASSUME FormedQueries, IInv PROVE TypeOK
<1>1. query \in Queries /\ WellFormed(query) /\ query.maxHops \in Nat /\ query.direction \in Directions
  BY DEF IInv, FormedQueries, WellFormed
<1>2. graph.terminals \subseteq query.net.terminals
  <2>1. CASE pc \in {"walk", "done"}
    <3>1. Loaded(query, graph, Reach(query.net, query.direction, query.start, query.maxHops))
      BY <1>1, <2>1, LoadedRows DEF IInv
    <3> QED BY <3>1 DEF Loaded
  <2>2. CASE pc \in {"load", "not_found"}
    <3>1. DOMAIN query.net = {"terminals", "fibers", "connections", "internals", "splitters", "role", "linked"}
      BY <1>1 DEF WellFormed
    <3>2. graph = [query.net EXCEPT !.terminals = {}]
      BY <2>2 DEF IInv
    <3>3. PICK net : net = query.net
      OBVIOUS
    <3>4. [net EXCEPT !.terminals = {}].terminals = {}
      BY <3>1, <3>3
    <3> QED BY <3>2, <3>3, <3>4
  <2> QED BY <2>1, <2>2 DEF IInv
<1>3. \A trail \in ToSet(queue) \cup ToSet(paths) : trail \in Seq(Steps(query))
  <2>1. CASE pc \in {"walk", "done"}
    <3>1. /\ ToSet(queue) \subseteq Nodes(query)
          /\ Lists(paths, Results(query, Past(query, queue)))
      BY <2>1 DEF IInv, Walked
    <3>2. ToSet(paths) = Results(query, Past(query, queue))
      BY <3>1, ListsToSet
    <3>3. \A w \in Nodes(query) : w \in Seq(Steps(query))
      BY DEF Nodes
    <3>4. \A w \in Nodes(query) : \A p \in Result(query, w) : p \in Seq(Steps(query))
      BY <1>1, ResultLengths
    <3>5. Past(query, queue) \subseteq Nodes(query)
      BY DEF Past
    <3> QED BY <3>1, <3>2, <3>3, <3>4, <3>5, ResultsHold
  <2>2. CASE pc \in {"load", "not_found"}
    BY <2>2 DEF IInv, ToSet
  <2> QED BY <2>1, <2>2 DEF IInv
<1>4. \A x \in Steps(query) : x.kind \in Kinds /\ x.to \in query.net.terminals
  BY <1>1, StepsOfPlant
<1>5. \A trail \in ToSet(queue) \cup ToSet(paths) : \A i \in DOMAIN trail : trail[i] \in Steps(query)
  <2>1. \A trail \in Seq(Steps(query)) : \A i \in DOMAIN trail : trail[i] \in Steps(query)
    OBVIOUS
  <2> QED BY <1>3, <2>1
<1> QED BY <1>1, <1>2, <1>4, <1>5 DEF IInv, TypeOK

\* With the queue empty every node was visited.
LEMMA NothingWaits ==
  ASSUME FormedQueries, IInv, pc = "done", queue = <<>>
  PROVE  Walked(query, queue, paths, cycle, limited, incomplete) /\ Past(query, queue) = Nodes(query)
<1>1. Walked(query, queue, paths, cycle, limited, incomplete)
  BY DEF IInv
<1>2. ToSet(queue) = {}
  BY DEF ToSet
<1>3. Waits(query, ToSet(queue)) = {}
  BY <1>2 DEF Waits
<1> QED BY <1>1, <1>3 DEF Past

\* PathsAreExact follows from the invariant.
LEMMA PathsFollow == ASSUME FormedQueries, IInv PROVE PathsAreExact
<1> SUFFICES ASSUME pc = "done", Len(paths) < query.maxResults
             PROVE  ToSet(paths) = ExpectedPaths(query) /\ Len(paths) = Cardinality(ToSet(paths))
  BY DEF PathsAreExact
<1>1. query.maxHops \in Nat /\ query.maxResults \in Nat
  BY DEF IInv, FormedQueries, WellFormed
<1>2. Walked(query, queue, paths, cycle, limited, incomplete)
  BY DEF IInv
<1>3. Len(paths) \in Nat
  <2>1. Lists(paths, Results(query, Past(query, queue)))
    BY <1>2 DEF Walked
  <2>2. PICK S : S = Results(query, Past(query, queue))
    OBVIOUS
  <2>3. paths \in Seq(S)
    BY <2>1, <2>2 DEF Lists
  <2> QED BY <2>3
<1>4. queue = <<>>
  BY <1>1, <1>3 DEF IInv
<1>5. Lists(paths, Results(query, Nodes(query)))
  BY <1>4, NothingWaits DEF Walked
<1>6. ExpectedPaths(query) = Results(query, Nodes(query))
  BY <1>1, ExpectedAreResults
<1>7. ToSet(paths) = Results(query, Nodes(query)) /\ Cardinality(Results(query, Nodes(query))) = Len(paths)
  BY <1>5, ListsToSet, ListsCount
<1> QED BY <1>6, <1>7

\* LimitCutsTheFarthest does.
LEMMA LevelsFollow == ASSUME IInv PROVE LimitCutsTheFarthest
<1>1. CASE pc \in {"walk", "done"}
  <2>1. Levels(queue, paths)
    BY <1>1 DEF IInv, Walked
  <2> QED BY <2>1 DEF Levels, LimitCutsTheFarthest, ToSet
<1>2. CASE pc \in {"load", "not_found"}
  BY <1>2 DEF IInv, LimitCutsTheFarthest, ToSet
<1> QED BY <1>1, <1>2 DEF IInv

\* CompleteLeavesNoLooseEnd does: an end of the light is a visited node that goes nowhere.
LEMMA CompleteFollows == ASSUME FormedQueries, IInv PROVE CompleteLeavesNoLooseEnd
<1> SUFFICES ASSUME pc = "done", Status = "complete",
                    NEW t \in Connected(query.direction, query.start),
                    Cardinality(ElementsAt(t)) <= (IF t = query.start THEN 0 ELSE 1)
             PROVE  IsEndpointValid(query.net, query.direction, t)
  BY DEF CompleteLeavesNoLooseEnd
<1>1. query \in Queries /\ WellFormed(query) /\ query.maxHops \in Nat /\ IsFiniteSet(query.net.terminals)
  BY DEF IInv, FormedQueries, WellFormed
<1>2. ~cycle /\ ~limited /\ ~incomplete
  BY DEF Status, IInv
<1>3. queue = <<>>
  BY <1>2 DEF IInv
<1>4. \A w \in Nodes(query) : Marked(query, w, cycle, limited, incomplete)
  BY <1>3, NothingWaits DEF Walked
<1>5. \A w \in Nodes(query) : Len(w) < query.maxHops
  <2> SUFFICES ASSUME NEW w \in Nodes(query) PROVE Len(w) < query.maxHops
    OBVIOUS
  <2>1. Len(w) # query.maxHops
    BY <1>2, <1>4 DEF Marked
  <2>2. Len(w) \in Nat /\ Len(w) <= query.maxHops
    BY DEF Nodes
  <2> QED BY <1>1, <2>1, <2>2
<1>6. Unhindered(query)
  BY <1>2, <1>4, <1>5 DEF Marked, Unhindered
<1>7. Cardinality(query.net.terminals) \in Nat
  BY <1>1, FS_CardinalityType
<1>8. t \in Reach(query.net, query.direction, query.start, Cardinality(query.net.terminals))
  BY DEF Connected
<1>9. PICK w \in Nodes(query) : End(query.start, w) = t
  <2>1. \A n \in Nat : t \in Reach(query.net, query.direction, query.start, n)
          => \E w \in Nodes(query) : End(query.start, w) = t
    BY <1>1, <1>6, ReachedByNodes
  <2> QED BY <1>7, <1>8, <2>1
<1>10. ElementsAt(t) = ElementsOf(query.net, t)
  BY DEF ElementsAt, ElementsOf
<1>11. Onward(query, w) = {}
  <2>1. Cardinality(ElementsOf(query.net, t)) <= (IF t = query.start THEN 0 ELSE 1)
    BY <1>10
  <2> QED BY <1>1, <1>9, <2>1, DeadEnds
<1> QED BY <1>2, <1>4, <1>5, <1>9, <1>11 DEF Marked
=============================================================================
