----------------------------- MODULE CablesProofs -----------------------------
(***************************************************************************)
(* What splits of cable segments keep, for any number of clients, boxes,    *)
(* fibers and segments: a split that expects a revision commits at that     *)
(* revision (SplitIsCurrent), the connections keep their fibers             *)
(* (ConnectionsStay), and light passes where it did, but for the cut        *)
(* fibers (SplitsKeepTheLight).                                             *)
(*                                                                         *)
(* The revision is compared when the topology row is locked and used when   *)
(* the split commits.  In between the split holds the row, and whoever      *)
(* raises the revision must be able to lock it.                            *)
(*                                                                         *)
(* The other two rest on the shape of the plant: terminals are numbered     *)
(* without a gap, so that what a split or a new segment adds is new         *)
(* (PlantInv); and what a split puts for an old fiber row leads from one    *)
(* of its ends to the other (LightInv).                                     *)
(***************************************************************************)
EXTENDS Cables, TLAPS, WellFoundedInduction, FiniteSetTheorems

SplitHoldsRow ==
  \A c \in Client : pc[c] = "split" =>
    topo = c /\ (req[c].by = "revision" => rev = req[c].rev)

IInv == /\ pc = [c \in Client |-> pc[c]] /\ req = [c \in Client |-> req[c]]
        /\ SplitHoldsRow

LEMMA InitIInv == Init => IInv
  BY DEF Init, IInv, SplitHoldsRow

\* A client that is not splitting reaches the end of its request.
LEMMA FinishIInv ==
  ASSUME IInv, NEW c \in Client, Finish(c),
         rev' = rev \/ (pc[c] # "split" /\ RowFree(c)) \/ pc[c] = "split"
  PROVE  IInv'
<1>1. /\ \A d \in Client : d # c => pc'[d] = pc[d] /\ req'[d] = req[d]
      /\ pc'[c] = "idle"
      /\ pc' = [d \in Client |-> pc'[d]] /\ req' = [d \in Client |-> req'[d]]
  BY DEF Finish, IInv
<1>2. ASSUME NEW d \in Client, pc'[d] = "split"
      PROVE  topo' = d /\ (req'[d].by = "revision" => rev' = req'[d].rev)
  <2>1. d # c /\ pc[d] = "split" /\ req'[d] = req[d]
    BY <1>1, <1>2
  <2>2. topo = d /\ (req[d].by = "revision" => rev = req[d].rev)
    BY <2>1 DEF IInv, SplitHoldsRow
  <2>3. topo' = d
    BY <2>1, <2>2 DEF Finish, Unlock
  <2>4. rev' = rev
    BY <2>1, <2>2, NoneAssumption DEF RowFree, IInv, SplitHoldsRow
  <2>. QED BY <2>1, <2>2, <2>3, <2>4
<1>. QED BY <1>1, <1>2 DEF IInv, SplitHoldsRow

\* A client begins something other than a split; the row stays with its holder.
LEMMA BeginIInv ==
  ASSUME IInv, NEW c \in Client, NEW p, NEW r, p # "split",
         pc' = [pc EXCEPT ![c] = p], req' = [req EXCEPT ![c] = r], UNCHANGED <<topo, rev>>
  PROVE  IInv'
  BY DEF IInv, SplitHoldsRow

LEMMA CreateIInv ==
  ASSUME IInv, NEW c \in Client, NEW o, NEW d, CreateSegment(c, o, d)
  PROVE  IInv'
<1>1. pc[c] = "idle" /\ RowFree(c) /\ UNCHANGED <<topo, pc, req>>
  BY DEF CreateSegment
<1>2. \A e \in Client : pc[e] # "split"
  BY <1>1, NoneAssumption DEF RowFree, IInv, SplitHoldsRow
<1>. QED BY <1>1, <1>2 DEF IInv, SplitHoldsRow

LEMMA LockIInv ==
  ASSUME IInv, NEW c \in Client, NEW by, NEW access, NEW cut, SplitLock(c, by, access, cut)
  PROVE  IInv'
<1>. DEFINE r == [op |-> "split", by |-> by, seg |-> req[c].seg, version |-> req[c].version,
                  rev |-> req[c].rev, access |-> access, cut |-> cut]
<1>1. /\ topo = None /\ topo' = c /\ rev' = rev
      /\ pc' = [pc EXCEPT ![c] = "split"] /\ req' = [req EXCEPT ![c] = r]
      /\ by = "revision" => rev = req[c].rev
  BY DEF SplitLock, LockRow, plant
<1>2. r.by = by /\ r.rev = req[c].rev
  OBVIOUS
<1>. HIDE DEF r
<1>3. \A d \in Client : pc[d] # "split"
  BY <1>1, NoneAssumption DEF IInv, SplitHoldsRow
<1>. QED BY <1>1, <1>2, <1>3 DEF IInv, SplitHoldsRow

LEMMA StepIInv == ASSUME IInv, NEW c \in Client, Step(c) PROVE IInv'
<1>1. ASSUME NEW r \in Route, CreateSegment(c, r[1], r[2]) PROVE IInv'
  BY <1>1, CreateIInv
<1>2. ASSUME NEW s \in Segment, View(c, s) PROVE IInv'
  BY <1>2, BeginIInv DEF View, plant
<1>3. ASSUME NEW affects \in BOOLEAN, UpdateSegment(c, affects) PROVE IInv'
  BY <1>3, FinishIInv DEF UpdateSegment
<1>4. CASE UpdateRefused(c) \/ RetireRefused(c) \/ RetireStale(c) \/ SplitOutdated(c)
           \/ SplitRefused(c) \/ \E d \in Client : DeadlockVictim(c, d)
  BY <1>4, FinishIInv DEF UpdateRefused, RetireRefused, RetireStale, SplitOutdated, SplitRefused,
     DeadlockVictim, Refuse, plant
<1>5. CASE RetireCheck(c)
  BY <1>5 DEF RetireCheck, IInv, SplitHoldsRow, plant
<1>6. CASE RetireCommit(c)
  BY <1>6, FinishIInv DEF RetireCommit
<1>7. ASSUME NEW by, NEW access, NEW cut, SplitLock(c, by, access, cut) PROVE IInv'
  BY <1>7, LockIInv
<1>8. CASE SplitCommit(c)
  BY <1>8, FinishIInv DEF SplitCommit
<1>9. CASE ConnectCommit(c) \/ DisconnectCommit(c)
  BY <1>9, FinishIInv DEF ConnectCommit, DisconnectCommit
<1>10. ASSUME NEW t, NEW u, ConnectLock(c, t, u) PROVE IInv'
  BY <1>10, BeginIInv DEF ConnectLock, plant
<1>11. ASSUME NEW k, DisconnectLock(c, k) PROVE IInv'
  BY <1>11, BeginIInv DEF DisconnectLock, plant
<1>. QED BY <1>1, <1>2, <1>3, <1>4, <1>5, <1>6, <1>7, <1>8, <1>9, <1>10, <1>11 DEF Step

\* A split sent with an expected revision never commits over another one
\* (split_cable_segment compares it under the lock of the topology row).
THEOREM SplitIsCurrent == Spec => SplitSeesCurrentPlant
<1>1. IInv /\ [Next]_vars => IInv'
  BY StepIInv DEF Next, IInv, SplitHoldsRow, vars, plant
<1>2. IInv => \A c \in Client : SplitsCommit(c) /\ req[c].by = "revision" => rev = req[c].rev
  BY DEF IInv, SplitHoldsRow, SplitsCommit
<1>. QED BY <1>1, <1>2, InitIInv, PTL DEF Spec, SplitSeesCurrentPlant

(***************************************************************************)
(* Numbers.                                                                *)
(***************************************************************************)
LEMMA LeastMember ==
  ASSUME NEW S \in SUBSET Nat, S # {}
  PROVE  \E n \in S : \A m \in S : n <= m
<1> DEFINE below == {p \in Nat \X Nat : p[1] < p[2]}
<1>1. IsWellFoundedOn(below, Nat)
  BY NatLessThanWellFounded DEF OpToRel
<1>2. \A n, m \in Nat : m < n => <<m, n>> \in below
  OBVIOUS
<1> HIDE DEF below
<1>3. PICK n \in S : \A m \in S : <<m, n>> \notin below
  BY <1>1, WFMin
<1>4. ASSUME NEW m \in S PROVE n <= m
  <2>1. n \in Nat /\ m \in Nat /\ ~(m < n)
    BY <1>2, <1>3
  <2> QED BY <2>1
<1> QED BY <1>4

LEMMA UpTo ==
  ASSUME NEW n \in Nat, NEW S, 0 \in S, \A k \in 1..n : k - 1 \in S => k \in S
  PROVE  0..n \subseteq S
<1> SUFFICES ASSUME (0..n) \ S # {} PROVE FALSE
  OBVIOUS
<1>1. (0..n) \ S \in SUBSET Nat
  OBVIOUS
<1>2. PICK k \in (0..n) \ S : \A m \in (0..n) \ S : k <= m
  BY <1>1, LeastMember
<1>3. k \in 1..n /\ k - 1 \in 0..n /\ ~(k <= k - 1)
  BY <1>2
<1> QED BY <1>2, <1>3

LEMMA NextIsOne == ASSUME NEW S \in SUBSET Segment, S # {} PROVE Next1(S) \in S
<1>1. S \in SUBSET Nat
  BY DEF Segment
<1>2. \E i \in S : \A j \in S : i <= j
  BY <1>1, LeastMember
<1> QED BY <1>2 DEF Next1

LEMMA UpToCount == \A m \in Nat : Cardinality(1..m) = m
<1> SUFFICES ASSUME NEW m \in Nat PROVE Cardinality(1..m) = m
  OBVIOUS
<1>1. Cardinality(1..m) = IF 1 > m THEN 0 ELSE m - 1 + 1
  BY FS_Interval
<1> QED BY <1>1

\* Two terminals for each fiber, numbered from n + 1 without a gap.
Side == {1, 2}

LEMMA TwoPerFiber ==
  ASSUME NEW n \in Nat
  PROVE  /\ \A f \in Fiber, i \in Side :
              n + 2 * (f - 1) + i \in (n + 1)..(n + 2 * FiberCount)
         /\ \A f, g \in Fiber, i, j \in Side :
              n + 2 * (f - 1) + i = n + 2 * (g - 1) + j => f = g /\ i = j
         /\ \A t \in (n + 1)..(n + 2 * FiberCount) :
              \E f \in Fiber : t = n + 2 * (f - 1) + 1 \/ t = n + 2 * (f - 1) + 2
<1>0. FiberCount \in Nat
  BY CountAssumption
<1>1. ASSUME NEW f \in Fiber, NEW i \in Side
      PROVE  n + 2 * (f - 1) + i \in (n + 1)..(n + 2 * FiberCount)
  BY <1>0 DEF Fiber, Side
<1>2. ASSUME NEW f \in Fiber, NEW g \in Fiber, NEW i \in Side, NEW j \in Side,
             n + 2 * (f - 1) + i = n + 2 * (g - 1) + j
      PROVE  f = g /\ i = j
  <2>1. f \in Nat /\ g \in Nat /\ f >= 1 /\ g >= 1 /\ i \in {1, 2} /\ j \in {1, 2}
    BY <1>0 DEF Fiber, Side
  <2> QED BY <1>2, <2>1
<1>3. ASSUME NEW t \in (n + 1)..(n + 2 * FiberCount)
      PROVE  \E f \in Fiber : t = n + 2 * (f - 1) + 1 \/ t = n + 2 * (f - 1) + 2
  <2> DEFINE f == (t - n + 1) \div 2
  <2>1. t - n \in Nat /\ t - n >= 1 /\ t - n <= 2 * FiberCount
    BY <1>0
  <2>2. f \in Int /\ f >= 1 /\ f <= FiberCount /\ (t - n = 2 * f - 1 \/ t - n = 2 * f)
    BY <1>0, <2>1
  <2> HIDE DEF f
  <2>3. f \in Fiber
    BY <1>0, <2>2 DEF Fiber
  <2> QED BY <2>2, <2>3
<1> QED BY <1>1, <1>2, <1>3

LEMMA Less ==
  ASSUME NEW k \in Nat, NEW u \in Nat, NEW n \in Nat, NEW m \in Nat, NEW v \in Nat,
         n + k * u <= k * m, v < u
  PROVE  n + k <= k * m /\ n + k + k * v <= k * m
<1>1. PICK w \in Nat : u = v + 1 + w
  <2>1. u - v - 1 \in Nat /\ u = v + 1 + (u - v - 1)
    OBVIOUS
  <2> QED BY <2>1
<1>2. k * u = k * v + k + k * w
  BY <1>1
<1>3. k * v \in Nat /\ k * w \in Nat /\ k * m \in Nat
  OBVIOUS
<1> QED BY <1>2, <1>3

(***************************************************************************)
(* The plant.  Every terminal there is, is an end of one fiber row of a    *)
(* segment there is; every segment has a row for each of its fibers.       *)
(***************************************************************************)
Used == {t \in Terminal : box[t] # None}
Count == Cardinality(Used)
K == 2 * FiberCount
SegFields == {"status", "origin", "dest", "version"}

PlantShaped ==
  /\ segs = [s \in Segment |-> segs[s]] /\ \A s \in Segment : DOMAIN segs[s] = SegFields
  /\ fs \subseteq [seg : Segment, fiber : Fiber, a : Terminal, b : Terminal]
  /\ box = [t \in Terminal |-> box[t]]

Counted ==
  /\ Count \in Nat /\ Used = 1..Count
  /\ Count + K * Cardinality(Unused) <= K * MaxSegment

RowOK(f) ==
  /\ Present(f.seg) /\ f.a # f.b /\ f.a \in Used /\ f.b \in Used
  /\ box[f.a] = segs[f.seg].origin /\ box[f.b] = segs[f.seg].dest

Apart(f, g) == {f.a, f.b} \cap {g.a, g.b} = {} /\ ~(f.seg = g.seg /\ f.fiber = g.fiber)

RowsOK ==
  /\ \A f \in fs : RowOK(f)
  /\ \A f, g \in fs : f # g => Apart(f, g)
  /\ \A t \in Used : \E f \in fs : t \in {f.a, f.b}
  /\ \A s \in Segment, i \in Fiber : Present(s) => \E f \in fs : f.seg = s /\ f.fiber = i

ConnsOK == \A k \in conns : k.a \in Used /\ k.b \in Used

ClientOK(c) ==
  /\ pc[c] \in {"viewed", "retire", "split"} => req[c].seg \in Segment
  /\ pc[c] = "split" => req[c].access \in Box /\ Cardinality(Unused) >= 2
  /\ pc[c] = "connect" => req[c].a \in Used /\ req[c].b \in Used

ClientsOK == \A c \in Client : ClientOK(c)
PlantInv == PlantShaped /\ Counted /\ RowsOK /\ ConnsOK /\ ClientsOK

LEMMA KNat == K \in Nat /\ MaxSegment \in Nat /\ Terminal = 1..(K * MaxSegment) /\ K * MaxSegment \in Nat
<1>1. FiberCount \in Nat /\ MaxSegment \in Nat
  BY CountAssumption
<1>2. K \in Nat
  BY <1>1 DEF K
<1>3. K * MaxSegment \in Nat
  BY <1>1, <1>2
<1> QED BY <1>1, <1>2, <1>3 DEF Terminal, K

LEMMA SegmentsFinite == IsFiniteSet(Unused) /\ Unused \in SUBSET Segment /\ Cardinality(Unused) \in Nat
<1>1. IsFiniteSet(1..MaxSegment)
  BY KNat, FS_Interval
<1>2. Unused \in SUBSET Segment
  BY DEF Unused
<1>3. IsFiniteSet(Unused)
  BY <1>1, <1>2, FS_Subset DEF Segment
<1> QED BY <1>2, <1>3, FS_CardinalityType

LEMMA NewTerminals ==
  ASSUME Counted
  PROVE  /\ \A f \in Fiber, i \in Side : NewTerminal(f, i) \in (Count + 1)..(Count + K)
         /\ \A f, g \in Fiber, i, j \in Side : NewTerminal(f, i) = NewTerminal(g, j) => f = g /\ i = j
         /\ \A t \in (Count + 1)..(Count + K) :
              \E f \in Fiber : t = NewTerminal(f, 1) \/ t = NewTerminal(f, 2)
<1>1. \A f, i : NewTerminal(f, i) = Count + 2 * (f - 1) + i
  BY DEF NewTerminal, Count, Used
<1>2. Count \in Nat
  BY DEF Counted
<1> QED BY <1>1, <1>2, TwoPerFiber DEF K

\* The numbers stay without a gap when a segment or a split adds its own.
LEMMA CountGrows ==
  ASSUME PlantShaped, Counted, NEW v \in Nat, v < Cardinality(Unused), Cardinality(Unused') = v,
         box' = [t \in Terminal |-> box'[t]],
         \A t \in Terminal : t \notin (Count + 1)..(Count + K) => box'[t] = box[t],
         \A t \in Terminal : t \in (Count + 1)..(Count + K) => box'[t] # None
  PROVE  /\ Counted' /\ Used' = Used \cup ((Count + 1)..(Count + K))
         /\ (Count + 1)..(Count + K) \subseteq Terminal
<1> DEFINE n == Count
           new == (n + 1)..(n + K)
<1>1. n \in Nat /\ K \in Nat /\ MaxSegment \in Nat /\ Cardinality(Unused) \in Nat /\ Used = 1..n
  BY KNat, SegmentsFinite DEF Counted
<1>2. n + K <= K * MaxSegment /\ n + K + K * v <= K * MaxSegment
  BY <1>1, Less DEF Counted
<1>3. new \subseteq Terminal
  BY <1>1, <1>2, KNat
<1>4. Used' = Used \cup new
  BY <1>1, <1>3 DEF Used
<1>5. Used' = 1..(n + K)
  BY <1>1, <1>4
<1>6. Count' = n + K
  <2>1. n + K \in Nat
    BY <1>1
  <2> QED BY <1>5, <2>1, UpToCount DEF Count
<1> HIDE DEF n
<1>7. Counted'
  BY <1>1, <1>2, <1>5, <1>6 DEF Counted
<1> QED BY <1>3, <1>4, <1>7 DEF n

\* A step that leaves terminals, segments and rows where they are.
SegmentsStay ==
  \A s \in Segment : /\ segs'[s].status = "none" <=> segs[s].status = "none"
                     /\ Present(s)' <=> Present(s)
                     /\ segs'[s].origin = segs[s].origin /\ segs'[s].dest = segs[s].dest

LEMMA PlantStays ==
  ASSUME PlantShaped, Counted, RowsOK, SegmentsStay, UNCHANGED <<fs, box>>,
         segs' = [s \in Segment |-> segs'[s]], \A s \in Segment : DOMAIN segs'[s] = SegFields
  PROVE  PlantShaped' /\ Counted' /\ RowsOK' /\ UNCHANGED <<Used, Unused>>
<1>1. UNCHANGED <<Used, Unused>>
  BY DEF Used, Unused, SegmentsStay
<1>2. Counted'
  BY <1>1 DEF Counted, Count
<1>3. \A f \in fs : f.seg \in Segment
  BY DEF PlantShaped
<1>4. RowsOK'
  BY <1>1, <1>3 DEF RowsOK, RowOK, Apart, SegmentsStay
<1> QED BY <1>1, <1>2, <1>4 DEF PlantShaped

\* Requests.
LEMMA Waits ==
  ASSUME IInv, NEW c \in Client, ClientOK(c), UNCHANGED <<pc, req>>, Used \subseteq Used',
         pc[c] # "split" \/ Cardinality(Unused') >= 2
  PROVE  ClientOK(c)'
BY DEF ClientOK

LEMMA FinishClients ==
  ASSUME IInv, ClientsOK, NEW c \in Client, Finish(c), Used \subseteq Used',
         \A d \in Client : d # c /\ pc[d] = "split" => Cardinality(Unused') >= 2
  PROVE  ClientsOK'
<1>1. /\ \A d \in Client : d # c => pc'[d] = pc[d] /\ req'[d] = req[d]
      /\ pc'[c] = "idle"
  BY DEF Finish, IInv
<1> QED BY <1>1 DEF ClientsOK, ClientOK

LEMMA BeginClients ==
  ASSUME IInv, ClientsOK, NEW c \in Client, NEW p, NEW r,
         pc' = [pc EXCEPT ![c] = p], req' = [req EXCEPT ![c] = r], UNCHANGED <<Used, Unused>>,
         p \in {"viewed", "retire", "split"} => r.seg \in Segment,
         p = "split" => r.access \in Box /\ Cardinality(Unused) >= 2,
         p = "connect" => r.a \in Used /\ r.b \in Used
  PROVE  ClientsOK'
<1>1. /\ \A d \in Client : d # c => pc'[d] = pc[d] /\ req'[d] = req[d]
      /\ pc'[c] = p /\ req'[c] = r
  BY DEF IInv
<1> QED BY <1>1 DEF ClientsOK, ClientOK

\* No two splits at once, and nothing that adds segments beside one.
LEMMA SplitAlone ==
  ASSUME IInv, NEW c \in Client, NEW d \in Client, pc[d] = "split",
         pc[c] = "split" \/ RowFree(c)
  PROVE  d = c
BY NoneAssumption DEF IInv, SplitHoldsRow, RowFree

(***************************************************************************)
(* create_cable_segment.                                                   *)
(***************************************************************************)
LEMMA CreatePlant ==
  ASSUME PlantInv, IInv, NEW c \in Client, NEW o \in Box, NEW d \in Box, CreateSegment(c, o, d)
  PROVE  PlantInv' /\ Used' = Used \cup ((Count + 1)..(Count + K))
<1> DEFINE s == Next1(Unused)
           row(i) == [seg |-> s, fiber |-> i, a |-> NewTerminal(i, 1), b |-> NewTerminal(i, 2)]
           new == {row(i) : i \in Fiber}
           numbers == (Count + 1)..(Count + K)
<1>1. /\ segs' = [segs EXCEPT ![s] = Installed(o, d)] /\ fs' = fs \cup new
      /\ box' = [t \in Terminal |-> IF \E f \in new : f.a = t THEN o
                                    ELSE IF \E f \in new : f.b = t THEN d ELSE box[t]]
      /\ UNCHANGED <<conns, pc, req>> /\ pc[c] = "idle" /\ RowFree(c)
  BY DEF CreateSegment
<1>2. s \in Unused /\ s \in Segment /\ segs[s].status = "none"
  BY NextIsOne, SegmentsFinite DEF CreateSegment, Unused
<1>3. /\ PlantShaped /\ Counted /\ RowsOK /\ ConnsOK /\ ClientsOK
      /\ Count \in Nat /\ K \in Nat /\ Used = 1..Count
  BY KNat DEF PlantInv, Counted
<1>n. /\ \A i \in Fiber : NewTerminal(i, 1) \in numbers /\ NewTerminal(i, 2) \in numbers
      /\ \A i, j \in Fiber : /\ NewTerminal(i, 1) # NewTerminal(j, 2)
                             /\ NewTerminal(i, 1) = NewTerminal(j, 1) => i = j
                             /\ NewTerminal(i, 2) = NewTerminal(j, 2) => i = j
      /\ \A t \in numbers : \E i \in Fiber : t = NewTerminal(i, 1) \/ t = NewTerminal(i, 2)
  BY <1>3, NewTerminals DEF Side
<1>4. \A f \in new : \E i \in Fiber : /\ f.seg = s /\ f.fiber = i
                                     /\ f.a = NewTerminal(i, 1) /\ f.b = NewTerminal(i, 2)
  OBVIOUS
<1>5. \A i \in Fiber : \E f \in new : /\ f.seg = s /\ f.fiber = i
                                     /\ f.a = NewTerminal(i, 1) /\ f.b = NewTerminal(i, 2)
  <2> SUFFICES ASSUME NEW i \in Fiber
               PROVE  \E f \in new : /\ f.seg = s /\ f.fiber = i
                                     /\ f.a = NewTerminal(i, 1) /\ f.b = NewTerminal(i, 2)
    OBVIOUS
  <2>1. row(i) \in new
    OBVIOUS
  <2> QED BY <2>1
<1>6. segs'[s] = Installed(o, d) /\ \A z \in Segment : z # s => segs'[z] = segs[z]
  BY <1>1, <1>2, <1>3 DEF PlantShaped
<1>7. Unused' = Unused \ {s}
  BY <1>2, <1>6 DEF Unused, Installed
<1>8. Cardinality(Unused') = Cardinality(Unused) - 1 /\ Cardinality(Unused) \in Nat
      /\ Cardinality(Unused) - 1 \in Nat
  <2>1. Cardinality(Unused') = Cardinality(Unused) - 1
    BY <1>2, <1>7, SegmentsFinite, FS_RemoveElement
  <2>2. Cardinality(Unused) # 0
    BY <1>2, SegmentsFinite, FS_EmptySet
  <2> QED BY <2>1, <2>2, SegmentsFinite
<1>9. /\ \A t \in Terminal : t \notin numbers => box'[t] = box[t]
      /\ \A i \in Fiber : NewTerminal(i, 1) \in Terminal => box'[NewTerminal(i, 1)] = o
      /\ \A i \in Fiber : NewTerminal(i, 2) \in Terminal => box'[NewTerminal(i, 2)] = d
  <2> HIDE DEF new, numbers
  <2>1. ASSUME NEW t \in Terminal, t \notin numbers PROVE box'[t] = box[t]
    BY <1>1, <1>n, <1>4, <2>1
  <2>2. ASSUME NEW i \in Fiber, NewTerminal(i, 1) \in Terminal PROVE box'[NewTerminal(i, 1)] = o
    BY <1>1, <1>5, <2>2
  <2>3. ASSUME NEW i \in Fiber, NewTerminal(i, 2) \in Terminal PROVE box'[NewTerminal(i, 2)] = d
    BY <1>1, <1>n, <1>4, <1>5, <2>3
  <2> QED BY <2>1, <2>2, <2>3
<1>10. o # None /\ d # None
  BY NoneAssumption
<1> HIDE DEF s, row, new, numbers
<1>11. Counted' /\ Used' = Used \cup numbers /\ numbers \subseteq Terminal
  <2>1. \A t \in Terminal : t \in numbers => box'[t] # None
    BY <1>n, <1>9, <1>10
  <2>2. box' = [t \in Terminal |-> box'[t]]
    BY <1>1
  <2> QED BY <1>3, <1>8, <1>9, <2>1, <2>2, CountGrows DEF numbers
<1>12. \A t \in Used : t \notin numbers /\ t \in Terminal /\ box'[t] = box[t]
  <2>1. \A t \in Used : t \notin numbers /\ t \in Terminal
    BY <1>3 DEF Used, numbers
  <2> QED BY <1>9, <2>1
<1>13. PlantShaped'
  <2>1. \A f \in new : f \in [seg : Segment, fiber : Fiber, a : Terminal, b : Terminal]
    BY <1>2, <1>n, <1>11 DEF new, row
  <2>2. DOMAIN Installed(o, d) = SegFields
    BY DEF Installed, SegFields
  <2> QED BY <1>1, <1>2, <1>3, <1>6, <2>1, <2>2 DEF PlantShaped
<1>14. \A z \in Segment : Present(z)' <=> Present(z) \/ z = s
  BY <1>2, <1>6 DEF Present, Installed
<1>15. \A f \in fs : f.seg \in Segment /\ f.seg # s /\ RowOK(f) /\ f.a \in Used /\ f.b \in Used
  BY <1>2, <1>3 DEF PlantShaped, RowsOK, RowOK, Present
<1>16. ASSUME NEW f \in fs' PROVE RowOK(f)'
  <2>1. CASE f \in fs
    BY <1>6, <1>11, <1>12, <1>14, <1>15, <2>1 DEF RowOK
  <2>2. CASE f \in new
    BY <1>2, <1>4, <1>6, <1>9, <1>11, <1>n, <1>14, <2>2 DEF RowOK, Installed
  <2> QED BY <1>1, <2>1, <2>2
<1>17. ASSUME NEW f \in fs', NEW g \in fs', f # g PROVE Apart(f, g)
  <2>1. CASE f \in fs /\ g \in fs
    BY <1>3, <1>17, <2>1 DEF RowsOK
  <2>2. ASSUME NEW x \in fs, NEW y \in new PROVE Apart(x, y) /\ Apart(y, x)
    BY <1>4, <1>n, <1>12, <1>15, <2>2 DEF Apart
  <2>3. CASE f \in new /\ g \in new
    <3>1. PICK i \in Fiber : f = row(i)
      BY <2>3 DEF new
    <3>2. PICK j \in Fiber : g = row(j)
      BY <2>3 DEF new
    <3>3. i # j
      BY <1>17, <3>1, <3>2
    <3> QED BY <1>n, <3>1, <3>2, <3>3 DEF Apart, row
  <2> QED BY <1>1, <2>1, <2>2, <2>3
<1>18. \A t \in Used' : \E f \in fs' : t \in {f.a, f.b}
  <2>1. ASSUME NEW t \in Used PROVE \E f \in fs' : t \in {f.a, f.b}
    BY <1>1, <1>3, <2>1 DEF RowsOK
  <2>2. ASSUME NEW t \in numbers PROVE \E f \in fs' : t \in {f.a, f.b}
    BY <1>1, <1>5, <1>n, <2>2
  <2> QED BY <1>11, <2>1, <2>2
<1>19. \A z \in Segment, i \in Fiber : Present(z)' => \E f \in fs' : f.seg = z /\ f.fiber = i
  BY <1>1, <1>3, <1>5, <1>14 DEF RowsOK
<1>20. RowsOK'
  BY <1>16, <1>17, <1>18, <1>19 DEF RowsOK, Apart
<1>21. ConnsOK'
  BY <1>1, <1>3, <1>11 DEF ConnsOK
<1>22. ClientsOK'
  <2>1. \A e \in Client : pc[e] # "split"
    BY <1>1, SplitAlone
  <2>2. ASSUME NEW e \in Client PROVE ClientOK(e)'
    BY <1>1, <1>3, <1>11, <2>1 DEF ClientsOK, ClientOK
  <2> QED BY <2>2 DEF ClientsOK
<1> QED BY <1>11, <1>13, <1>20, <1>21, <1>22 DEF PlantInv, numbers

(***************************************************************************)
(* split_cable_segment.                                                    *)
(***************************************************************************)
Near(f, s1) == [seg |-> s1, fiber |-> f.fiber, a |-> f.a, b |-> NewTerminal(f.fiber, 1)]
Far(f, s2) == [seg |-> s2, fiber |-> f.fiber, a |-> NewTerminal(f.fiber, 2), b |-> f.b]

LEMMA HalvesMembers ==
  ASSUME NEW s, NEW s1, NEW s2
  PROVE  /\ \A f \in FibersOf(s) : Near(f, s1) \in Halves(s, s1, s2) /\ Far(f, s2) \in Halves(s, s1, s2)
         /\ \A h \in Halves(s, s1, s2) : \E f \in FibersOf(s) : h = Near(f, s1) \/ h = Far(f, s2)
BY DEF Halves, Near, Far

LEMMA SplitPlant ==
  ASSUME PlantInv, IInv, NEW c \in Client, SplitCommit(c)
  PROVE  PlantInv' /\ Used' = Used \cup ((Count + 1)..(Count + K))
<1> DEFINE s == req[c].seg
           s1 == Next1(Unused)
           s2 == Next1(Unused \ {s1})
           at == req[c].access
           halves == Halves(s, s1, s2)
           numbers == (Count + 1)..(Count + K)
<1>1. /\ segs' = [segs EXCEPT ![s1] = Installed(segs[s].origin, at),
                              ![s2] = Installed(at, segs[s].dest),
                              ![s].status = "deleted"]
      /\ fs' = (fs \ FibersOf(s)) \cup halves
      /\ box' = [t \in Terminal |-> IF box[t] = None /\ \E f \in halves : t \in {f.a, f.b}
                                      THEN at ELSE box[t]]
      /\ conns' = conns \cup Continuity(req[c].cut)
      /\ pc[c] = "split" /\ Present(s) /\ Finish(c)
  BY DEF SplitCommit, SplitAllowed
<1>2. /\ PlantShaped /\ Counted /\ RowsOK /\ ConnsOK /\ ClientsOK
      /\ Count \in Nat /\ K \in Nat /\ Used = 1..Count
  BY KNat DEF PlantInv, Counted
<1>3. s \in Segment /\ at \in Box /\ at # None /\ Cardinality(Unused) >= 2
  BY <1>1, <1>2, NoneAssumption DEF ClientsOK, ClientOK
<1>4. /\ s1 \in Unused /\ s1 \in Segment /\ s2 \in Unused /\ s2 \in Segment /\ s1 # s2
      /\ segs[s1].status = "none" /\ segs[s2].status = "none" /\ s # s1 /\ s # s2
      /\ Cardinality((Unused \ {s1}) \ {s2}) = Cardinality(Unused) - 2
      /\ Cardinality(Unused) \in Nat
  <2>0. Cardinality(Unused) \in Nat /\ IsFiniteSet(Unused) /\ Unused \in SUBSET Segment
    BY SegmentsFinite
  <2>1. Unused # {}
    BY <1>3, FS_EmptySet
  <2>2. s1 \in Unused
    BY <2>0, <2>1, NextIsOne
  <2>3. IsFiniteSet(Unused \ {s1}) /\ Cardinality(Unused \ {s1}) = Cardinality(Unused) - 1
    BY <2>0, <2>2, FS_RemoveElement
  <2>4. Unused \ {s1} # {} /\ Unused \ {s1} \in SUBSET Segment
    BY <1>3, <2>0, <2>3, FS_EmptySet
  <2>5. s2 \in Unused \ {s1}
    BY <2>4, NextIsOne
  <2>6. Cardinality((Unused \ {s1}) \ {s2}) = Cardinality(Unused) - 1 - 1
    BY <2>3, <2>5, FS_RemoveElement
  <2> HIDE DEF s1, s2
  <2>7. s1 \in Segment /\ s2 \in Segment /\ segs[s1].status = "none" /\ segs[s2].status = "none"
    BY <2>2, <2>5 DEF Unused
  <2>8. s # s1 /\ s # s2
    BY <1>1, <2>7 DEF Present
  <2> QED BY <2>0, <2>2, <2>5, <2>6, <2>7, <2>8
<1>n. /\ \A i \in Fiber : NewTerminal(i, 1) \in numbers /\ NewTerminal(i, 2) \in numbers
      /\ \A i, j \in Fiber : /\ NewTerminal(i, 1) # NewTerminal(j, 2)
                             /\ NewTerminal(i, 1) = NewTerminal(j, 1) => i = j
                             /\ NewTerminal(i, 2) = NewTerminal(j, 2) => i = j
      /\ \A t \in numbers : \E i \in Fiber : t = NewTerminal(i, 1) \/ t = NewTerminal(i, 2)
  BY <1>2, NewTerminals DEF Side
<1> HIDE DEF s, s1, s2, at
<1>5. /\ \A f \in FibersOf(s) : Near(f, s1) \in halves /\ Far(f, s2) \in halves
      /\ \A h \in halves : \E f \in FibersOf(s) : h = Near(f, s1) \/ h = Far(f, s2)
  BY HalvesMembers
<1> HIDE DEF halves
<1>h. \A f \in FibersOf(s) :
        /\ Near(f, s1) \in fs' /\ Near(f, s1).seg = s1 /\ Near(f, s1).fiber = f.fiber
        /\ Near(f, s1).a = f.a /\ Near(f, s1).b = NewTerminal(f.fiber, 1)
        /\ Far(f, s2) \in fs' /\ Far(f, s2).seg = s2 /\ Far(f, s2).fiber = f.fiber
        /\ Far(f, s2).a = NewTerminal(f.fiber, 2) /\ Far(f, s2).b = f.b
  BY <1>1, <1>5 DEF Near, Far
<1>6. /\ segs'[s1] = Installed(segs[s].origin, at) /\ segs'[s2] = Installed(at, segs[s].dest)
      /\ segs'[s].status = "deleted" /\ DOMAIN segs'[s] = SegFields
      /\ \A z \in Segment : z \notin {s, s1, s2} => segs'[z] = segs[z]
      /\ segs' = [z \in Segment |-> segs'[z]]
  BY <1>1, <1>2, <1>3, <1>4 DEF PlantShaped, SegFields
<1>7. Unused' = (Unused \ {s1}) \ {s2}
  BY <1>1, <1>4, <1>6 DEF Unused, Installed, Present
<1>8. \A f \in FibersOf(s) : /\ f \in fs /\ f.seg = s /\ f.fiber \in Fiber /\ f.a \in Terminal /\ f.b \in Terminal
                            /\ RowOK(f) /\ f.a \in Used /\ f.b \in Used
  BY <1>2 DEF FibersOf, PlantShaped, RowsOK, RowOK
<1>9. \A t \in Used : t \notin numbers /\ t \in Terminal /\ box[t] # None
  BY <1>2 DEF Used
<1>o. \A t \in Terminal : t \in numbers => box[t] = None
  BY <1>2 DEF Used
<1>10. /\ \A t \in Terminal : t \notin numbers => box'[t] = box[t]
       /\ \A t \in Terminal : t \in numbers => box'[t] = at
  <2> HIDE DEF numbers
  <2>1. ASSUME NEW t \in Terminal, t \notin numbers PROVE box'[t] = box[t]
    <3>1. ASSUME NEW h \in halves, t \in {h.a, h.b} PROVE t \in Used
      <4>1. PICK f \in FibersOf(s) : h = Near(f, s1) \/ h = Far(f, s2)
        BY <1>5
      <4> QED BY <1>8, <1>n, <2>1, <3>1, <4>1 DEF Near, Far
    <3> QED BY <1>1, <1>9, <3>1
  <2>2. ASSUME NEW t \in Terminal, t \in numbers PROVE box'[t] = at
    <3>1. PICK i \in Fiber : t = NewTerminal(i, 1) \/ t = NewTerminal(i, 2)
      BY <1>n, <2>2
    <3>2. PICK f \in fs : f.seg = s /\ f.fiber = i
      BY <1>1, <1>2, <1>3 DEF RowsOK
    <3>3. f \in FibersOf(s)
      BY <3>2 DEF FibersOf
    <3>4. \E h \in halves : t \in {h.a, h.b}
      BY <1>5, <3>1, <3>2, <3>3 DEF Near, Far
    <3> QED BY <1>1, <1>o, <2>2, <3>4
  <2> QED BY <2>1, <2>2
<1>11. Counted' /\ Used' = Used \cup numbers /\ numbers \subseteq Terminal
  <2> DEFINE v == Cardinality(Unused) - 2
  <2>1. v \in Nat /\ v < Cardinality(Unused) /\ Cardinality(Unused') = v
    BY <1>3, <1>4, <1>7
  <2>2. box' = [t \in Terminal |-> box'[t]]
    BY <1>1
  <2>3. \A t \in Terminal : t \in numbers => box'[t] # None
    BY <1>3, <1>10
  <2> HIDE DEF v
  <2> QED BY <1>2, <1>10, <2>1, <2>2, <2>3, CountGrows
<1> HIDE DEF numbers
<1>12. \A t \in Used : box'[t] = box[t]
  BY <1>9, <1>10
<1>13. PlantShaped'
  <2>1. \A h \in halves : h \in [seg : Segment, fiber : Fiber, a : Terminal, b : Terminal]
    BY <1>4, <1>5, <1>8, <1>n, <1>11 DEF Near, Far
  <2>2. \A o, d : DOMAIN Installed(o, d) = SegFields
    BY DEF Installed, SegFields
  <2>3. \A z \in Segment : DOMAIN segs'[z] = SegFields
    BY <1>2, <1>6, <2>2 DEF PlantShaped
  <2> QED BY <1>1, <1>2, <1>6, <2>1, <2>3 DEF PlantShaped
<1>14. /\ \A z \in Segment : Present(z)' <=> (Present(z) /\ z # s) \/ z \in {s1, s2}
  BY <1>4, <1>6 DEF Present, Installed
<1>15. \A f \in fs \ FibersOf(s) :
         /\ f \in fs /\ f.seg \in Segment /\ f.seg \notin {s, s1, s2}
         /\ RowOK(f) /\ f.a \in Used /\ f.b \in Used
  BY <1>2, <1>4 DEF PlantShaped, RowsOK, RowOK, Present, FibersOf
<1>16. ASSUME NEW f \in fs' PROVE RowOK(f)'
  <2>1. CASE f \in fs \ FibersOf(s)
    BY <1>6, <1>11, <1>12, <1>14, <1>15, <2>1 DEF RowOK
  <2>2. ASSUME NEW g \in FibersOf(s), f = Near(g, s1) PROVE RowOK(f)'
    <3>1. f.seg = s1 /\ f.a = g.a /\ f.b = NewTerminal(g.fiber, 1) /\ g.fiber \in Fiber
      BY <1>8, <2>2 DEF Near
    <3>2. f.b \in numbers /\ f.a # f.b /\ f.a \in Used' /\ f.b \in Used' /\ f.b \in Terminal
      BY <1>8, <1>9, <1>11, <1>n, <2>2, <3>1
    <3>3. box'[f.a] = segs[s].origin /\ box'[f.b] = at
      BY <1>8, <1>10, <1>12, <2>2, <3>1, <3>2 DEF RowOK
    <3> QED BY <1>4, <1>6, <1>14, <3>1, <3>2, <3>3 DEF RowOK, Installed
  <2>3. ASSUME NEW g \in FibersOf(s), f = Far(g, s2) PROVE RowOK(f)'
    <3>1. f.seg = s2 /\ f.b = g.b /\ f.a = NewTerminal(g.fiber, 2) /\ g.fiber \in Fiber
      BY <1>8, <2>3 DEF Far
    <3>2. f.a \in numbers /\ f.a # f.b /\ f.a \in Used' /\ f.b \in Used' /\ f.a \in Terminal
      BY <1>8, <1>9, <1>11, <1>n, <2>3, <3>1
    <3>3. box'[f.b] = segs[s].dest /\ box'[f.a] = at
      BY <1>8, <1>10, <1>12, <2>3, <3>1, <3>2 DEF RowOK
    <3> QED BY <1>4, <1>6, <1>14, <3>1, <3>2, <3>3 DEF RowOK, Installed
  <2> QED BY <1>1, <1>5, <2>1, <2>2, <2>3
<1>17. \A f, g \in fs : f # g => Apart(f, g)
  BY <1>2 DEF RowsOK
<1>18. ASSUME NEW f \in fs', NEW g \in fs', f # g PROVE Apart(f, g)
  <2>1. CASE f \in fs \ FibersOf(s) /\ g \in fs \ FibersOf(s)
    BY <1>17, <1>18, <2>1
  <2>2. ASSUME NEW x \in fs \ FibersOf(s), NEW h \in halves PROVE Apart(x, h) /\ Apart(h, x)
    <3>1. PICK y \in FibersOf(s) : h = Near(y, s1) \/ h = Far(y, s2)
      BY <1>5
    <3>2. Apart(x, y) /\ x.seg \notin {s1, s2} /\ x.a \in Used /\ x.b \in Used /\ y.fiber \in Fiber
      BY <1>8, <1>15, <1>17, <3>1
    <3>3. x.a \notin numbers /\ x.b \notin numbers
      BY <1>9, <3>2
    <3> QED BY <1>n, <3>1, <3>2, <3>3 DEF Apart, Near, Far
  <2>3. CASE f \in halves /\ g \in halves
    <3>1. PICK x \in FibersOf(s) : f = Near(x, s1) \/ f = Far(x, s2)
      BY <1>5, <2>3
    <3>2. PICK y \in FibersOf(s) : g = Near(y, s1) \/ g = Far(y, s2)
      BY <1>5, <2>3
    <3>3. /\ x.fiber \in Fiber /\ y.fiber \in Fiber /\ x.a # x.b /\ y.a # y.b
          /\ x.a \notin numbers /\ x.b \notin numbers /\ y.a \notin numbers /\ y.b \notin numbers
      BY <1>8, <1>9 DEF RowOK
    <3>4. CASE x = y
      BY <1>4, <1>18, <1>n, <3>1, <3>2, <3>3, <3>4 DEF Apart, Near, Far
    <3>5. CASE x # y
      <4>1. Apart(x, y) /\ x.seg = s /\ y.seg = s
        BY <1>8, <1>17, <3>5
      <4>2. x.fiber # y.fiber /\ {x.a, x.b} \cap {y.a, y.b} = {}
        BY <4>1 DEF Apart
      <4>3. \A i \in {1, 2}, j \in {1, 2} : NewTerminal(x.fiber, i) # NewTerminal(y.fiber, j)
        BY <1>n, <3>3, <4>2
      <4> QED BY <1>n, <3>1, <3>2, <3>3, <4>2, <4>3 DEF Apart, Near, Far
    <3> QED BY <3>4, <3>5
  <2> QED BY <1>1, <2>1, <2>2, <2>3
<1>19. \A t \in Used' : \E f \in fs' : t \in {f.a, f.b}
  <2>1. ASSUME NEW t \in Used PROVE \E f \in fs' : t \in {f.a, f.b}
    <3>1. PICK f \in fs : t \in {f.a, f.b}
      BY <1>2, <2>1 DEF RowsOK
    <3>2. CASE f \in FibersOf(s)
      BY <1>h, <3>1, <3>2
    <3>3. CASE f \notin FibersOf(s)
      BY <1>1, <3>1, <3>3
    <3> QED BY <3>2, <3>3
  <2>2. ASSUME NEW t \in numbers PROVE \E f \in fs' : t \in {f.a, f.b}
    <3>1. PICK i \in Fiber : t = NewTerminal(i, 1) \/ t = NewTerminal(i, 2)
      BY <1>n, <2>2
    <3>2. PICK f \in fs : f.seg = s /\ f.fiber = i
      BY <1>1, <1>2, <1>3 DEF RowsOK
    <3>3. f \in FibersOf(s)
      BY <3>2 DEF FibersOf
    <3> QED BY <1>h, <3>1, <3>2, <3>3
  <2> QED BY <1>11, <2>1, <2>2
<1>20. ASSUME NEW z \in Segment, NEW i \in Fiber, Present(z)'
       PROVE  \E f \in fs' : f.seg = z /\ f.fiber = i
  <2>1. CASE Present(z) /\ z # s
    <3>1. PICK f \in fs : f.seg = z /\ f.fiber = i
      BY <1>2, <2>1 DEF RowsOK
    <3> QED BY <1>1, <2>1, <3>1 DEF FibersOf
  <2>2. CASE z \in {s1, s2}
    <3>1. PICK f \in fs : f.seg = s /\ f.fiber = i
      BY <1>1, <1>2, <1>3 DEF RowsOK
    <3>2. f \in FibersOf(s)
      BY <3>1 DEF FibersOf
    <3> QED BY <1>h, <2>2, <3>1, <3>2
  <2> QED BY <1>14, <1>20, <2>1, <2>2
<1>21. RowsOK'
  BY <1>16, <1>18, <1>19, <1>20 DEF RowsOK, Apart
<1>22. ConnsOK'
  <2>1. \A k \in Continuity(req[c].cut) : k.a \in numbers /\ k.b \in numbers
    BY <1>n DEF Continuity
  <2> QED BY <1>1, <1>2, <1>11, <2>1 DEF ConnsOK
<1>23. ClientsOK'
  <2>1. \A d \in Client : d # c => pc[d] # "split"
    BY <1>1, SplitAlone
  <2>2. Used \subseteq Used'
    BY <1>11
  <2> QED BY <1>1, <1>2, <2>1, <2>2, FinishClients
<1> QED BY <1>11, <1>13, <1>21, <1>22, <1>23 DEF PlantInv, numbers

(***************************************************************************)
(* The other steps.                                                        *)
(***************************************************************************)
LEMMA PlantInit == Init => PlantInv
<1> SUFFICES ASSUME Init PROVE PlantInv
  OBVIOUS
<1>1. Used = {} /\ Unused = Segment /\ fs = {} /\ conns = {}
  BY DEF Init, Used, Unused
<1>2. Count = 0 /\ Cardinality(Segment) = MaxSegment
  <2>1. Cardinality(1..MaxSegment) = MaxSegment
    BY KNat, UpToCount
  <2> QED BY <1>1, <2>1, FS_EmptySet DEF Count, Segment
<1>3. Counted
  BY <1>1, <1>2, KNat DEF Counted
<1>4. PlantShaped
  BY DEF Init, PlantShaped, SegFields
<1>5. \A s \in Segment : ~Present(s)
  BY DEF Init, Present
<1>6. RowsOK /\ ConnsOK
  BY <1>1, <1>5 DEF RowsOK, ConnsOK
<1>7. ClientsOK
  BY DEF Init, ClientsOK, ClientOK
<1> QED BY <1>3, <1>4, <1>6, <1>7 DEF PlantInv

\* A request ends and has changed at most segments' versions and connections.
LEMMA EndPlant ==
  ASSUME PlantInv, IInv, NEW c \in Client, Finish(c), SegmentsStay, UNCHANGED <<fs, box>>,
         segs' = [s \in Segment |-> segs'[s]], \A s \in Segment : DOMAIN segs'[s] = SegFields,
         \A k \in conns' : k \in conns \/ (k.a \in Used /\ k.b \in Used)
  PROVE  PlantInv'
<1>1. PlantShaped' /\ Counted' /\ RowsOK' /\ UNCHANGED <<Used, Unused>>
  BY PlantStays DEF PlantInv
<1>2. \A d \in Client : d # c /\ pc[d] = "split" => Cardinality(Unused') >= 2
  BY <1>1 DEF PlantInv, ClientsOK, ClientOK
<1>3. ClientsOK'
  BY <1>1, <1>2, FinishClients DEF PlantInv
<1> QED BY <1>1, <1>3 DEF PlantInv, ConnsOK

\* A request begins or goes on without touching the plant.
LEMMA GoOn ==
  ASSUME PlantInv, IInv, UNCHANGED <<segs, fs, box, conns>>, UNCHANGED <<Used, Unused>> => ClientsOK'
  PROVE  PlantInv'
<1>1. UNCHANGED <<Used, Unused>>
  BY DEF Used, Unused
<1> QED BY <1>1 DEF PlantInv, PlantShaped, Counted, Count, RowsOK, RowOK, Present, ConnsOK

LEMMA StepPlant == ASSUME PlantInv, IInv, NEW c \in Client, Step(c) PROVE PlantInv'
<1>0. PlantShaped /\ ClientsOK /\ ConnsOK /\ ClientOK(c)
  BY DEF PlantInv, ClientsOK
<1>a. ASSUME UNCHANGED segs
      PROVE  /\ SegmentsStay /\ segs' = [s \in Segment |-> segs'[s]]
             /\ \A s \in Segment : DOMAIN segs'[s] = SegFields
  BY <1>0, <1>a DEF SegmentsStay, PlantShaped, Present
<1>1. ASSUME NEW r \in Route, CreateSegment(c, r[1], r[2]) PROVE PlantInv'
  BY <1>1, CreatePlant, RouteAssumption
<1>2. ASSUME NEW s \in Segment, View(c, s) PROVE PlantInv'
  <2> DEFINE r == [op |-> "view", seg |-> s, version |-> segs[s].version, rev |-> rev]
  <2>1. /\ pc' = [pc EXCEPT ![c] = "viewed"] /\ req' = [req EXCEPT ![c] = r]
        /\ UNCHANGED <<segs, fs, box, conns>>
    BY <1>2 DEF View, plant
  <2>2. r.seg \in Segment
    OBVIOUS
  <2> HIDE DEF r
  <2>3. UNCHANGED <<Used, Unused>> => ClientsOK'
    BY <1>0, <2>1, <2>2, BeginClients
  <2> QED BY <2>1, <2>3, GoOn
<1>3. CASE (\E affects \in BOOLEAN : UpdateSegment(c, affects)) \/ RetireCommit(c)
  <2> DEFINE s == req[c].seg
  <2>1. /\ UNCHANGED <<fs, box, conns>> /\ Finish(c) /\ Present(s) /\ s \in Segment
        /\ \/ segs' = [segs EXCEPT ![s].version = @ + 1]
           \/ segs' = [segs EXCEPT ![s].status = "retired", ![s].version = @ + 1]
    BY <1>0, <1>3 DEF UpdateSegment, RetireCommit, Fresh, ClientOK
  <2> HIDE DEF s
  <2>2. /\ \A z \in Segment : z # s => segs'[z] = segs[z]
        /\ segs'[s].status \in {segs[s].status, "retired"}
        /\ segs'[s].origin = segs[s].origin /\ segs'[s].dest = segs[s].dest
        /\ DOMAIN segs'[s] = SegFields /\ segs' = [z \in Segment |-> segs'[z]]
    BY <1>0, <2>1 DEF PlantShaped, SegFields
  <2>3. SegmentsStay
    BY <2>1, <2>2 DEF SegmentsStay, Present
  <2>4. \A z \in Segment : DOMAIN segs'[z] = SegFields
    BY <1>0, <2>2 DEF PlantShaped
  <2> QED BY <2>1, <2>2, <2>3, <2>4, EndPlant
<1>4. CASE UpdateRefused(c) \/ RetireRefused(c) \/ RetireStale(c) \/ SplitOutdated(c)
           \/ SplitRefused(c) \/ \E d \in Client : DeadlockVictim(c, d)
  <2>1. UNCHANGED <<segs, fs, box, conns>> /\ Finish(c)
    BY <1>4 DEF UpdateRefused, RetireRefused, RetireStale, SplitOutdated, SplitRefused,
       DeadlockVictim, Refuse, plant
  <2> QED BY <1>a, <2>1, EndPlant
<1>5. CASE RetireCheck(c)
  <2>1. UNCHANGED <<segs, fs, box, conns, req>> /\ pc' = [pc EXCEPT ![c] = "retire"] /\ pc[c] = "viewed"
    BY <1>5 DEF RetireCheck, plant
  <2>2. UNCHANGED <<Used, Unused>> => ClientsOK'
    BY <1>0, <2>1 DEF ClientsOK, ClientOK, IInv
  <2> QED BY <2>1, <2>2, GoOn
<1>6. ASSUME NEW by, NEW access \in Box, NEW cut, SplitLock(c, by, access, cut) PROVE PlantInv'
  <2> DEFINE r == [op |-> "split", by |-> by, seg |-> req[c].seg, version |-> req[c].version,
                   rev |-> req[c].rev, access |-> access, cut |-> cut]
  <2>1. /\ pc' = [pc EXCEPT ![c] = "split"] /\ req' = [req EXCEPT ![c] = r] /\ pc[c] = "viewed"
        /\ UNCHANGED <<segs, fs, box, conns>> /\ Cardinality(Unused) >= 2
    BY <1>6 DEF SplitLock, plant
  <2>2. r.seg \in Segment /\ r.access \in Box
    BY <1>0, <2>1 DEF ClientOK
  <2> HIDE DEF r
  <2>3. UNCHANGED <<Used, Unused>> => ClientsOK'
    BY <1>0, <2>1, <2>2, BeginClients
  <2> QED BY <2>1, <2>3, GoOn
<1>7. CASE SplitCommit(c)
  BY <1>7, SplitPlant
<1>8. CASE ConnectCommit(c) \/ DisconnectCommit(c)
  <2>1. /\ UNCHANGED <<segs, fs, box>> /\ Finish(c)
        /\ \A k \in conns' : k \in conns \/ (k.a \in Used /\ k.b \in Used)
    BY <1>0, <1>8 DEF ConnectCommit, DisconnectCommit, ClientOK
  <2> QED BY <1>a, <2>1, EndPlant
<1>9. ASSUME NEW t \in Terminal, NEW u \in Terminal, ConnectLock(c, t, u) PROVE PlantInv'
  <2> DEFINE r == [op |-> "connect", a |-> t, b |-> u]
  <2>1. /\ pc' = [pc EXCEPT ![c] = "connect"] /\ req' = [req EXCEPT ![c] = r]
        /\ UNCHANGED <<segs, fs, box, conns>> /\ t \in Used /\ u \in Used
    BY <1>9 DEF ConnectLock, plant, Used
  <2>2. r.a = t /\ r.b = u
    OBVIOUS
  <2> HIDE DEF r
  <2>3. UNCHANGED <<Used, Unused>> => ClientsOK'
    BY <1>0, <2>1, <2>2, BeginClients
  <2> QED BY <2>1, <2>3, GoOn
<1>10. ASSUME NEW k \in conns, DisconnectLock(c, k) PROVE PlantInv'
  <2> DEFINE r == [op |-> "disconnect", a |-> k.a, b |-> k.b]
  <2>1. /\ pc' = [pc EXCEPT ![c] = "disconnect"] /\ req' = [req EXCEPT ![c] = r]
        /\ UNCHANGED <<segs, fs, box, conns>>
    BY <1>10 DEF DisconnectLock, plant
  <2> HIDE DEF r
  <2>3. UNCHANGED <<Used, Unused>> => ClientsOK'
    BY <1>0, <2>1, BeginClients
  <2> QED BY <2>1, <2>3, GoOn
<1>. QED BY <1>1, <1>2, <1>3, <1>4, <1>5, <1>6, <1>7, <1>8, <1>9, <1>10 DEF Step

\* Whatever segments are split, retired and laid, split_cable_segment keeps the
\* external connections: both ends of every active connection are ends of one
\* fiber row each, of a segment that exists and in the box where it ends.
THEOREM ConnectionsStay == Spec => []ConnectionsKeepTheirFiber
<1>1. (IInv /\ PlantInv) /\ [Next]_vars => (IInv /\ PlantInv)'
  <2> SUFFICES ASSUME IInv, PlantInv, [Next]_vars PROVE (IInv /\ PlantInv)'
    OBVIOUS
  <2>1. CASE Next
    BY <2>1, StepIInv, StepPlant DEF Next
  <2>2. CASE UNCHANGED vars
    <3>1. UNCHANGED <<segs, fs, box, conns, pc, req, topo, rev>>
      BY <2>2 DEF vars, plant
    <3>2. UNCHANGED <<Used, Unused>> => ClientsOK'
      BY <3>1 DEF PlantInv, ClientsOK, ClientOK
    <3> QED BY <3>1, <3>2, GoOn DEF IInv, SplitHoldsRow
  <2> QED BY <2>1, <2>2
<1>2. PlantInv => ConnectionsKeepTheirFiber
  <2> SUFFICES ASSUME PlantInv, NEW k \in conns, NEW t \in {k.a, k.b}
               PROVE  \E f \in fs : /\ \A g \in fs : t \in {g.a, g.b} => g = f
                                    /\ Present(f.seg)
                                    /\ \/ t = f.a /\ box[t] = segs[f.seg].origin
                                       \/ t = f.b /\ box[t] = segs[f.seg].dest
    BY DEF ConnectionsKeepTheirFiber
  <2>1. t \in Used
    BY DEF PlantInv, ConnsOK
  <2>2. PICK f \in fs : t \in {f.a, f.b}
    BY <2>1 DEF PlantInv, RowsOK
  <2>3. RowOK(f) /\ \A g \in fs : g # f => Apart(f, g)
    BY DEF PlantInv, RowsOK
  <2>4. \A g \in fs : t \in {g.a, g.b} => g = f
    BY <2>2, <2>3 DEF Apart
  <2> QED BY <2>2, <2>3, <2>4 DEF RowOK
<1>. QED BY <1>1, <1>2, InitIInv, PlantInit, PTL DEF Spec

(***************************************************************************)
(* Light.  Lit(links, t) is the least set that holds t and, with a         *)
(* terminal, every link it is on.                                          *)
(***************************************************************************)
Closed(links, S) == \A l \in links : \A u \in S : u \in l => l \subseteq S

Spread(links, S) == UNION {{u} \cup UNION {l \in links : u \in l} : u \in S}

LEMMA SpreadHolds ==
  \A links, S, u : u \in Spread(links, S) <=> u \in S \/ \E v \in S, l \in links : v \in l /\ u \in l
BY DEF Spread

Runs(it, n, links, t) == it = [k \in 0..n |-> IF k = 0 THEN {t} ELSE Spread(links, it[k - 1])]

LEMMA RunExists == ASSUME NEW n \in Nat, NEW links, NEW t PROVE \E it : Runs(it, n, links, t)
<1> DEFINE S == {m \in 0..n : \E it : Runs(it, m, links, t)}
<1>1. 0 \in S
  <2> DEFINE it == [k \in 0..0 |-> {t}]
  <2>1. Runs(it, 0, links, t)
    BY DEF Runs
  <2> QED BY <2>1
<1>2. ASSUME NEW m \in 1..n, m - 1 \in S PROVE m \in S
  <2>1. PICK it : Runs(it, m - 1, links, t)
    BY <1>2
  <2> DEFINE jt == [k \in 0..m |-> IF k = m THEN Spread(links, it[m - 1]) ELSE it[k]]
  <2>2. ASSUME NEW k \in 0..m PROVE jt[k] = IF k = 0 THEN {t} ELSE Spread(links, jt[k - 1])
    <3>1. CASE k = m
      BY <3>1
    <3>2. CASE k # m
      <4>1. k \in 0..(m - 1) /\ k # 0 => k - 1 \in 0..m /\ k - 1 # m
        BY <3>2
      <4>2. it[k] = IF k = 0 THEN {t} ELSE Spread(links, it[k - 1])
        <5>1. k \in 0..(m - 1)
          BY <3>2
        <5> QED BY <2>1, <5>1 DEF Runs
      <4> QED BY <3>2, <4>1, <4>2
    <3> QED BY <3>1, <3>2
  <2>3. jt = [k \in 0..m |-> jt[k]]
    OBVIOUS
  <2> HIDE DEF jt
  <2>4. Runs(jt, m, links, t)
    BY <2>2, <2>3 DEF Runs
  <2> QED BY <2>4
<1> HIDE DEF S
<1>3. 0..n \subseteq S
  BY <1>1, <1>2, UpTo
<1> QED BY <1>3 DEF S

LEMMA LitRuns == \A links, t : \E it : Cardinality(links) \in Nat =>
                   Runs(it, Cardinality(links), links, t) /\ Lit(links, t) = it[Cardinality(links)]
<1> SUFFICES ASSUME NEW links, NEW t
             PROVE  \E it : Cardinality(links) \in Nat =>
                      Runs(it, Cardinality(links), links, t) /\ Lit(links, t) = it[Cardinality(links)]
  OBVIOUS
<1> DEFINE n == Cardinality(links)
           run == CHOOSE it : Runs(it, n, links, t)
<1>1. n \in Nat => Runs(run, n, links, t)
  <2> HIDE DEF n
  <2> QED BY RunExists
<1>2. Lit(links, t) = run[n]
  BY DEF Lit, Runs, Spread
<1> QED BY <1>1, <1>2

LEMMA LitLeast ==
  ASSUME NEW links, NEW t, IsFiniteSet(links)
  PROVE  /\ t \in Lit(links, t) /\ Closed(links, Lit(links, t))
         /\ \A S : t \in S /\ Closed(links, S) => Lit(links, t) \subseteq S
<1> DEFINE n == Cardinality(links)
<1>1. n \in Nat
  BY FS_CardinalityType
<1>2. PICK it : Runs(it, n, links, t) /\ Lit(links, t) = it[n]
  BY <1>1, LitRuns
<1>3. it[0] = {t} /\ \A k \in 1..n : it[k] = Spread(links, it[k - 1])
  <2> HIDE DEF n
  <2>1. \A k \in 0..n : it[k] = IF k = 0 THEN {t} ELSE Spread(links, it[k - 1])
    BY <1>2 DEF Runs
  <2>2. 0 \in 0..n /\ \A k \in 1..n : k \in 0..n /\ k # 0
    BY <1>1
  <2> QED BY <2>1, <2>2
<1>4. n \in 0..n
  BY <1>1
<1>5. t \in it[n]
  <2> DEFINE S == {k \in 0..n : t \in it[k]}
  <2>1. 0 \in S
    BY <1>1, <1>3
  <2>2. \A k \in 1..n : k - 1 \in S => k \in S
    BY <1>1, <1>3, SpreadHolds
  <2> HIDE DEF S, n
  <2>3. 0..n \subseteq S
    BY <1>1, <2>1, <2>2, UpTo
  <2> QED BY <1>4, <2>3 DEF S
<1>6. ASSUME NEW D, t \in D, Closed(links, D) PROVE it[n] \subseteq D
  <2> DEFINE S == {k \in 0..n : it[k] \subseteq D}
  <2>1. 0 \in S
    BY <1>1, <1>3, <1>6
  <2>2. ASSUME NEW k \in 1..n, k - 1 \in S PROVE k \in S
    <3>1. it[k - 1] \subseteq D
      BY <2>2
    <3>2. it[k] \subseteq D
      BY <1>3, <1>6, <3>1, SpreadHolds DEF Closed
    <3> QED BY <3>2, <1>1
  <2> HIDE DEF S, n
  <2>3. 0..n \subseteq S
    BY <1>1, <2>1, <2>2, UpTo
  <2> QED BY <1>4, <2>3 DEF S
<1> DEFINE inside(k) == {l \in links : l \subseteq it[k]}
<1>7. \A k \in 0..n : IsFiniteSet(inside(k)) /\ Cardinality(inside(k)) \in Nat /\ Cardinality(inside(k)) <= n
  <2> SUFFICES ASSUME NEW k \in 0..n
               PROVE  IsFiniteSet(inside(k)) /\ Cardinality(inside(k)) \in Nat /\ Cardinality(inside(k)) <= n
    OBVIOUS
  <2> DEFINE I == inside(k)
  <2>1. I \in SUBSET links
    OBVIOUS
  <2> HIDE DEF I
  <2>2. IsFiniteSet(I) /\ Cardinality(I) <= Cardinality(links)
    BY <2>1, FS_Subset
  <2> QED BY <2>2, FS_CardinalityType DEF I
<1>8. \A k \in 0..n : Closed(links, it[k]) \/ Cardinality(inside(k)) >= k
  <2> DEFINE S == {k \in 0..n : Closed(links, it[k]) \/ Cardinality(inside(k)) >= k}
  <2>1. 0 \in S
    <3>1. 0 \in 0..n
      BY <1>1
    <3>2. Cardinality(inside(0)) >= 0
      BY <1>7, <3>1
    <3> QED BY <3>1, <3>2
  <2>2. ASSUME NEW k \in 1..n, k - 1 \in S PROVE k \in S
    <3>0. k \in 0..n /\ k - 1 \in 0..n
      BY <1>1
    <3>1. it[k] = Spread(links, it[k - 1])
      BY <1>3
    <3>2. CASE Closed(links, it[k - 1])
      <4>1. \A u : u \in it[k] <=> u \in it[k - 1]
        BY <3>1, <3>2, SpreadHolds DEF Closed
      <4>2. Closed(links, it[k])
        BY <3>2, <4>1 DEF Closed
      <4> QED BY <3>0, <4>2
    <3>3. CASE ~Closed(links, it[k - 1])
      <4>1. PICK l \in links : (\E u \in it[k - 1] : u \in l) /\ ~(l \subseteq it[k - 1])
        BY <3>3 DEF Closed
      <4>2. it[k - 1] \subseteq it[k] /\ l \subseteq it[k]
        BY <3>1, <4>1, SpreadHolds
      <4> DEFINE I == inside(k - 1)
                 J == inside(k)
      <4>3. I \cup {l} \in SUBSET J /\ l \notin I
        BY <4>1, <4>2
      <4>4. IsFiniteSet(I) /\ IsFiniteSet(J) /\ Cardinality(J) \in Nat /\ Cardinality(I) \in Nat
            /\ Cardinality(I) >= k - 1
        BY <1>7, <2>2, <3>0, <3>3
      <4> HIDE DEF I, J
      <4>5. Cardinality(I \cup {l}) = Cardinality(I) + 1
        BY <4>3, <4>4, FS_AddElement
      <4>6. Cardinality(I \cup {l}) <= Cardinality(J)
        BY <4>3, <4>4, FS_Subset
      <4>7. Cardinality(J) >= k
        BY <4>4, <4>5, <4>6
      <4> QED BY <3>0, <4>7 DEF J
    <3> QED BY <3>2, <3>3
  <2> HIDE DEF S, n
  <2>3. 0..n \subseteq S
    BY <1>1, <2>1, <2>2, UpTo
  <2> QED BY <2>3 DEF S
<1>9. Closed(links, it[n])
  <2>1. CASE Cardinality(inside(n)) >= n
    <3> DEFINE I == inside(n)
    <3>1. I \in SUBSET links
      OBVIOUS
    <3>2. Cardinality(I) = n
      BY <1>1, <1>4, <1>7, <2>1
    <3> HIDE DEF I
    <3>3. I = links
      BY <3>1, <3>2, FS_Subset
    <3> QED BY <3>3 DEF I, Closed
  <2> QED BY <1>4, <1>8, <2>1
<1> QED BY <1>2, <1>5, <1>6, <1>9

LEMMA LitIs ==
  \A links, t : IsFiniteSet(links) =>
    /\ t \in Lit(links, t) /\ Closed(links, Lit(links, t))
    /\ \A S : t \in S /\ Closed(links, S) => Lit(links, t) \subseteq S
BY LitLeast

\* What is lit stays lit when what is closed under the new links is closed
\* under the old ones.
LEMMA LitStays ==
  \A old, new, t, u :
    IsFiniteSet(old) /\ IsFiniteSet(new) /\ (\A S : Closed(new, S) => Closed(old, S)) /\ u \in Lit(old, t)
      => u \in Lit(new, t)
BY LitIs

(***************************************************************************)
(* Joints and spans.                                                       *)
(***************************************************************************)
JointLinks == {{j.l, j.r} : j \in joints}
JointFields == {"l", "r", "open"}
Course == FiberLinks \cup JointLinks

JointsOK ==
  /\ \A j \in joints : DOMAIN j = JointFields /\ j.l \in Used /\ j.r \in Used /\ j.l # j.r
  /\ \A j \in joints, f \in fs : ~({j.l, j.r} \subseteq {f.a, f.b})
  /\ \A j \in joints : ~j.open => \E k \in conns : k.a = j.l /\ k.b = j.r

SpansOK == \A p \in spans : p[2] \in Lit(Course, p[1])

OpenerHolds ==
  /\ held = [c \in Client |-> held[c]]
  /\ \A c \in Client : pc[c] = "disconnect" => req[c].a \in held[c]

LightInv == JointsOK /\ edges = fs /\ SpansOK /\ OpenerHolds

LEMMA LinksFinite == \A links : links \subseteq SUBSET Terminal => IsFiniteSet(links)
<1>1. IsFiniteSet(SUBSET Terminal)
  <2>1. IsFiniteSet(1..(K * MaxSegment))
    BY KNat, FS_Interval
  <2> QED BY <2>1, KNat, FS_SUBSET
<1> QED BY <1>1, FS_Subset

LEMMA PlantLinks ==
  ASSUME PlantInv, JointsOK
  PROVE  IsFiniteSet(Course) /\ IsFiniteSet(FiberLinks \cup ConnLinks) /\ IsFiniteSet(FiberLinks)
<1>1. FiberLinks \subseteq SUBSET Terminal
  BY DEF FiberLinks, PlantInv, PlantShaped
<1>2. JointLinks \subseteq SUBSET Terminal
  BY DEF JointLinks, JointsOK, Used
<1>3. ConnLinks \subseteq SUBSET Terminal
  BY DEF ConnLinks, PlantInv, ConnsOK, Used
<1> QED BY <1>1, <1>2, <1>3, LinksFinite DEF Course

LEMMA CourseMembers ==
  /\ \A f \in fs : {f.a, f.b} \in Course
  /\ \A j \in joints : {j.l, j.r} \in Course
  /\ \A l \in Course : (\E f \in fs : l = {f.a, f.b}) \/ (\E j \in joints : l = {j.l, j.r})
BY DEF Course, FiberLinks, JointLinks

\* The invariant gives the property.
LEMMA UncutIsWhole == PlantInv /\ LightInv => UncutFiberIsWhole
<1> SUFFICES ASSUME PlantInv, LightInv, NEW p \in spans,
                    \A j \in joints : j.l \in Lit(Course, p[1]) => ~j.open
             PROVE  p[2] \in Lit(FiberLinks \cup ConnLinks, p[1])
  BY DEF UncutFiberIsWhole, Course, JointLinks
<1> DEFINE course == Lit(Course, p[1])
           lit == Lit(FiberLinks \cup ConnLinks, p[1])
           D == course \cap lit
<1>1. JointsOK /\ SpansOK
  BY DEF LightInv
<1>2. IsFiniteSet(Course) /\ IsFiniteSet(FiberLinks \cup ConnLinks)
  BY <1>1, PlantLinks
<1>3. /\ p[1] \in course /\ Closed(Course, course)
      /\ \A S : p[1] \in S /\ Closed(Course, S) => course \subseteq S
  BY <1>2, LitIs
<1>4. p[1] \in lit /\ Closed(FiberLinks \cup ConnLinks, lit)
  BY <1>2, LitIs
<1>5. p[2] \in course
  BY <1>1 DEF SpansOK
<1>6. \A j \in joints : j.l \in course => ~j.open
  OBVIOUS
<1> HIDE DEF course, lit
<1>7. ASSUME NEW l \in Course, NEW u \in D, u \in l PROVE l \subseteq D
  <2>1. l \subseteq course
    BY <1>3, <1>7 DEF Closed
  <2>2. CASE \E f \in fs : l = {f.a, f.b}
    <3>1. l \in FiberLinks
      BY <2>2 DEF FiberLinks
    <3> QED BY <1>4, <1>7, <2>1, <3>1 DEF Closed
  <2>3. CASE \E j \in joints : l = {j.l, j.r}
    <3>1. PICK j \in joints : l = {j.l, j.r}
      BY <2>3
    <3>2. ~j.open
      BY <1>6, <2>1, <3>1
    <3>3. PICK k \in conns : k.a = j.l /\ k.b = j.r
      BY <1>1, <3>2 DEF JointsOK
    <3>4. l \in ConnLinks
      BY <3>1, <3>3 DEF ConnLinks
    <3> QED BY <1>4, <1>7, <2>1, <3>4 DEF Closed
  <2> QED BY <2>2, <2>3, CourseMembers
<1>8. Closed(Course, D)
  BY <1>7 DEF Closed
<1>9. p[1] \in D
  BY <1>3, <1>4
<1>10. p[2] \in D
  <2> HIDE DEF D
  <2> QED BY <1>3, <1>5, <1>8, <1>9
<1> QED BY <1>10 DEF lit

LEMMA CutIsDark == PlantInv /\ LightInv => CutStopsLight
<1> SUFFICES ASSUME PlantInv, LightInv, NEW j \in joints
             PROVE  j.r \notin Lit(FiberLinks \cup EdgeLinks, j.l)
  BY DEF CutStopsLight
<1>1. FiberLinks \cup EdgeLinks = FiberLinks
  BY DEF LightInv, FiberLinks, EdgeLinks
<1>2. JointsOK /\ RowsOK
  BY DEF LightInv, PlantInv
<1>3. IsFiniteSet(FiberLinks)
  BY <1>2, PlantLinks
<1>4. PICK f \in fs : j.l \in {f.a, f.b}
  BY <1>2 DEF JointsOK, RowsOK
<1>5. j.r \notin {f.a, f.b}
  BY <1>2, <1>4 DEF JointsOK
<1>6. \A g \in fs : g # f => {f.a, f.b} \cap {g.a, g.b} = {}
  BY <1>2 DEF RowsOK, Apart
<1>7. Closed(FiberLinks, {f.a, f.b})
  BY <1>6 DEF Closed, FiberLinks
<1>8. Lit(FiberLinks, j.l) \subseteq {f.a, f.b}
  BY <1>3, <1>4, <1>7, LitIs
<1> QED BY <1>1, <1>5, <1>8

(***************************************************************************)
(* The steps.                                                              *)
(***************************************************************************)
LEMMA LightInit == Init => LightInv
BY DEF Init, LightInv, JointsOK, SpansOK, OpenerHolds

LEMMA FinishHolds ==
  ASSUME IInv, OpenerHolds, NEW c \in Client, Finish(c)
  PROVE  OpenerHolds'
BY DEF Finish, OpenerHolds, IInv

LEMMA BeginHolds ==
  ASSUME IInv, OpenerHolds, NEW c \in Client, NEW p, NEW r, NEW h,
         pc' = [pc EXCEPT ![c] = p], req' = [req EXCEPT ![c] = r],
         held' = held \/ held' = [held EXCEPT ![c] = h], p = "disconnect" => r.a \in held'[c]
  PROVE  OpenerHolds'
BY DEF OpenerHolds, IInv

\* A step that leaves the cables alone and opens no connection.
LEMMA LightKept ==
  ASSUME LightInv, UNCHANGED <<fs, edges, box, spans, joints>>, conns \subseteq conns', OpenerHolds'
  PROVE  LightInv'
<1>1. Used' = Used
  BY DEF Used
<1>2. Course' = Course
  BY DEF Course, FiberLinks, JointLinks
<1>3. SpansOK'
  BY <1>2 DEF LightInv, SpansOK
<1>4. JointsOK'
  BY <1>1 DEF LightInv, JointsOK
<1> QED BY <1>3, <1>4 DEF LightInv

LEMMA CreateLight ==
  ASSUME PlantInv, IInv, LightInv, NEW c \in Client, NEW o \in Box, NEW d \in Box, CreateSegment(c, o, d)
  PROVE  LightInv'
<1> DEFINE s == Next1(Unused)
           row(i) == [seg |-> s, fiber |-> i, a |-> NewTerminal(i, 1), b |-> NewTerminal(i, 2)]
           new == {row(i) : i \in Fiber}
           numbers == (Count + 1)..(Count + K)
<1>1. /\ fs' = fs \cup new /\ edges' = edges \cup new /\ spans' = spans \cup {<<f.a, f.b>> : f \in new}
      /\ UNCHANGED <<conns, held, pc, req, joints>>
  BY DEF CreateSegment
<1>2. PlantInv' /\ Used' = Used \cup numbers
  BY CreatePlant
<1>3. /\ \A f \in new : f.a \in numbers /\ f.b \in numbers
      /\ \A t \in Used : t \notin numbers
  BY NewTerminals DEF PlantInv, Counted, Side
<1> HIDE DEF s, row, new, numbers
<1>4. JointsOK'
  BY <1>1, <1>2, <1>3 DEF LightInv, JointsOK
<1>5. Course \subseteq Course'
  BY <1>1 DEF Course, FiberLinks, JointLinks
<1>6. IsFiniteSet(Course) /\ IsFiniteSet(Course')
  <2>1. FiberLinks' \subseteq SUBSET Terminal
    BY <1>2 DEF FiberLinks, PlantInv, PlantShaped
  <2>2. JointLinks' \subseteq SUBSET Terminal
    BY <1>4 DEF JointLinks, JointsOK, Used
  <2>3. IsFiniteSet(Course')
    BY <2>1, <2>2, LinksFinite DEF Course
  <2> QED BY <2>3, PlantLinks DEF LightInv
<1>7. \A p \in spans : p[2] \in Lit(Course', p[1])
  BY <1>5, <1>6, LitStays DEF LightInv, SpansOK, Closed
<1>8. ASSUME NEW f \in new PROVE f.b \in Lit(Course', f.a)
  <2>1. {f.a, f.b} \in Course'
    BY <1>1 DEF Course, FiberLinks
  <2>2. f.a \in Lit(Course', f.a) /\ Closed(Course', Lit(Course', f.a))
    BY <1>6, LitIs
  <2> QED BY <2>1, <2>2 DEF Closed
<1>9. SpansOK'
  BY <1>1, <1>7, <1>8 DEF SpansOK
<1>10. OpenerHolds'
  BY <1>1 DEF LightInv, OpenerHolds
<1> QED BY <1>1, <1>4, <1>9, <1>10 DEF LightInv

LEMMA SplitLight ==
  ASSUME PlantInv, IInv, LightInv, NEW c \in Client, SplitCommit(c)
  PROVE  LightInv'
<1> DEFINE s == req[c].seg
           s1 == Next1(Unused)
           s2 == Next1(Unused \ {s1})
           cut == req[c].cut
           halves == Halves(s, s1, s2)
           joint(i) == [l |-> NewTerminal(i, 1), r |-> NewTerminal(i, 2), open |-> i \in cut]
           new == {joint(i) : i \in Fiber}
           numbers == (Count + 1)..(Count + K)
<1>1. /\ fs' = (fs \ FibersOf(s)) \cup halves /\ edges' = Replaced(edges, FibersOf(s), halves)
      /\ conns' = conns \cup Continuity(cut) /\ joints' = joints \cup new
      /\ UNCHANGED spans /\ Finish(c)
  BY DEF SplitCommit
<1>2. PlantInv' /\ Used' = Used \cup numbers
  BY SplitPlant
<1>3. /\ \A i \in Fiber : /\ NewTerminal(i, 1) \in numbers /\ NewTerminal(i, 2) \in numbers
                          /\ NewTerminal(i, 1) # NewTerminal(i, 2)
      /\ \A t \in Used : t \notin numbers
  BY NewTerminals DEF PlantInv, Counted, Side
<1>4. \A j \in new : \E i \in Fiber : /\ j.l = NewTerminal(i, 1) /\ j.r = NewTerminal(i, 2)
                                     /\ DOMAIN j = JointFields /\ (~j.open => i \notin cut)
  <2> SUFFICES ASSUME NEW i \in Fiber
               PROVE  /\ joint(i).l = NewTerminal(i, 1) /\ joint(i).r = NewTerminal(i, 2)
                      /\ DOMAIN joint(i) = JointFields /\ (~joint(i).open => i \notin cut)
    OBVIOUS
  <2> QED BY DEF JointFields
<1>5. \A i \in Fiber : \E j \in new : j.l = NewTerminal(i, 1) /\ j.r = NewTerminal(i, 2)
  <2> SUFFICES ASSUME NEW i \in Fiber
               PROVE  \E j \in new : j.l = NewTerminal(i, 1) /\ j.r = NewTerminal(i, 2)
    OBVIOUS
  <2>1. joint(i) \in new
    OBVIOUS
  <2> QED BY <2>1
<1> HIDE DEF s, s1, s2, cut, joint, new
<1>6. /\ \A f \in FibersOf(s) : Near(f, s1) \in halves /\ Far(f, s2) \in halves
      /\ \A h \in halves : \E f \in FibersOf(s) : h = Near(f, s1) \/ h = Far(f, s2)
  BY HalvesMembers
<1> HIDE DEF halves, numbers
<1>7. \A f \in FibersOf(s) : f \in fs /\ f.a \in Used /\ f.b \in Used /\ f.fiber \in Fiber
  BY DEF FibersOf, PlantInv, RowsOK, RowOK, PlantShaped
<1>8. \A i \in Fiber : i \notin cut => \E k \in conns' : k.a = NewTerminal(i, 1) /\ k.b = NewTerminal(i, 2)
  <2> SUFFICES ASSUME NEW i \in Fiber, i \notin cut
               PROVE  \E k \in conns' : k.a = NewTerminal(i, 1) /\ k.b = NewTerminal(i, 2)
    OBVIOUS
  <2> DEFINE k == [a |-> NewTerminal(i, 1), b |-> NewTerminal(i, 2), kind |-> "internal_continuity"]
  <2>1. k \in Continuity(cut)
    BY DEF Continuity
  <2> QED BY <1>1, <2>1
<1>9. JointsOK'
  <2>1. ASSUME NEW j \in joints' PROVE DOMAIN j = JointFields /\ j.l \in Used' /\ j.r \in Used' /\ j.l # j.r
    BY <1>1, <1>2, <1>3, <1>4 DEF LightInv, JointsOK
  <2>2. ASSUME NEW j \in joints', NEW f \in fs' PROVE ~({j.l, j.r} \subseteq {f.a, f.b})
    <3>1. CASE f \in fs /\ j \in joints
      BY <3>1 DEF LightInv, JointsOK
    <3>2. CASE f \in fs /\ j \in new
      <4>1. f.a \in Used /\ f.b \in Used
        BY <3>2 DEF PlantInv, RowsOK, RowOK
      <4> QED BY <1>3, <1>4, <3>2, <4>1
    <3>3. CASE f \in halves /\ j \in joints
      <4>1. j.l \in Used /\ j.r \in Used /\ j.l # j.r
        BY <3>3 DEF LightInv, JointsOK
      <4>2. PICK g \in FibersOf(s) : f = Near(g, s1) \/ f = Far(g, s2)
        BY <1>6, <3>3
      <4>3. f.a \in numbers \/ f.b \in numbers
        BY <1>3, <1>7, <4>2 DEF Near, Far
      <4> QED BY <1>3, <4>1, <4>3
    <3>4. CASE f \in halves /\ j \in new
      <4>1. j.l \in numbers /\ j.r \in numbers /\ j.l # j.r
        BY <1>3, <1>4, <3>4
      <4>2. PICK g \in FibersOf(s) : f = Near(g, s1) \/ f = Far(g, s2)
        BY <1>6, <3>4
      <4>3. f.a \in Used \/ f.b \in Used
        BY <1>7, <4>2 DEF Near, Far
      <4> QED BY <1>3, <4>1, <4>3
    <3> QED BY <1>1, <3>1, <3>2, <3>3, <3>4
  <2>3. ASSUME NEW j \in joints', ~j.open PROVE \E k \in conns' : k.a = j.l /\ k.b = j.r
    BY <1>1, <1>4, <1>8, <2>3 DEF LightInv, JointsOK
  <2> QED BY <2>1, <2>2, <2>3 DEF JointsOK
<1>10. IsFiniteSet(Course) /\ IsFiniteSet(Course')
  <2>1. FiberLinks' \subseteq SUBSET Terminal
    BY <1>2 DEF FiberLinks, PlantInv, PlantShaped
  <2>2. JointLinks' \subseteq SUBSET Terminal
    BY <1>9 DEF JointLinks, JointsOK, Used
  <2>3. IsFiniteSet(Course')
    BY <2>1, <2>2, LinksFinite DEF Course
  <2> QED BY <2>3, PlantLinks DEF LightInv
<1>11. /\ \A f \in fs' : {f.a, f.b} \in Course'
       /\ \A j \in joints' : {j.l, j.r} \in Course'
  BY CourseMembers DEF Course, FiberLinks, JointLinks
<1>12. ASSUME NEW S, Closed(Course', S) PROVE Closed(Course, S)
  <2>1. ASSUME NEW f \in FibersOf(s), NEW u \in S, u \in {f.a, f.b} PROVE {f.a, f.b} \subseteq S
    <3>1. /\ Near(f, s1) \in fs' /\ Near(f, s1).a = f.a /\ Near(f, s1).b = NewTerminal(f.fiber, 1)
          /\ Far(f, s2) \in fs' /\ Far(f, s2).a = NewTerminal(f.fiber, 2) /\ Far(f, s2).b = f.b
      BY <1>1, <1>6, <2>1 DEF Near, Far
    <3>2. PICK j \in joints' : j.l = NewTerminal(f.fiber, 1) /\ j.r = NewTerminal(f.fiber, 2)
      BY <1>1, <1>5, <1>7, <2>1
    <3>3. /\ {f.a, NewTerminal(f.fiber, 1)} \in Course'
          /\ {NewTerminal(f.fiber, 1), NewTerminal(f.fiber, 2)} \in Course'
          /\ {NewTerminal(f.fiber, 2), f.b} \in Course'
      BY <1>11, <3>1, <3>2
    <3>4. CASE f.a \in S
      <4>1. NewTerminal(f.fiber, 1) \in S
        BY <1>12, <3>3, <3>4 DEF Closed
      <4>2. NewTerminal(f.fiber, 2) \in S
        BY <1>12, <3>3, <4>1 DEF Closed
      <4>3. f.b \in S
        BY <1>12, <3>3, <4>2 DEF Closed
      <4> QED BY <3>4, <4>3
    <3>5. CASE f.b \in S
      <4>1. NewTerminal(f.fiber, 2) \in S
        BY <1>12, <3>3, <3>5 DEF Closed
      <4>2. NewTerminal(f.fiber, 1) \in S
        BY <1>12, <3>3, <4>1 DEF Closed
      <4>3. f.a \in S
        BY <1>12, <3>3, <4>2 DEF Closed
      <4> QED BY <3>5, <4>3
    <3> QED BY <2>1, <3>4, <3>5
  <2>2. ASSUME NEW f \in fs, f \notin FibersOf(s) PROVE {f.a, f.b} \in Course'
    BY <1>1, <1>11, <2>2
  <2>3. ASSUME NEW j \in joints PROVE {j.l, j.r} \in Course'
    BY <1>1, <1>11, <2>3
  <2>4. ASSUME NEW l \in Course, NEW u \in S, u \in l PROVE l \subseteq S
    <3>1. CASE \E f \in FibersOf(s) : l = {f.a, f.b}
      BY <2>1, <2>4, <3>1
    <3>2. CASE l \in Course'
      BY <1>12, <2>4, <3>2 DEF Closed
    <3> QED BY <2>2, <2>3, <3>1, <3>2, CourseMembers
  <2> QED BY <2>4 DEF Closed
<1>13. SpansOK'
  BY <1>1, <1>10, <1>12, LitStays DEF LightInv, SpansOK
<1>14. OpenerHolds'
  BY <1>1, FinishHolds DEF LightInv
<1>15. edges' = fs'
  BY <1>1 DEF Replaced, LightInv
<1> QED BY <1>9, <1>13, <1>14, <1>15 DEF LightInv

LEMMA DisconnectLight ==
  ASSUME PlantInv, IInv, LightInv, NEW c \in Client, DisconnectCommit(c)
  PROVE  LightInv'
<1> DEFINE end(j) == [j EXCEPT !.open = @ \/ j.l \in held[c]]
<1>1. /\ conns' = {k \in conns : k.a # req[c].a} /\ joints' = {end(j) : j \in joints}
      /\ UNCHANGED <<fs, edges, box, spans>> /\ Finish(c) /\ pc[c] = "disconnect"
  BY DEF DisconnectCommit
<1>2. Used' = Used
  BY <1>1 DEF Used
<1>3. \A j \in joints : /\ DOMAIN end(j) = JointFields /\ end(j).l = j.l /\ end(j).r = j.r
                        /\ ~end(j).open => ~j.open /\ j.l \notin held[c]
  BY DEF LightInv, JointsOK, JointFields
<1> HIDE DEF end
<1>4. req[c].a \in held[c]
  BY <1>1 DEF LightInv, OpenerHolds
<1>5. JointsOK'
  <2>1. ASSUME NEW j \in joints', ~j.open PROVE \E k \in conns' : k.a = j.l /\ k.b = j.r
    <3>1. PICK i \in joints : j = end(i)
      BY <1>1, <2>1
    <3>2. PICK k \in conns : k.a = i.l /\ k.b = i.r
      BY <1>3, <2>1, <3>1 DEF LightInv, JointsOK
    <3>3. k.a # req[c].a
      BY <1>3, <1>4, <2>1, <3>1, <3>2
    <3> QED BY <1>1, <1>3, <3>1, <3>2, <3>3
  <2>2. ASSUME NEW j \in joints'
        PROVE  /\ DOMAIN j = JointFields /\ j.l \in Used' /\ j.r \in Used' /\ j.l # j.r
               /\ \A f \in fs' : ~({j.l, j.r} \subseteq {f.a, f.b})
    BY <1>1, <1>2, <1>3 DEF LightInv, JointsOK
  <2> QED BY <2>1, <2>2 DEF JointsOK
<1>6. JointLinks' = JointLinks
  BY <1>1, <1>3 DEF JointLinks
<1>7. SpansOK'
  BY <1>1, <1>6 DEF LightInv, SpansOK, Course, FiberLinks
<1>8. OpenerHolds'
  BY <1>1, FinishHolds DEF LightInv
<1> QED BY <1>1, <1>5, <1>7, <1>8 DEF LightInv

LEMMA StepLight ==
  ASSUME PlantInv, IInv, LightInv, NEW c \in Client, Step(c)
  PROVE  LightInv'
<1>0. OpenerHolds
  BY DEF LightInv
<1>1. ASSUME NEW r \in Route, CreateSegment(c, r[1], r[2]) PROVE LightInv'
  BY <1>1, CreateLight, RouteAssumption
<1>2. ASSUME NEW s \in Segment, View(c, s) PROVE LightInv'
  <2>1. UNCHANGED <<fs, edges, box, spans, joints, conns>> /\ OpenerHolds'
    BY <1>0, <1>2, BeginHolds DEF View, plant
  <2> QED BY <2>1, LightKept
<1>3. CASE \/ \E affects \in BOOLEAN : UpdateSegment(c, affects)
           \/ UpdateRefused(c) \/ RetireRefused(c) \/ RetireCommit(c) \/ RetireStale(c)
           \/ SplitOutdated(c) \/ SplitRefused(c) \/ ConnectCommit(c)
           \/ \E d \in Client : DeadlockVictim(c, d)
  <2>1. UNCHANGED <<fs, edges, box, spans, joints>> /\ conns \subseteq conns' /\ Finish(c)
    BY <1>3 DEF UpdateSegment, UpdateRefused, RetireRefused, RetireCommit, RetireStale, SplitOutdated,
       SplitRefused, ConnectCommit, DeadlockVictim, Refuse, plant
  <2> QED BY <1>0, <2>1, FinishHolds, LightKept
<1>4. CASE RetireCheck(c)
  <2>1. /\ UNCHANGED <<fs, edges, box, spans, joints, conns, req, held>>
        /\ pc' = [pc EXCEPT ![c] = "retire"]
    BY <1>4 DEF RetireCheck, plant
  <2>2. OpenerHolds'
    BY <1>0, <2>1 DEF OpenerHolds, IInv
  <2> QED BY <2>1, <2>2, LightKept
<1>5. ASSUME NEW by, NEW access, NEW cut, SplitLock(c, by, access, cut) PROVE LightInv'
  <2>1. UNCHANGED <<fs, edges, box, spans, joints, conns>> /\ OpenerHolds'
    BY <1>0, <1>5, BeginHolds DEF SplitLock, plant
  <2> QED BY <2>1, LightKept
<1>6. CASE SplitCommit(c)
  BY <1>6, SplitLight
<1>7. ASSUME NEW t, NEW u, ConnectLock(c, t, u) PROVE LightInv'
  <2>1. UNCHANGED <<fs, edges, box, spans, joints, conns>> /\ OpenerHolds'
    BY <1>0, <1>7, BeginHolds DEF ConnectLock, plant
  <2> QED BY <2>1, LightKept
<1>8. ASSUME NEW k, DisconnectLock(c, k) PROVE LightInv'
  <2> DEFINE r == [op |-> "disconnect", a |-> k.a, b |-> k.b]
  <2>1. /\ UNCHANGED <<fs, edges, box, spans, joints, conns>>
        /\ pc' = [pc EXCEPT ![c] = "disconnect"] /\ req' = [req EXCEPT ![c] = r]
        /\ held' = [held EXCEPT ![c] = {k.a, k.b}]
    BY <1>8 DEF DisconnectLock, plant
  <2>2. r.a \in held'[c]
    BY <1>0, <2>1 DEF OpenerHolds
  <2> HIDE DEF r
  <2>3. OpenerHolds'
    BY <1>0, <2>1, <2>2, BeginHolds
  <2> QED BY <2>1, <2>3, LightKept
<1>9. CASE DisconnectCommit(c)
  BY <1>9, DisconnectLight
<1> QED BY <1>1, <1>2, <1>3, <1>4, <1>5, <1>6, <1>7, <1>8, <1>9 DEF Step

\* Splits, in any number and order, change where light passes only at the cut
\* fibers: an uncut fiber that nobody opened is lit from one end of its first
\* installation to the other, a cut lets nothing by (split_cable_segment).
THEOREM SplitsKeepTheLight == Spec => []SplitKeepsTheLight
<1>1. (IInv /\ PlantInv /\ LightInv) /\ [Next]_vars => (IInv /\ PlantInv /\ LightInv)'
  <2> SUFFICES ASSUME IInv, PlantInv, LightInv, [Next]_vars PROVE (IInv /\ PlantInv /\ LightInv)'
    OBVIOUS
  <2>1. CASE Next
    BY <2>1, StepIInv, StepPlant, StepLight DEF Next
  <2>2. CASE UNCHANGED vars
    <3>1. UNCHANGED <<segs, fs, edges, box, conns, pc, req, topo, rev, held, spans, joints>>
      BY <2>2 DEF vars, plant
    <3>2. UNCHANGED <<Used, Unused>> => ClientsOK'
      BY <3>1 DEF PlantInv, ClientsOK, ClientOK
    <3>3. OpenerHolds'
      BY <3>1 DEF LightInv, OpenerHolds
    <3> QED BY <3>1, <3>2, <3>3, GoOn, LightKept DEF IInv, SplitHoldsRow
  <2> QED BY <2>1, <2>2
<1>2. PlantInv /\ LightInv => SplitKeepsTheLight
  BY UncutIsWhole, CutIsDark DEF SplitKeepsTheLight
<1>. QED BY <1>1, <1>2, InitIInv, PlantInit, LightInit, PTL DEF Spec
=============================================================================
