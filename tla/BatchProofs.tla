----------------------------- MODULE BatchProofs ----------------------------
(***************************************************************************)
(* Planning a batch with several threads, and the buffers of the batches.  *)
(*                                                                         *)
(* A plan that is made of ranges is the plan of one thread: a task of a    *)
(* range, moved behind the plan of the frames before it, is the task one   *)
(* thread makes there (MergeLane), so a frame added to a range is added to *)
(* the merged plan (MergeFrame), and the plan of a range leads from the    *)
(* plan of the frames before it to the plan up to its end (ChainMerges).   *)
(* Padding is cut off where it starts, since every task of a plan writes   *)
(* within its lanes (PivcoTrims). What is proved frame by frame follows    *)
(* from Recursion and a least counterexample (LeastNumber).                *)
(*                                                                         *)
(* The safety properties of BatchRuntime hold for any batches, memories,   *)
(* layouts, sizes and number of spares, on either backend.                 *)
(*                                                                         *)
(* What holds of the loops, the flags and the buffers of the batches comes *)
(* first (ControlInv, BoundInv): the part of the inductive invariant IInv  *)
(* that does not say who holds which block. The heart of the rest is       *)
(* Sound, over the function owner that says who holds which block: the     *)
(* ways a block changes hands (a spare acquired, a block allocated,        *)
(* released, displaced, lost, taken, freed) are lemmas about any such      *)
(* function, and each action is one of them.                               *)
(***************************************************************************)
EXTENDS PlanParallel, BatchRuntime, FiniteSetTheorems, WellFoundedInduction,
        SequenceTheorems, TLAPS

-----------------------------------------------------------------------------
(* Numbers                                                                 *)

\* A set of numbers has a least one.  Taken of the numbers for which a claim
\* fails, it stands for induction.
LEMMA LeastNumber ==
  ASSUME NEW T, T \subseteq Nat, T # {}
  PROVE  \E x \in T : \A y \in T : x <= y
<1> DEFINE Below(n) == 0 .. n
           F == {Below(n) : n \in T}
<1>1. F \subseteq FiniteSubsetsOf(Nat) /\ F # {}
  <2>1. ASSUME NEW n \in T
        PROVE  Below(n) \in SUBSET Nat /\ IsFiniteSet(Below(n))
    BY FS_Interval
  <2> QED
    BY <2>1 DEF FiniteSubsetsOf
<1>2. PICK U \in F : \A V \in F : <<V, U>> \notin StrictSubsetOrdering(Nat)
  BY <1>1, FS_StrictSubsetOrderingWellFounded, WFMin
<1>3. PICK x \in T : U = Below(x)
  OBVIOUS
<1>4. ASSUME NEW y \in T PROVE x <= y
  <2> SUFFICES ASSUME y < x PROVE FALSE
    OBVIOUS
  <2>1. Below(y) \in SUBSET Nat /\ U \in SUBSET Nat /\ Below(y) \subseteq U
    BY <1>3
  <2>2. x \in U /\ x \notin Below(y)
    BY <1>3
  <2> HIDE DEF Below
  <2>3. <<Below(y), U>> \in StrictSubsetOrdering(Nat)
    BY <2>1, <2>2 DEF StrictSubsetOrdering
  <2> QED
    BY <1>2, <2>3
<1> QED
  BY <1>4

\* Every number has a quotient and a remainder.
LEMMA Divided ==
  ASSUME NEW v \in Nat, NEW w \in Nat \ {0}
  PROVE  /\ v \div w \in Nat /\ v % w \in 0 .. w - 1
         /\ v = (v \div w) * w + (v % w)
<1>1. /\ v \div w \in Int /\ v \div w >= 0
      /\ v % w \in 0 .. w - 1
  OBVIOUS
<1>2. PICK a \in Int, x \in Int : a = v \div w /\ x = v % w
  BY <1>1
<1>3. v = w * a + x
  BY <1>2
<1>4. w * a = a * w
  OBVIOUS
<1>5. v = a * w + x
  BY <1>2, <1>3, <1>4
<1>6. a * w + x = (v \div w) * w + (v % w)
  BY <1>2
<1>8. v = (v \div w) * w + (v % w)
  BY <1>5, <1>6, Zenon
<1>7. v \div w \in Nat
  BY <1>1
<1> QED
  BY <1>1, <1>7, <1>8, Zenon

-----------------------------------------------------------------------------
(* Recursion                                                               *)

\* Steps from one value to the next.
Steps(step, S, n) == step \in [1 .. n -> [S -> S]]

\* f computes each value from the one before.
Computes(f, S, n, base, step) ==
  /\ f \in [0 .. n -> S]
  /\ f[0] = base /\ \A k \in 1 .. n : f[k] = step[k][f[k - 1]]

\* A function that computes each value from the one before it exists.
LEMMA Recursion ==
  ASSUME NEW S, NEW n \in Nat, NEW base \in S, NEW step, Steps(step, S, n)
  PROVE  \E f : Computes(f, S, n, base, step)
<1> USE DEF Steps
<1> DEFINE Has(m) == \E f \in [0 .. m -> S] :
             \A k \in 0 .. m : f[k] = IF k = 0 THEN base ELSE step[k][f[k - 1]]
           T == {m \in 0 .. n : ~Has(m)}
<1>1. Has(0)
  <2>1. PICK f : f = [k \in 0 .. 0 |-> base]
    OBVIOUS
  <2>2. f \in [0 .. 0 -> S] /\ \A k \in 0 .. 0 : k = 0 /\ f[k] = base
    BY <2>1
  <2> QED
    BY <2>2
<1>2. ASSUME NEW m \in Nat, m + 1 \in 0 .. n, Has(m) PROVE Has(m + 1)
  <2>1. PICK f \in [0 .. m -> S] :
          \A k \in 0 .. m : f[k] = IF k = 0 THEN base ELSE step[k][f[k - 1]]
    BY <1>2
  <2> DEFINE last == step[m + 1][f[m]]
             g == [k \in 0 .. m + 1 |-> IF k <= m THEN f[k] ELSE last]
  <2>2. last \in S
    <3>1. m + 1 \in 1 .. n /\ f[m] \in S
      BY <1>2
    <3> QED
      BY <3>1
  <2>3. g \in [0 .. m + 1 -> S]
    <3> HIDE DEF last
    <3> QED
      BY <2>2
  <2>4. ASSUME NEW k \in 0 .. m + 1
        PROVE  g[k] = IF k = 0 THEN base ELSE step[k][g[k - 1]]
    <3>1. CASE k \in 0 .. m
      <4>1. g[k] = f[k] /\ (k # 0 => g[k - 1] = f[k - 1])
        BY <3>1
      <4> QED
        BY <2>1, <3>1, <4>1
    <3>2. CASE k = m + 1
      <4>1. g[k] = last /\ g[k - 1] = f[m] /\ k # 0
        BY <3>2
      <4> QED
        BY <3>2, <4>1
    <3> QED
      BY <3>1, <3>2
  <2> HIDE DEF g
  <2> QED
    BY <2>3, <2>4
<1> HIDE DEF Has
<1>3. T = {}
  <2> SUFFICES ASSUME T # {} PROVE FALSE
    OBVIOUS
  <2>1. PICK m \in T : \A j \in T : m <= j
    BY T \subseteq Nat, LeastNumber
  <2>2. m # 0 /\ m \in 0 .. n
    BY <1>1
  <2>3. m - 1 \in Nat /\ m - 1 \in 0 .. n /\ m - 1 \notin T /\ m - 1 + 1 = m
    BY <2>1, <2>2
  <2>4. Has(m)
    BY <1>2, <2>2, <2>3
  <2> QED
    BY <2>4
<1>4. PICK f \in [0 .. n -> S] :
        \A k \in 0 .. n : f[k] = IF k = 0 THEN base ELSE step[k][f[k - 1]]
  BY <1>3 DEF Has
<1> QED
  BY <1>4 DEF Computes

\* A function whose values follow from the ones before stays in their set.
LEMMA StaysIn ==
  ASSUME NEW S, NEW n \in Nat, NEW v, v[0] \in S,
         \A k \in 1 .. n : v[k - 1] \in S => v[k] \in S
  PROVE  \A k \in 0 .. n : v[k] \in S
<1> DEFINE T == {k \in 0 .. n : v[k] \notin S}
<1> SUFFICES ASSUME T # {} PROVE FALSE
  OBVIOUS
<1>1. PICK k \in T : \A j \in T : k <= j
  BY T \subseteq Nat, LeastNumber
<1>2. k # 0 /\ k \in 0 .. n /\ v[k] \notin S
  OBVIOUS
<1>3. k \in 1 .. n /\ k - 1 \in 0 .. n /\ k - 1 \notin T
  BY <1>1, <1>2
<1> QED
  BY <1>2, <1>3

-----------------------------------------------------------------------------
(* Frames                                                                  *)

\* A frame of a batch.
FrameOk(f) == IsFrame(f) /\ f.id \in Nat

\* A batch, or a range of one.
Frames(fs) ==
  /\ Len(fs) \in Nat /\ DOMAIN fs = 1 .. Len(fs)
  /\ \A i \in 1 .. Len(fs) : FrameOk(fs[i])

\* As many groups as it takes, and no more.
LEMMA CeilDivFacts ==
  ASSUME NEW a \in Nat, NEW b \in Nat \ {0}
  PROVE  /\ CeilDiv(a, b) \in Nat
         /\ \A k \in 1 .. CeilDiv(a, b) : (k - 1) * b \in Nat /\ (k - 1) * b < a
         /\ a <= CeilDiv(a, b) * b
<1> DEFINE q == (a + b - 1) \div b
           r == (a + b - 1) % b
<1>1. a + b - 1 \in Nat
  OBVIOUS
<1>2. q \in Nat /\ r \in 0 .. b - 1 /\ a + b - 1 = q * b + r
  BY <1>1, Divided
<1> HIDE DEF q, r
<1>3. q * b \in Nat /\ a <= q * b /\ q * b <= a + b - 1
  BY <1>2
<1>4. ASSUME NEW k \in 1 .. q PROVE (k - 1) * b \in Nat /\ (k - 1) * b < a
  <2>1. PICK d \in Nat : q = k + d
    <3>1. q - k \in Nat /\ q = k + (q - k)
      BY <1>2
    <3> QED
      BY <3>1
  <2>2. q * b = (k - 1) * b + b + d * b /\ d * b \in Nat /\ (k - 1) * b \in Nat
    BY <2>1
  <2> QED
    BY <1>3, <2>2
<1> QED
  BY <1>2, <1>3, <1>4 DEF CeilDiv, q

\* What the planner relies on in a frame.
LEMMA FrameFacts ==
  ASSUME NEW f, FrameOk(f)
  PROVE  /\ f.id \in Nat /\ f.count \in Nat \ {0} /\ f.out \in Nat
         /\ f.block \in Nat \ {0} /\ f.planar \in BOOLEAN
         /\ Len(f.lanes) \in Nat \ {0} /\ Len(f.tree) \in Nat \ {0}
         /\ DOMAIN f.tree = 1 .. Len(f.tree)
         /\ f.bad \in {"no", "header", "block"}
<1>1. IsFrame(f) /\ f.id \in Nat
  BY DEF FrameOk
<1>2. f.tree \in Seq([level : Nat, right : Nat]) /\ f.tree # <<>>
  BY <1>1 DEF IsFrame, IsTree
<1>3. f.lanes \in Seq({"pfor", "pivco"}) /\ f.lanes # <<>>
  BY <1>1 DEF IsFrame
<1>4. Len(f.tree) \in Nat \ {0} /\ DOMAIN f.tree = 1 .. Len(f.tree)
  BY <1>2, EmptySeq, LenProperties
<1>5. Len(f.lanes) \in Nat \ {0}
  BY <1>3, EmptySeq
<1> QED
  BY <1>1, <1>4, <1>5 DEF IsFrame

\* Lanes are as long as the samples and start at multiples of the stride.
LEMMA StrideFacts ==
  ASSUME NEW f, FrameOk(f)
  PROVE  LaneStride(f) \in Nat /\ f.count <= LaneStride(f)
<1>1. f.count \in Nat /\ Stride \in Nat \ {0}
  BY FrameFacts, GpuPlanAssumption
<1>2. CeilDiv(f.count, Stride) \in Nat /\ f.count <= CeilDiv(f.count, Stride) * Stride
  BY <1>1, CeilDivFacts
<1>3. CeilDiv(f.count, Stride) * Stride \in Nat
  BY <1>1, <1>2
<1> QED
  BY <1>2, <1>3 DEF LaneStride

-----------------------------------------------------------------------------
(* Plans                                                                   *)

\* What a task decodes: a frame, a lane and a block, symbol or node of it.
Payloads == Nat \X Nat \X Nat

PforBlocks ==
  [payload : Payloads, output : Nat, count : Nat \ {0}, transform : BOOLEAN]

PforPlans == [blocks : Seq(PforBlocks)]

TreeNodes ==
  [payload : Nat \X Nat \X Nat \X Nat, count : Nat, output : Nat]

PivcoBlocks ==
  [nodeBase : Nat, treeBase : Nat, symbolBase : Nat, outBase : Nat,
   length : Nat, nodeCount : Nat]

LaneTasks == [payload : Payloads, output : Nat]

JoinTasks ==
  [laneBase : Nat, stride : Nat, count : Nat, output : Nat, start : Nat,
   transform : BOOLEAN]

PivcoPlans ==
  [symbols : Seq(Payloads), trees : Seq(Payloads), nodes : Seq(TreeNodes),
   pivcoBlocks : Seq(PivcoBlocks), laneBlocks : Seq(LaneTasks),
   joins : Seq(JoinTasks), laneBytes : Nat]

\* A PivCo plan made of its fields.
PivcoPlan(s, t, n, b, l, j, y) ==
  [symbols |-> s, trees |-> t, nodes |-> n, pivcoBlocks |-> b,
   laneBlocks |-> l, joins |-> j, laneBytes |-> y]

\* Plans without padding.
Plans(c) == IF c = "pfor" THEN PforPlans ELSE PivcoPlans

\* A function over 1 .. n is a sequence.
LEMMA FunctionIsSeq ==
  ASSUME NEW S, NEW n \in Nat, NEW s, s \in [1 .. n -> S]
  PROVE  s \in Seq(S) /\ Len(s) = n
BY SeqDef

-----------------------------------------------------------------------------
(* What a lane adds to a plan                                              *)

IsPfor(f, lane) == f.lanes[lane] = "pfor"

NewSymbols(f, lane) ==
  IF IsPfor(f, lane) THEN <<>> ELSE [s \in 1 .. Symbols |-> <<f.id, lane, s>>]

NewTrees(f, lane) ==
  IF IsPfor(f, lane) THEN <<>> ELSE [t \in DOMAIN f.tree |-> <<f.id, lane, t>>]

NewNodes(f, lane, base) ==
  IF IsPfor(f, lane) THEN <<>> ELSE LaneNodes(f, lane, base)

NewBlocks(f, lane, base, nodes, trees, symbols) ==
  IF IsPfor(f, lane) THEN <<>>
                       ELSE LaneBlocks(f, base, nodes, trees, symbols)

NewTasks(f, lane, base) ==
  IF IsPfor(f, lane)
    THEN [k \in 1 .. CeilDiv(f.count, Block) |->
            [payload |-> <<f.id, lane, k>>,
             output |-> base + (k - 1) * Block]]
    ELSE <<>>

\* Where a lane of a frame starts behind so many bytes.
LaneStart(f, lane, bytes) == bytes + (lane - 1) * LaneStride(f)

WithLane(p, f, lane) ==
  LET base == LaneStart(f, lane, p.laneBytes) IN
  [symbols |-> p.symbols \o NewSymbols(f, lane),
   trees |-> p.trees \o NewTrees(f, lane),
   nodes |-> p.nodes \o NewNodes(f, lane, base),
   pivcoBlocks |-> p.pivcoBlocks \o
     NewBlocks(f, lane, base, Len(p.nodes), Len(p.trees), Len(p.symbols)),
   laneBlocks |-> p.laneBlocks \o NewTasks(f, lane, base),
   joins |-> p.joins, laneBytes |-> p.laneBytes]

\* A lane starts at a number of bytes, which moves with the plan.
LEMMA LaneStartFacts ==
  ASSUME NEW f, FrameOk(f), NEW lane \in 1 .. Len(f.lanes), NEW bytes \in Nat
  PROVE  /\ LaneStart(f, lane, bytes) \in Nat
         /\ \A d \in Nat :
              LaneStart(f, lane, d + bytes) = d + LaneStart(f, lane, bytes)
<1>1. LaneStride(f) \in Nat /\ lane - 1 \in Nat
  BY StrideFacts, FrameFacts
<1>2. (lane - 1) * LaneStride(f) \in Nat
  BY <1>1
<1> QED
  BY <1>2 DEF LaneStart

\* The samples of a block and of a node are finitely many.
LEMMA SamplesFinite ==
  ASSUME NEW f, FrameOk(f), NEW k \in Nat \ {0}
  PROVE  /\ Cardinality(BlockSamples(f, k)) \in Nat
         /\ \A X : X \subseteq BlockSamples(f, k) => Cardinality(X) \in Nat
<1>1. f.count \in Nat /\ f.block \in Nat /\ (k - 1) * f.block \in Nat
      /\ k * f.block \in Nat
  <2>1. f.count \in Nat /\ f.block \in Nat
    BY FrameFacts
  <2> QED
    BY <2>1
<1>2. PICK a \in Int, b \in Int : BlockSamples(f, k) = a .. b
  BY <1>1 DEF BlockSamples
<1>3. IsFiniteSet(BlockSamples(f, k))
  BY <1>2, FS_Interval
<1> QED
  BY <1>3, FS_Subset, FS_CardinalityType

\* What lies in front of a block is a number.
LEMMA ProductNat ==
  ASSUME NEW k \in Nat \ {0}, NEW b \in Nat
  PROVE  (k - 1) * b \in Nat
OBVIOUS

\* and so is what lies behind it.
LEMMA SumNat ==
  ASSUME NEW a \in Nat, NEW b \in Nat
  PROVE  a + b \in Nat
OBVIOUS

\* What a lane adds is made of tasks.
LEMMA NewTypes ==
  ASSUME NEW f, FrameOk(f), NEW lane \in 1 .. Len(f.lanes), NEW base \in Nat,
         NEW nodes \in Nat, NEW trees \in Nat, NEW symbols \in Nat
  PROVE  /\ NewSymbols(f, lane) \in Seq(Payloads)
         /\ NewTrees(f, lane) \in Seq(Payloads)
         /\ NewNodes(f, lane, base) \in Seq(TreeNodes)
         /\ NewBlocks(f, lane, base, nodes, trees, symbols)
              \in Seq(PivcoBlocks)
         /\ NewTasks(f, lane, base) \in Seq(LaneTasks)
<1>1. /\ f.id \in Nat /\ f.count \in Nat \ {0} /\ f.block \in Nat \ {0}
      /\ Len(f.tree) \in Nat \ {0} /\ DOMAIN f.tree = 1 .. Len(f.tree)
      /\ Len(f.lanes) \in Nat \ {0} /\ lane \in Nat
  BY FrameFacts
<1>2. /\ CeilDiv(f.count, f.block) \in Nat /\ CeilDiv(f.count, Block) \in Nat
      /\ Block \in Nat \ {0} /\ Symbols \in Nat \ {0}
  BY <1>1, CeilDivFacts, GpuPlanAssumption
<1>3. <<>> \in Seq(Payloads) /\ <<>> \in Seq(TreeNodes)
      /\ <<>> \in Seq(PivcoBlocks) /\ <<>> \in Seq(LaneTasks)
  BY EmptySeq
<1>4. NewSymbols(f, lane) \in Seq(Payloads)
  <2>1. ASSUME NEW s \in 1 .. Symbols PROVE <<f.id, lane, s>> \in Payloads
    BY <1>1, <1>2 DEF Payloads
  <2>2. [s \in 1 .. Symbols |-> <<f.id, lane, s>>] \in [1 .. Symbols -> Payloads]
    BY <2>1
  <2> QED
    BY <1>2, <1>3, <2>2, FunctionIsSeq DEF NewSymbols
<1>5. NewTrees(f, lane) \in Seq(Payloads)
  <2>1. ASSUME NEW t \in 1 .. Len(f.tree) PROVE <<f.id, lane, t>> \in Payloads
    BY <1>1 DEF Payloads
  <2>2. [t \in DOMAIN f.tree |-> <<f.id, lane, t>>]
          \in [1 .. Len(f.tree) -> Payloads]
    BY <1>1, <2>1
  <2> QED
    BY <1>1, <1>3, <2>2, FunctionIsSeq DEF NewTrees
<1>6. NewNodes(f, lane, base) \in Seq(TreeNodes)
  <2> DEFINE n == CeilDiv(f.count, f.block) * Len(f.tree)
             Node(m) == WalkNode(f, lane, (m - 1) \div Len(f.tree) + 1,
                          ((m - 1) % Len(f.tree)) + 1,
                          base + (((m - 1) \div Len(f.tree) + 1) - 1) * f.block)
  <2>1. n \in Nat
    BY <1>1, <1>2
  <2>2. ASSUME NEW m \in 1 .. n PROVE Node(m) \in TreeNodes
    <3>1. m - 1 \in Nat
      BY <2>1
    <3> DEFINE k == (m - 1) \div Len(f.tree) + 1
               x == ((m - 1) % Len(f.tree)) + 1
    <3>2. k \in Nat \ {0} /\ x \in Nat
      <4>1. (m - 1) \div Len(f.tree) \in Nat
            /\ (m - 1) % Len(f.tree) \in 0 .. Len(f.tree) - 1
        BY <1>1, <3>1, Divided
      <4>2. (m - 1) % Len(f.tree) \in Nat
        <5>1. PICK e \in 0 .. Len(f.tree) - 1 : e = (m - 1) % Len(f.tree)
          BY <4>1
        <5>2. e \in Nat
          BY <1>1
        <5> QED
          BY <5>1, <5>2
      <4> HIDE DEF n
      <4>3. ASSUME NEW d \in Nat, NEW e \in Nat
            PROVE  d + 1 \in Nat \ {0} /\ e + 1 \in Nat
        OBVIOUS
      <4> QED
        BY <4>1, <4>2, <4>3, Zenon
    <3>6. Node(m) = WalkNode(f, lane, k, x, base + (k - 1) * f.block)
      OBVIOUS
    <3> HIDE DEF k, x, Node
    <3>3. (k - 1) * f.block \in Nat
      BY <1>1, <3>2, ProductNat
    <3>4. Cardinality(Passing(f, k, x)) \in Nat
          /\ Cardinality({s \in BlockSamples(f, k) : f.leaf[s + 1] < x}) \in Nat
      <4>1. Passing(f, k, x) \subseteq BlockSamples(f, k)
        BY DEF Passing
      <4>2. {s \in BlockSamples(f, k) : f.leaf[s + 1] < x}
              \subseteq BlockSamples(f, k)
        OBVIOUS
      <4> QED
        BY <3>2, <4>1, <4>2, SamplesFinite
    <3>5. WalkNode(f, lane, k, x, base + (k - 1) * f.block) \in TreeNodes
      <4>1. base + (k - 1) * f.block
              + Cardinality({s \in BlockSamples(f, k) : f.leaf[s + 1] < x})
              \in Nat
        BY <3>3, <3>4
      <4>2. <<f.id, lane, k, x>> \in Nat \X Nat \X Nat \X Nat
        BY <1>1, <3>2
      <4> QED
        BY <3>4, <4>1, <4>2 DEF WalkNode, TreeNodes
    <3> QED
      BY <3>5, <3>6, Zenon
  <2> HIDE DEF Node, n
  <2>3. [m \in 1 .. n |-> Node(m)] \in [1 .. n -> TreeNodes]
    BY <2>2
  <2>4. [m \in 1 .. n |-> Node(m)] \in Seq(TreeNodes)
    BY <2>1, <2>3, FunctionIsSeq
  <2> QED
    BY <1>3, <2>4 DEF NewNodes, LaneNodes, Node, n
<1>7. NewBlocks(f, lane, base, nodes, trees, symbols) \in Seq(PivcoBlocks)
  <2> DEFINE n == CeilDiv(f.count, f.block)
             New(k) == [nodeBase |-> nodes + (k - 1) * Len(f.tree),
                        treeBase |-> trees, symbolBase |-> symbols,
                        outBase |-> base + (k - 1) * f.block,
                        length |-> Cardinality(BlockSamples(f, k)),
                        nodeCount |-> Len(f.tree)]
  <2>1. ASSUME NEW k \in 1 .. n PROVE New(k) \in PivcoBlocks
    <3>0. k \in Nat \ {0}
      BY <1>2
    <3>1. (k - 1) * Len(f.tree) \in Nat /\ (k - 1) * f.block \in Nat
          /\ k \in Nat \ {0}
      BY <1>1, <3>0, ProductNat
    <3>2. Cardinality(BlockSamples(f, k)) \in Nat
      BY <3>1, SamplesFinite
    <3>3. nodes + (k - 1) * Len(f.tree) \in Nat
          /\ base + (k - 1) * f.block \in Nat
      BY <3>1, SumNat, Zenon
    <3> QED
      BY <1>1, <3>2, <3>3 DEF PivcoBlocks
  <2> HIDE DEF New
  <2>2. [k \in 1 .. n |-> New(k)] \in [1 .. n -> PivcoBlocks]
    BY <2>1
  <2>3. [k \in 1 .. n |-> New(k)] \in Seq(PivcoBlocks)
    BY <1>2, <2>2, FunctionIsSeq
  <2> QED
    BY <1>3, <2>3 DEF NewBlocks, LaneBlocks, New
<1>8. NewTasks(f, lane, base) \in Seq(LaneTasks)
  <2> DEFINE n == CeilDiv(f.count, Block)
             New(k) == [payload |-> <<f.id, lane, k>>,
                        output |-> base + (k - 1) * Block]
  <2>1. ASSUME NEW k \in 1 .. n PROVE New(k) \in LaneTasks
    <3>1. (k - 1) * Block \in Nat /\ k \in Nat
      BY <1>2
    <3> QED
      BY <1>1, <3>1 DEF LaneTasks, Payloads
  <2> HIDE DEF New
  <2>2. [k \in 1 .. n |-> New(k)] \in [1 .. n -> LaneTasks]
    BY <2>1
  <2>3. [k \in 1 .. n |-> New(k)] \in Seq(LaneTasks)
    BY <1>2, <2>2, FunctionIsSeq
  <2> QED
    BY <1>3, <2>3 DEF NewTasks, New
<1> QED
  BY <1>4, <1>5, <1>6, <1>7, <1>8

\* The fields of a PivCo plan.
LEMMA PivcoFields ==
  ASSUME NEW p \in PivcoPlans
  PROVE  /\ p.symbols \in Seq(Payloads) /\ p.trees \in Seq(Payloads)
         /\ p.nodes \in Seq(TreeNodes) /\ p.pivcoBlocks \in Seq(PivcoBlocks)
         /\ p.laneBlocks \in Seq(LaneTasks) /\ p.joins \in Seq(JoinTasks)
         /\ p.laneBytes \in Nat
         /\ Len(p.nodes) \in Nat /\ Len(p.trees) \in Nat
         /\ Len(p.symbols) \in Nat
         /\ p = PivcoPlan(p.symbols, p.trees, p.nodes, p.pivcoBlocks,
                          p.laneBlocks, p.joins, p.laneBytes)
<1>1. /\ p.symbols \in Seq(Payloads) /\ p.trees \in Seq(Payloads)
      /\ p.nodes \in Seq(TreeNodes) /\ p.pivcoBlocks \in Seq(PivcoBlocks)
      /\ p.laneBlocks \in Seq(LaneTasks) /\ p.joins \in Seq(JoinTasks)
      /\ p.laneBytes \in Nat
  BY DEF PivcoPlans
<1>2. p = PivcoPlan(p.symbols, p.trees, p.nodes, p.pivcoBlocks,
                    p.laneBlocks, p.joins, p.laneBytes)
  BY DEF PivcoPlans, PivcoPlan
<1>3. Len(p.nodes) \in Nat /\ Len(p.trees) \in Nat /\ Len(p.symbols) \in Nat
  BY <1>1, LenProperties
<1> QED
  BY <1>1, <1>2, <1>3

\* The fields of a plan that is given by them.
LEMMA PivcoPlanFields ==
  ASSUME NEW s, NEW t, NEW n, NEW b, NEW l, NEW j, NEW y, NEW p,
         p = PivcoPlan(s, t, n, b, l, j, y)
  PROVE  /\ p.symbols = s /\ p.trees = t /\ p.nodes = n /\ p.pivcoBlocks = b
         /\ p.laneBlocks = l /\ p.joins = j /\ p.laneBytes = y
BY DEF PivcoPlan

\* and when it is one.
LEMMA IsPivcoPlan ==
  ASSUME NEW s \in Seq(Payloads), NEW t \in Seq(Payloads),
         NEW n \in Seq(TreeNodes), NEW b \in Seq(PivcoBlocks),
         NEW l \in Seq(LaneTasks), NEW j \in Seq(JoinTasks), NEW y \in Nat
  PROVE  PivcoPlan(s, t, n, b, l, j, y) \in PivcoPlans
BY DEF PivcoPlan, PivcoPlans

\* A plan with one field replaced.
LEMMA PivcoPut ==
  ASSUME NEW s, NEW t, NEW n, NEW b, NEW l, NEW j, NEW y, NEW p,
         p = PivcoPlan(s, t, n, b, l, j, y), NEW z
  PROVE  /\ [p EXCEPT !.laneBlocks = z] = PivcoPlan(s, t, n, b, z, j, y)
         /\ [p EXCEPT !.joins = z] = PivcoPlan(s, t, n, b, l, z, y)
         /\ [p EXCEPT !.laneBytes = z] = PivcoPlan(s, t, n, b, l, j, z)
<1>1. /\ [PivcoPlan(s, t, n, b, l, j, y) EXCEPT !.laneBlocks = z] =
           PivcoPlan(s, t, n, b, z, j, y)
      /\ [PivcoPlan(s, t, n, b, l, j, y) EXCEPT !.joins = z] =
           PivcoPlan(s, t, n, b, l, z, y)
      /\ [PivcoPlan(s, t, n, b, l, j, y) EXCEPT !.laneBytes = z] =
           PivcoPlan(s, t, n, b, l, j, z)
  BY DEF PivcoPlan
<1> QED
  BY <1>1

\* The four fields that a PivCo lane grows.
Grown(p, s, t, n, b) ==
  [p EXCEPT !.symbols = s, !.trees = t, !.nodes = n, !.pivcoBlocks = b]

\* A plan with these replaced.
LEMMA PivcoPutFour ==
  ASSUME NEW s, NEW t, NEW n, NEW b, NEW l, NEW j, NEW y, NEW p,
         p = PivcoPlan(s, t, n, b, l, j, y),
         NEW s1, NEW t1, NEW n1, NEW z
  PROVE  Grown(p, s1, t1, n1, z) = PivcoPlan(s1, t1, n1, z, l, j, y)
<1>2. Grown(p, s1, t1, n1, z) =
        [[[[p EXCEPT !.symbols = s1] EXCEPT !.trees = t1]
            EXCEPT !.nodes = n1] EXCEPT !.pivcoBlocks = z]
  BY DEF Grown
<1>3. [PivcoPlan(s, t, n, b, l, j, y) EXCEPT !.symbols = s1] =
        PivcoPlan(s1, t, n, b, l, j, y)
  BY DEF PivcoPlan
<1>4. [PivcoPlan(s1, t, n, b, l, j, y) EXCEPT !.trees = t1] =
        PivcoPlan(s1, t1, n, b, l, j, y)
  BY DEF PivcoPlan
<1>5. [PivcoPlan(s1, t1, n, b, l, j, y) EXCEPT !.nodes = n1] =
        PivcoPlan(s1, t1, n1, b, l, j, y)
  BY DEF PivcoPlan
<1>6. [PivcoPlan(s1, t1, n1, b, l, j, y) EXCEPT !.pivcoBlocks = z] =
        PivcoPlan(s1, t1, n1, z, l, j, y)
  BY DEF PivcoPlan
<1> QED
  BY <1>2, <1>3, <1>4, <1>5, <1>6

\* A lane of either kind appends to the sequences of the plan.
LEMMA LaneAdds ==
  ASSUME NEW p \in PivcoPlans, NEW f, FrameOk(f), NEW lane \in 1 .. Len(f.lanes)
  PROVE  /\ Lane(p, f, lane) = WithLane(p, f, lane)
         /\ Lane(p, f, lane) \in PivcoPlans
<1> DEFINE base == LaneStart(f, lane, p.laneBytes)
           s == p.symbols \o NewSymbols(f, lane)
           t == p.trees \o NewTrees(f, lane)
           n == p.nodes \o NewNodes(f, lane, base)
           new == NewBlocks(f, lane, base, Len(p.nodes), Len(p.trees),
                            Len(p.symbols))
           b == p.pivcoBlocks \o new
           l == p.laneBlocks \o NewTasks(f, lane, base)
           j == p.joins
           y == p.laneBytes
<1>1. base \in Nat
  BY PivcoFields, LaneStartFacts
<1>2. WithLane(p, f, lane) = PivcoPlan(s, t, n, b, l, j, y)
  BY DEF WithLane, PivcoPlan
<1>3. p = PivcoPlan(p.symbols, p.trees, p.nodes, p.pivcoBlocks,
                    p.laneBlocks, j, y)
  BY PivcoFields
<1>4. PivcoPlan(s, t, n, b, l, j, y) \in PivcoPlans
  <2> HIDE DEF base
  <2>1. /\ NewSymbols(f, lane) \in Seq(Payloads)
        /\ NewTrees(f, lane) \in Seq(Payloads)
        /\ NewNodes(f, lane, base) \in Seq(TreeNodes)
        /\ new \in Seq(PivcoBlocks)
        /\ NewTasks(f, lane, base) \in Seq(LaneTasks)
    BY <1>1, PivcoFields, NewTypes
  <2> HIDE DEF new
  <2>2. /\ s \in Seq(Payloads) /\ t \in Seq(Payloads)
        /\ n \in Seq(TreeNodes) /\ b \in Seq(PivcoBlocks)
        /\ l \in Seq(LaneTasks)
    BY <2>1, PivcoFields, ConcatProperties
  <2>3. j \in Seq(JoinTasks) /\ y \in Nat
    BY PivcoFields
  <2> HIDE DEF s, t, n, b, l, j, y
  <2> QED
    BY <2>2, <2>3, IsPivcoPlan
<1>5. Lane(p, f, lane) = IF IsPfor(f, lane) THEN PforLane(p, f, lane, base)
                                            ELSE PivcoLane(p, f, lane, base)
  BY DEF Lane, IsPfor, LaneStart
<1>6. CASE IsPfor(f, lane)
  <2>1. Lane(p, f, lane) = [p EXCEPT !.laneBlocks = l]
    BY <1>5, <1>6 DEF PforLane, NewTasks
  <2>2. /\ NewSymbols(f, lane) = <<>> /\ NewTrees(f, lane) = <<>>
        /\ NewNodes(f, lane, base) = <<>> /\ new = <<>>
    BY <1>6 DEF NewSymbols, NewTrees, NewNodes, NewBlocks
  <2>3. s = p.symbols /\ t = p.trees /\ n = p.nodes /\ b = p.pivcoBlocks
    BY <2>2, PivcoFields, ConcatEmptySeq
  <2> HIDE DEF s, t, n, b, l, j, y
  <2>4. [p EXCEPT !.laneBlocks = l] =
          PivcoPlan(p.symbols, p.trees, p.nodes, p.pivcoBlocks, l, j, y)
    BY <1>3, PivcoPut
  <2> QED
    BY <1>2, <1>4, <2>1, <2>3, <2>4
<1>7. CASE ~IsPfor(f, lane)
  <2>1. Lane(p, f, lane) = Grown(p, s, t, n, b)
    <3>1. /\ NewSymbols(f, lane) = [r \in 1 .. Symbols |-> <<f.id, lane, r>>]
          /\ NewTrees(f, lane) = [r \in DOMAIN f.tree |-> <<f.id, lane, r>>]
      BY <1>7 DEF NewSymbols, NewTrees
    <3>2. NewNodes(f, lane, base) = LaneNodes(f, lane, base)
      BY <1>7 DEF NewNodes
    <3>3. new = LaneBlocks(f, base, Len(p.nodes), Len(p.trees),
                           Len(p.symbols))
      BY <1>7 DEF NewBlocks
    <3>4. Lane(p, f, lane) = PivcoLane(p, f, lane, base)
      BY <1>5, <1>7
    <3> HIDE DEF base
    <3>5. PivcoLane(p, f, lane, base) = Grown(p, s, t, n, b)
      BY <3>1, <3>2, <3>3 DEF PivcoLane, Grown, s, t, n, b
    <3> QED
      BY <3>4, <3>5, Zenon
  <2>2. NewTasks(f, lane, base) = <<>>
    BY <1>7 DEF NewTasks
  <2>3. l = p.laneBlocks
    BY <2>2, PivcoFields, ConcatEmptySeq
  <2> HIDE DEF s, t, n, b, l, j, y
  <2>4. Grown(p, s, t, n, b) = PivcoPlan(s, t, n, b, p.laneBlocks, j, y)
    BY <1>3, PivcoPutFour
  <2> QED
    BY <1>2, <1>4, <2>1, <2>3, <2>4
<1> QED
  BY <1>6, <1>7

-----------------------------------------------------------------------------
(* Sequences in a row                                                      *)

\* Two sequences in a row.
Cat(a, b) == a \o b

\* They are a sequence.
LEMMA CatType ==
  ASSUME NEW S, NEW a \in Seq(S), NEW b \in Seq(S)
  PROVE  Cat(a, b) \in Seq(S)
BY ConcatProperties DEF Cat

\* of their lengths.
LEMMA CatLen ==
  ASSUME NEW S, NEW a \in Seq(S), NEW b \in Seq(S)
  PROVE  Len(Cat(a, b)) = Len(a) + Len(b)
BY ConcatProperties DEF Cat

\* Three sequences in a row may be joined from either end.
LEMMA CatAssociative ==
  ASSUME NEW S, NEW a \in Seq(S), NEW b \in Seq(S), NEW c \in Seq(S)
  PROVE  Cat(Cat(a, b), c) = Cat(a, Cat(b, c))
BY ConcatAssociative DEF Cat

\* With no sequence behind it a sequence stays what it is.
LEMMA CatEmpty ==
  ASSUME NEW S, NEW a \in Seq(S)
  PROVE  Cat(a, <<>>) = a
BY ConcatEmptySeq DEF Cat

-----------------------------------------------------------------------------
(* Moving the tasks of a plan                                              *)

\* A sequence with a function applied to its elements.
Map(s, move) == [i \in DOMAIN s |-> move[s[i]]]

\* It is a sequence of the same length.
LEMMA MapTypes ==
  ASSUME NEW S, NEW r \in Seq(S), NEW move \in [S -> S]
  PROVE  /\ Map(r, move) \in Seq(S) /\ Len(Map(r, move)) = Len(r)
         /\ \A i \in 1 .. Len(r) : Map(r, move)[i] = move[r[i]]
<1>1. Len(r) \in Nat /\ r \in [1 .. Len(r) -> S] /\ DOMAIN r = 1 .. Len(r)
  BY LenProperties
<1>2. Map(r, move) \in [1 .. Len(r) -> S]
  BY <1>1 DEF Map
<1>3. \A i \in 1 .. Len(r) : Map(r, move)[i] = move[r[i]]
  BY <1>1 DEF Map
<1> QED
  BY <1>1, <1>2, <1>3, FunctionIsSeq

\* It applies to the parts of a sequence.
LEMMA MapConcat ==
  ASSUME NEW S, NEW s \in Seq(S), NEW t \in Seq(S), NEW move \in [S -> S]
  PROVE  Map(Cat(s, t), move) = Cat(Map(s, move), Map(t, move))
<1>1. ASSUME NEW r \in Seq(S)
      PROVE  /\ Map(r, move) \in Seq(S) /\ Len(Map(r, move)) = Len(r)
             /\ \A i \in 1 .. Len(r) : Map(r, move)[i] = move[r[i]]
  BY MapTypes
<1>2. /\ s \o t \in Seq(S) /\ Len(s \o t) = Len(s) + Len(t)
      /\ \A i \in 1 .. Len(s) + Len(t) :
           (s \o t)[i] = IF i <= Len(s) THEN s[i] ELSE t[i - Len(s)]
  BY ConcatProperties
<1> DEFINE a == Map(s, move)
           b == Map(t, move)
           c == Map(s \o t, move)
<1>3. /\ a \o b \in Seq(S) /\ Len(a \o b) = Len(s) + Len(t)
      /\ \A i \in 1 .. Len(s) + Len(t) :
           (a \o b)[i] = IF i <= Len(s) THEN a[i] ELSE b[i - Len(s)]
  <2>1. a \in Seq(S) /\ b \in Seq(S) /\ Len(a) = Len(s) /\ Len(b) = Len(t)
    BY <1>1
  <2> HIDE DEF a, b
  <2>2. /\ a \o b \in Seq(S) /\ Len(a \o b) = Len(a) + Len(b)
        /\ \A i \in 1 .. Len(a) + Len(b) :
             (a \o b)[i] = IF i <= Len(a) THEN a[i] ELSE b[i - Len(a)]
    BY <2>1, ConcatProperties, Zenon
  <2> QED
    BY <2>1, <2>2, Zenon
<1>4. c \in Seq(S) /\ Len(c) = Len(s) + Len(t)
  BY <1>1, <1>2
<1>5. ASSUME NEW i \in 1 .. Len(s) + Len(t) PROVE c[i] = (a \o b)[i]
  <2>0. Len(s) \in Nat /\ Len(t) \in Nat
    BY LenProperties
  <2>1. c[i] = move[(s \o t)[i]]
    BY <1>1, <1>2
  <2>2. CASE i <= Len(s)
    <3>1. i \in 1 .. Len(s)
      BY <2>0, <2>2
    <3>2. a[i] = move[s[i]]
      BY <1>1, <3>1
    <3> QED
      BY <1>2, <1>3, <2>1, <2>2, <3>2
  <2>3. CASE ~(i <= Len(s))
    <3>1. i - Len(s) \in 1 .. Len(t)
      BY <2>0, <2>3
    <3>2. b[i - Len(s)] = move[t[i - Len(s)]]
      BY <1>1, <3>1
    <3> QED
      BY <1>2, <1>3, <2>1, <2>3, <3>2
  <2> QED
    BY <2>2, <2>3
<1> HIDE DEF a, b, c
<1>6. c = a \o b
  <2>1. \A i \in 1 .. Len(c) : c[i] = (a \o b)[i]
    BY <1>4, <1>5
  <2> QED
    BY <1>3, <1>4, <2>1, SeqEqual
<1> QED
  BY <1>6 DEF Cat, a, b, c

MovedOut(seq, d) == [i \in DOMAIN seq |-> [seq[i] EXCEPT !.output = @ + d]]
MovedBase(seq, d) == [i \in DOMAIN seq |-> [seq[i] EXCEPT !.laneBase = @ + d]]
MovedBlocks(seq, p) == [i \in DOMAIN seq |-> ShiftedBlock(seq[i], p)]

\* Tasks of a kind that move are tasks of that kind.
OutMoves(S, d) == \A x \in S : [x EXCEPT !.output = @ + d] \in S
BaseMoves(S, d) == \A x \in S : [x EXCEPT !.laneBase = @ + d] \in S
BlockMovesIn(S, p) == \A x \in S : ShiftedBlock(x, p) \in S

\* Rebased tasks are tasks, and the parts of a sequence move by themselves.
LEMMA MovedOutFacts ==
  ASSUME NEW S, NEW s \in Seq(S), NEW t \in Seq(S), NEW d \in Nat,
         OutMoves(S, d)
  PROVE  /\ MovedOut(s, d) \in Seq(S) /\ Len(MovedOut(s, d)) = Len(s)
         /\ MovedOut(Cat(s, t), d) = Cat(MovedOut(s, d), MovedOut(t, d))
<1> DEFINE move == [x \in S |-> [x EXCEPT !.output = @ + d]]
<1>1. move \in [S -> S]
  BY DEF OutMoves
<1>2. ASSUME NEW r \in Seq(S) PROVE MovedOut(r, d) = Map(r, move)
  <2>1. \A i \in DOMAIN r : r[i] \in S
    OBVIOUS
  <2>2. \A i \in DOMAIN r : move[r[i]] = [r[i] EXCEPT !.output = @ + d]
    BY <2>1
  <2> QED
    BY <2>2 DEF MovedOut, Map
<1> HIDE DEF move
<1>3. Cat(s, t) \in Seq(S)
  BY CatType
<1>4. /\ Map(s, move) \in Seq(S) /\ Len(Map(s, move)) = Len(s)
      /\ Map(Cat(s, t), move) = Cat(Map(s, move), Map(t, move))
  BY <1>1, MapTypes, MapConcat
<1> QED
  BY <1>2, <1>3, <1>4

\* The same for joins
LEMMA MovedBaseFacts ==
  ASSUME NEW S, NEW s \in Seq(S), NEW t \in Seq(S), NEW d \in Nat,
         BaseMoves(S, d)
  PROVE  /\ MovedBase(s, d) \in Seq(S) /\ Len(MovedBase(s, d)) = Len(s)
         /\ MovedBase(Cat(s, t), d) = Cat(MovedBase(s, d), MovedBase(t, d))
<1> DEFINE move == [x \in S |-> [x EXCEPT !.laneBase = @ + d]]
<1>1. move \in [S -> S]
  BY DEF BaseMoves
<1>2. ASSUME NEW r \in Seq(S) PROVE MovedBase(r, d) = Map(r, move)
  <2>1. \A i \in DOMAIN r : r[i] \in S
    OBVIOUS
  <2>2. \A i \in DOMAIN r : move[r[i]] = [r[i] EXCEPT !.laneBase = @ + d]
    BY <2>1
  <2> QED
    BY <2>2 DEF MovedBase, Map
<1> HIDE DEF move
<1>3. Cat(s, t) \in Seq(S)
  BY CatType
<1>4. /\ Map(s, move) \in Seq(S) /\ Len(Map(s, move)) = Len(s)
      /\ Map(Cat(s, t), move) = Cat(Map(s, move), Map(t, move))
  BY <1>1, MapTypes, MapConcat
<1> QED
  BY <1>2, <1>3, <1>4

\* and for blocks.
LEMMA MovedBlocksFacts ==
  ASSUME NEW S, NEW s \in Seq(S), NEW t \in Seq(S), NEW p,
         BlockMovesIn(S, p)
  PROVE  /\ MovedBlocks(s, p) \in Seq(S) /\ Len(MovedBlocks(s, p)) = Len(s)
         /\ MovedBlocks(Cat(s, t), p) = Cat(MovedBlocks(s, p), MovedBlocks(t, p))
<1> DEFINE move == [x \in S |-> ShiftedBlock(x, p)]
<1>1. move \in [S -> S]
  BY DEF BlockMovesIn
<1>2. ASSUME NEW r \in Seq(S) PROVE MovedBlocks(r, p) = Map(r, move)
  <2>1. \A i \in DOMAIN r : r[i] \in S
    OBVIOUS
  <2>2. \A i \in DOMAIN r : move[r[i]] = ShiftedBlock(r[i], p)
    BY <2>1
  <2> QED
    BY <2>2 DEF MovedBlocks, Map
<1> HIDE DEF move
<1>3. Cat(s, t) \in Seq(S)
  BY CatType
<1>4. /\ Map(s, move) \in Seq(S) /\ Len(Map(s, move)) = Len(s)
      /\ Map(Cat(s, t), move) = Cat(Map(s, move), Map(t, move))
  BY <1>1, MapTypes, MapConcat
<1> QED
  BY <1>2, <1>3, <1>4

\* A task that moved is a task.
LEMMA TasksMove ==
  ASSUME NEW d \in Nat
  PROVE  /\ OutMoves(TreeNodes, d) /\ OutMoves(LaneTasks, d)
         /\ BaseMoves(JoinTasks, d)
<1>1. OutMoves(TreeNodes, d)
  BY DEF OutMoves, TreeNodes
<1>2. OutMoves(LaneTasks, d)
  BY DEF OutMoves, LaneTasks
<1>3. BaseMoves(JoinTasks, d)
  BY DEF BaseMoves, JoinTasks
<1> QED
  BY <1>1, <1>2, <1>3

\* A block of a part, given by its fields, behind a plan.
LEMMA BlockMoves ==
  ASSUME NEW p, NEW n, NEW t, NEW s, NEW o, NEW l, NEW c
  PROVE  ShiftedBlock([nodeBase |-> n, treeBase |-> t, symbolBase |-> s,
                       outBase |-> o, length |-> l, nodeCount |-> c], p) =
           [nodeBase |-> n + Len(p.nodes), treeBase |-> t + Len(p.trees),
            symbolBase |-> s + Len(p.symbols), outBase |-> o + p.laneBytes,
            length |-> l, nodeCount |-> c]
<1> DEFINE b == [nodeBase |-> n, treeBase |-> t, symbolBase |-> s,
                 outBase |-> o, length |-> l, nodeCount |-> c]
           n1 == n + Len(p.nodes)
           t1 == t + Len(p.trees)
           s1 == s + Len(p.symbols)
           o1 == o + p.laneBytes
<1>1. b.nodeBase = n /\ b.treeBase = t /\ b.symbolBase = s /\ b.outBase = o
  OBVIOUS
<1>2. ShiftedBlock(b, p) =
        [b EXCEPT !.nodeBase = b.nodeBase + Len(p.nodes),
                  !.treeBase = b.treeBase + Len(p.trees),
                  !.symbolBase = b.symbolBase + Len(p.symbols),
                  !.outBase = b.outBase + p.laneBytes]
  BY DEF ShiftedBlock
<1> HIDE DEF b
<1>3. ShiftedBlock(b, p) =
        [b EXCEPT !.nodeBase = n1, !.treeBase = t1, !.symbolBase = s1,
                  !.outBase = o1]
  BY <1>1, <1>2
<1> HIDE DEF n1, t1, s1, o1
<1>4. ShiftedBlock(b, p) =
        [[[[b EXCEPT !.nodeBase = n1] EXCEPT !.treeBase = t1]
            EXCEPT !.symbolBase = s1] EXCEPT !.outBase = o1]
  BY <1>3
<1>5. [b EXCEPT !.nodeBase = n1] =
        [nodeBase |-> n1, treeBase |-> t, symbolBase |-> s,
         outBase |-> o, length |-> l, nodeCount |-> c]
  BY DEF b
<1>6. [[nodeBase |-> n1, treeBase |-> t, symbolBase |-> s,
        outBase |-> o, length |-> l, nodeCount |-> c] EXCEPT !.treeBase = t1] =
        [nodeBase |-> n1, treeBase |-> t1, symbolBase |-> s,
         outBase |-> o, length |-> l, nodeCount |-> c]
  OBVIOUS
<1>7. [[nodeBase |-> n1, treeBase |-> t1, symbolBase |-> s,
        outBase |-> o, length |-> l, nodeCount |-> c]
          EXCEPT !.symbolBase = s1] =
        [nodeBase |-> n1, treeBase |-> t1, symbolBase |-> s1,
         outBase |-> o, length |-> l, nodeCount |-> c]
  OBVIOUS
<1>8. [[nodeBase |-> n1, treeBase |-> t1, symbolBase |-> s1,
        outBase |-> o, length |-> l, nodeCount |-> c] EXCEPT !.outBase = o1] =
        [nodeBase |-> n1, treeBase |-> t1, symbolBase |-> s1,
         outBase |-> o1, length |-> l, nodeCount |-> c]
  OBVIOUS
<1>9. ShiftedBlock(b, p) =
        [nodeBase |-> n1, treeBase |-> t1, symbolBase |-> s1,
         outBase |-> o1, length |-> l, nodeCount |-> c]
  BY <1>4, <1>5, <1>6, <1>7, <1>8
<1> QED
  BY <1>9 DEF b, n1, t1, s1, o1

\* A block that moved is a block.
LEMMA BlocksMove ==
  ASSUME NEW p \in PivcoPlans
  PROVE  BlockMovesIn(PivcoBlocks, p)
<1> SUFFICES ASSUME NEW x \in PivcoBlocks
             PROVE  ShiftedBlock(x, p) \in PivcoBlocks
  BY DEF BlockMovesIn
<1>1. PICK n \in Nat, t \in Nat, s \in Nat, o \in Nat, l \in Nat, c \in Nat :
        x = [nodeBase |-> n, treeBase |-> t, symbolBase |-> s,
             outBase |-> o, length |-> l, nodeCount |-> c]
  BY DEF PivcoBlocks
<1>2. ShiftedBlock(x, p) =
        [nodeBase |-> n + Len(p.nodes), treeBase |-> t + Len(p.trees),
         symbolBase |-> s + Len(p.symbols), outBase |-> o + p.laneBytes,
         length |-> l, nodeCount |-> c]
  BY <1>1, BlockMoves
<1>3. /\ n + Len(p.nodes) \in Nat /\ t + Len(p.trees) \in Nat
      /\ s + Len(p.symbols) \in Nat /\ o + p.laneBytes \in Nat
  BY PivcoFields, SumNat
<1> QED
  BY <1>2, <1>3 DEF PivcoBlocks

-----------------------------------------------------------------------------
(* Merging two plans                                                       *)

\* What MergePivco makes of two plans.
LEMMA MergeFields ==
  ASSUME NEW p \in PivcoPlans, NEW q \in PivcoPlans
  PROVE  /\ MergePivco(p, q) =
              PivcoPlan(Cat(p.symbols, q.symbols), Cat(p.trees, q.trees),
                Cat(p.nodes, MovedOut(q.nodes, p.laneBytes)),
                Cat(p.pivcoBlocks, MovedBlocks(q.pivcoBlocks, p)),
                Cat(p.laneBlocks, MovedOut(q.laneBlocks, p.laneBytes)),
                Cat(p.joins, MovedBase(q.joins, p.laneBytes)),
                p.laneBytes + q.laneBytes)
         /\ MergePivco(p, q) \in PivcoPlans
<1>1. MergePivco(p, q) =
        PivcoPlan(Cat(p.symbols, q.symbols), Cat(p.trees, q.trees),
          Cat(p.nodes, MovedOut(q.nodes, p.laneBytes)),
          Cat(p.pivcoBlocks, MovedBlocks(q.pivcoBlocks, p)),
          Cat(p.laneBlocks, MovedOut(q.laneBlocks, p.laneBytes)),
          Cat(p.joins, MovedBase(q.joins, p.laneBytes)),
          p.laneBytes + q.laneBytes)
  BY DEF MergePivco, PivcoPlan, Cat, MovedOut, MovedBase, MovedBlocks, Rebased
<1> DEFINE n == MovedOut(q.nodes, p.laneBytes)
           b == MovedBlocks(q.pivcoBlocks, p)
           l == MovedOut(q.laneBlocks, p.laneBytes)
           j == MovedBase(q.joins, p.laneBytes)
<1>2. /\ n \in Seq(TreeNodes) /\ b \in Seq(PivcoBlocks)
      /\ l \in Seq(LaneTasks) /\ j \in Seq(JoinTasks)
  <2>1. p.laneBytes \in Nat
    BY PivcoFields
  <2>2. n \in Seq(TreeNodes) /\ l \in Seq(LaneTasks)
    BY <2>1, PivcoFields, TasksMove, MovedOutFacts
  <2>3. j \in Seq(JoinTasks)
    BY <2>1, PivcoFields, TasksMove, MovedBaseFacts
  <2>4. b \in Seq(PivcoBlocks)
    BY PivcoFields, BlocksMove, MovedBlocksFacts
  <2> QED
    BY <2>2, <2>3, <2>4
<1> HIDE DEF n, b, l, j
<1>3. /\ Cat(p.symbols, q.symbols) \in Seq(Payloads)
      /\ Cat(p.trees, q.trees) \in Seq(Payloads)
      /\ Cat(p.nodes, n) \in Seq(TreeNodes)
      /\ Cat(p.pivcoBlocks, b) \in Seq(PivcoBlocks)
      /\ Cat(p.laneBlocks, l) \in Seq(LaneTasks)
      /\ Cat(p.joins, j) \in Seq(JoinTasks)
  BY <1>2, PivcoFields, CatType
<1>4. p.laneBytes + q.laneBytes \in Nat
  BY PivcoFields, SumNat
<1>5. PivcoPlan(Cat(p.symbols, q.symbols), Cat(p.trees, q.trees), Cat(p.nodes, n),
                Cat(p.pivcoBlocks, b), Cat(p.laneBlocks, l), Cat(p.joins, j),
                p.laneBytes + q.laneBytes) \in PivcoPlans
  BY <1>3, <1>4, IsPivcoPlan
<1> QED
  BY <1>1, <1>5 DEF n, b, l, j

\* A plan without tasks is a plan.
LEMMA EmptyFacts ==
  /\ EmptyPivco \in PivcoPlans /\ EmptyPfor \in PforPlans
  /\ EmptyPivco = PivcoPlan(<<>>, <<>>, <<>>, <<>>, <<>>, <<>>, 0)
<1>1. /\ <<>> \in Seq(Payloads) /\ <<>> \in Seq(TreeNodes)
      /\ <<>> \in Seq(PivcoBlocks) /\ <<>> \in Seq(LaneTasks)
      /\ <<>> \in Seq(JoinTasks) /\ <<>> \in Seq(PforBlocks)
  BY EmptySeq
<1>2. EmptyPivco = PivcoPlan(<<>>, <<>>, <<>>, <<>>, <<>>, <<>>, 0)
  BY DEF EmptyPivco, PivcoPlan
<1>3. PivcoPlan(<<>>, <<>>, <<>>, <<>>, <<>>, <<>>, 0) \in PivcoPlans
  BY <1>1, IsPivcoPlan
<1>4. EmptyPfor \in PforPlans
  BY <1>1 DEF EmptyPfor, PforPlans
<1> QED
  BY <1>2, <1>3, <1>4

\* Merged with it a plan stays what it is.
LEMMA MergeEmpty ==
  ASSUME NEW p \in PivcoPlans
  PROVE  MergePivco(p, EmptyPivco) = p
<1> DEFINE e == EmptyPivco
<1>1. /\ e.symbols = <<>> /\ e.trees = <<>> /\ e.nodes = <<>>
      /\ e.pivcoBlocks = <<>> /\ e.laneBlocks = <<>> /\ e.joins = <<>>
      /\ e.laneBytes = 0
  BY DEF EmptyPivco
<1>2. /\ MovedOut(<<>>, p.laneBytes) = <<>> /\ MovedBase(<<>>, p.laneBytes) = <<>>
      /\ MovedBlocks(<<>>, p) = <<>>
  BY DEF MovedOut, MovedBase, MovedBlocks
<1> HIDE DEF e
<1>3. MergePivco(p, e) =
        PivcoPlan(Cat(p.symbols, e.symbols), Cat(p.trees, e.trees),
          Cat(p.nodes, MovedOut(e.nodes, p.laneBytes)),
          Cat(p.pivcoBlocks, MovedBlocks(e.pivcoBlocks, p)),
          Cat(p.laneBlocks, MovedOut(e.laneBlocks, p.laneBytes)),
          Cat(p.joins, MovedBase(e.joins, p.laneBytes)),
          p.laneBytes + e.laneBytes)
  BY EmptyFacts, MergeFields DEF e
<1>4. MergePivco(p, e) =
        PivcoPlan(Cat(p.symbols, <<>>), Cat(p.trees, <<>>), Cat(p.nodes, <<>>),
          Cat(p.pivcoBlocks, <<>>), Cat(p.laneBlocks, <<>>), Cat(p.joins, <<>>),
          p.laneBytes + 0)
  BY <1>1, <1>2, <1>3
<1>5. /\ Cat(p.symbols, <<>>) = p.symbols /\ Cat(p.trees, <<>>) = p.trees
      /\ Cat(p.nodes, <<>>) = p.nodes /\ Cat(p.pivcoBlocks, <<>>) = p.pivcoBlocks
      /\ Cat(p.laneBlocks, <<>>) = p.laneBlocks /\ Cat(p.joins, <<>>) = p.joins
      /\ p.laneBytes + 0 = p.laneBytes
  BY PivcoFields, CatEmpty
<1> QED
  BY <1>4, <1>5, PivcoFields DEF e

-----------------------------------------------------------------------------
(* Adding a lane to a merged plan                                          *)

\* The nodes and tasks of a lane move with its start.
LEMMA NewMoves ==
  ASSUME NEW f, FrameOk(f), NEW lane \in 1 .. Len(f.lanes), NEW base \in Nat,
         NEW d \in Nat
  PROVE  /\ MovedOut(NewNodes(f, lane, base), d) = NewNodes(f, lane, d + base)
         /\ MovedOut(NewTasks(f, lane, base), d) = NewTasks(f, lane, d + base)
<1>1. MovedOut(<<>>, d) = <<>>
  BY DEF MovedOut
<1>2. MovedOut(LaneNodes(f, lane, base), d) = LaneNodes(f, lane, d + base)
  <2> DEFINE n == CeilDiv(f.count, f.block) * Len(f.tree)
             k(m) == (m - 1) \div Len(f.tree) + 1
             x(m) == ((m - 1) % Len(f.tree)) + 1
             Node(m, start) == WalkNode(f, lane, k(m), x(m),
                                     start + (k(m) - 1) * f.block)
  <2>1. /\ LaneNodes(f, lane, base) = [m \in 1 .. n |-> Node(m, base)]
        /\ LaneNodes(f, lane, d + base) = [m \in 1 .. n |-> Node(m, d + base)]
    BY DEF LaneNodes
  <2>2. n \in Nat
    <3>1. CeilDiv(f.count, f.block) \in Nat /\ Len(f.tree) \in Nat
      BY FrameFacts, CeilDivFacts
    <3> QED
      BY <3>1
  <2>3. ASSUME NEW m \in 1 .. n
        PROVE  [Node(m, base) EXCEPT !.output = @ + d] = Node(m, d + base)
    <3> DEFINE K == k(m)
               X == x(m)
               o == (K - 1) * f.block
               c == Cardinality({s \in BlockSamples(f, K) : f.leaf[s + 1] < X})
               payload == <<f.id, lane, K, X>>
               count0 == Cardinality(Passing(f, K, X))
    <3>1. K \in Nat \ {0}
      <4>1. m - 1 \in Nat /\ Len(f.tree) \in Nat \ {0}
        BY <2>2, FrameFacts
      <4>2. (m - 1) \div Len(f.tree) \in Nat
        BY <4>1, Divided
      <4>3. ASSUME NEW a \in Nat PROVE a + 1 \in Nat \ {0}
        OBVIOUS
      <4> QED
        BY <4>2, <4>3
    <3>2. /\ Node(m, base) = [payload |-> payload, count |-> count0,
                              output |-> base + o + c]
          /\ Node(m, d + base) = [payload |-> payload, count |-> count0,
                                  output |-> d + base + o + c]
      BY DEF WalkNode
    <3> HIDE DEF K, X, Node
    <3>3. o \in Nat /\ c \in Nat
      <4>1. {s \in BlockSamples(f, K) : f.leaf[s + 1] < X}
              \subseteq BlockSamples(f, K)
        OBVIOUS
      <4>2. o \in Nat
        BY <3>1, FrameFacts, ProductNat
      <4> QED
        BY <3>1, <4>1, <4>2, SamplesFinite
    <3> HIDE DEF o, c, payload, count0
    <3>4. (base + o + c) + d = d + base + o + c
      BY <3>3
    <3>5. [[payload |-> payload, count |-> count0, output |-> base + o + c]
             EXCEPT !.output = @ + d] =
            [payload |-> payload, count |-> count0,
             output |-> (base + o + c) + d]
      OBVIOUS
    <3> QED
      BY <3>2, <3>4, <3>5
  <2> HIDE DEF Node, n
  <2>4. MovedOut([m \in 1 .. n |-> Node(m, base)], d) =
          [m \in 1 .. n |-> [Node(m, base) EXCEPT !.output = @ + d]]
    BY DEF MovedOut
  <2> QED
    BY <2>1, <2>3, <2>4
<1>3. ASSUME IsPfor(f, lane)
      PROVE  MovedOut(NewTasks(f, lane, base), d) = NewTasks(f, lane, d + base)
  <2> DEFINE n == CeilDiv(f.count, Block)
             Task(k, start) == [payload |-> <<f.id, lane, k>>,
                             output |-> start + (k - 1) * Block]
  <2>1. /\ NewTasks(f, lane, base) = [k \in 1 .. n |-> Task(k, base)]
        /\ NewTasks(f, lane, d + base) = [k \in 1 .. n |-> Task(k, d + base)]
    BY <1>3 DEF NewTasks
  <2>2. n \in Nat /\ Block \in Nat
    BY FrameFacts, CeilDivFacts, GpuPlanAssumption
  <2>3. ASSUME NEW k \in 1 .. n
        PROVE  [Task(k, base) EXCEPT !.output = @ + d] = Task(k, d + base)
    <3> DEFINE o == (k - 1) * Block
               payload == <<f.id, lane, k>>
    <3>1. o \in Nat
      <4>1. k \in Nat \ {0}
        BY <2>2
      <4> QED
        BY <2>2, <4>1, ProductNat
    <3>2. /\ Task(k, base) = [payload |-> payload, output |-> base + o]
          /\ Task(k, d + base) = [payload |-> payload, output |-> d + base + o]
      OBVIOUS
    <3> HIDE DEF o, payload, Task
    <3>3. (base + o) + d = d + base + o
      BY <3>1
    <3>4. [[payload |-> payload, output |-> base + o]
             EXCEPT !.output = @ + d] =
            [payload |-> payload, output |-> (base + o) + d]
      OBVIOUS
    <3> QED
      BY <3>2, <3>3, <3>4
  <2> HIDE DEF Task, n
  <2>4. MovedOut([k \in 1 .. n |-> Task(k, base)], d) =
          [k \in 1 .. n |-> [Task(k, base) EXCEPT !.output = @ + d]]
    BY DEF MovedOut
  <2> QED
    BY <2>1, <2>3, <2>4
<1>4. MovedOut(NewNodes(f, lane, base), d) = NewNodes(f, lane, d + base)
  BY <1>1, <1>2 DEF NewNodes
<1>5. MovedOut(NewTasks(f, lane, base), d) = NewTasks(f, lane, d + base)
  <2>1. CASE ~IsPfor(f, lane)
    BY <1>1, <2>1 DEF NewTasks
  <2> QED
    BY <1>3, <2>1
<1> QED
  BY <1>4, <1>5

\* and its blocks with the nodes, the trees and the symbols in front too.
LEMMA NewBlocksMove ==
  ASSUME NEW f, FrameOk(f), NEW lane \in 1 .. Len(f.lanes), NEW base \in Nat,
         NEW nodes \in Nat, NEW trees \in Nat, NEW symbols \in Nat,
         NEW p \in PivcoPlans
  PROVE  MovedBlocks(NewBlocks(f, lane, base, nodes, trees, symbols), p) =
           NewBlocks(f, lane, p.laneBytes + base, Len(p.nodes) + nodes,
                     Len(p.trees) + trees, Len(p.symbols) + symbols)
<1> DEFINE n == CeilDiv(f.count, f.block)
           New(k, start, ns, ts, ss) ==
             [nodeBase |-> ns + (k - 1) * Len(f.tree), treeBase |-> ts,
              symbolBase |-> ss, outBase |-> start + (k - 1) * f.block,
              length |-> Cardinality(BlockSamples(f, k)),
              nodeCount |-> Len(f.tree)]
           Old(k) == New(k, base, nodes, trees, symbols)
           Now(k) == New(k, p.laneBytes + base, Len(p.nodes) + nodes,
                         Len(p.trees) + trees, Len(p.symbols) + symbols)
<1>1. MovedBlocks(<<>>, p) = <<>>
  BY DEF MovedBlocks
<1>2. ASSUME NEW k \in 1 .. n PROVE ShiftedBlock(Old(k), p) = Now(k)
  <2> DEFINE x == (k - 1) * Len(f.tree)
             y == (k - 1) * f.block
             l == Cardinality(BlockSamples(f, k))
             c == Len(f.tree)
  <2>1. x \in Nat /\ y \in Nat
    <3>1. /\ n \in Nat /\ Len(f.tree) \in Nat /\ f.block \in Nat
      BY FrameFacts, CeilDivFacts
    <3>2. k \in Nat \ {0}
      BY <3>1
    <3> QED
      BY <3>1, <3>2, ProductNat
  <2>2. /\ p.laneBytes \in Nat /\ Len(p.nodes) \in Nat /\ Len(p.trees) \in Nat
        /\ Len(p.symbols) \in Nat
    BY PivcoFields
  <2> HIDE DEF x, y, l, c
  <2>3. ShiftedBlock([nodeBase |-> nodes + x, treeBase |-> trees,
                      symbolBase |-> symbols, outBase |-> base + y,
                      length |-> l, nodeCount |-> c], p) =
          [nodeBase |-> nodes + x + Len(p.nodes),
           treeBase |-> trees + Len(p.trees),
           symbolBase |-> symbols + Len(p.symbols),
           outBase |-> base + y + p.laneBytes, length |-> l, nodeCount |-> c]
    BY BlockMoves
  <2>4. /\ nodes + x + Len(p.nodes) = Len(p.nodes) + nodes + x
        /\ trees + Len(p.trees) = Len(p.trees) + trees
        /\ symbols + Len(p.symbols) = Len(p.symbols) + symbols
        /\ base + y + p.laneBytes = p.laneBytes + base + y
    <3>1. ASSUME NEW a \in Nat, NEW b \in Nat, NEW e \in Nat
          PROVE  a + b = b + a /\ a + b + e = e + a + b
      OBVIOUS
    <3>2. nodes + x + Len(p.nodes) = Len(p.nodes) + nodes + x
      <4>1. PICK w \in Nat : w = Len(p.nodes)
        BY <2>2
      <4>2. nodes + x + w = w + nodes + x
        BY <2>1
      <4> QED
        BY <4>1, <4>2, Zenon
    <3>3. trees + Len(p.trees) = Len(p.trees) + trees
      BY <2>2, <3>1
    <3>4. symbols + Len(p.symbols) = Len(p.symbols) + symbols
      BY <2>2, <3>1
    <3>5. base + y + p.laneBytes = p.laneBytes + base + y
      BY <2>1, <2>2, <3>1
    <3> QED
      BY <3>2, <3>3, <3>4, <3>5
  <2>5. ShiftedBlock([nodeBase |-> nodes + x, treeBase |-> trees,
                      symbolBase |-> symbols, outBase |-> base + y,
                      length |-> l, nodeCount |-> c], p) =
          [nodeBase |-> Len(p.nodes) + nodes + x,
           treeBase |-> Len(p.trees) + trees,
           symbolBase |-> Len(p.symbols) + symbols,
           outBase |-> p.laneBytes + base + y, length |-> l, nodeCount |-> c]
    BY <2>3, <2>4, Zenon
  <2> QED
    BY <2>5 DEF x, y, l, c
<1> HIDE DEF n
<1>3. ASSUME ~IsPfor(f, lane)
      PROVE  /\ NewBlocks(f, lane, base, nodes, trees, symbols) =
                  [k \in 1 .. n |-> Old(k)]
             /\ NewBlocks(f, lane, p.laneBytes + base, Len(p.nodes) + nodes,
                          Len(p.trees) + trees, Len(p.symbols) + symbols) =
                  [k \in 1 .. n |-> Now(k)]
  BY <1>3 DEF NewBlocks, LaneBlocks, n
<1> HIDE DEF Old, Now
<1>4. MovedBlocks([k \in 1 .. n |-> Old(k)], p) =
        [k \in 1 .. n |-> ShiftedBlock(Old(k), p)]
  BY DEF MovedBlocks
<1>5. [k \in 1 .. n |-> ShiftedBlock(Old(k), p)] = [k \in 1 .. n |-> Now(k)]
  BY <1>2
<1>6. CASE IsPfor(f, lane)
  BY <1>1, <1>6 DEF NewBlocks
<1>7. CASE ~IsPfor(f, lane)
  BY <1>3, <1>4, <1>5, <1>7
<1> QED
  BY <1>6, <1>7

-----------------------------------------------------------------------------
(* Appending to a merged plan                                              *)

\* Tasks that can be appended.
Tasks(s, t, n, b, l, j, y) ==
  /\ s \in Seq(Payloads) /\ t \in Seq(Payloads) /\ n \in Seq(TreeNodes)
  /\ b \in Seq(PivcoBlocks) /\ l \in Seq(LaneTasks) /\ j \in Seq(JoinTasks)
  /\ y \in Nat

\* A plan with tasks appended.
Appended(p, s, t, n, b, l, j, y) ==
  PivcoPlan(Cat(p.symbols, s), Cat(p.trees, t), Cat(p.nodes, n),
            Cat(p.pivcoBlocks, b), Cat(p.laneBlocks, l), Cat(p.joins, j), y)

\* It is a plan.
LEMMA AppendedPlan ==
  ASSUME NEW p \in PivcoPlans,
         NEW s, NEW t, NEW n, NEW b, NEW l, NEW j, NEW y,
         Tasks(s, t, n, b, l, j, y)
  PROVE  Appended(p, s, t, n, b, l, j, y) \in PivcoPlans
<1>0. /\ s \in Seq(Payloads) /\ t \in Seq(Payloads) /\ n \in Seq(TreeNodes)
      /\ b \in Seq(PivcoBlocks) /\ l \in Seq(LaneTasks)
      /\ j \in Seq(JoinTasks) /\ y \in Nat
  BY DEF Tasks
<1>1. Cat(p.symbols, s) \in Seq(Payloads) /\ Cat(p.trees, t) \in Seq(Payloads)
  BY <1>0, PivcoFields, CatType
<1>2. Cat(p.nodes, n) \in Seq(TreeNodes) /\ Cat(p.pivcoBlocks, b) \in Seq(PivcoBlocks)
  BY <1>0, PivcoFields, CatType
<1>3. Cat(p.laneBlocks, l) \in Seq(LaneTasks) /\ Cat(p.joins, j) \in Seq(JoinTasks)
  BY <1>0, PivcoFields, CatType
<1> QED
  BY <1>0, <1>1, <1>2, <1>3, IsPivcoPlan DEF Appended

\* The parts of a sequence of nodes or lane tasks move by themselves,
LEMMA OutConcat ==
  ASSUME NEW S, NEW s \in Seq(S), NEW t \in Seq(S), NEW d \in Nat,
         OutMoves(S, d)
  PROVE  MovedOut(Cat(s, t), d) = Cat(MovedOut(s, d), MovedOut(t, d))
BY MovedOutFacts

\* stay what they are,
LEMMA OutType ==
  ASSUME NEW S, NEW s \in Seq(S), NEW d \in Nat, OutMoves(S, d)
  PROVE  MovedOut(s, d) \in Seq(S)
BY MovedOutFacts

\* as those of joins
LEMMA BaseConcat ==
  ASSUME NEW s \in Seq(JoinTasks), NEW t \in Seq(JoinTasks), NEW d \in Nat
  PROVE  MovedBase(Cat(s, t), d) = Cat(MovedBase(s, d), MovedBase(t, d))
BY MovedBaseFacts, TasksMove

\* do,
LEMMA BaseType ==
  ASSUME NEW s \in Seq(JoinTasks), NEW d \in Nat
  PROVE  MovedBase(s, d) \in Seq(JoinTasks)
BY MovedBaseFacts, TasksMove

\* and those of blocks
LEMMA BlocksConcat ==
  ASSUME NEW s \in Seq(PivcoBlocks), NEW t \in Seq(PivcoBlocks),
         NEW p \in PivcoPlans
  PROVE  MovedBlocks(Cat(s, t), p) = Cat(MovedBlocks(s, p), MovedBlocks(t, p))
BY MovedBlocksFacts, BlocksMove

\* do too.
LEMMA BlocksType ==
  ASSUME NEW s \in Seq(PivcoBlocks), NEW p \in PivcoPlans
  PROVE  MovedBlocks(s, p) \in Seq(PivcoBlocks)
BY MovedBlocksFacts, BlocksMove

\* What is appended to the second of two plans is appended to the merged plan.
LEMMA MergeAppended ==
  ASSUME NEW p \in PivcoPlans, NEW q \in PivcoPlans,
         NEW s, NEW t, NEW n, NEW b, NEW l, NEW j, NEW y,
         Tasks(s, t, n, b, l, j, y)
  PROVE  MergePivco(p, Appended(q, s, t, n, b, l, j, y)) =
           Appended(MergePivco(p, q), s, t, MovedOut(n, p.laneBytes),
             MovedBlocks(b, p), MovedOut(l, p.laneBytes),
             MovedBase(j, p.laneBytes), p.laneBytes + y)
<1>0. /\ s \in Seq(Payloads) /\ t \in Seq(Payloads) /\ n \in Seq(TreeNodes)
      /\ b \in Seq(PivcoBlocks) /\ l \in Seq(LaneTasks)
      /\ j \in Seq(JoinTasks) /\ y \in Nat
  BY DEF Tasks
<1>1. PICK m : m = MergePivco(p, q)
  OBVIOUS
<1>2. PICK r : r = Appended(q, s, t, n, b, l, j, y)
  OBVIOUS
<1>3. PICK d : d = p.laneBytes
  OBVIOUS
<1>4. d \in Nat
  BY <1>3, PivcoFields
<1>5. PICK qn, qb, ql, qj :
        /\ qn = MovedOut(q.nodes, d) /\ qb = MovedBlocks(q.pivcoBlocks, p)
        /\ ql = MovedOut(q.laneBlocks, d) /\ qj = MovedBase(q.joins, d)
  OBVIOUS
<1>6. PICK n1, b1, l1, j1 :
        /\ n1 = MovedOut(n, d) /\ b1 = MovedBlocks(b, p)
        /\ l1 = MovedOut(l, d) /\ j1 = MovedBase(j, d)
  OBVIOUS
<1>7. /\ qn \in Seq(TreeNodes) /\ n1 \in Seq(TreeNodes)
      /\ MovedOut(Cat(q.nodes, n), d) = Cat(qn, n1)
  <2>1. q.nodes \in Seq(TreeNodes) /\ OutMoves(TreeNodes, d)
    BY <1>4, PivcoFields, TasksMove
  <2>2. qn \in Seq(TreeNodes) /\ n1 \in Seq(TreeNodes)
    BY <1>0, <1>4, <1>5, <1>6, <2>1, OutType
  <2>3. MovedOut(Cat(q.nodes, n), d) =
          Cat(MovedOut(q.nodes, d), MovedOut(n, d))
    BY <1>0, <1>4, <2>1, OutConcat
  <2> QED
    BY <1>5, <1>6, <2>2, <2>3
<1>8. /\ ql \in Seq(LaneTasks) /\ l1 \in Seq(LaneTasks)
      /\ MovedOut(Cat(q.laneBlocks, l), d) = Cat(ql, l1)
  <2>1. q.laneBlocks \in Seq(LaneTasks) /\ OutMoves(LaneTasks, d)
    BY <1>4, PivcoFields, TasksMove
  <2>2. ql \in Seq(LaneTasks) /\ l1 \in Seq(LaneTasks)
    BY <1>0, <1>4, <1>5, <1>6, <2>1, OutType
  <2>3. MovedOut(Cat(q.laneBlocks, l), d) =
          Cat(MovedOut(q.laneBlocks, d), MovedOut(l, d))
    BY <1>0, <1>4, <2>1, OutConcat
  <2> QED
    BY <1>5, <1>6, <2>2, <2>3
<1>9. /\ qb \in Seq(PivcoBlocks) /\ b1 \in Seq(PivcoBlocks)
      /\ MovedBlocks(Cat(q.pivcoBlocks, b), p) = Cat(qb, b1)
  BY <1>0, <1>5, <1>6, PivcoFields, BlocksType, BlocksConcat
<1>10. /\ qj \in Seq(JoinTasks) /\ j1 \in Seq(JoinTasks)
       /\ MovedBase(Cat(q.joins, j), d) = Cat(qj, j1)
  <2>1. q.joins \in Seq(JoinTasks)
    BY PivcoFields
  <2>2. qj \in Seq(JoinTasks) /\ j1 \in Seq(JoinTasks)
    BY <1>0, <1>4, <1>5, <1>6, <2>1, BaseType
  <2>3. MovedBase(Cat(q.joins, j), d) =
          Cat(MovedBase(q.joins, d), MovedBase(j, d))
    BY <1>0, <1>4, <2>1, BaseConcat
  <2> QED
    BY <1>5, <1>6, <2>2, <2>3
<1>11. /\ r.symbols = Cat(q.symbols, s) /\ r.trees = Cat(q.trees, t)
       /\ r.nodes = Cat(q.nodes, n) /\ r.pivcoBlocks = Cat(q.pivcoBlocks, b)
       /\ r.laneBlocks = Cat(q.laneBlocks, l) /\ r.joins = Cat(q.joins, j)
       /\ r.laneBytes = y
  BY <1>2 DEF Appended, PivcoPlan
<1>12. r \in PivcoPlans
  BY <1>2, AppendedPlan
<1>13. MergePivco(p, r) =
         PivcoPlan(Cat(p.symbols, Cat(q.symbols, s)), Cat(p.trees, Cat(q.trees, t)),
           Cat(p.nodes, Cat(qn, n1)), Cat(p.pivcoBlocks, Cat(qb, b1)),
           Cat(p.laneBlocks, Cat(ql, l1)), Cat(p.joins, Cat(qj, j1)), d + y)
  <2>1. MergePivco(p, r) =
          PivcoPlan(Cat(p.symbols, r.symbols), Cat(p.trees, r.trees),
            Cat(p.nodes, MovedOut(r.nodes, d)),
            Cat(p.pivcoBlocks, MovedBlocks(r.pivcoBlocks, p)),
            Cat(p.laneBlocks, MovedOut(r.laneBlocks, d)),
            Cat(p.joins, MovedBase(r.joins, d)), d + r.laneBytes)
    BY <1>3, <1>12, MergeFields
  <2> QED
    BY <1>7, <1>8, <1>9, <1>10, <1>11, <2>1
<1>14. m = PivcoPlan(Cat(p.symbols, q.symbols), Cat(p.trees, q.trees),
              Cat(p.nodes, qn), Cat(p.pivcoBlocks, qb), Cat(p.laneBlocks, ql),
              Cat(p.joins, qj), d + q.laneBytes)
  BY <1>1, <1>3, <1>5, MergeFields
<1>15. /\ m.symbols = Cat(p.symbols, q.symbols) /\ m.trees = Cat(p.trees, q.trees)
       /\ m.nodes = Cat(p.nodes, qn) /\ m.pivcoBlocks = Cat(p.pivcoBlocks, qb)
       /\ m.laneBlocks = Cat(p.laneBlocks, ql) /\ m.joins = Cat(p.joins, qj)
  BY <1>14 DEF PivcoPlan
<1>16. /\ Cat(Cat(p.symbols, q.symbols), s) = Cat(p.symbols, Cat(q.symbols, s))
       /\ Cat(Cat(p.trees, q.trees), t) = Cat(p.trees, Cat(q.trees, t))
  BY <1>0, PivcoFields, CatAssociative
<1>17. Cat(Cat(p.nodes, qn), n1) = Cat(p.nodes, Cat(qn, n1))
  BY <1>7, PivcoFields, CatAssociative
<1>18. Cat(Cat(p.pivcoBlocks, qb), b1) = Cat(p.pivcoBlocks, Cat(qb, b1))
  BY <1>9, PivcoFields, CatAssociative
<1>19. Cat(Cat(p.laneBlocks, ql), l1) = Cat(p.laneBlocks, Cat(ql, l1))
  BY <1>8, PivcoFields, CatAssociative
<1>20. Cat(Cat(p.joins, qj), j1) = Cat(p.joins, Cat(qj, j1))
  BY <1>10, PivcoFields, CatAssociative
<1>21. Appended(m, s, t, n1, b1, l1, j1, d + y) =
         PivcoPlan(Cat(Cat(p.symbols, q.symbols), s), Cat(Cat(p.trees, q.trees), t),
           Cat(Cat(p.nodes, qn), n1), Cat(Cat(p.pivcoBlocks, qb), b1),
           Cat(Cat(p.laneBlocks, ql), l1), Cat(Cat(p.joins, qj), j1), d + y)
  BY <1>15 DEF Appended
<1>22. MergePivco(p, r) = Appended(m, s, t, n1, b1, l1, j1, d + y)
  BY <1>13, <1>16, <1>17, <1>18, <1>19, <1>20, <1>21
<1> QED
  BY <1>1, <1>2, <1>3, <1>6, <1>22

\* A lane appends its tasks.
LEMMA LaneAppends ==
  ASSUME NEW p \in PivcoPlans, NEW f, FrameOk(f),
         NEW lane \in 1 .. Len(f.lanes), NEW base,
         base = LaneStart(f, lane, p.laneBytes)
  PROVE  Lane(p, f, lane) =
           Appended(p, NewSymbols(f, lane), NewTrees(f, lane),
             NewNodes(f, lane, base),
             NewBlocks(f, lane, base, Len(p.nodes), Len(p.trees),
                       Len(p.symbols)),
             NewTasks(f, lane, base), <<>>, p.laneBytes)
<1>1. Cat(p.joins, <<>>) = p.joins
  BY PivcoFields, CatEmpty
<1>2. Lane(p, f, lane) = WithLane(p, f, lane)
  BY LaneAdds
<1>3. WithLane(p, f, lane) =
        PivcoPlan(Cat(p.symbols, NewSymbols(f, lane)),
          Cat(p.trees, NewTrees(f, lane)), Cat(p.nodes, NewNodes(f, lane, base)),
          Cat(p.pivcoBlocks, NewBlocks(f, lane, base, Len(p.nodes),
                                       Len(p.trees), Len(p.symbols))),
          Cat(p.laneBlocks, NewTasks(f, lane, base)), p.joins, p.laneBytes)
  BY DEF WithLane, PivcoPlan, Cat
<1> QED
  BY <1>1, <1>2, <1>3 DEF Appended

\* The lengths and the bytes of a merged plan.
LEMMA MergeLengths ==
  ASSUME NEW p \in PivcoPlans, NEW q \in PivcoPlans
  PROVE  LET m == MergePivco(p, q) IN
         /\ m \in PivcoPlans
         /\ Len(m.symbols) = Len(p.symbols) + Len(q.symbols)
         /\ Len(m.trees) = Len(p.trees) + Len(q.trees)
         /\ Len(m.nodes) = Len(p.nodes) + Len(q.nodes)
         /\ m.laneBytes = p.laneBytes + q.laneBytes
<1>1. PICK m : m = MergePivco(p, q)
  OBVIOUS
<1>2. PICK qn : qn = MovedOut(q.nodes, p.laneBytes)
  OBVIOUS
<1>3. qn \in Seq(TreeNodes) /\ Len(qn) = Len(q.nodes)
  BY <1>2, PivcoFields, TasksMove, MovedOutFacts
<1>4. /\ m.symbols = Cat(p.symbols, q.symbols) /\ m.trees = Cat(p.trees, q.trees)
      /\ m.nodes = Cat(p.nodes, qn) /\ m.laneBytes = p.laneBytes + q.laneBytes
  <2>1. m = PivcoPlan(Cat(p.symbols, q.symbols), Cat(p.trees, q.trees),
              Cat(p.nodes, qn),
              Cat(p.pivcoBlocks, MovedBlocks(q.pivcoBlocks, p)),
              Cat(p.laneBlocks, MovedOut(q.laneBlocks, p.laneBytes)),
              Cat(p.joins, MovedBase(q.joins, p.laneBytes)),
              p.laneBytes + q.laneBytes)
    BY <1>1, <1>2, MergeFields
  <2> QED
    BY <2>1 DEF PivcoPlan
<1>5. /\ Len(Cat(p.symbols, q.symbols)) = Len(p.symbols) + Len(q.symbols)
      /\ Len(Cat(p.trees, q.trees)) = Len(p.trees) + Len(q.trees)
      /\ Len(Cat(p.nodes, qn)) = Len(p.nodes) + Len(qn)
  BY <1>3, PivcoFields, CatLen
<1>6. m \in PivcoPlans
  BY <1>1, MergeFields
<1> QED
  BY <1>1, <1>3, <1>4, <1>5, <1>6

\* A lane of a part becomes the lane of the merged plan.
LEMMA MergeLane ==
  ASSUME NEW p \in PivcoPlans, NEW q \in PivcoPlans, NEW f, FrameOk(f),
         NEW lane \in 1 .. Len(f.lanes)
  PROVE  MergePivco(p, Lane(q, f, lane)) = Lane(MergePivco(p, q), f, lane)
<1>1. PICK m : m = MergePivco(p, q)
  OBVIOUS
<1>2. PICK d \in Nat, y \in Nat, ns \in Nat, ts \in Nat, ss \in Nat :
        /\ d = p.laneBytes /\ y = q.laneBytes
        /\ ns = Len(q.nodes) /\ ts = Len(q.trees) /\ ss = Len(q.symbols)
  BY PivcoFields
<1>3. /\ m \in PivcoPlans /\ m.laneBytes = d + y
      /\ Len(m.symbols) = Len(p.symbols) + ss
      /\ Len(m.trees) = Len(p.trees) + ts /\ Len(m.nodes) = Len(p.nodes) + ns
  BY <1>1, <1>2, MergeLengths
<1>4. PICK base \in Nat : base = LaneStart(f, lane, y)
  BY <1>2, LaneStartFacts
<1>5. PICK start : start = d + base
  OBVIOUS
<1>6. LaneStart(f, lane, m.laneBytes) = start
  <2>1. LaneStart(f, lane, d + y) = d + LaneStart(f, lane, y)
    BY LaneStartFacts
  <2> QED
    BY <1>3, <1>4, <1>5, <2>1
<1>7. PICK s, t, n, b, l :
        /\ s = NewSymbols(f, lane) /\ t = NewTrees(f, lane)
        /\ n = NewNodes(f, lane, base)
        /\ b = NewBlocks(f, lane, base, ns, ts, ss)
        /\ l = NewTasks(f, lane, base)
  OBVIOUS
<1>8. /\ s \in Seq(Payloads) /\ t \in Seq(Payloads) /\ n \in Seq(TreeNodes)
      /\ b \in Seq(PivcoBlocks) /\ l \in Seq(LaneTasks)
  BY <1>7, NewTypes
<1>9. /\ MovedOut(n, d) = NewNodes(f, lane, start)
      /\ MovedOut(l, d) = NewTasks(f, lane, start)
  BY <1>5, <1>7, NewMoves
<1>10. MovedBlocks(b, p) = NewBlocks(f, lane, start, Len(m.nodes),
                                     Len(m.trees), Len(m.symbols))
  <2>1. MovedBlocks(NewBlocks(f, lane, base, ns, ts, ss), p) =
          NewBlocks(f, lane, p.laneBytes + base, Len(p.nodes) + ns,
                    Len(p.trees) + ts, Len(p.symbols) + ss)
    BY NewBlocksMove
  <2> QED
    BY <1>2, <1>3, <1>5, <1>7, <2>1
<1>11. Lane(q, f, lane) = Appended(q, s, t, n, b, l, <<>>, y)
  BY <1>2, <1>4, <1>7, LaneAppends
<1>12. MergePivco(p, Lane(q, f, lane)) =
         Appended(m, s, t, MovedOut(n, d), MovedBlocks(b, p), MovedOut(l, d),
                  MovedBase(<<>>, d), m.laneBytes)
  <2>1. PICK j \in Seq(JoinTasks) : j = <<>>
    BY EmptySeq
  <2>2. MergePivco(p, Appended(q, s, t, n, b, l, j, y)) =
          Appended(MergePivco(p, q), s, t, MovedOut(n, p.laneBytes),
            MovedBlocks(b, p), MovedOut(l, p.laneBytes),
            MovedBase(j, p.laneBytes), p.laneBytes + y)
    <3>1. Tasks(s, t, n, b, l, j, y)
      BY <1>8, <2>1 DEF Tasks
    <3> QED
      BY <3>1, MergeAppended
  <2> QED
    BY <1>1, <1>2, <1>3, <1>11, <2>1, <2>2
<1>13. MovedBase(<<>>, d) = <<>>
  BY DEF MovedBase
<1>14. Lane(m, f, lane) =
         Appended(m, s, t, NewNodes(f, lane, start),
           NewBlocks(f, lane, start, Len(m.nodes), Len(m.trees),
                     Len(m.symbols)),
           NewTasks(f, lane, start), <<>>, m.laneBytes)
  BY <1>3, <1>6, <1>7, LaneAppends
<1> QED
  BY <1>1, <1>9, <1>10, <1>12, <1>13, <1>14

-----------------------------------------------------------------------------
(* All lanes of a frame                                                    *)

\* A plan with the lanes of a frame, one after the other.
LEMMA LanesComputed ==
  ASSUME NEW p \in PivcoPlans, NEW f, FrameOk(f)
  PROVE  \E plan \in [0 .. Len(f.lanes) -> PivcoPlans] :
           /\ plan[0] = p
           /\ \A n \in 1 .. Len(f.lanes) : plan[n] = Lane(plan[n - 1], f, n)
           /\ Lanes(p, f) = plan[Len(f.lanes)]
<1> DEFINE N == Len(f.lanes)
           Is(u) == u = [n \in 0 .. N |->
                           IF n = 0 THEN p ELSE Lane(u[n - 1], f, n)]
           v == CHOOSE u : Is(u)
           step == [n \in 1 .. N |-> [q \in PivcoPlans |-> Lane(q, f, n)]]
<1>1. N \in Nat
  BY FrameFacts
<1>2. Steps(step, PivcoPlans, N)
  <2>1. \A n \in 1 .. N : \A q \in PivcoPlans : Lane(q, f, n) \in PivcoPlans
    BY LaneAdds
  <2> QED
    BY <2>1 DEF Steps
<1>3. \A n \in 1 .. N : \A q \in PivcoPlans : step[n][q] = Lane(q, f, n)
  OBVIOUS
<1> HIDE DEF step
<1>4. PICK u : Computes(u, PivcoPlans, N, p, step)
  BY <1>1, <1>2, Recursion
<1>5. /\ u \in [0 .. N -> PivcoPlans] /\ u[0] = p
      /\ \A n \in 1 .. N : u[n] = Lane(u[n - 1], f, n)
  <2>1. /\ u \in [0 .. N -> PivcoPlans] /\ u[0] = p
        /\ \A n \in 1 .. N : u[n] = step[n][u[n - 1]]
    BY <1>4 DEF Computes
  <2>2. ASSUME NEW n \in 1 .. N PROVE u[n] = Lane(u[n - 1], f, n)
    <3>1. n - 1 \in 0 .. N
      BY <1>1
    <3>2. u[n - 1] \in PivcoPlans
      BY <2>1, <3>1
    <3> QED
      BY <1>3, <2>1, <3>2
  <2> QED
    BY <2>1, <2>2
<1> HIDE DEF N
<1>6. Is(u)
  <2>1. ASSUME NEW n \in 0 .. N
        PROVE  u[n] = IF n = 0 THEN p ELSE Lane(u[n - 1], f, n)
    <3>1. n = 0 \/ n \in 1 .. N
      BY <1>1
    <3> QED
      BY <1>5, <3>1
  <2>2. u = [n \in 0 .. N |-> u[n]]
    BY <1>5
  <2> QED
    BY <2>1, <2>2
<1>7. Is(v)
  BY <1>6
<1>8. Lanes(p, f) = v[N]
  BY DEF Lanes, N
<1>9. \A n \in 0 .. N : v[n] = IF n = 0 THEN p ELSE Lane(v[n - 1], f, n)
  BY <1>7
<1> HIDE DEF v
<1>10. v[0] = p /\ \A n \in 1 .. N : v[n] = Lane(v[n - 1], f, n)
  BY <1>1, <1>9
<1>11. \A n \in 0 .. N : v[n] \in PivcoPlans
  <2>1. ASSUME NEW n \in 1 .. N, v[n - 1] \in PivcoPlans
        PROVE  v[n] \in PivcoPlans
    BY <1>10, <2>1, LaneAdds DEF N
  <2> QED
    BY <1>1, <1>10, <2>1, StaysIn
<1>12. v \in [0 .. N -> PivcoPlans]
  <2>1. v = [n \in 0 .. N |-> IF n = 0 THEN p ELSE Lane(v[n - 1], f, n)]
    BY <1>7
  <2> QED
    BY <1>11, <2>1
<1> QED
  BY <1>8, <1>10, <1>12 DEF N

\* What holds at first and carries over from each number to the next.
LEMMA CarriesOver ==
  ASSUME NEW n \in Nat, NEW T, 0 \in T, \A k \in 1 .. n : k - 1 \in T => k \in T
  PROVE  \A k \in 0 .. n : k \in T
<1> DEFINE U == {k \in 0 .. n : k \notin T}
<1> SUFFICES ASSUME U # {} PROVE FALSE
  OBVIOUS
<1>1. PICK k \in U : \A j \in U : k <= j
  BY U \subseteq Nat, LeastNumber
<1>2. k # 0 /\ k \in 0 .. n /\ k \notin T
  OBVIOUS
<1>3. k \in 1 .. n /\ k - 1 \in 0 .. n /\ k - 1 \notin U
  BY <1>1, <1>2
<1> QED
  BY <1>2, <1>3

\* The lanes of a part become the lanes of the merged plan.
LEMMA MergeLanes ==
  ASSUME NEW p \in PivcoPlans, NEW q \in PivcoPlans, NEW f, FrameOk(f)
  PROVE  /\ MergePivco(p, Lanes(q, f)) = Lanes(MergePivco(p, q), f)
         /\ Lanes(q, f) \in PivcoPlans /\ Lanes(q, f).laneBytes = q.laneBytes
<1>1. PICK m \in PivcoPlans : m = MergePivco(p, q)
  BY MergeFields
<1>2. PICK N \in Nat : N = Len(f.lanes)
  BY FrameFacts
<1>3. PICK u \in [0 .. N -> PivcoPlans] :
        /\ u[0] = q /\ \A n \in 1 .. N : u[n] = Lane(u[n - 1], f, n)
        /\ Lanes(q, f) = u[N]
  BY <1>2, LanesComputed
<1>4. PICK v \in [0 .. N -> PivcoPlans] :
        /\ v[0] = m /\ \A n \in 1 .. N : v[n] = Lane(v[n - 1], f, n)
        /\ Lanes(m, f) = v[N]
  BY <1>2, LanesComputed
<1> DEFINE T == {n \in 0 .. N : /\ v[n] = MergePivco(p, u[n])
                                /\ u[n].laneBytes = q.laneBytes}
<1>5. 0 \in T
  BY <1>1, <1>3, <1>4
<1>6. ASSUME NEW n \in 1 .. N, n - 1 \in T PROVE n \in T
  <2>1. n - 1 \in 0 .. N /\ n \in 0 .. N /\ n \in 1 .. Len(f.lanes)
    BY <1>2
  <2>2. PICK x \in PivcoPlans, z \in PivcoPlans : x = u[n - 1] /\ z = v[n - 1]
    BY <2>1
  <2>3. z = MergePivco(p, x) /\ x.laneBytes = q.laneBytes
    BY <1>6, <2>2
  <2>4. u[n] = Lane(x, f, n) /\ v[n] = Lane(z, f, n)
    BY <1>3, <1>4, <2>2
  <2>5. MergePivco(p, Lane(x, f, n)) = Lane(z, f, n)
    BY <2>1, <2>3, MergeLane
  <2>6. Lane(x, f, n).laneBytes = x.laneBytes
    BY <2>1, LaneAdds DEF WithLane
  <2> QED
    BY <2>1, <2>3, <2>4, <2>5, <2>6
<1> HIDE DEF T
<1>7. N \in T
  <2>1. \A k \in 0 .. N : k \in T
    BY <1>5, <1>6, CarriesOver
  <2> QED
    BY <2>1
<1> QED
  BY <1>1, <1>3, <1>4, <1>7 DEF T

\* A plan with more joins and other lane bytes.
With(p, j, y) ==
  PivcoPlan(p.symbols, p.trees, p.nodes, p.pivcoBlocks, p.laneBlocks,
            Cat(p.joins, j), y)

\* It is a plan with nothing else appended.
LEMMA WithAppends ==
  ASSUME NEW p \in PivcoPlans, NEW j, NEW y
  PROVE  With(p, j, y) = Appended(p, <<>>, <<>>, <<>>, <<>>, <<>>, j, y)
<1>1. /\ Cat(p.symbols, <<>>) = p.symbols /\ Cat(p.trees, <<>>) = p.trees
      /\ Cat(p.nodes, <<>>) = p.nodes
      /\ Cat(p.pivcoBlocks, <<>>) = p.pivcoBlocks
      /\ Cat(p.laneBlocks, <<>>) = p.laneBlocks
  BY PivcoFields, CatEmpty
<1> QED
  BY <1>1 DEF With, Appended

\* When it is the second of two plans.
LEMMA MergeWith ==
  ASSUME NEW p \in PivcoPlans, NEW q \in PivcoPlans,
         NEW j \in Seq(JoinTasks), NEW y \in Nat
  PROVE  /\ MergePivco(p, With(q, j, y)) =
              With(MergePivco(p, q), MovedBase(j, p.laneBytes), p.laneBytes + y)
         /\ With(q, j, y) \in PivcoPlans
<1>1. PICK m \in PivcoPlans : m = MergePivco(p, q)
  BY MergeFields
<1>2. /\ <<>> \in Seq(Payloads) /\ <<>> \in Seq(TreeNodes)
      /\ <<>> \in Seq(PivcoBlocks) /\ <<>> \in Seq(LaneTasks)
  BY EmptySeq
<1>3. PICK e : e = <<>>
  OBVIOUS
<1>4. Tasks(e, e, e, e, e, j, y)
  BY <1>2, <1>3 DEF Tasks
<1>5. MergePivco(p, Appended(q, e, e, e, e, e, j, y)) =
        Appended(m, e, e, MovedOut(e, p.laneBytes), MovedBlocks(e, p),
                 MovedOut(e, p.laneBytes), MovedBase(j, p.laneBytes),
                 p.laneBytes + y)
  BY <1>1, <1>4, MergeAppended
<1>6. MovedOut(e, p.laneBytes) = e /\ MovedBlocks(e, p) = e
  BY <1>3 DEF MovedOut, MovedBlocks
<1>7. With(q, j, y) = Appended(q, e, e, e, e, e, j, y)
  BY <1>3, WithAppends
<1>8. With(m, MovedBase(j, p.laneBytes), p.laneBytes + y) =
        Appended(m, e, e, e, e, e, MovedBase(j, p.laneBytes), p.laneBytes + y)
  BY <1>3, WithAppends
<1>9. With(q, j, y) \in PivcoPlans
  BY <1>4, <1>7, AppendedPlan
<1> QED
  BY <1>1, <1>5, <1>6, <1>7, <1>8, <1>9

\* The joins of a frame are tasks, and move with the plan.
LEMMA JoinsFacts ==
  ASSUME NEW p \in PivcoPlans, NEW q \in PivcoPlans, NEW f, FrameOk(f),
         NEW m, m.laneBytes = p.laneBytes + q.laneBytes
  PROVE  /\ Joins(q, f) \in Seq(JoinTasks)
         /\ MovedBase(Joins(q, f), p.laneBytes) = Joins(m, f)
<1>1. PICK d \in Nat, y \in Nat : d = p.laneBytes /\ y = q.laneBytes
  BY PivcoFields
<1>2. /\ f.count \in Nat \ {0} /\ f.out \in Nat /\ f.planar \in BOOLEAN
      /\ JoinSamples \in Nat \ {0}
  BY FrameFacts, GpuPlanAssumption
<1>3. PICK n \in Nat : n = CeilDiv(f.count, JoinSamples)
  BY <1>2, CeilDivFacts
<1>4. PICK stride \in Nat : stride = LaneStride(f)
  BY StrideFacts
<1> DEFINE Task(g, base) ==
             [laneBase |-> base, stride |-> stride, count |-> f.count,
              output |-> f.out, start |-> (g - 1) * JoinSamples,
              transform |-> f.planar]
<1>5. /\ Joins(q, f) = [g \in 1 .. n |-> Task(g, y)]
      /\ Joins(m, f) = [g \in 1 .. n |-> Task(g, d + y)]
  BY <1>1, <1>3, <1>4 DEF Joins
<1>6. ASSUME NEW g \in 1 .. n
      PROVE  /\ Task(g, y) \in JoinTasks
             /\ [Task(g, y) EXCEPT !.laneBase = @ + d] = Task(g, d + y)
  <2>1. PICK start \in Nat : start = (g - 1) * JoinSamples
    BY <1>2, ProductNat
  <2>2. Task(g, y) \in JoinTasks
    BY <1>2, <2>1 DEF JoinTasks
  <2>3. [[laneBase |-> y, stride |-> stride, count |-> f.count,
          output |-> f.out, start |-> start, transform |-> f.planar]
           EXCEPT !.laneBase = @ + d] =
          [laneBase |-> y + d, stride |-> stride, count |-> f.count,
           output |-> f.out, start |-> start, transform |-> f.planar]
    OBVIOUS
  <2>4. y + d = d + y
    OBVIOUS
  <2> QED
    BY <2>1, <2>2, <2>3, <2>4
<1> HIDE DEF Task
<1>7. [g \in 1 .. n |-> Task(g, y)] \in [1 .. n -> JoinTasks]
  BY <1>6
<1>8. Joins(q, f) \in Seq(JoinTasks)
  BY <1>5, <1>7, FunctionIsSeq
<1>9. MovedBase([g \in 1 .. n |-> Task(g, y)], d) =
        [g \in 1 .. n |-> [Task(g, y) EXCEPT !.laneBase = @ + d]]
  BY DEF MovedBase
<1>10. [g \in 1 .. n |-> [Task(g, y) EXCEPT !.laneBase = @ + d]] =
         [g \in 1 .. n |-> Task(g, d + y)]
  BY <1>6
<1> QED
  BY <1>1, <1>5, <1>8, <1>9, <1>10

\* The bytes that a frame takes.
FrameBytes(f) == Len(f.lanes) * LaneStride(f)

\* They are a number.
LEMMA FrameBytesNat ==
  ASSUME NEW f, FrameOk(f)
  PROVE  FrameBytes(f) \in Nat
<1>1. Len(f.lanes) \in Nat /\ LaneStride(f) \in Nat
  BY FrameFacts, StrideFacts
<1> QED
  BY <1>1 DEF FrameBytes

\* A plan with a frame: the joins, the lanes, and the bytes.
LEMMA FrameParts ==
  ASSUME NEW p \in PivcoPlans, NEW f, FrameOk(f)
  PROVE  LET r == Lanes(With(p, Joins(p, f), p.laneBytes), f) IN
         /\ PivcoFrame(p, f) = With(r, <<>>, p.laneBytes + FrameBytes(f))
         /\ r \in PivcoPlans /\ r.laneBytes = p.laneBytes
         /\ PivcoFrame(p, f) \in PivcoPlans
         /\ PivcoFrame(p, f).laneBytes = p.laneBytes + FrameBytes(f)
<1>1. PICK y \in Nat : y = p.laneBytes
  BY PivcoFields
<1>2. PICK j \in Seq(JoinTasks) : j = Joins(p, f)
  <2>1. PICK e \in PivcoPlans : e.laneBytes = 0
    BY EmptyFacts DEF EmptyPivco
  <2>2. p.laneBytes = e.laneBytes + p.laneBytes
    BY <1>1, <2>1
  <2>3. Joins(p, f) \in Seq(JoinTasks)
    BY <2>2, JoinsFacts
  <2> QED
    BY <2>3
<1>3. PICK q \in PivcoPlans : q = With(p, j, y)
  BY MergeWith
<1>4. PICK r \in PivcoPlans : r = Lanes(q, f)
  BY MergeLanes
<1>5. r.laneBytes = y
  <2>1. q.laneBytes = y
    BY <1>3 DEF With, PivcoPlan
  <2> QED
    BY <1>4, <2>1, MergeLanes
<1>6. PICK w \in Nat : w = FrameBytes(f)
  BY FrameBytesNat
<1>7. [p EXCEPT !.joins = @ \o Joins(p, f)] = q
  <2>1. [p EXCEPT !.joins = Cat(p.joins, j)] =
          PivcoPlan(p.symbols, p.trees, p.nodes, p.pivcoBlocks, p.laneBlocks,
                    Cat(p.joins, j), y)
    <3>1. p = PivcoPlan(p.symbols, p.trees, p.nodes, p.pivcoBlocks,
                        p.laneBlocks, p.joins, y)
      BY <1>1, PivcoFields
    <3>2. [PivcoPlan(p.symbols, p.trees, p.nodes, p.pivcoBlocks, p.laneBlocks,
                     p.joins, y) EXCEPT !.joins = Cat(p.joins, j)] =
            PivcoPlan(p.symbols, p.trees, p.nodes, p.pivcoBlocks, p.laneBlocks,
                      Cat(p.joins, j), y)
      BY DEF PivcoPlan
    <3> QED
      BY <3>1, <3>2
  <2>2. [p EXCEPT !.joins = @ \o Joins(p, f)] = [p EXCEPT !.joins = Cat(p.joins, j)]
    BY <1>2 DEF Cat
  <2> QED
    BY <1>3, <2>1, <2>2 DEF With
<1>8. [r EXCEPT !.laneBytes = @ + w] = With(r, <<>>, y + w)
  <2>1. Cat(r.joins, <<>>) = r.joins
    BY PivcoFields, CatEmpty
  <2>2. [r EXCEPT !.laneBytes = y + w] =
          PivcoPlan(r.symbols, r.trees, r.nodes, r.pivcoBlocks, r.laneBlocks,
                    r.joins, y + w)
    <3>1. r = PivcoPlan(r.symbols, r.trees, r.nodes, r.pivcoBlocks,
                        r.laneBlocks, r.joins, y)
      BY <1>5, PivcoFields
    <3>2. [PivcoPlan(r.symbols, r.trees, r.nodes, r.pivcoBlocks, r.laneBlocks,
                     r.joins, y) EXCEPT !.laneBytes = y + w] =
            PivcoPlan(r.symbols, r.trees, r.nodes, r.pivcoBlocks, r.laneBlocks,
                      r.joins, y + w)
      BY DEF PivcoPlan
    <3> QED
      BY <3>1, <3>2
  <2>3. [r EXCEPT !.laneBytes = @ + w] = [r EXCEPT !.laneBytes = y + w]
    BY <1>5
  <2> QED
    BY <2>1, <2>2, <2>3 DEF With
<1>9. PivcoFrame(p, f) = With(r, <<>>, y + w)
  BY <1>4, <1>6, <1>7, <1>8 DEF PivcoFrame, FrameBytes
<1>10. With(r, <<>>, y + w) \in PivcoPlans
  <2>1. <<>> \in Seq(JoinTasks) /\ y + w \in Nat
    BY EmptySeq
  <2> QED
    BY <2>1, MergeWith
<1>11. With(r, <<>>, y + w).laneBytes = y + w
  BY DEF With, PivcoPlan
<1> QED
  BY <1>1, <1>2, <1>3, <1>4, <1>5, <1>6, <1>9, <1>10, <1>11

\* A frame of a part becomes the frame of the merged plan.
LEMMA MergeFrame ==
  ASSUME NEW p \in PivcoPlans, NEW q \in PivcoPlans, NEW f, FrameOk(f)
  PROVE  MergePivco(p, PivcoFrame(q, f)) = PivcoFrame(MergePivco(p, q), f)
<1>1. PICK m \in PivcoPlans : m = MergePivco(p, q)
  BY MergeFields
<1>2. PICK d \in Nat, y \in Nat, w \in Nat :
        d = p.laneBytes /\ y = q.laneBytes /\ w = FrameBytes(f)
  BY PivcoFields, FrameBytesNat
<1>3. m.laneBytes = d + y
  BY <1>1, <1>2, MergeLengths
<1>4. PICK j \in Seq(JoinTasks) : j = Joins(q, f) /\ MovedBase(j, d) = Joins(m, f)
  BY <1>2, <1>3, JoinsFacts
<1>5. PICK x \in PivcoPlans : x = With(q, j, y)
  BY MergeWith
<1>6. MergePivco(p, x) = With(m, Joins(m, f), d + y)
  BY <1>1, <1>2, <1>4, <1>5, MergeWith
<1>7. PICK r \in PivcoPlans : r = Lanes(x, f)
  BY MergeLanes
<1>8. MergePivco(p, r) = Lanes(With(m, Joins(m, f), d + y), f)
  BY <1>6, <1>7, MergeLanes
<1>9. PivcoFrame(q, f) = With(r, <<>>, y + w)
  BY <1>2, <1>4, <1>5, <1>7, FrameParts
<1>10. PivcoFrame(m, f) = With(MergePivco(p, r), <<>>, (d + y) + w)
  BY <1>2, <1>3, <1>8, FrameParts
<1>11. MergePivco(p, With(r, <<>>, y + w)) =
         With(MergePivco(p, r), <<>>, d + (y + w))
  <2>1. PICK e \in Seq(JoinTasks) : e = <<>>
    BY EmptySeq
  <2>2. PICK z \in Nat : z = y + w
    OBVIOUS
  <2>3. MergePivco(p, With(r, e, z)) =
          With(MergePivco(p, r), MovedBase(e, d), d + z)
    BY <1>2, MergeWith
  <2>4. MovedBase(e, d) = e
    BY <2>1 DEF MovedBase
  <2> QED
    BY <2>1, <2>2, <2>3, <2>4
<1>12. (d + y) + w = d + (y + w)
  OBVIOUS
<1> QED
  BY <1>1, <1>9, <1>10, <1>11, <1>12

-----------------------------------------------------------------------------
(* Plans of either codec                                                   *)

\* The tasks of a PFOR frame decode something.
LEMMA PforTasksType ==
  ASSUME NEW f, FrameOk(f)
  PROVE  PforTasks(f) \in Seq(PforBlocks)
<1>1. /\ f.id \in Nat /\ f.count \in Nat \ {0} /\ f.out \in Nat
      /\ f.planar \in BOOLEAN /\ Block \in Nat \ {0}
  BY FrameFacts, GpuPlanAssumption
<1>2. PICK n \in Nat : n = CeilDiv(f.count, Block)
  BY <1>1, CeilDivFacts
<1> DEFINE Task(k) ==
             [payload |-> <<f.id, 1, k>>, output |-> f.out + (k - 1) * Block,
              count |-> IF k * Block <= f.count THEN Block
                        ELSE f.count - (k - 1) * Block, transform |-> f.planar]
<1>3. PforTasks(f) = [k \in 1 .. n |-> Task(k)]
  BY <1>2 DEF PforTasks
<1>4. ASSUME NEW k \in 1 .. n PROVE Task(k) \in PforBlocks
  <2>1. PICK a \in Nat : a = (k - 1) * Block /\ a < f.count
    BY <1>1, <1>2, CeilDivFacts
  <2>2. PICK b \in Nat \ {0} : b = IF k * Block <= f.count THEN Block
                                   ELSE f.count - a
    BY <1>1, <2>1
  <2>3. <<f.id, 1, k>> \in Payloads /\ f.out + a \in Nat
    BY <1>1, <1>2, <2>1 DEF Payloads
  <2> QED
    BY <1>1, <2>1, <2>2, <2>3 DEF PforBlocks
<1> HIDE DEF Task
<1>5. [k \in 1 .. n |-> Task(k)] \in [1 .. n -> PforBlocks]
  BY <1>4
<1> QED
  BY <1>3, <1>5, FunctionIsSeq

\* PFOR plans are merged and extended in the same way.
LEMMA PforLaws ==
  ASSUME NEW p \in PforPlans, NEW q \in PforPlans, NEW f, FrameOk(f)
  PROVE  /\ MergePfor(p, q) \in PforPlans
         /\ PforFrame(q, f) \in PforPlans
         /\ MergePfor(p, EmptyPfor) = p
         /\ MergePfor(p, PforFrame(q, f)) = PforFrame(MergePfor(p, q), f)
<1>1. PICK a \in Seq(PforBlocks), b \in Seq(PforBlocks) :
        p = [blocks |-> a] /\ q = [blocks |-> b]
  BY DEF PforPlans
<1>2. PICK t \in Seq(PforBlocks) : t = PforTasks(f)
  BY PforTasksType
<1>3. MergePfor(p, q) = [blocks |-> Cat(a, b)]
  BY <1>1 DEF MergePfor, Cat
<1>4. PforFrame(q, f) = [blocks |-> Cat(b, t)]
  <2>1. [q EXCEPT !.blocks = @ \o t] = [q EXCEPT !.blocks = Cat(b, t)]
    BY <1>1 DEF Cat
  <2>2. [[blocks |-> b] EXCEPT !.blocks = Cat(b, t)] = [blocks |-> Cat(b, t)]
    OBVIOUS
  <2> QED
    BY <1>1, <1>2, <2>1, <2>2 DEF PforFrame
<1>5. MergePfor(p, PforFrame(q, f)) = [blocks |-> Cat(a, Cat(b, t))]
  <2>1. PICK x : x = PforFrame(q, f)
    OBVIOUS
  <2>2. x.blocks = Cat(b, t)
    BY <1>4, <2>1
  <2>3. MergePfor(p, x) = [blocks |-> Cat(a, x.blocks)]
    BY <1>1 DEF MergePfor, Cat
  <2> QED
    BY <2>1, <2>2, <2>3
<1>6. PforFrame(MergePfor(p, q), f) = [blocks |-> Cat(Cat(a, b), t)]
  <2>1. PICK m : m = MergePfor(p, q)
    OBVIOUS
  <2>2. m = [blocks |-> Cat(a, b)] /\ m.blocks = Cat(a, b)
    BY <1>3, <2>1
  <2>3. [m EXCEPT !.blocks = @ \o t] = [m EXCEPT !.blocks = m.blocks \o t]
    OBVIOUS
  <2>4. m.blocks \o t = Cat(Cat(a, b), t)
    BY <2>2 DEF Cat
  <2>5. [[blocks |-> Cat(a, b)] EXCEPT !.blocks = Cat(Cat(a, b), t)] =
          [blocks |-> Cat(Cat(a, b), t)]
    OBVIOUS
  <2> QED
    BY <1>2, <2>1, <2>2, <2>3, <2>4, <2>5 DEF PforFrame
<1>7. MergePfor(p, EmptyPfor) = [blocks |-> Cat(a, <<>>)]
  BY <1>1 DEF MergePfor, EmptyPfor, Cat
<1>8. Cat(a, <<>>) = a /\ Cat(Cat(a, b), t) = Cat(a, Cat(b, t))
  BY CatEmpty, CatAssociative
<1>9. Cat(a, b) \in Seq(PforBlocks) /\ Cat(b, t) \in Seq(PforBlocks)
  BY CatType
<1>10. MergePfor(p, q) \in PforPlans /\ PforFrame(q, f) \in PforPlans
  BY <1>3, <1>4, <1>9 DEF PforPlans
<1> QED
  BY <1>1, <1>5, <1>6, <1>7, <1>8, <1>10

\* Two plans of a codec in a row.
MergeOf(c, p, q) == IF c = "pfor" THEN MergePfor(p, q) ELSE MergePivco(p, q)

\* Plans of a codec are merged into plans, with no effect of one that is empty.
LEMMA MergeLaws ==
  ASSUME NEW c \in Codecs, NEW p \in Plans(c), NEW q \in Plans(c)
  PROVE  /\ Empty(c) \in Plans(c) /\ MergeOf(c, p, q) \in Plans(c)
         /\ MergeOf(c, p, Empty(c)) = p
<1>1. CASE c = "pfor"
  <2>1. p \in PforPlans /\ q \in PforPlans /\ Empty(c) = EmptyPfor
    BY <1>1 DEF Plans, Empty
  <2>2. MergePfor(p, q) \in PforPlans
    BY <2>1 DEF MergePfor, PforPlans
  <2>3. MergePfor(p, EmptyPfor) = p
    <3>1. PICK a \in Seq(PforBlocks) : p = [blocks |-> a]
      BY <2>1 DEF PforPlans
    <3>2. a \o <<>> = a
      BY ConcatEmptySeq
    <3> QED
      BY <3>1, <3>2 DEF MergePfor, EmptyPfor
  <2> QED
    BY <1>1, <2>1, <2>2, <2>3, EmptyFacts DEF Plans, MergeOf
<1>2. CASE c = "pivco"
  <2>1. p \in PivcoPlans /\ q \in PivcoPlans /\ Empty(c) = EmptyPivco
    BY <1>2 DEF Plans, Empty
  <2>2. MergePivco(p, q) \in PivcoPlans /\ MergePivco(p, EmptyPivco) = p
    BY <2>1, MergeFields, MergeEmpty
  <2> QED
    BY <1>2, <2>1, <2>2, EmptyFacts DEF Plans, MergeOf
<1> QED
  BY <1>1, <1>2 DEF Codecs

\* A frame of a part becomes the frame of the merged plan.
LEMMA FrameLaws ==
  ASSUME NEW c \in Codecs, NEW p \in Plans(c), NEW q \in Plans(c),
         NEW f, FrameOk(f)
  PROVE  /\ WithFrame(c, q, f) \in Plans(c)
         /\ MergeOf(c, p, WithFrame(c, q, f)) =
              WithFrame(c, MergeOf(c, p, q), f)
<1>1. CASE c = "pfor"
  <2>1. p \in PforPlans /\ q \in PforPlans
    BY <1>1 DEF Plans
  <2>2. /\ PforFrame(q, f) \in PforPlans
        /\ MergePfor(p, PforFrame(q, f)) = PforFrame(MergePfor(p, q), f)
    BY <2>1, PforLaws
  <2> QED
    BY <1>1, <2>2 DEF Plans, MergeOf, WithFrame
<1>2. CASE c = "pivco"
  <2>1. p \in PivcoPlans /\ q \in PivcoPlans
    BY <1>2 DEF Plans
  <2>2. /\ PivcoFrame(q, f) \in PivcoPlans
        /\ MergePivco(p, PivcoFrame(q, f)) = PivcoFrame(MergePivco(p, q), f)
    BY <2>1, FrameParts, MergeFrame
  <2> QED
    BY <1>2, <2>2 DEF Plans, MergeOf, WithFrame
<1> QED
  BY <1>1, <1>2 DEF Codecs

-----------------------------------------------------------------------------
(* Ranges of a batch                                                       *)

\* The plans of the first frames of a batch.
IsChain(c, fs, plan) ==
  /\ plan \in [0 .. Len(fs) -> Plans(c)]
  /\ plan[0] = Empty(c)
  /\ \A n \in 1 .. Len(fs) : plan[n] = WithFrame(c, plan[n - 1], fs[n])

\* The last of them is the plan of the batch.
LEMMA UnpaddedComputed ==
  ASSUME NEW c \in Codecs, NEW fs, Frames(fs)
  PROVE  \E plan : IsChain(c, fs, plan) /\ Unpadded(c, fs) = plan[Len(fs)]
<1> DEFINE N == Len(fs)
           Is(u) == u = [n \in 0 .. N |->
                           IF n = 0 THEN Empty(c)
                           ELSE WithFrame(c, u[n - 1], fs[n])]
           v == CHOOSE u : Is(u)
           step == [n \in 1 .. N |->
                      [q \in Plans(c) |-> WithFrame(c, q, fs[n])]]
<1>1. N \in Nat /\ \A n \in 1 .. N : FrameOk(fs[n])
  BY DEF Frames
<1>2. /\ Empty(c) \in Plans(c)
      /\ \A n \in 1 .. N : \A q \in Plans(c) : WithFrame(c, q, fs[n]) \in Plans(c)
  <2>1. Empty(c) \in Plans(c)
    BY EmptyFacts DEF Empty, Plans
  <2> QED
    BY <1>1, <2>1, FrameLaws
<1>3. Steps(step, Plans(c), N)
  BY <1>2 DEF Steps
<1>4. \A n \in 1 .. N : \A q \in Plans(c) : step[n][q] = WithFrame(c, q, fs[n])
  OBVIOUS
<1> HIDE DEF step, N
<1>5. PICK u : Computes(u, Plans(c), N, Empty(c), step)
  BY <1>1, <1>2, <1>3, Recursion
<1>6. /\ u \in [0 .. N -> Plans(c)] /\ u[0] = Empty(c)
      /\ \A n \in 1 .. N : u[n] = WithFrame(c, u[n - 1], fs[n])
  <2>1. /\ u \in [0 .. N -> Plans(c)] /\ u[0] = Empty(c)
        /\ \A n \in 1 .. N : u[n] = step[n][u[n - 1]]
    BY <1>5 DEF Computes
  <2>2. ASSUME NEW n \in 1 .. N PROVE u[n] = WithFrame(c, u[n - 1], fs[n])
    <3>1. n - 1 \in 0 .. N
      BY <1>1
    <3>2. u[n - 1] \in Plans(c)
      BY <2>1, <3>1
    <3> QED
      BY <1>4, <2>1, <3>2
  <2> QED
    BY <2>1, <2>2
<1>7. Is(u)
  <2>1. ASSUME NEW n \in 0 .. N
        PROVE  u[n] = IF n = 0 THEN Empty(c) ELSE WithFrame(c, u[n - 1], fs[n])
    <3>1. n = 0 \/ n \in 1 .. N
      BY <1>1
    <3> QED
      BY <1>6, <3>1
  <2>2. u = [n \in 0 .. N |-> u[n]]
    BY <1>6
  <2> QED
    BY <2>1, <2>2
<1>8. Is(v)
  BY <1>7
<1>9. Unpadded(c, fs) = v[N]
  BY DEF Unpadded, N
<1>10. \A n \in 0 .. N : v[n] = IF n = 0 THEN Empty(c)
                                ELSE WithFrame(c, v[n - 1], fs[n])
  BY <1>8
<1>11. v = [n \in 0 .. N |-> v[n]]
  BY <1>8
<1> HIDE DEF v
<1>12. /\ v[0] = Empty(c)
       /\ \A n \in 1 .. N : v[n] = WithFrame(c, v[n - 1], fs[n])
  BY <1>1, <1>10
<1>13. \A n \in 0 .. N : v[n] \in Plans(c)
  <2>1. ASSUME NEW n \in 1 .. N, v[n - 1] \in Plans(c)
        PROVE  v[n] \in Plans(c)
    BY <1>2, <1>12, <2>1
  <2> QED
    BY <1>1, <1>2, <1>12, <2>1, StaysIn
<1>14. v \in [0 .. N -> Plans(c)]
  BY <1>11, <1>13
<1> QED
  BY <1>9, <1>12, <1>14 DEF N, IsChain

\* Frames in a row.
Between(fs, a, n) == SubSeq(fs, a + 1, a + n)

\* They are frames of the batch.
LEMMA BetweenFacts ==
  ASSUME NEW fs, Frames(fs), NEW a \in Nat, NEW n \in Nat, a + n <= Len(fs)
  PROVE  /\ Frames(Between(fs, a, n)) /\ Len(Between(fs, a, n)) = n
         /\ \A k \in 1 .. n : Between(fs, a, n)[k] = fs[a + k]
<1>1. Len(fs) \in Nat /\ \A i \in 1 .. Len(fs) : FrameOk(fs[i])
  BY DEF Frames
<1>2. PICK S : S = {fs[i] : i \in 1 .. Len(fs)}
  OBVIOUS
<1>3. \A i \in a + 1 .. a + n : fs[i] \in S
  BY <1>1, <1>2
<1>4. a + 1 \in Int /\ a + n \in Int
  OBVIOUS
<1>5. PICK b : b = Between(fs, a, n)
  OBVIOUS
<1>6. /\ b \in Seq(S)
      /\ Len(b) = IF a + 1 <= a + n THEN a + n - (a + 1) + 1 ELSE 0
      /\ \A i \in 1 .. a + n - (a + 1) + 1 : b[i] = fs[a + 1 + i - 1]
  BY <1>3, <1>4, <1>5, SubSeqProperties DEF Between
<1>7. Len(b) = n
  BY <1>6
<1>8. ASSUME NEW k \in 1 .. n PROVE b[k] = fs[a + k] /\ FrameOk(b[k])
  <2>1. k \in 1 .. a + n - (a + 1) + 1 /\ a + 1 + k - 1 = a + k
    OBVIOUS
  <2>2. a + k \in 1 .. Len(fs)
    BY <1>1
  <2> QED
    BY <1>1, <1>6, <2>1, <2>2
<1>9. DOMAIN b = 1 .. n
  BY <1>6, <1>7, LenProperties
<1> QED
  BY <1>5, <1>7, <1>8, <1>9 DEF Frames

\* Behind the plan of the frames in front of them, the plan of frames in a row
\* is the plan up to the last of them.
LEMMA ChainMerges ==
  ASSUME NEW c \in Codecs, NEW fs, Frames(fs), NEW plan, IsChain(c, fs, plan),
         NEW a \in Nat, NEW n \in Nat, a + n <= Len(fs)
  PROVE  LET q == Unpadded(c, Between(fs, a, n)) IN
         /\ q \in Plans(c) /\ MergeOf(c, plan[a], q) = plan[a + n]
<1>1. PICK b : b = Between(fs, a, n)
  OBVIOUS
<1>2. /\ Frames(b) /\ Len(b) = n /\ \A k \in 1 .. n : b[k] = fs[a + k]
  BY <1>1, BetweenFacts
<1>3. PICK chain : IsChain(c, b, chain) /\ Unpadded(c, b) = chain[n]
  BY <1>2, UnpaddedComputed
<1>4. /\ chain \in [0 .. n -> Plans(c)] /\ chain[0] = Empty(c)
      /\ \A k \in 1 .. n : chain[k] = WithFrame(c, chain[k - 1], b[k])
  BY <1>2, <1>3 DEF IsChain
<1>5. /\ plan \in [0 .. Len(fs) -> Plans(c)] /\ Len(fs) \in Nat
      /\ \A k \in 1 .. Len(fs) : plan[k] = WithFrame(c, plan[k - 1], fs[k])
  BY DEF IsChain, Frames
<1>6. PICK p \in Plans(c) : p = plan[a]
  BY <1>5
<1> DEFINE T == {k \in 0 .. n : MergeOf(c, p, chain[k]) = plan[a + k]}
<1>7. 0 \in T
  <2>1. MergeOf(c, p, Empty(c)) = p
    BY MergeLaws
  <2> QED
    BY <1>4, <1>6, <2>1
<1>8. ASSUME NEW k \in 1 .. n, k - 1 \in T PROVE k \in T
  <2>1. /\ k - 1 \in 0 .. n /\ a + k \in 1 .. Len(fs) /\ k \in 0 .. n
        /\ a + k - 1 = a + (k - 1)
    BY <1>5
  <2>2. PICK q \in Plans(c) : q = chain[k - 1]
    BY <1>4, <2>1
  <2>3. plan[a + k] = WithFrame(c, MergeOf(c, p, q), fs[a + k])
    BY <1>5, <1>8, <2>1, <2>2
  <2>4. FrameOk(fs[a + k])
    BY <2>1 DEF Frames
  <2>5. MergeOf(c, p, WithFrame(c, q, fs[a + k])) =
          WithFrame(c, MergeOf(c, p, q), fs[a + k])
    BY <2>4, FrameLaws
  <2> QED
    BY <1>2, <1>4, <2>1, <2>2, <2>3, <2>5
<1> HIDE DEF T
<1>9. n \in T
  <2>1. \A k \in 0 .. n : k \in T
    BY <1>7, <1>8, CarriesOver
  <2> QED
    BY <2>1
<1>10. chain[n] \in Plans(c)
  BY <1>4
<1> QED
  BY <1>1, <1>3, <1>6, <1>9, <1>10 DEF T

\* Parts in a row: each leads from the plan up to a place to the next place.
InRow(fs, plan, plans, N, cut) ==
  /\ Len(plans) = N /\ cut \in [0 .. N -> 0 .. Len(fs)] /\ cut[0] = 0
  /\ \A i \in 1 .. N :
       MergeOf(codec, plan[cut[i - 1]], plans[i]) = plan[cut[i]]

\* They merge into the plan up to the last place.
LEMMA MergedComputed ==
  ASSUME codec \in Codecs, NEW fs, Frames(fs), NEW plan,
         IsChain(codec, fs, plan), NEW plans, NEW N \in Nat, NEW cut,
         InRow(fs, plan, plans, N, cut)
  PROVE  Merged(plans) = WithPadding(codec, plan[cut[N]])
<1> DEFINE Is(u) == u = [n \in 0 .. N |->
                           IF n = 0 THEN Empty(codec)
                           ELSE MergeTwo(u[n - 1], plans[n])]
           v == CHOOSE u : Is(u)
           w == [n \in 0 .. N |-> plan[cut[n]]]
<1> USE DEF InRow
<1>1. plan[0] = Empty(codec)
  BY DEF IsChain
<1>2. \A i \in 1 .. N : MergeTwo(plan[cut[i - 1]], plans[i]) = plan[cut[i]]
  BY DEF MergeTwo, MergeOf
<1>3. Is(w)
  <2>1. ASSUME NEW n \in 0 .. N
        PROVE  w[n] = IF n = 0 THEN Empty(codec)
                      ELSE MergeTwo(w[n - 1], plans[n])
    <3>1. CASE n = 0
      BY <1>1, <3>1
    <3>2. CASE n # 0
      <4>1. n \in 1 .. N /\ n - 1 \in 0 .. N
        BY <3>2
      <4>2. w[n] = plan[cut[n]] /\ w[n - 1] = plan[cut[n - 1]]
        BY <4>1
      <4> HIDE DEF w
      <4> QED
        BY <1>2, <3>2, <4>1, <4>2
    <3> QED
      BY <3>1, <3>2
  <2>2. w = [n \in 0 .. N |-> w[n]]
    OBVIOUS
  <2> HIDE DEF w
  <2> QED
    BY <2>1, <2>2
<1> HIDE DEF w
<1>4. Is(v)
  BY <1>3
<1>5. Merged(plans) = WithPadding(codec, v[N])
  BY DEF Merged
<1>6. \A n \in 0 .. N : v[n] = IF n = 0 THEN Empty(codec)
                               ELSE MergeTwo(v[n - 1], plans[n])
  BY <1>4
<1> HIDE DEF v
<1> DEFINE T == {n \in 0 .. N : v[n] = plan[cut[n]]}
<1>7. 0 \in T
  BY <1>1, <1>6
<1>8. ASSUME NEW k \in 1 .. N, k - 1 \in T PROVE k \in T
  <2>1. k \in 0 .. N /\ k # 0
    OBVIOUS
  <2> QED
    BY <1>2, <1>6, <1>8, <2>1
<1> HIDE DEF T
<1>9. N \in T
  <2>1. \A k \in 0 .. N : k \in T
    BY <1>7, <1>8, CarriesOver
  <2> QED
    BY <2>1
<1> QED
  BY <1>5, <1>9 DEF T

-----------------------------------------------------------------------------
(* Padding                                                                 *)

\* What is at most every number of a set of numbers is its least number.
LEMMA MinIs ==
  ASSUME NEW S, S \subseteq Int, NEW x \in S, \A y \in S : x <= y
  PROVE  Min(S) = x
<1>1. Min(S) \in S /\ \A y \in S : Min(S) <= y
  BY DEF Min
<1>2. Min(S) \in Int /\ x \in Int /\ Min(S) <= x /\ x <= Min(S)
  BY <1>1
<1> QED
  BY <1>2

\* A sequence up to the last element that is not in D.
Cut(t, D) ==
  SubSeq(t, 1, Min({k \in 0 .. Len(t) : \A i \in k + 1 .. Len(t) : t[i] \in D}))

\* Padding is cut off where it starts.
LEMMA CutsPadding ==
  ASSUME NEW S, NEW s \in Seq(S), NEW n \in Nat, n = Len(s),
         NEW m \in Nat, n <= m, NEW D, NEW t, Len(t) = m,
         \A i \in 1 .. n : t[i] = s[i] /\ t[i] \notin D,
         \A i \in n + 1 .. m : t[i] \in D
  PROVE  Cut(t, D) = s
<1>1. Len(t) = m
  OBVIOUS
<1>2. \A i \in 1 .. n : t[i] = s[i] /\ t[i] \notin D
  OBVIOUS
<1>3. \A i \in n + 1 .. m : t[i] \in D
  OBVIOUS
<1> DEFINE K == {k \in 0 .. Len(t) : \A i \in k + 1 .. Len(t) : t[i] \in D}
<1>4. n \in K
  BY <1>1, <1>3
<1>5. ASSUME NEW k \in K PROVE n <= k
  <2> SUFFICES ASSUME k < n PROVE FALSE
    BY <1>1
  <2>1. n \in k + 1 .. Len(t) /\ n \in 1 .. n
    BY <1>1
  <2>2. t[n] \in D
    BY <2>1
  <2> QED
    BY <1>2, <2>1, <2>2
<1>6. K \subseteq Int
  BY <1>1
<1> HIDE DEF K
<1>7. Min(K) = n
  BY <1>4, <1>5, <1>6, MinIs
<1>8. SubSeq(t, 1, n) = s
  <2>1. \A i \in 1 .. n : t[i] \in S
    BY <1>2
  <2>2. /\ SubSeq(t, 1, n) \in Seq(S)
        /\ Len(SubSeq(t, 1, n)) = IF 1 <= n THEN n - 1 + 1 ELSE 0
        /\ \A i \in 1 .. n - 1 + 1 : SubSeq(t, 1, n)[i] = t[1 + i - 1]
    BY <2>1, SubSeqProperties
  <2>3. PICK b \in Seq(S) : b = SubSeq(t, 1, n)
    BY <2>2
  <2>4. Len(b) = n
    BY <2>2, <2>3
  <2>5. ASSUME NEW i \in 1 .. n PROVE b[i] = s[i]
    <3>1. i \in 1 .. n - 1 + 1 /\ 1 + i - 1 = i
      OBVIOUS
    <3> QED
      BY <1>2, <2>2, <2>3, <3>1
  <2>6. b = s
    BY <2>4, <2>5, SeqEqual
  <2> QED
    BY <2>3, <2>6
<1> QED
  BY <1>7, <1>8 DEF K, Cut

\* A padded PFOR plan without its padding is the plan.
LEMMA PforTrims ==
  ASSUME codec = "pfor", NEW p \in PforPlans
  PROVE  Trimmed(PforPadded(p)) = p
<1>1. PICK s \in Seq(PforBlocks) : p = [blocks |-> s]
  BY DEF PforPlans
<1>2. PICK n \in Nat : n = Len(s)
  BY LenProperties
<1>3. PICK m \in Nat : m = CeilDiv(n, WavesPerGroup) * WavesPerGroup /\ n <= m
  <2>1. WavesPerGroup \in Nat \ {0}
    BY GpuPlanAssumption
  <2>2. CeilDiv(n, WavesPerGroup) \in Nat
        /\ n <= CeilDiv(n, WavesPerGroup) * WavesPerGroup
    BY <2>1, CeilDivFacts
  <2>3. CeilDiv(n, WavesPerGroup) * WavesPerGroup \in Nat
    BY <2>1, <2>2
  <2> QED
    BY <2>2, <2>3
<1>4. PICK x : x = PforPadding(p)
  OBVIOUS
<1>5. PICK t : t = [i \in 1 .. m |-> IF i <= n THEN s[i] ELSE x]
  OBVIOUS
<1>6. PforPadded(p) = [blocks |-> t]
  <2>1. p.blocks = s
    BY <1>1
  <2>2. PforPadded(p) = [p EXCEPT !.blocks = t]
    BY <1>2, <1>3, <1>4, <1>5, <2>1 DEF PforPadded
  <2>3. [[blocks |-> s] EXCEPT !.blocks = t] = [blocks |-> t]
    OBVIOUS
  <2> QED
    BY <1>1, <2>2, <2>3
<1>7. Len(t) = m
  <2>1. t \in [1 .. m -> {t[i] : i \in 1 .. m}]
    BY <1>5
  <2> QED
    BY <2>1, FunctionIsSeq
<1> DEFINE D == {t[i] : i \in {j \in 1 .. m : t[j].count = 0}}
<1>8. \A i \in 1 .. m : t[i] \in D <=> t[i].count = 0
  OBVIOUS
<1>9. \A i \in 1 .. n : t[i] = s[i] /\ t[i] \notin D
  <2>1. ASSUME NEW i \in 1 .. n PROVE s[i].count # 0
    <3>1. s[i] \in PforBlocks
      BY <1>2
    <3> QED
      BY <3>1 DEF PforBlocks
  <2>2. \A i \in 1 .. n : t[i] = s[i] /\ i \in 1 .. m
    BY <1>3, <1>5
  <2> QED
    BY <1>8, <2>1, <2>2
<1>10. \A i \in n + 1 .. m : t[i] \in D
  <2>1. \A i \in n + 1 .. m : t[i] = x /\ i \in 1 .. m
    BY <1>5
  <2>2. x.count = 0
    BY <1>4 DEF PforPadding
  <2> QED
    BY <1>8, <2>1, <2>2
<1> HIDE DEF D
<1>11. Cut(t, D) = s
  BY <1>2, <1>3, <1>7, <1>9, <1>10, CutsPadding
<1>12. {k \in 0 .. Len(t) : \A i \in k + 1 .. Len(t) : t[i] \in D} =
         {k \in 0 .. Len(t) : \A i \in k + 1 .. Len(t) : t[i].count = 0}
  <2>1. ASSUME NEW k \in 0 .. Len(t)
        PROVE  (\A i \in k + 1 .. Len(t) : t[i] \in D) <=>
                 (\A i \in k + 1 .. Len(t) : t[i].count = 0)
    <3>1. \A i \in k + 1 .. Len(t) : i \in 1 .. m
      BY <1>7
    <3> QED
      BY <1>8, <3>1
  <2> QED
    BY <2>1
<1>13. Trimmed([blocks |-> t]) =
         [[blocks |-> t] EXCEPT !.blocks =
            SubSeq(t, 1, Min({k \in 0 .. Len(t) :
                                \A i \in k + 1 .. Len(t) : t[i].count = 0}))]
  BY DEF Trimmed, Without
<1>14. [[blocks |-> t] EXCEPT !.blocks = s] = [blocks |-> s]
  OBVIOUS
<1> QED
  BY <1>1, <1>6, <1>11, <1>12, <1>13, <1>14 DEF Cut

\* The tasks of a sequence end below a bound.
Under(s, bound) == \A i \in 1 .. Len(s) : s[i].output < bound

\* A padded PivCo plan without its padding is the plan, if its tasks lie within
\* its lanes.
LEMMA PivcoTrims ==
  ASSUME codec = "pivco", NEW p \in PivcoPlans, Under(p.laneBlocks, p.laneBytes)
  PROVE  Trimmed(PivcoPadded(p)) = p
<1>1. PICK s \in Seq(LaneTasks), y \in Nat : s = p.laneBlocks /\ y = p.laneBytes
  BY PivcoFields
<1>2. PICK n \in Nat : n = Len(s)
  BY LenProperties
<1>3. PICK m \in Nat : m = CeilDiv(n, WavesPerGroup) * WavesPerGroup /\ n <= m
  <2>1. WavesPerGroup \in Nat \ {0}
    BY GpuPlanAssumption
  <2>2. CeilDiv(n, WavesPerGroup) \in Nat
        /\ n <= CeilDiv(n, WavesPerGroup) * WavesPerGroup
    BY <2>1, CeilDivFacts
  <2>3. CeilDiv(n, WavesPerGroup) * WavesPerGroup \in Nat
    BY <2>1, <2>2
  <2> QED
    BY <2>2, <2>3
<1>4. PICK x : x = PivcoPadding(p)
  OBVIOUS
<1>5. PICK t : t = [i \in 1 .. m |-> IF i <= n THEN s[i] ELSE x]
  OBVIOUS
<1>6. PICK q : q = PivcoPlan(p.symbols, p.trees, p.nodes, p.pivcoBlocks, t,
                             p.joins, y)
  OBVIOUS
<1>7. PivcoPadded(p) = q
  <2>1. PivcoPadded(p) = [p EXCEPT !.laneBlocks = t]
    BY <1>1, <1>2, <1>3, <1>4, <1>5 DEF PivcoPadded
  <2>2. p = PivcoPlan(p.symbols, p.trees, p.nodes, p.pivcoBlocks, s, p.joins, y)
    BY <1>1, PivcoFields
  <2>3. [PivcoPlan(p.symbols, p.trees, p.nodes, p.pivcoBlocks, s, p.joins, y)
           EXCEPT !.laneBlocks = t] = q
    BY <1>6 DEF PivcoPlan
  <2> QED
    BY <2>1, <2>2, <2>3
<1>8. Len(t) = m
  <2>1. t \in [1 .. m -> {t[i] : i \in 1 .. m}]
    BY <1>5
  <2> QED
    BY <2>1, FunctionIsSeq
<1> DEFINE D == {t[i] : i \in {j \in 1 .. m : t[j].output = y}}
<1>9. \A i \in 1 .. m : t[i] \in D <=> t[i].output = y
  OBVIOUS
<1>10. \A i \in 1 .. n : t[i] = s[i] /\ t[i] \notin D
  <2>1. ASSUME NEW i \in 1 .. n PROVE s[i].output # y
    <3>1. s[i].output < y
      BY <1>1, <1>2 DEF Under
    <3>2. s[i].output \in Nat
      <4>1. s[i] \in LaneTasks
        BY <1>2
      <4> QED
        BY <4>1 DEF LaneTasks
    <3> QED
      BY <3>1, <3>2
  <2>2. \A i \in 1 .. n : t[i] = s[i] /\ i \in 1 .. m
    BY <1>3, <1>5
  <2> QED
    BY <1>9, <2>1, <2>2
<1>11. \A i \in n + 1 .. m : t[i] \in D
  <2>1. \A i \in n + 1 .. m : t[i] = x /\ i \in 1 .. m
    BY <1>5
  <2>2. x.output = y
    BY <1>1, <1>4 DEF PivcoPadding
  <2> QED
    BY <1>9, <2>1, <2>2
<1> HIDE DEF D
<1>12. Cut(t, D) = s
  BY <1>2, <1>3, <1>8, <1>10, <1>11, CutsPadding
<1>13. {k \in 0 .. Len(t) : \A i \in k + 1 .. Len(t) : t[i] \in D} =
         {k \in 0 .. Len(t) : \A i \in k + 1 .. Len(t) : t[i].output = y}
  <2>1. ASSUME NEW k \in 0 .. Len(t)
        PROVE  (\A i \in k + 1 .. Len(t) : t[i] \in D) <=>
                 (\A i \in k + 1 .. Len(t) : t[i].output = y)
    <3>1. \A i \in k + 1 .. Len(t) : i \in 1 .. m
      BY <1>8
    <3> QED
      BY <1>9, <3>1
  <2> QED
    BY <2>1
<1>14. q.laneBlocks = t /\ q.laneBytes = y
  BY <1>6 DEF PivcoPlan
<1>15. Trimmed(q) =
         [q EXCEPT !.laneBlocks =
            SubSeq(t, 1, Min({k \in 0 .. Len(t) :
                                \A i \in k + 1 .. Len(t) : t[i].output = y}))]
  BY <1>14 DEF Trimmed, Without
<1>16. [q EXCEPT !.laneBlocks = s] = p
  <2>1. [PivcoPlan(p.symbols, p.trees, p.nodes, p.pivcoBlocks, t, p.joins, y)
           EXCEPT !.laneBlocks = s] =
          PivcoPlan(p.symbols, p.trees, p.nodes, p.pivcoBlocks, s, p.joins, y)
    BY DEF PivcoPlan
  <2> QED
    BY <1>1, <1>6, <2>1, PivcoFields
<1> QED
  BY <1>7, <1>12, <1>13, <1>15, <1>16 DEF Cut

-----------------------------------------------------------------------------
(* The lanes of a plan                                                     *)

\* Sequences of tasks below a bound make one that is below it.
LEMMA CatUnder ==
  ASSUME NEW a \in Seq(LaneTasks), NEW b \in Seq(LaneTasks),
         NEW x \in Nat, NEW y \in Nat, x <= y, Under(a, x), Under(b, y)
  PROVE  Under(Cat(a, b), y)
<1>1. /\ Len(a) \in Nat /\ Len(b) \in Nat
      /\ Len(a \o b) = Len(a) + Len(b)
      /\ \A i \in 1 .. Len(a) + Len(b) :
           (a \o b)[i] = IF i <= Len(a) THEN a[i] ELSE b[i - Len(a)]
  BY ConcatProperties, LenProperties
<1>2. PICK c : c = a \o b
  OBVIOUS
<1>3. ASSUME NEW i \in 1 .. Len(a) + Len(b) PROVE c[i].output < y
  <2>1. CASE i <= Len(a)
    <3>1. i \in 1 .. Len(a) /\ c[i] = a[i]
      BY <1>1, <1>2, <2>1
    <3>2. a[i].output < x /\ a[i] \in LaneTasks
      BY <3>1 DEF Under
    <3>3. a[i].output \in Nat
      BY <3>2 DEF LaneTasks
    <3> QED
      BY <3>1, <3>2, <3>3
  <2>2. CASE ~(i <= Len(a))
    <3>1. i - Len(a) \in 1 .. Len(b) /\ c[i] = b[i - Len(a)]
      BY <1>1, <1>2, <2>2
    <3> QED
      BY <3>1 DEF Under
  <2> QED
    BY <2>1, <2>2
<1> QED
  BY <1>1, <1>2, <1>3 DEF Under, Cat

\* A lane writes within its stride.
LEMMA LaneUnder ==
  ASSUME NEW p \in PivcoPlans, NEW f, FrameOk(f),
         NEW lane \in 1 .. Len(f.lanes),
         NEW y \in Nat, y = p.laneBytes,
         Under(p.laneBlocks, y + (lane - 1) * LaneStride(f))
  PROVE  Under(Lane(p, f, lane).laneBlocks, y + lane * LaneStride(f))
<1>1. PICK stride \in Nat : stride = LaneStride(f) /\ f.count <= stride
  BY StrideFacts
<1>2. f.count \in Nat /\ Block \in Nat \ {0} /\ lane \in Nat \ {0}
  BY FrameFacts, GpuPlanAssumption
<1>3. PICK base \in Nat : base = y + (lane - 1) * stride
  <2>1. (lane - 1) * stride \in Nat
    BY <1>2, ProductNat
  <2> QED
    BY <2>1
<1>4. PICK top \in Nat : top = y + lane * stride
  <2>1. lane * stride \in Nat
    BY <1>2
  <2> QED
    BY <2>1
<1>5. top = base + stride
  <2>1. lane * stride = (lane - 1) * stride + stride
    BY <1>2
  <2> QED
    BY <1>2, <1>3, <1>4, <2>1
<1>6. LaneStart(f, lane, y) = base
  BY <1>1, <1>3 DEF LaneStart
<1>7. Lane(p, f, lane).laneBlocks = Cat(p.laneBlocks, NewTasks(f, lane, base))
  <2>1. Lane(p, f, lane) = WithLane(p, f, lane)
    BY LaneAdds
  <2>2. PICK z : z = LaneStart(f, lane, p.laneBytes)
    OBVIOUS
  <2>3. WithLane(p, f, lane).laneBlocks = p.laneBlocks \o NewTasks(f, lane, z)
    BY <2>2 DEF WithLane
  <2>4. z = base
    BY <1>6, <2>2
  <2> QED
    BY <2>1, <2>3, <2>4 DEF Cat
<1>8. NewTasks(f, lane, base) \in Seq(LaneTasks)
  <2>1. 0 \in Nat
    OBVIOUS
  <2> QED
    BY <2>1, NewTypes
<1>9. Under(NewTasks(f, lane, base), top)
  <2>1. CASE IsPfor(f, lane)
    <3>1. PICK n \in Nat : n = CeilDiv(f.count, Block)
      BY <1>2, CeilDivFacts
    <3>2. PICK t : t = NewTasks(f, lane, base)
      OBVIOUS
    <3>3. t = [k \in 1 .. n |-> [payload |-> <<f.id, lane, k>>,
                                 output |-> base + (k - 1) * Block]]
      BY <2>1, <3>1, <3>2 DEF NewTasks
    <3>4. Len(t) = n
      <4>1. DOMAIN t = 1 .. n
        BY <3>3
      <4>2. DOMAIN t = 1 .. Len(t) /\ Len(t) \in Nat
        BY <1>8, <3>2, LenProperties
      <4> QED
        BY <4>1, <4>2
    <3>5. ASSUME NEW k \in 1 .. n PROVE t[k].output < top
      <4>1. PICK a \in Nat : a = (k - 1) * Block /\ a < f.count
        BY <1>2, <3>1, CeilDivFacts
      <4>2. t[k].output = base + a
        BY <3>3, <4>1
      <4> QED
        BY <1>1, <1>2, <1>5, <4>1, <4>2
    <3> QED
      BY <3>2, <3>4, <3>5 DEF Under
  <2>2. CASE ~IsPfor(f, lane)
    <3>1. NewTasks(f, lane, base) = <<>>
      BY <2>2 DEF NewTasks
    <3> QED
      BY <3>1, EmptySeq DEF Under
  <2> QED
    BY <2>1, <2>2
<1>10. Under(p.laneBlocks, base)
  BY <1>1, <1>3
<1>11. Under(Cat(p.laneBlocks, NewTasks(f, lane, base)), top)
  <2>1. p.laneBlocks \in Seq(LaneTasks) /\ base <= top
    BY <1>5, PivcoFields
  <2> QED
    BY <1>8, <1>9, <1>10, <2>1, CatUnder
<1> QED
  BY <1>1, <1>4, <1>7, <1>11

\* The lanes of a frame write within the bytes of the frame.
LEMMA FrameUnder ==
  ASSUME NEW p \in PivcoPlans, NEW f, FrameOk(f),
         Under(p.laneBlocks, p.laneBytes)
  PROVE  Under(PivcoFrame(p, f).laneBlocks, PivcoFrame(p, f).laneBytes)
<1>1. PICK y \in Nat : y = p.laneBytes
  BY PivcoFields
<1>2. PICK N \in Nat : N = Len(f.lanes)
  BY FrameFacts
<1>3. PICK stride \in Nat : stride = LaneStride(f)
  BY StrideFacts
<1>4. PICK q \in PivcoPlans : q = With(p, Joins(p, f), y)
  <2>1. PICK e \in PivcoPlans : e.laneBytes = 0
    BY EmptyFacts DEF EmptyPivco
  <2>2. p.laneBytes = e.laneBytes + p.laneBytes
    BY <1>1, <2>1
  <2>3. Joins(p, f) \in Seq(JoinTasks)
    BY <2>2, JoinsFacts
  <2> QED
    BY <2>3, MergeWith
<1>5. q.laneBlocks = p.laneBlocks /\ q.laneBytes = y
  BY <1>4 DEF With, PivcoPlan
<1>6. PICK u \in [0 .. N -> PivcoPlans] :
        /\ u[0] = q /\ \A n \in 1 .. N : u[n] = Lane(u[n - 1], f, n)
        /\ Lanes(q, f) = u[N]
  BY <1>2, LanesComputed
<1> DEFINE T == {n \in 0 .. N : /\ u[n].laneBytes = y
                                /\ Under(u[n].laneBlocks, y + n * stride)}
<1>7. 0 \in T
  <2>1. y + 0 * stride = y
    OBVIOUS
  <2> QED
    BY <1>1, <1>5, <1>6, <2>1
<1>8. ASSUME NEW n \in 1 .. N, n - 1 \in T PROVE n \in T
  <2>1. n - 1 \in 0 .. N /\ n \in 0 .. N /\ n \in 1 .. Len(f.lanes)
    BY <1>2
  <2>2. PICK x \in PivcoPlans : x = u[n - 1]
    BY <2>1
  <2>3. y = x.laneBytes /\ Under(x.laneBlocks, y + (n - 1) * LaneStride(f))
    BY <1>3, <1>8, <2>2
  <2>4. Under(Lane(x, f, n).laneBlocks, y + n * LaneStride(f))
    BY <2>1, <2>3, LaneUnder
  <2>5. Lane(x, f, n).laneBytes = x.laneBytes
    BY <2>1, LaneAdds DEF WithLane
  <2> QED
    BY <1>3, <1>6, <2>1, <2>2, <2>3, <2>4, <2>5
<1> HIDE DEF T
<1>9. N \in T
  <2>1. \A k \in 0 .. N : k \in T
    BY <1>7, <1>8, CarriesOver
  <2> QED
    BY <2>1
<1>10. PICK r : r = Lanes(q, f)
  OBVIOUS
<1>11. Under(r.laneBlocks, y + FrameBytes(f))
  BY <1>2, <1>3, <1>6, <1>9, <1>10 DEF T, FrameBytes
<1>12. PivcoFrame(p, f) = With(r, <<>>, y + FrameBytes(f))
  BY <1>1, <1>4, <1>10, FrameParts
<1> QED
  BY <1>11, <1>12 DEF With, PivcoPlan

\* Plans of the first frames: their bytes add up, and tasks lie within them.
LEMMA ChainFacts ==
  ASSUME NEW fs, Frames(fs), NEW plan, IsChain("pivco", fs, plan)
  PROVE  /\ plan[0].laneBytes = 0
         /\ \A n \in 0 .. Len(fs) : /\ plan[n] \in PivcoPlans
                                    /\ plan[n].laneBytes \in Nat
                                    /\ Under(plan[n].laneBlocks, plan[n].laneBytes)
         /\ \A n \in 1 .. Len(fs) :
              plan[n].laneBytes = plan[n - 1].laneBytes + FrameBytes(fs[n])
<1>1. PICK N \in Nat : N = Len(fs)
  BY DEF Frames
<1>2. /\ plan \in [0 .. N -> PivcoPlans] /\ plan[0] = EmptyPivco
      /\ \A n \in 1 .. N : plan[n] = PivcoFrame(plan[n - 1], fs[n])
  BY <1>1 DEF IsChain, Plans, Empty, WithFrame
<1>3. \A n \in 0 .. N : plan[n] \in PivcoPlans /\ plan[n].laneBytes \in Nat
  BY <1>2, PivcoFields
<1>4. ASSUME NEW n \in 1 .. N
      PROVE  /\ n - 1 \in 0 .. N /\ plan[n - 1] \in PivcoPlans /\ FrameOk(fs[n])
             /\ plan[n].laneBytes = plan[n - 1].laneBytes + FrameBytes(fs[n])
  <2>1. n - 1 \in 0 .. N /\ FrameOk(fs[n])
    BY <1>1 DEF Frames
  <2>2. PICK p \in PivcoPlans : p = plan[n - 1]
    BY <1>2, <2>1
  <2>3. PivcoFrame(p, fs[n]).laneBytes = p.laneBytes + FrameBytes(fs[n])
    BY <2>1, FrameParts
  <2> QED
    BY <1>2, <2>1, <2>2, <2>3
<1> DEFINE T == {n \in 0 .. N : Under(plan[n].laneBlocks, plan[n].laneBytes)}
<1>5. 0 \in T
  <2>1. plan[0].laneBlocks = <<>>
    BY <1>2 DEF EmptyPivco
  <2> QED
    BY <2>1, EmptySeq DEF Under
<1>6. ASSUME NEW n \in 1 .. N, n - 1 \in T PROVE n \in T
  <2>1. PICK p \in PivcoPlans : p = plan[n - 1]
    BY <1>4
  <2>2. Under(p.laneBlocks, p.laneBytes)
    BY <1>6, <2>1
  <2>3. Under(PivcoFrame(p, fs[n]).laneBlocks, PivcoFrame(p, fs[n]).laneBytes)
    BY <1>4, <2>2, FrameUnder
  <2> QED
    BY <1>2, <2>1, <2>3
<1> HIDE DEF T
<1>7. \A n \in 0 .. N : n \in T
  BY <1>5, <1>6, CarriesOver
<1>8. plan[0].laneBytes = 0
  BY <1>2 DEF EmptyPivco
<1>9. \A n \in 0 .. N : Under(plan[n].laneBlocks, plan[n].laneBytes)
  BY <1>7 DEF T
<1> QED
  BY <1>1, <1>3, <1>4, <1>8, <1>9

\* More frames take as many bytes or more.
LEMMA ChainGrows ==
  ASSUME NEW fs, Frames(fs), NEW plan, IsChain("pivco", fs, plan),
         NEW i \in 0 .. Len(fs), NEW n \in 0 .. Len(fs), i <= n
  PROVE  plan[i].laneBytes <= plan[n].laneBytes
<1>1. PICK N \in Nat : N = Len(fs)
  BY DEF Frames
<1> DEFINE T == {k \in 0 .. N : i <= k => plan[i].laneBytes <= plan[k].laneBytes}
<1>2. \A k \in 0 .. N : plan[k].laneBytes \in Nat
  BY <1>1, ChainFacts
<1>3. 0 \in T
  <2>1. i <= 0 => i = 0
    BY <1>1
  <2>2. plan[0].laneBytes <= plan[0].laneBytes
    BY <1>2
  <2> QED
    BY <2>1, <2>2
<1>4. ASSUME NEW k \in 1 .. N, k - 1 \in T PROVE k \in T
  <2>1. k \in 0 .. N /\ k - 1 \in 0 .. N
    OBVIOUS
  <2>2. plan[k].laneBytes = plan[k - 1].laneBytes + FrameBytes(fs[k])
    BY <1>1, ChainFacts
  <2>3. FrameBytes(fs[k]) \in Nat
    BY <1>1, FrameBytesNat DEF Frames
  <2>4. plan[k - 1].laneBytes <= plan[k].laneBytes
    BY <1>2, <2>1, <2>2, <2>3
  <2>5. CASE i <= k - 1
    <3>1. plan[i].laneBytes <= plan[k - 1].laneBytes
      BY <1>4, <2>5
    <3>2. /\ plan[i].laneBytes \in Nat /\ plan[k - 1].laneBytes \in Nat
          /\ plan[k].laneBytes \in Nat
      BY <1>1, <1>2, <2>1
    <3>3. plan[i].laneBytes <= plan[k].laneBytes
      BY <2>4, <3>1, <3>2
    <3> QED
      BY <2>1, <3>3
  <2>6. CASE i = k
    <3>1. plan[i].laneBytes <= plan[k].laneBytes
      BY <1>2, <2>1, <2>6
    <3> QED
      BY <2>1, <3>1
  <2>7. CASE k < i
    <3>1. ~(i <= k)
      BY <1>1, <2>7
    <3> QED
      BY <2>1, <3>1
  <2> QED
    BY <1>1, <2>5, <2>6, <2>7
<1> HIDE DEF T
<1>5. n \in T
  <2>1. \A k \in 0 .. N : k \in T
    BY <1>3, <1>4, CarriesOver
  <2> QED
    BY <1>1, <2>1
<1> QED
  BY <1>5 DEF T

\* LaneBytes is what the plan of the first frames takes.
LEMMA LaneBytesComputed ==
  ASSUME NEW fs, Frames(fs), NEW plan, IsChain("pivco", fs, plan),
         NEW n \in 0 .. Len(fs)
  PROVE  LaneBytes(fs, n) = plan[n].laneBytes
<1>1. PICK N \in Nat : N = Len(fs)
  BY DEF Frames
<1> DEFINE Is(u) == u = [m \in 0 .. n |->
                           IF m = 0 THEN 0
                           ELSE u[m - 1] + Len(fs[m].lanes) * LaneStride(fs[m])]
           v == CHOOSE u : Is(u)
           w == [m \in 0 .. n |-> plan[m].laneBytes]
<1>2. n \in Nat /\ \A m \in 0 .. n : m \in 0 .. N
  BY <1>1
<1>3. Is(w)
  <2>1. ASSUME NEW m \in 0 .. n
        PROVE  w[m] = IF m = 0 THEN 0
                      ELSE w[m - 1] + Len(fs[m].lanes) * LaneStride(fs[m])
    <3>1. CASE m = 0
      BY <3>1, ChainFacts
    <3>2. CASE m # 0
      <4>1. m \in 1 .. Len(fs) /\ m - 1 \in 0 .. n
        BY <1>1, <1>2, <3>2
      <4>2. plan[m].laneBytes = plan[m - 1].laneBytes + FrameBytes(fs[m])
        BY <4>1, ChainFacts
      <4>3. w[m] = plan[m].laneBytes /\ w[m - 1] = plan[m - 1].laneBytes
        BY <4>1
      <4> HIDE DEF w
      <4> QED
        BY <3>2, <4>2, <4>3 DEF FrameBytes
    <3> QED
      BY <3>1, <3>2
  <2>2. w = [m \in 0 .. n |-> w[m]]
    OBVIOUS
  <2> HIDE DEF w
  <2> QED
    BY <2>1, <2>2
<1> HIDE DEF w
<1>4. Is(v)
  BY <1>3
<1>5. LaneBytes(fs, n) = v[n]
  BY DEF LaneBytes
<1>6. \A m \in 0 .. n :
        v[m] = IF m = 0 THEN 0
               ELSE v[m - 1] + Len(fs[m].lanes) * LaneStride(fs[m])
  BY <1>4
<1> HIDE DEF v
<1> DEFINE T == {m \in 0 .. n : v[m] = plan[m].laneBytes}
<1>7. 0 \in T
  <2>1. 0 \in 0 .. n
    BY <1>2
  <2> QED
    BY <1>6, <2>1, ChainFacts
<1>8. ASSUME NEW m \in 1 .. n, m - 1 \in T PROVE m \in T
  <2>1. m \in 0 .. n /\ m # 0 /\ m \in 1 .. Len(fs)
    BY <1>1, <1>2
  <2>2. plan[m].laneBytes = plan[m - 1].laneBytes + FrameBytes(fs[m])
    BY <2>1, ChainFacts
  <2>3. v[m] = v[m - 1] + FrameBytes(fs[m])
    BY <1>6, <2>1 DEF FrameBytes
  <2> QED
    BY <1>8, <2>1, <2>2, <2>3
<1> HIDE DEF T
<1>9. n \in T
  <2>1. \A k \in 0 .. n : k \in T
    BY <1>2, <1>7, <1>8, CarriesOver
  <2> QED
    BY <1>2, <2>1
<1> QED
  BY <1>5, <1>9 DEF T

-----------------------------------------------------------------------------
(* What the planning of a range returns                                    *)

\* The least of some frames is one of them.
LEMMA MinOfFrames ==
  ASSUME NEW n \in Nat, NEW S, S \subseteq 1 .. n, S # {}
  PROVE  Min(S) \in S /\ \A x \in S : Min(S) <= x
<1>1. S \subseteq Nat
  OBVIOUS
<1>2. PICK x \in S : \A y \in S : x <= y
  BY <1>1, LeastNumber
<1>3. S \subseteq Int
  OBVIOUS
<1>4. Min(S) = x
  BY <1>2, <1>3, MinIs
<1> QED
  BY <1>2, <1>4

BadFrames(fs) == {i \in DOMAIN fs : fs[i].bad # "no"}

\* Frames whose lanes end behind the limit.
LongFrames(fs) == {i \in DOMAIN fs : LaneBytes(fs, i) > MaxLaneBytes}

\* Which frames end a plan.
LEMMA FailingFacts ==
  ASSUME NEW c \in Codecs, NEW fs, Frames(fs)
  PROVE  /\ Failing(c, fs) \subseteq 1 .. Len(fs)
         /\ c = "pfor" => /\ Failing(c, fs) \subseteq BadFrames(fs)
                          /\ BadFrames(fs) # {} => Failing(c, fs) # {}
         /\ c = "pivco" => Failing(c, fs) = BadFrames(fs) \cup LongFrames(fs)
<1>1. /\ DOMAIN fs = 1 .. Len(fs)
      /\ \A i \in DOMAIN fs : fs[i].bad \in {"no", "header", "block"}
  BY FrameFacts DEF Frames
<1>2. PICK heads : heads = {i \in DOMAIN fs : fs[i].bad \in {"header"}}
  OBVIOUS
<1>3. PICK blocks : blocks = {i \in DOMAIN fs : fs[i].bad \in {"block"}}
  OBVIOUS
<1>4. PICK both : both = {i \in DOMAIN fs : fs[i].bad \in {"header", "block"}}
  OBVIOUS
<1>5. /\ both = BadFrames(fs) /\ heads \subseteq both /\ blocks \subseteq both
      /\ both \subseteq heads \cup blocks
  BY <1>1, <1>2, <1>3, <1>4 DEF BadFrames
<1>6. CASE c = "pfor"
  <2>1. Failing(c, fs) = IF heads # {} THEN heads ELSE blocks
    BY <1>2, <1>3, <1>6 DEF Failing
  <2>2. both \subseteq 1 .. Len(fs)
    BY <1>1, <1>4
  <2> QED
    BY <1>5, <1>6, <2>1, <2>2
<1>7. CASE c = "pivco"
  <2>1. Failing(c, fs) = both \cup LongFrames(fs)
    BY <1>4, <1>7 DEF Failing, LongFrames
  <2>2. both \subseteq 1 .. Len(fs) /\ LongFrames(fs) \subseteq 1 .. Len(fs)
    BY <1>1, <1>4 DEF LongFrames
  <2> QED
    BY <1>5, <1>7, <2>1, <2>2
<1> QED
  BY <1>6, <1>7 DEF Codecs

\* What the planning of frames returns: it ran out of memory, or it names the
\* first frame that ends a plan, or it is their plan without padding.
PartOk(c, fs, o) ==
  /\ o = [failed |-> o.failed, oom |-> o.oom, errorFrame |-> o.errorFrame,
          plan |-> o.plan]
  /\ o.failed \in BOOLEAN /\ o.oom \in BOOLEAN
  /\ o.errorFrame \in NoFrame .. Len(fs) - 1
  /\ o.oom => o.failed
  /\ o.failed /\ ~o.oom => /\ Failing(c, fs) # {}
                           /\ o.errorFrame = Min(Failing(c, fs)) - 1
  /\ ~o.failed => Failing(c, fs) = {} /\ o.plan = Unpadded(c, fs)

\* An outcome with another plan.
LEMMA PutPlan ==
  ASSUME NEW a, NEW b, NEW e, NEW q, NEW z
  PROVE  [[failed |-> a, oom |-> b, errorFrame |-> e, plan |-> q]
            EXCEPT !.plan = z] =
           [failed |-> a, oom |-> b, errorFrame |-> e, plan |-> z]
OBVIOUS

\* Padding that was added is cut off.
LEMMA TrimsPadding ==
  ASSUME codec \in Codecs, NEW fs, Frames(fs)
  PROVE  Trimmed(WithPadding(codec, Unpadded(codec, fs))) = Unpadded(codec, fs)
<1>1. PICK plan : /\ IsChain(codec, fs, plan)
                  /\ Unpadded(codec, fs) = plan[Len(fs)]
  BY UnpaddedComputed
<1>2. PICK p : p = plan[Len(fs)]
  OBVIOUS
<1>3. Len(fs) \in 0 .. Len(fs)
  BY DEF Frames
<1>4. CASE codec = "pfor"
  <2>1. p \in PforPlans
    BY <1>1, <1>2, <1>3, <1>4 DEF IsChain, Plans
  <2>2. WithPadding(codec, p) = PforPadded(p)
    BY <1>4 DEF WithPadding
  <2> QED
    BY <1>1, <1>2, <1>4, <2>1, <2>2, PforTrims
<1>5. CASE codec = "pivco"
  <2>1. p \in PivcoPlans /\ Under(p.laneBlocks, p.laneBytes)
    BY <1>1, <1>2, <1>3, <1>5, ChainFacts
  <2>2. WithPadding(codec, p) = PivcoPadded(p)
    BY <1>5 DEF WithPadding
  <2> QED
    BY <1>1, <1>2, <1>5, <2>1, <2>2, PivcoTrims
<1> QED
  BY <1>4, <1>5 DEF Codecs

\* So a range is planned, or planning fails for a cause.
LEMMA ChunkOk ==
  ASSUME codec \in Codecs, NEW fs, Frames(fs)
  PROVE  /\ PartOk(codec, fs, BuildChunk(fs))
         /\ BuildChunk(fs).failed <=> Failing(codec, fs) # {}
         /\ Build(codec, fs).failed <=> Failing(codec, fs) # {}
<1>1. CASE Failing(codec, fs) # {}
  <2>1. PICK m : m = Min(Failing(codec, fs)) - 1
    OBVIOUS
  <2>2. Build(codec, fs) = Fail(m)
    BY <1>1, <2>1 DEF Build
  <2>3. BuildChunk(fs) = Fail(m)
    BY <2>2 DEF BuildChunk, Fail
  <2>4. PartOk(codec, fs, Fail(m))
    <3>1. Failing(codec, fs) \subseteq 1 .. Len(fs) /\ Len(fs) \in Nat
      BY FailingFacts DEF Frames
    <3>2. Min(Failing(codec, fs)) \in 1 .. Len(fs)
      BY <1>1, <3>1, MinOfFrames
    <3>3. m \in NoFrame .. Len(fs) - 1
      BY <2>1, <3>1, <3>2 DEF NoFrame
    <3> QED
      BY <1>1, <2>1, <3>3 DEF PartOk, Fail
  <2> QED
    BY <1>1, <2>2, <2>3, <2>4 DEF Fail
<1>2. CASE Failing(codec, fs) = {}
  <2>1. PICK p : p = Unpadded(codec, fs)
    OBVIOUS
  <2>2. PICK q : q = WithPadding(codec, p)
    OBVIOUS
  <2>3. Build(codec, fs) = Planned(q)
    BY <1>2, <2>1, <2>2 DEF Build
  <2>4. Trimmed(q) = p
    BY <2>1, <2>2, TrimsPadding
  <2>5. BuildChunk(fs) = [Planned(q) EXCEPT !.plan = Trimmed(@)]
    BY <2>3 DEF BuildChunk, Planned
  <2>6. [Planned(q) EXCEPT !.plan = Trimmed(@)] = Planned(Trimmed(q))
    <3>1. PICK r : r = Planned(q)
      OBVIOUS
    <3>2. r.plan = q
      BY <3>1 DEF Planned
    <3>3. [r EXCEPT !.plan = Trimmed(@)] = [r EXCEPT !.plan = Trimmed(q)]
      BY <3>2
    <3>4. PICK z : z = Trimmed(q)
      OBVIOUS
    <3>5. PICK a : a = FALSE
      OBVIOUS
    <3>6. PICK e : e = NoFrame
      OBVIOUS
    <3>7. /\ Planned(q) = [failed |-> a, oom |-> a, errorFrame |-> e, plan |-> q]
          /\ Planned(z) = [failed |-> a, oom |-> a, errorFrame |-> e, plan |-> z]
      BY <3>5, <3>6 DEF Planned
    <3>8. [[failed |-> a, oom |-> a, errorFrame |-> e, plan |-> q]
             EXCEPT !.plan = z] =
            [failed |-> a, oom |-> a, errorFrame |-> e, plan |-> z]
      BY PutPlan
    <3>9. [Planned(q) EXCEPT !.plan = z] = Planned(z)
      BY <3>7, <3>8
    <3> QED
      BY <3>1, <3>3, <3>4, <3>9
  <2>7. BuildChunk(fs) = Planned(p)
    BY <2>4, <2>5, <2>6
  <2>8. PartOk(codec, fs, Planned(p))
    <3>1. NoFrame \in NoFrame .. Len(fs) - 1
      BY DEF NoFrame, Frames
    <3> QED
      BY <1>2, <2>1, <3>1 DEF PartOk, Planned
  <2> QED
    BY <1>2, <2>3, <2>7, <2>8 DEF Planned
<1> QED
  BY <1>1, <1>2

\* Running out of memory is an outcome too.
LEMMA OutcomesOk ==
  ASSUME codec \in Codecs, NEW fs, Frames(fs), NEW o \in Outcomes(fs)
  PROVE  PartOk(codec, fs, o)
<1>1. CASE o = BuildChunk(fs)
  BY <1>1, ChunkOk
<1>2. CASE o \in Starved(codec, fs)
  <2>1. PICK e \in NoFrame .. Len(fs) - 1 : o = OutOfMemory(e)
    <3>0. Len(fs) \in Nat /\ Failing(codec, fs) \subseteq 1 .. Len(fs)
      BY FailingFacts DEF Frames
    <3>1. CASE codec = "pivco"
      <4>1. PICK last : last = IF Failing(codec, fs) = {} THEN Len(fs)
                               ELSE Min(Failing(codec, fs))
        OBVIOUS
      <4>2. last \in 0 .. Len(fs)
        <5>1. Failing(codec, fs) # {} =>
                Min(Failing(codec, fs)) \in Failing(codec, fs)
          BY <3>0, MinOfFrames
        <5> QED
          BY <3>0, <4>1, <5>1
      <4>3. o \in {OutOfMemory(i - 1) : i \in 1 .. last}
        BY <1>2, <3>1, <4>1 DEF Starved
      <4>4. PICK i \in 1 .. last : o = OutOfMemory(i - 1)
        BY <4>3
      <4>5. i - 1 \in NoFrame .. Len(fs) - 1
        BY <3>0, <4>2 DEF NoFrame
      <4> QED
        BY <4>4, <4>5
    <3>2. CASE codec # "pivco"
      <4>1. o \in {} \/ o \in {OutOfMemory(NoFrame)}
        BY <1>2, <3>2 DEF Starved
      <4>2. NoFrame \in NoFrame .. Len(fs) - 1
        BY <3>0 DEF NoFrame
      <4> QED
        BY <4>1, <4>2
    <3> QED
      BY <3>1, <3>2
  <2>2. o = [failed |-> TRUE, oom |-> TRUE, errorFrame |-> e, plan |-> <<>>]
    BY <2>1 DEF OutOfMemory, Fail
  <2> QED
    BY <2>2 DEF PartOk
<1> QED
  BY <1>1, <1>2 DEF Outcomes

-----------------------------------------------------------------------------
(* Ranges that make up a batch                                             *)

\* Frames of a range are frames of the batch, whose lanes lie further back.
LEMMA RangeFails ==
  ASSUME NEW fs, Frames(fs), NEW a \in Nat, NEW n \in Nat, a + n <= Len(fs),
         NEW k \in 1 .. n
  PROVE  /\ a + k \in 1 .. Len(fs)
         /\ k \in BadFrames(Between(fs, a, n)) <=> a + k \in BadFrames(fs)
         /\ k \in LongFrames(Between(fs, a, n)) => a + k \in LongFrames(fs)
<1>1. PICK b : b = Between(fs, a, n)
  OBVIOUS
<1>2. Frames(b) /\ Len(b) = n /\ \A i \in 1 .. n : b[i] = fs[a + i]
  BY <1>1, BetweenFacts
<1>3. Len(fs) \in Nat /\ DOMAIN fs = 1 .. Len(fs) /\ DOMAIN b = 1 .. n
  BY <1>2 DEF Frames
<1>4. a + k \in 1 .. Len(fs)
  BY <1>3
<1>5. k \in BadFrames(b) <=> a + k \in BadFrames(fs)
  BY <1>2, <1>3, <1>4 DEF BadFrames
<1>6. LaneBytes(b, k) <= LaneBytes(fs, a + k)
      /\ LaneBytes(b, k) \in Nat /\ LaneBytes(fs, a + k) \in Nat
  <2>1. PICK plan : IsChain("pivco", fs, plan)
    BY UnpaddedComputed DEF Codecs
  <2>2. PICK chain : IsChain("pivco", b, chain)
    BY <1>2, UnpaddedComputed DEF Codecs
  <2> DEFINE T == {i \in 0 .. n : chain[i].laneBytes <= plan[a + i].laneBytes}
  <2>3. \A i \in 0 .. n : chain[i].laneBytes \in Nat
    BY <1>2, <2>2, ChainFacts
  <2>4. \A i \in 0 .. Len(fs) : plan[i].laneBytes \in Nat
    BY <2>1, ChainFacts
  <2>5. 0 \in T
    <3>1. chain[0].laneBytes = 0
      BY <1>2, <2>2, ChainFacts
    <3>2. a + 0 \in 0 .. Len(fs) /\ 0 \in 0 .. n
      BY <1>3
    <3>3. plan[a + 0].laneBytes \in Nat
      BY <2>4, <3>2
    <3> QED
      BY <3>1, <3>2, <3>3
  <2>6. ASSUME NEW i \in 1 .. n, i - 1 \in T PROVE i \in T
    <3>1. /\ i \in 0 .. n /\ i - 1 \in 0 .. n
          /\ a + i \in 1 .. Len(fs) /\ a + i \in 0 .. Len(fs)
          /\ a + (i - 1) \in 0 .. Len(fs) /\ a + i - 1 = a + (i - 1)
      BY <1>3
    <3>2. PICK w \in Nat : w = FrameBytes(fs[a + i])
      BY <3>1, FrameBytesNat DEF Frames
    <3>3. plan[a + i].laneBytes = plan[a + (i - 1)].laneBytes + w
      <4>1. plan[a + i].laneBytes =
              plan[a + i - 1].laneBytes + FrameBytes(fs[a + i])
        BY <2>1, <3>1, ChainFacts
      <4> QED
        BY <3>1, <3>2, <4>1
    <3>4. chain[i].laneBytes = chain[i - 1].laneBytes + w
      <4>1. i \in 1 .. Len(b) /\ b[i] = fs[a + i]
        BY <1>2
      <4>2. chain[i].laneBytes = chain[i - 1].laneBytes + FrameBytes(b[i])
        BY <1>2, <2>2, <4>1, ChainFacts
      <4> QED
        BY <3>2, <4>1, <4>2
    <3>5. chain[i - 1].laneBytes <= plan[a + (i - 1)].laneBytes
      BY <2>6
    <3>6. chain[i - 1].laneBytes \in Nat /\ plan[a + (i - 1)].laneBytes \in Nat
      BY <2>3, <2>4, <3>1
    <3>7. chain[i].laneBytes <= plan[a + i].laneBytes
      BY <3>2, <3>3, <3>4, <3>5, <3>6
    <3> QED
      BY <3>1, <3>7
  <2> HIDE DEF T
  <2>7. k \in T
    <3>1. \A i \in 0 .. n : i \in T
      BY <2>5, <2>6, CarriesOver
    <3> QED
      BY <3>1
  <2>8. k \in 0 .. Len(b) /\ a + k \in 0 .. Len(fs)
    BY <1>2, <1>4
  <2>9. LaneBytes(b, k) = chain[k].laneBytes
    BY <1>2, <2>2, <2>8, LaneBytesComputed
  <2>10. LaneBytes(fs, a + k) = plan[a + k].laneBytes
    BY <2>1, <2>8, LaneBytesComputed
  <2> QED
    BY <1>2, <2>3, <2>4, <2>7, <2>8, <2>9, <2>10 DEF T
<1>7. k \in LongFrames(b) => a + k \in LongFrames(fs)
  <2>1. MaxLaneBytes \in Nat
    BY GpuPlanAssumption
  <2> QED
    BY <1>3, <1>4, <1>6, <2>1 DEF LongFrames
<1> QED
  BY <1>1, <1>4, <1>5, <1>7

\* Places that cut a batch into N ranges.
Cuts(cut, N, fs) ==
  /\ cut \in [0 .. N -> 0 .. Len(fs)]
  /\ cut[0] = 0 /\ cut[N] = Len(fs)
  /\ \A i \in 1 .. N : cut[i - 1] <= cut[i]

RangeAt(fs, cut, i) == Between(fs, cut[i - 1], cut[i] - cut[i - 1])

\* A range is made of frames of the batch.
LEMMA RangeOk ==
  ASSUME NEW fs, Frames(fs), NEW N \in Nat, NEW cut, Cuts(cut, N, fs),
         NEW i \in 1 .. N
  PROVE  /\ cut[i - 1] \in Nat /\ cut[i] - cut[i - 1] \in Nat
         /\ cut[i - 1] + (cut[i] - cut[i - 1]) = cut[i] /\ cut[i] <= Len(fs)
         /\ Frames(RangeAt(fs, cut, i))
<1>1. i - 1 \in 0 .. N /\ i \in 0 .. N /\ Len(fs) \in Nat
  BY DEF Frames
<1>2. PICK a \in 0 .. Len(fs), b \in 0 .. Len(fs) : a = cut[i - 1] /\ b = cut[i]
  BY <1>1 DEF Cuts
<1>3. a <= b
  BY <1>2 DEF Cuts
<1>4. a \in Nat /\ b - a \in Nat /\ a + (b - a) = b /\ b <= Len(fs)
  BY <1>1, <1>3
<1>5. Frames(Between(fs, a, b - a))
  <2>1. PICK n \in Nat : n = b - a
    BY <1>4
  <2>2. a + n <= Len(fs)
    BY <1>4, <2>1
  <2> QED
    BY <1>4, <2>1, <2>2, BetweenFacts
<1> QED
  BY <1>2, <1>4, <1>5 DEF RangeAt

\* Every frame of the first ranges lies in one of them.
LEMMA InRange ==
  ASSUME NEW fs, Frames(fs), NEW N \in Nat, NEW cut, Cuts(cut, N, fs),
         NEW n \in 0 .. N, NEW x \in Nat \ {0}, x <= cut[n]
  PROVE  \E i \in 1 .. n : cut[i - 1] < x /\ x <= cut[i]
<1>1. Len(fs) \in Nat /\ cut \in [0 .. N -> 0 .. Len(fs)] /\ cut[0] = 0
  BY DEF Cuts, Frames
<1> DEFINE T == {i \in 0 .. N : x <= cut[i]}
<1>2. n \in T
  BY <1>1
<1>3. T \subseteq Nat /\ T # {}
  BY <1>2
<1>4. PICK i \in T : \A j \in T : i <= j
  BY <1>3, LeastNumber
<1>5. i \in 0 .. N /\ x <= cut[i] /\ i # 0 /\ i <= n
  BY <1>1, <1>2, <1>4
<1>6. i \in 1 .. n /\ i - 1 \in 0 .. N /\ ~(i <= i - 1)
  BY <1>5
<1>7. i - 1 \notin T
  BY <1>4, <1>6
<1>8. ~(x <= cut[i - 1]) /\ cut[i - 1] \in 0 .. Len(fs)
  BY <1>1, <1>6, <1>7
<1>9. cut[i - 1] < x
  BY <1>1, <1>8
<1> QED
  BY <1>5, <1>6, <1>9

-----------------------------------------------------------------------------
(* What the call returns                                                   *)

\* What the properties ask of the outcome of a call for the frames fs.
AsOneThread(c, fs, o) ==
  /\ ~o.failed => o.plan = Build(c, fs).plan
  /\ ~o.oom =>
       /\ o.failed <=> Build(c, fs).failed
       /\ o.failed =>
            IF o.errorFrame = NoFrame
              THEN c = "pivco" /\ BadFrames(fs) = {}
              ELSE \/ /\ o.errorFrame + 1 \in BadFrames(fs)
                      /\ c = "pivco" => o.errorFrame + 1 = Min(BadFrames(fs))
                   \/ /\ c = "pivco"
                      /\ LaneBytes(fs, o.errorFrame + 1) > MaxLaneBytes

\* A bad frame is bad in its range, and so ends the plan of the range.
LEMMA BadInRange ==
  ASSUME NEW c \in Codecs, NEW fs, Frames(fs), NEW N \in Nat, NEW cut,
         Cuts(cut, N, fs), NEW i \in 1 .. N, NEW x \in BadFrames(fs),
         cut[i - 1] < x, x <= cut[i]
  PROVE  /\ x - cut[i - 1] \in BadFrames(RangeAt(fs, cut, i))
         /\ Failing(c, RangeAt(fs, cut, i)) # {}
<1>1. PICK a \in Nat : a = cut[i - 1]
  BY RangeOk
<1>2. PICK n \in Nat : n = cut[i] - cut[i - 1]
  BY RangeOk
<1>3. a + n = cut[i] /\ a + n <= Len(fs) /\ Frames(RangeAt(fs, cut, i))
  BY <1>1, <1>2, RangeOk
<1>4. x \in Nat
  BY DEF BadFrames, Frames
<1>5. x - a \in 1 .. n /\ a + (x - a) = x
  BY <1>1, <1>3, <1>4
<1>6. PICK k \in 1 .. n : k = x - a
  BY <1>5
<1>7. a + k \in BadFrames(fs)
  BY <1>5, <1>6
<1>8. k \in BadFrames(Between(fs, a, n))
  BY <1>3, <1>7, RangeFails
<1>9. k \in BadFrames(RangeAt(fs, cut, i))
  BY <1>1, <1>2, <1>8 DEF RangeAt
<1>10. Failing(c, RangeAt(fs, cut, i)) # {}
  BY <1>3, <1>9, FailingFacts DEF Codecs
<1> QED
  BY <1>1, <1>6, <1>9, <1>10

\* Padding takes no bytes.
LEMMA PaddedBytes ==
  ASSUME NEW p \in PivcoPlans
  PROVE  PivcoPadded(p).laneBytes = p.laneBytes
<1>1. PICK z : PivcoPadded(p) = [p EXCEPT !.laneBlocks = z]
  BY DEF PivcoPadded
<1> QED
  BY <1>1, PivcoFields, PivcoPut, PivcoPlanFields

\* Ranges that can all be planned are merged into the plan of the batch.
LEMMA FromMerge ==
  ASSUME codec \in Codecs, NEW fs, Frames(fs), 1 <= Len(fs), NEW N \in Nat,
         NEW cut, Cuts(cut, N, fs), NEW plans, Len(plans) = N,
         \A i \in 1 .. N : /\ Failing(codec, RangeAt(fs, cut, i)) = {}
                           /\ plans[i] = Unpadded(codec, RangeAt(fs, cut, i)),
         NEW o \in MergeOutcomes(plans)
  PROVE  /\ AsOneThread(codec, fs, o)
         /\ o.failed \in BOOLEAN /\ o.errorFrame = NoFrame
<1>1. PICK plan : IsChain(codec, fs, plan) /\ Unpadded(codec, fs) = plan[Len(fs)]
  BY UnpaddedComputed
<1>2. ASSUME NEW i \in 1 .. N
      PROVE  MergeOf(codec, plan[cut[i - 1]], plans[i]) = plan[cut[i]]
  <2>1. PICK a \in Nat : a = cut[i - 1]
    BY RangeOk
  <2>2. PICK n \in Nat : n = cut[i] - cut[i - 1]
    BY RangeOk
  <2>3. a + n = cut[i] /\ a + n <= Len(fs)
    BY <2>1, <2>2, RangeOk
  <2>4. plans[i] = Unpadded(codec, Between(fs, a, n))
    BY <2>1, <2>2 DEF RangeAt
  <2>5. MergeOf(codec, plan[a], Unpadded(codec, Between(fs, a, n))) = plan[a + n]
    BY <1>1, <2>3, ChainMerges
  <2> QED
    BY <2>1, <2>3, <2>4, <2>5
<1>3. Merged(plans) = WithPadding(codec, Unpadded(codec, fs))
  <2>1. /\ cut \in [0 .. N -> 0 .. Len(fs)] /\ cut[0] = 0 /\ cut[N] = Len(fs)
    BY DEF Cuts
  <2>2. InRow(fs, plan, plans, N, cut)
    BY <1>2, <2>1 DEF InRow
  <2>3. Merged(plans) = WithPadding(codec, plan[cut[N]])
    BY <1>1, <2>2, MergedComputed
  <2> QED
    BY <1>1, <2>1, <2>3
<1>4. BadFrames(fs) = {}
  <2>1. SUFFICES ASSUME NEW x \in BadFrames(fs) PROVE FALSE
    OBVIOUS
  <2>2. x \in Nat \ {0} /\ x <= cut[N] /\ N \in 0 .. N
    BY DEF BadFrames, Frames, Cuts
  <2>3. PICK i \in 1 .. N : cut[i - 1] < x /\ x <= cut[i]
    BY <2>2, InRange
  <2> QED
    BY <2>3, BadInRange
<1>5. Merge(plans).failed <=> Failing(codec, fs) # {}
  <2>1. CASE codec = "pfor"
    <3>1. Failing(codec, fs) = {}
      BY <1>4, <2>1, FailingFacts
    <3>2. ~Merge(plans).failed
      BY <2>1 DEF Merge, Planned
    <3> QED
      BY <3>1, <3>2
  <2>2. CASE codec = "pivco"
    <3>1. Failing(codec, fs) = LongFrames(fs)
      BY <1>4, <2>2, FailingFacts
    <3>2. PICK p \in PivcoPlans : p = plan[Len(fs)]
      BY <1>1, <2>2, ChainFacts DEF Frames
    <3>3. Merged(plans).laneBytes = p.laneBytes
      BY <1>1, <1>3, <2>2, <3>2, PaddedBytes DEF WithPadding
    <3>4. p.laneBytes \in Nat /\ MaxLaneBytes \in Nat
          /\ Len(fs) \in 1 .. Len(fs) /\ DOMAIN fs = 1 .. Len(fs)
      BY <3>2, GpuPlanAssumption, PivcoFields DEF Frames
    <3>5. \A n \in 1 .. Len(fs) : LaneBytes(fs, n) \in Nat
                                   /\ LaneBytes(fs, n) <= p.laneBytes
      <4>1. TAKE n \in 1 .. Len(fs)
      <4>2. n \in 0 .. Len(fs) /\ Len(fs) \in 0 .. Len(fs) /\ n <= Len(fs)
        BY <3>4
      <4>3. LaneBytes(fs, n) = plan[n].laneBytes
        BY <1>1, <2>2, <4>2, LaneBytesComputed
      <4>4. plan[n].laneBytes <= p.laneBytes
        BY <1>1, <2>2, <3>2, <4>2, ChainGrows
      <4>5. plan[n].laneBytes \in Nat
        BY <1>1, <2>2, <4>2, ChainFacts
      <4> QED
        BY <4>3, <4>4, <4>5
    <3>6. LaneBytes(fs, Len(fs)) = p.laneBytes
      BY <1>1, <2>2, <3>2, <3>4, LaneBytesComputed
    <3>7. CASE p.laneBytes > MaxLaneBytes
      <4>1. Len(fs) \in LongFrames(fs)
        BY <3>4, <3>6, <3>7 DEF LongFrames
      <4>2. Merge(plans) = Fail(NoFrame)
        BY <2>2, <3>3, <3>7 DEF Merge
      <4> QED
        BY <3>1, <4>1, <4>2 DEF Fail
    <3>8. CASE ~(p.laneBytes > MaxLaneBytes)
      <4>1. LongFrames(fs) = {}
        BY <3>4, <3>5, <3>8 DEF LongFrames
      <4>2. Merge(plans) = Planned(Merged(plans))
        BY <3>3, <3>8 DEF Merge
      <4> QED
        BY <3>1, <4>1, <4>2 DEF Planned
    <3> QED
      BY <3>7, <3>8
  <2> QED
    BY <2>1, <2>2 DEF Codecs
<1>6. CASE Failing(codec, fs) # {}
  <2>1. Merge(plans).failed
    BY <1>5, <1>6
  <2>2. o = Fail(NoFrame) /\ codec = "pivco"
    BY <2>1 DEF MergeOutcomes, Merge, Planned
  <2>3. Build(codec, fs).failed
    BY <1>6, ChunkOk
  <2> QED
    <3>1. o.failed = TRUE /\ o.errorFrame = NoFrame
      BY <2>2 DEF Fail
    <3>2. AsOneThread(codec, fs, o)
      BY <1>4, <2>2, <2>3, <3>1 DEF AsOneThread
    <3> QED
      BY <3>1, <3>2
<1>7. CASE Failing(codec, fs) = {}
  <2>1. ~Merge(plans).failed
    BY <1>5, <1>7
  <2>2. Merge(plans) = Planned(Merged(plans))
    BY <2>1 DEF Merge, Fail
  <2>3. Build(codec, fs) = Planned(Merged(plans))
    BY <1>3, <1>7 DEF Build
  <2>4. o = Planned(Merged(plans)) \/ o = OutOfMemory(NoFrame)
    BY <2>1, <2>2 DEF MergeOutcomes
  <2>5. CASE o = Planned(Merged(plans))
    BY <2>3, <2>5 DEF AsOneThread, Planned
  <2>6. CASE o = OutOfMemory(NoFrame)
    BY <2>6 DEF AsOneThread, OutOfMemory, Fail
  <2> QED
    BY <2>4, <2>5, <2>6
<1> QED
  BY <1>6, <1>7

\* The first range that cannot be planned names a frame that one thread could
\* have named.
LEMMA FromFailed ==
  ASSUME codec \in Codecs, NEW fs, Frames(fs), NEW N \in Nat, NEW cut,
         Cuts(cut, N, fs), NEW i \in 1 .. N, NEW o,
         PartOk(codec, RangeAt(fs, cut, i), o), o.failed,
         \A j \in 1 .. i - 1 : Failing(codec, RangeAt(fs, cut, j)) = {},
         NEW e, e = IF o.errorFrame = NoFrame THEN NoFrame
                    ELSE o.errorFrame + cut[i - 1]
  PROVE  LET r == [o EXCEPT !.errorFrame = e] IN
         /\ AsOneThread(codec, fs, r)
         /\ r.failed \in BOOLEAN /\ r.errorFrame \in NoFrame .. Len(fs) - 1
<1>1. PICK r : r = [o EXCEPT !.errorFrame = e]
  OBVIOUS
<1>2. r.failed = o.failed /\ r.oom = o.oom /\ r.errorFrame = e
  BY <1>1 DEF PartOk
<1>3. ASSUME o.oom PROVE AsOneThread(codec, fs, r)
  BY <1>2, <1>3 DEF AsOneThread
<1>4. ASSUME ~o.oom PROVE AsOneThread(codec, fs, r)
  <2>1. PICK rs : rs = RangeAt(fs, cut, i)
    OBVIOUS
  <2>2. Frames(rs)
    BY <2>1, RangeOk
  <2>3. PICK m : m = Min(Failing(codec, rs))
    OBVIOUS
  <2>4. Failing(codec, rs) # {} /\ o.errorFrame = m - 1
    BY <1>4, <2>1, <2>3 DEF PartOk
  <2>5. PICK a \in Nat : a = cut[i - 1]
    BY RangeOk
  <2>6. PICK n \in Nat : n = cut[i] - cut[i - 1]
    BY RangeOk
  <2>7. a + n = cut[i] /\ a + n <= Len(fs) /\ rs = Between(fs, a, n)
    <3>1. a + n = cut[i] /\ a + n <= Len(fs)
      <4>1. cut[i - 1] + (cut[i] - cut[i - 1]) = cut[i] /\ cut[i] <= Len(fs)
        BY RangeOk
      <4> QED
        BY <2>5, <2>6, <4>1
    <3>2. rs = Between(fs, a, n)
      BY <2>1, <2>5, <2>6 DEF RangeAt
    <3> QED
      BY <3>1, <3>2
  <2>8. Len(rs) = n
    BY <2>7, BetweenFacts
  <2>9. m \in Failing(codec, rs) /\ \A k \in Failing(codec, rs) : m <= k
    BY <2>2, <2>3, <2>4, <2>8, MinOfFrames, FailingFacts
  <2>10. m \in 1 .. n
    BY <2>2, <2>8, <2>9, FailingFacts
  <2>11. PICK x \in Nat \ {0} : x = a + m
    BY <2>10
  <2>12. e + 1 = x /\ e # NoFrame
    <3>1. m - 1 # NoFrame
      BY <2>10 DEF NoFrame
    <3>2. e = m - 1 + a
      BY <2>4, <2>5, <3>1
    <3> QED
      BY <2>10, <2>11, <3>2 DEF NoFrame
  <2>13. /\ m \in BadFrames(rs) => x \in BadFrames(fs)
         /\ m \in LongFrames(rs) => x \in LongFrames(fs)
    BY <2>7, <2>10, <2>11, RangeFails
  <2>14. CASE codec = "pfor"
    <3>1. x \in BadFrames(fs)
      BY <2>2, <2>9, <2>13, <2>14, FailingFacts
    <3>2. Build(codec, fs).failed
      BY <2>14, <3>1, ChunkOk, FailingFacts
    <3> QED
      BY <1>2, <2>12, <2>14, <3>1, <3>2 DEF AsOneThread
  <2>15. CASE codec = "pivco"
    <3>1. /\ Failing(codec, rs) = BadFrames(rs) \cup LongFrames(rs)
          /\ Failing(codec, fs) = BadFrames(fs) \cup LongFrames(fs)
      BY <2>2, <2>15, FailingFacts
    <3>2. Build(codec, fs).failed
      BY <2>9, <2>13, <3>1, ChunkOk
    <3>3. CASE m \in BadFrames(rs)
      <4>1. x \in BadFrames(fs)
        BY <2>13, <3>3
      <4>2. ASSUME NEW y \in BadFrames(fs) PROVE x <= y
        <5>1. SUFFICES ASSUME y < x PROVE FALSE
          BY <2>11 DEF BadFrames, Frames
        <5>2. y \in Nat \ {0} /\ y <= cut[i] /\ i \in 0 .. N
          <6>1. y \in Nat \ {0}
            BY DEF BadFrames, Frames
          <6> QED
            BY <2>7, <2>10, <2>11, <5>1, <6>1
        <5>3. PICK j \in 1 .. i : cut[j - 1] < y /\ y <= cut[j]
          BY <5>2, InRange
        <5>4. j \in 1 .. N
          OBVIOUS
        <5>5. /\ y - cut[j - 1] \in BadFrames(RangeAt(fs, cut, j))
              /\ Failing(codec, RangeAt(fs, cut, j)) # {}
          BY <5>3, <5>4, BadInRange
        <5>6. j = i
          BY <5>5
        <5>7. y - a \in Failing(codec, rs)
          BY <2>1, <2>5, <3>1, <5>5, <5>6
        <5>8. m <= y - a
          BY <2>9, <5>7
        <5> QED
          BY <2>10, <2>11, <5>1, <5>2, <5>8
      <4>3. BadFrames(fs) \subseteq Int
        BY DEF BadFrames, Frames
      <4>4. x = Min(BadFrames(fs))
        BY <4>1, <4>2, <4>3, MinIs
      <4> QED
        BY <1>2, <2>12, <2>15, <3>2, <4>1, <4>4 DEF AsOneThread
    <3>4. CASE m \in LongFrames(rs)
      <4>1. LaneBytes(fs, x) > MaxLaneBytes
        BY <2>13, <3>4 DEF LongFrames
      <4> QED
        BY <1>2, <2>12, <2>15, <3>2, <4>1 DEF AsOneThread
    <3> QED
      BY <2>9, <3>1, <3>3, <3>4
  <2> QED
    BY <2>14, <2>15 DEF Codecs
<1>5. e \in NoFrame .. Len(fs) - 1
  <2>1. PICK a \in Nat : a = cut[i - 1]
    BY RangeOk
  <2>2. PICK n \in Nat : n = cut[i] - cut[i - 1]
    BY RangeOk
  <2>3. Len(fs) \in Nat /\ a + n <= Len(fs)
    <3>1. cut[i - 1] + (cut[i] - cut[i - 1]) = cut[i] /\ cut[i] <= Len(fs)
      BY RangeOk
    <3> QED
      BY <2>1, <2>2, <3>1 DEF Frames
  <2>4. Len(RangeAt(fs, cut, i)) = n
    BY <2>1, <2>2, <2>3, BetweenFacts DEF RangeAt
  <2>5. o.errorFrame \in NoFrame .. n - 1
    BY <2>4 DEF PartOk
  <2>6. PICK x \in NoFrame .. n - 1 : x = o.errorFrame
    BY <2>5
  <2>7. e = IF x = NoFrame THEN NoFrame ELSE x + a
    BY <2>1, <2>6
  <2> QED
    BY <2>3, <2>6, <2>7 DEF NoFrame
<1>6. r.failed \in BOOLEAN
  BY <1>2 DEF PartOk
<1> QED
  BY <1>1, <1>2, <1>3, <1>4, <1>5, <1>6

-----------------------------------------------------------------------------
(* The invariant                                                           *)

\* The batch and its workers.
BatchOk ==
  /\ codec \in Codecs /\ Frames(frames) /\ Len(frames) \in 1 .. MaxFrames
  /\ threads \in 1 .. Len(frames) /\ next \in 0 .. threads

\* Ranges lie in a row, and the last worker takes what is left.
RangesOk ==
  /\ first \in [Workers -> Nat] /\ count \in [Workers -> Nat]
  /\ \A w \in Workers : first[w] <= Len(frames) /\ count[w] <= Len(frames)
  /\ \A w \in 0 .. next - 1 :
       /\ first[w] = IF w = 0 THEN 0 ELSE first[w - 1] + count[w - 1]
       /\ first[w] + count[w] <= Len(frames)
  /\ next = threads => first[next - 1] + count[next - 1] = Len(frames)

\* What a worker has built is the plan of its range.
PartsOk ==
  /\ threaded \subseteq 0 .. next - 1 /\ built \subseteq 0 .. next - 1
  /\ DOMAIN part = Workers
  /\ \A w \in built : PartOk(codec, Chunk(w), part[w])
  /\ \A w \in Workers \ built : part[w] = NoPart

\* What has been returned, if anything, is what one thread returns.
ResultOk ==
  /\ phase \in {"start", "join", "done"}
  /\ result.failed \in BOOLEAN /\ result.errorFrame \in {NoFrame} \cup Workers
  /\ phase = "done" => AsOneThread(codec, frames, result)

PlanInv == BatchOk /\ RangesOk /\ PartsOk /\ ResultOk

\* The share of a worker is at most what is left, and all of it for the last.
LEMMA ShareFacts ==
  ASSUME NEW r \in Nat, NEW k \in Nat \ {0}
  PROVE  /\ Share(r, k) \in Nat /\ Share(r, k) <= r
         /\ k = 1 => Share(r, k) = r
<1>1. PICK d \in Nat : d = CeilDiv(r, k)
  BY CeilDivFacts
<1>2. d <= r
  <2>1. CASE d = 0
    BY <2>1
  <2>2. CASE d # 0
    <3>1. d \in 1 .. CeilDiv(r, k)
      BY <1>1, <2>2
    <3>2. (d - 1) * k < r
      BY <3>1, CeilDivFacts
    <3>3. PICK e \in Nat : e = d - 1
      BY <2>2
    <3>4. PICK j \in Nat : k = 1 + j
      <4>1. k - 1 \in Nat /\ k = 1 + (k - 1)
        OBVIOUS
      <4> QED
        BY <4>1
    <3>5. e * k = e + e * j
      BY <3>4
    <3>6. e * j \in Nat
      OBVIOUS
    <3>7. PICK x \in Nat : x = e * j
      BY <3>6
    <3>8. e + x < r
      BY <3>2, <3>3, <3>5, <3>7
    <3> QED
      BY <3>3, <3>8
  <2> QED
    BY <2>1, <2>2
<1>3. k = 1 => d = r
  <2>1. SUFFICES ASSUME k = 1 PROVE d = r
    OBVIOUS
  <2>2. r <= d * k
    BY <1>1, CeilDivFacts
  <2>3. d * k = d
    BY <2>1
  <2> QED
    BY <1>2, <2>2, <2>3
<1> QED
  BY <1>1, <1>2, <1>3 DEF Share

\* A batch starts out right.
LEMMA PlanInitOk == PlanInit => PlanInv
<1> SUFFICES ASSUME PlanInit PROVE PlanInv
  OBVIOUS
<1>0. PICK n \in 1 .. MaxFrames :
        \E kinds \in [1 .. n -> FrameKinds[codec]] :
          frames = [i \in 1 .. n |-> Numbered(kinds[i], i)]
  BY DEF PlanInit, BatchesOf
<1>1. PICK kinds \in [1 .. n -> FrameKinds[codec]] :
        frames = [i \in 1 .. n |-> Numbered(kinds[i], i)]
  BY <1>0
<1>2. codec \in Codecs /\ MaxFrames \in Nat \ {0} /\ MaxThreads \in Nat
  BY PlanAssumption DEF PlanInit
<1>3. Len(frames) = n /\ DOMAIN frames = 1 .. n
      /\ \A i \in 1 .. n : frames[i] = Numbered(kinds[i], i)
  <2>1. n \in Nat
    BY <1>2
  <2> QED
    BY <1>1, <2>1
<1>4. ASSUME NEW i \in 1 .. n PROVE FrameOk(frames[i])
  <2>1. PICK f : f = kinds[i]
    OBVIOUS
  <2>2. IsFrame(f)
    BY <1>2, <2>1, PlanAssumption
  <2>3. i \in Nat
    BY <1>2
  <2>4. FrameOk(Numbered(f, i))
    BY <2>2, <2>3 DEF FrameOk, IsFrame, Numbered
  <2> QED
    BY <1>3, <2>1, <2>4
<1>5. Frames(frames)
  BY <1>2, <1>3, <1>4 DEF Frames
<1>6. PICK asked \in 0 .. MaxThreads : threads = ThreadCount(asked, n)
  BY <1>3 DEF PlanInit
<1>7. threads \in 1 .. n
  BY <1>2, <1>6 DEF ThreadCount
<1>8. BatchOk
  BY <1>2, <1>3, <1>5, <1>7 DEF BatchOk, PlanInit
<1>9. RangesOk
  BY <1>2, <1>7 DEF RangesOk, PlanInit
<1>10. PartsOk
  BY DEF PartsOk, PlanInit
<1>11. ResultOk
  BY DEF ResultOk, PlanInit, NoPart, Planned
<1> QED
  BY <1>8, <1>9, <1>10, <1>11 DEF PlanInv

\* A range is planned as planning goes.
LEMMA RangeBuilt ==
  ASSUME codec \in Codecs, Frames(frames), NEW a \in Nat, NEW n \in Nat,
         a + n <= Len(frames), NEW o \in Outcomes(SubSeq(frames, a + 1, a + n))
  PROVE  PartOk(codec, SubSeq(frames, a + 1, a + n), o)
<1>1. Frames(Between(frames, a, n))
  BY BetweenFacts
<1>2. o \in Outcomes(Between(frames, a, n))
  BY DEF Between
<1>3. PartOk(codec, Between(frames, a, n), o)
  BY <1>1, <1>2, OutcomesOk
<1> QED
  BY <1>3 DEF Between

\* A worker starts behind the ones before it.
LEMMA StartStep ==
  ASSUME PlanInv, Start, codec' = codec
  PROVE  PlanInv'
<1>1. /\ BatchOk /\ RangesOk /\ PartsOk /\ phase = "start" /\ next < threads
      /\ next' = next + 1 /\ frames' = frames /\ threads' = threads
      /\ phase' # "done" /\ codec' = codec
  BY DEF PlanInv, Start
<1>2. /\ Len(frames) \in Nat /\ threads \in Nat /\ next \in Nat
      /\ next \in Workers /\ MaxFrames \in Nat /\ next < MaxFrames
  <2>1. MaxFrames \in Nat
    BY PlanAssumption
  <2> QED
    BY <1>1, <2>1 DEF BatchOk, Workers
<1>3. PICK a \in Nat : a = Taken /\ a <= Len(frames)
  <2>1. CASE next = 0
    BY <1>2, <2>1 DEF Taken
  <2>2. CASE next # 0
    <3>1. next - 1 \in 0 .. next - 1 /\ next - 1 \in Workers
      BY <1>2, <2>2 DEF Workers
    <3>2. first[next - 1] \in Nat /\ count[next - 1] \in Nat
      BY <1>1, <3>1 DEF RangesOk
    <3>3. first[next - 1] + count[next - 1] <= Len(frames)
      BY <1>1, <3>1 DEF RangesOk
    <3> QED
      BY <2>2, <3>2, <3>3 DEF Taken
  <2> QED
    BY <2>1, <2>2
<1>4. PICK n \in Nat : n = Share(Len(frames) - a, threads - next) /\ a + n <= Len(frames)
                       /\ (next + 1 = threads => a + n = Len(frames))
  <2>1. PICK r \in Nat : r = Len(frames) - a
    BY <1>2, <1>3
  <2>2. PICK k \in Nat \ {0} : k = threads - next
    BY <1>1, <1>2
  <2>3. Share(r, k) \in Nat /\ Share(r, k) <= r /\ (k = 1 => Share(r, k) = r)
    BY ShareFacts
  <2>4. next + 1 = threads => k = 1
    BY <1>2, <2>2
  <2> QED
    BY <1>2, <1>3, <2>1, <2>2, <2>3, <2>4
<1>5. first' = [first EXCEPT ![next] = a] /\ count' = [count EXCEPT ![next] = n]
  BY <1>3, <1>4 DEF Start
<1>6. /\ first' \in [Workers -> Nat] /\ count' \in [Workers -> Nat]
      /\ first'[next] = a /\ count'[next] = n
      /\ \A w \in 0 .. next - 1 : first'[w] = first[w] /\ count'[w] = count[w]
      /\ \A w \in Workers : first'[w] <= Len(frames) /\ count'[w] <= Len(frames)
  <2>1. first \in [Workers -> Nat] /\ count \in [Workers -> Nat]
    BY <1>1 DEF RangesOk
  <2>2. \A w \in 0 .. next - 1 : w # next /\ w \in Workers
    BY <1>2 DEF Workers
  <2>3. \A w \in Workers : first[w] <= Len(frames) /\ count[w] <= Len(frames)
    BY <1>1 DEF RangesOk
  <2>4. a <= Len(frames) /\ n <= Len(frames)
    BY <1>2, <1>3, <1>4
  <2>5. \A w \in Workers : first'[w] <= Len(frames) /\ count'[w] <= Len(frames)
    BY <1>2, <1>5, <2>1, <2>3, <2>4
  <2> QED
    BY <1>2, <1>5, <2>1, <2>2, <2>5
<1>7. BatchOk'
  BY <1>1, <1>2 DEF BatchOk
<1>8. RangesOk'
  <2>1. ASSUME NEW w \in 0 .. next
        PROVE  /\ first'[w] = IF w = 0 THEN 0 ELSE first'[w - 1] + count'[w - 1]
               /\ first'[w] + count'[w] <= Len(frames)
    <3>1. CASE w = next
      <4>1. next # 0 => next - 1 \in 0 .. next - 1
        BY <1>2
      <4>2. a = IF next = 0 THEN 0 ELSE first'[next - 1] + count'[next - 1]
        BY <1>3, <1>6, <4>1 DEF Taken
      <4> QED
        BY <1>4, <1>6, <3>1, <4>2
    <3>2. CASE w # next
      <4>1. w \in 0 .. next - 1 /\ (w # 0 => w - 1 \in 0 .. next - 1)
        BY <1>2, <3>2
      <4>2. /\ first[w] = IF w = 0 THEN 0 ELSE first[w - 1] + count[w - 1]
            /\ first[w] + count[w] <= Len(frames)
        BY <1>1, <4>1 DEF RangesOk
      <4> QED
        BY <1>6, <4>1, <4>2
    <3> QED
      BY <3>1, <3>2
  <2>2. next' - 1 = next
    BY <1>1, <1>2
  <2>3. next' = threads => first'[next] + count'[next] = Len(frames)
    BY <1>1, <1>4, <1>6
  <2> QED
    BY <1>1, <1>6, <2>1, <2>2, <2>3 DEF RangesOk
<1>9. PartsOk'
  <2>1. \A w \in built : w \in 0 .. next - 1
    BY <1>1 DEF PartsOk
  <2>2. \A w \in built : Chunk(w)' = Chunk(w)
    BY <1>1, <1>6, <2>1 DEF Chunk
  <2>3. next' - 1 = next /\ 0 .. next - 1 \subseteq 0 .. next
        /\ next \in 0 .. next
    BY <1>1, <1>2
  <2>4. CASE threaded' = threaded \cup {next} /\ UNCHANGED <<built, part>>
    BY <1>1, <2>2, <2>3, <2>4 DEF PartsOk
  <2>5. CASE /\ built' = built \cup {next} /\ UNCHANGED threaded
             /\ \E o \in Outcomes(SubSeq(frames, Taken + 1,
                                         Taken + count'[next])) :
                  part' = [part EXCEPT ![next] = o]
    <3>1. PICK o \in Outcomes(SubSeq(frames, a + 1, a + n)) :
            part' = [part EXCEPT ![next] = o]
      BY <1>3, <1>6, <2>5
    <3>2. PartOk(codec, SubSeq(frames, a + 1, a + n), o)
      BY <1>1, <1>4, <3>1, RangeBuilt DEF BatchOk
    <3> PICK v \in Nat : v = next
      BY <1>2
    <3>3. SubSeq(frames, a + 1, a + n) = Chunk(v)'
      BY <1>1, <1>6 DEF Chunk
    <3>4. /\ DOMAIN part' = Workers /\ part'[next] = o
          /\ \A w \in built : part'[w] = part[w]
          /\ \A w \in Workers \ built' : part'[w] = NoPart
      <4>1. DOMAIN part = Workers
        BY <1>1 DEF PartsOk
      <4>2. \A w \in built : w # next /\ w \in Workers
        BY <1>2, <2>1 DEF Workers
      <4>3. \A w \in Workers \ built' : w # next /\ part[w] = NoPart
        BY <1>1, <2>5 DEF PartsOk
      <4> QED
        BY <1>2, <3>1, <4>1, <4>2, <4>3
    <3>5. ASSUME NEW w \in built' PROVE PartOk(codec, Chunk(w)', part'[w])
      <4>1. CASE w = v
        <5>1. Chunk(w)' = SubSeq(frames, a + 1, a + n) /\ part'[w] = o
          BY <3>3, <3>4, <4>1
        <5> QED
          BY <3>2, <5>1
      <4>2. CASE w # v
        <5>1. w \in built
          BY <2>5, <4>2
        <5>2. PartOk(codec, Chunk(w), part[w])
          BY <1>1, <5>1 DEF PartsOk
        <5> QED
          BY <2>2, <3>4, <5>1, <5>2
      <4> QED
        BY <4>1, <4>2
    <3>6. threaded' \subseteq 0 .. next /\ built' \subseteq 0 .. next
      BY <1>1, <2>3, <2>5 DEF PartsOk
    <3>7. \A w \in built' : PartOk(codec', Chunk(w)', part'[w])
      BY <1>1, <3>5
    <3>8. threaded' \subseteq 0 .. next' - 1 /\ built' \subseteq 0 .. next' - 1
      BY <1>1, <2>3, <3>6
    <3>9. DOMAIN part' = Workers /\ \A w \in Workers \ built' : part'[w] = NoPart
      BY <3>4
    <3> QED
      BY <3>7, <3>8, <3>9 DEF PartsOk
  <2> QED
    BY <2>4, <2>5 DEF Start
<1>10. ResultOk'
  <2>1. ResultOk /\ result' = result /\ phase' \in {"start", "join"}
    BY DEF PlanInv, Start
  <2> QED
    BY <1>1, <2>1 DEF ResultOk
<1> QED
  BY <1>7, <1>8, <1>9, <1>10 DEF PlanInv

\* A thread plans the range it was given.
LEMMA WorkStep ==
  ASSUME PlanInv, NEW v \in Workers, Work(v), codec' = codec
  PROVE  PlanInv'
<1>1. /\ BatchOk /\ RangesOk /\ PartsOk /\ ResultOk
      /\ UNCHANGED <<frames, threads, next, first, count, threaded, phase,
                     result, codec>>
      /\ built' = built \cup {v} /\ v \in threaded
  BY DEF PlanInv, Work
<1>2. BatchOk' /\ RangesOk' /\ ResultOk'
  BY <1>1 DEF BatchOk, RangesOk, ResultOk
<1>3. v \in 0 .. next - 1
  BY <1>1 DEF PartsOk
<1>4. PICK a \in Nat : a = first[v]
  BY <1>1 DEF RangesOk
<1>5. PICK n \in Nat : n = count[v]
  BY <1>1 DEF RangesOk
<1>6. a + n <= Len(frames)
  BY <1>1, <1>3, <1>4, <1>5 DEF RangesOk
<1>7. PICK o \in Outcomes(SubSeq(frames, a + 1, a + n)) :
        part' = [part EXCEPT ![v] = o]
  BY <1>4, <1>5 DEF Work, Chunk
<1>8. PartOk(codec, SubSeq(frames, a + 1, a + n), o)
  BY <1>1, <1>6, <1>7, RangeBuilt DEF BatchOk
<1>9. /\ DOMAIN part' = Workers /\ part'[v] = o
      /\ \A w \in built : w # v => part'[w] = part[w]
      /\ \A w \in Workers \ built' : part'[w] = NoPart
  <2>1. DOMAIN part = Workers
    BY <1>1 DEF PartsOk
  <2>2. \A w \in built : w \in Workers
    <3>1. MaxFrames \in Nat /\ next <= MaxFrames /\ next \in Nat
      BY <1>1, PlanAssumption DEF BatchOk
    <3> QED
      BY <1>1, <3>1 DEF PartsOk, Workers
  <2>3. \A w \in Workers \ built' : w # v /\ part[w] = NoPart
    BY <1>1 DEF PartsOk
  <2> QED
    BY <1>7, <2>1, <2>2, <2>3
<1>10. ASSUME NEW w \in built' PROVE PartOk(codec, Chunk(w)', part'[w])
  <2>1. Chunk(w)' = Chunk(w)
    BY <1>1 DEF Chunk
  <2>2. CASE w = v
    <3>1. Chunk(v) = SubSeq(frames, a + 1, a + n)
      BY <1>4, <1>5 DEF Chunk
    <3> QED
      BY <1>8, <1>9, <2>1, <2>2, <3>1
  <2>3. CASE w # v
    <3>1. w \in built
      BY <1>1, <2>3
    <3>2. PartOk(codec, Chunk(w), part[w])
      BY <1>1, <3>1 DEF PartsOk
    <3> QED
      BY <1>9, <2>1, <2>3, <3>1, <3>2
  <2> QED
    BY <2>2, <2>3
<1>11. PartsOk'
  <2>1. threaded' \subseteq 0 .. next' - 1 /\ built' \subseteq 0 .. next' - 1
    BY <1>1, <1>3 DEF PartsOk
  <2>2. \A w \in built' : PartOk(codec', Chunk(w)', part'[w])
    BY <1>1, <1>10
  <2>3. DOMAIN part' = Workers /\ \A w \in Workers \ built' : part'[w] = NoPart
    BY <1>9
  <2> QED
    BY <2>1, <2>2, <2>3 DEF PartsOk
<1> QED
  BY <1>2, <1>11 DEF PlanInv

\* The frames of the batch are few.
LEMMA FramesNamed ==
  ASSUME BatchOk
  PROVE  NoFrame .. Len(frames) - 1 \subseteq {NoFrame} \cup Workers
<1>1. Len(frames) \in Nat /\ Len(frames) <= MaxFrames /\ MaxFrames \in Nat
  BY PlanAssumption DEF BatchOk
<1> QED
  BY <1>1 DEF NoFrame, Workers

\* A step that only ends the call.
Ending ==
  /\ UNCHANGED <<codec, frames, threads, next, first, count, threaded, built,
                 part>>
  /\ phase' = "done" /\ AsOneThread(codec, frames, result')
  /\ result'.failed \in BOOLEAN
  /\ result'.errorFrame \in {NoFrame} \cup Workers

\* It leaves the invariant as it is.
LEMMA EndingStep ==
  ASSUME PlanInv, Ending
  PROVE  PlanInv'
<1>1. BatchOk' /\ RangesOk'
  BY DEF PlanInv, Ending, BatchOk, RangesOk
<1>2. \A w : Chunk(w)' = Chunk(w)
  BY DEF Ending, Chunk
<1>3. PartsOk'
  BY <1>2 DEF PlanInv, Ending, PartsOk
<1>4. ResultOk'
  BY DEF Ending, ResultOk
<1> QED
  BY <1>1, <1>3, <1>4 DEF PlanInv

\* Where the ranges of the workers end.
Ends == [i \in 0 .. threads |-> IF i = 0 THEN 0
                                ELSE first[i - 1] + count[i - 1]]

\* When all workers have started, their ranges make up the batch.
LEMMA EndsCut ==
  ASSUME BatchOk, RangesOk, next = threads
  PROVE  /\ Cuts(Ends, threads, frames)
         /\ \A i \in 1 .. threads : /\ RangeAt(frames, Ends, i) = Chunk(i - 1)
                                    /\ Ends[i - 1] = first[i - 1]
<1>1. /\ threads \in Nat \ {0} /\ Len(frames) \in Nat
      /\ MaxFrames \in Nat /\ threads <= MaxFrames
  BY PlanAssumption DEF BatchOk
<1>2. ASSUME NEW i \in 1 .. threads
      PROVE  /\ Ends[i] \in 0 .. Len(frames) /\ Ends[i - 1] = first[i - 1]
             /\ Ends[i - 1] <= Ends[i]
             /\ RangeAt(frames, Ends, i) = Chunk(i - 1)
  <2>1. PICK w \in 0 .. threads - 1 : w = i - 1
    BY <1>1
  <2>2. w \in Workers /\ i # 0 /\ i \in 0 .. threads /\ w \in 0 .. threads
    BY <1>1, <2>1 DEF Workers
  <2>3. first[w] \in Nat /\ count[w] \in Nat
    BY <2>2 DEF RangesOk
  <2>4. /\ first[w] = IF w = 0 THEN 0 ELSE first[w - 1] + count[w - 1]
        /\ first[w] + count[w] <= Len(frames)
    BY <2>1 DEF RangesOk
  <2>5. Ends[i] = first[w] + count[w] /\ Ends[w] = first[w]
    BY <2>1, <2>2, <2>4 DEF Ends
  <2>6. Ends[i] - Ends[i - 1] = count[w]
    BY <2>1, <2>3, <2>5
  <2>7. RangeAt(frames, Ends, i) = Between(frames, first[w], count[w])
    BY <2>1, <2>5, <2>6 DEF RangeAt
  <2> QED
    BY <1>1, <2>1, <2>3, <2>4, <2>5, <2>7 DEF Between, Chunk
<1>3. Ends[0] = 0
  BY <1>1 DEF Ends
<1>4. Ends[threads] = Len(frames)
  <2>1. Ends[threads] = first[threads - 1] + count[threads - 1]
    BY <1>1 DEF Ends
  <2> QED
    BY <2>1 DEF RangesOk
<1>5. Ends \in [0 .. threads -> 0 .. Len(frames)]
  <2>1. \A i \in 0 .. threads : Ends[i] \in 0 .. Len(frames)
    BY <1>1, <1>2, <1>3
  <2>2. Ends = [i \in 0 .. threads |-> Ends[i]]
    BY DEF Ends
  <2> QED
    BY <2>1, <2>2
<1> QED
  BY <1>2, <1>3, <1>4, <1>5 DEF Cuts

\* The threads are joined when all of them have planned their ranges.
LEMMA JoinStep ==
  ASSUME PlanInv, Join, codec' = codec
  PROVE  PlanInv'
<1>1. /\ BatchOk /\ RangesOk /\ PartsOk /\ built = 0 .. threads - 1
      /\ threads \in Nat \ {0} /\ next \in Nat /\ next <= threads
      /\ codec \in Codecs /\ Frames(frames) /\ 1 <= Len(frames)
  BY DEF PlanInv, Join, BatchOk, Frames
<1>2. next = threads
  <2>1. threads - 1 \in built
    BY <1>1
  <2>2. threads - 1 \in 0 .. next - 1
    BY <1>1, <2>1 DEF PartsOk
  <2> QED
    BY <1>1, <2>2
<1>3. PICK N \in Nat : N = threads
  BY <1>1
<1>4. PICK cut : cut = Ends
  OBVIOUS
<1>5. /\ Cuts(cut, N, frames)
      /\ \A i \in 1 .. N : /\ RangeAt(frames, cut, i) = Chunk(i - 1)
                           /\ cut[i - 1] = first[i - 1]
  BY <1>1, <1>2, <1>3, <1>4, EndsCut
<1>6. \A i \in 1 .. N : PartOk(codec, RangeAt(frames, cut, i), part[i - 1])
  <2>1. TAKE i \in 1 .. N
  <2>2. i - 1 \in built
    BY <1>1, <1>3, <1>4
  <2> QED
    BY <1>1, <1>5, <2>2 DEF PartsOk
<1>7. CASE FailedWorkers # {}
  <2>1. FailedWorkers \subseteq 0 .. N - 1
    BY <1>1, <1>3, <1>4 DEF FailedWorkers
  <2>2. PICK w \in FailedWorkers : \A v \in FailedWorkers : w <= v
    <3>1. FailedWorkers \subseteq Nat
      BY <2>1
    <3> QED
      BY <1>7, <3>1, LeastNumber
  <2>3. w = Min(FailedWorkers)
    <3>1. FailedWorkers \subseteq Int
      BY <2>1
    <3> QED
      BY <2>2, <3>1, MinIs
  <2>4. PICK i \in 1 .. N : w = i - 1
    <3>1. w + 1 \in 1 .. N /\ w = (w + 1) - 1
      BY <2>1
    <3> QED
      BY <3>1
  <2>5. result' = [part[w] EXCEPT !.errorFrame = Named(w)]
    BY <1>7, <2>3 DEF Join
  <2>6. PICK o : o = part[w]
    OBVIOUS
  <2>7. PICK e : e = Named(w)
    OBVIOUS
  <2>8. PartOk(codec, RangeAt(frames, cut, i), o) /\ o.failed
    BY <1>6, <2>4, <2>6 DEF FailedWorkers
  <2>9. e = IF o.errorFrame = NoFrame THEN NoFrame
            ELSE o.errorFrame + cut[i - 1]
    BY <1>5, <2>4, <2>6, <2>7 DEF Named
  <2>10. \A j \in 1 .. i - 1 : Failing(codec, RangeAt(frames, cut, j)) = {}
    <3>1. TAKE j \in 1 .. i - 1
    <3>2. j \in 1 .. N /\ j - 1 \in built /\ ~(w <= j - 1)
      BY <1>1, <1>3, <1>4, <2>4
    <3>3. ~part[j - 1].failed
      BY <2>2, <3>2 DEF FailedWorkers
    <3>4. PartOk(codec, RangeAt(frames, cut, j), part[j - 1])
      BY <1>6, <3>2
    <3> QED
      BY <3>3, <3>4 DEF PartOk
  <2>11. PICK r : r = [o EXCEPT !.errorFrame = e]
    OBVIOUS
  <2>12. /\ AsOneThread(codec, frames, r)
         /\ r.failed \in BOOLEAN /\ r.errorFrame \in NoFrame .. Len(frames) - 1
    BY <1>1, <1>5, <2>8, <2>9, <2>10, <2>11, FromFailed
  <2>13. r.errorFrame \in {NoFrame} \cup Workers
    BY <1>1, <2>12, FramesNamed
  <2>14. result' = r
    BY <2>5, <2>6, <2>7, <2>11
  <2>15. Ending
    BY <2>12, <2>13, <2>14 DEF Ending, Join
  <2> QED
    BY <2>15, EndingStep
<1>8. CASE FailedWorkers = {}
  <2>1. PICK plans : plans = [i \in 1 .. threads |-> part[i - 1].plan]
    OBVIOUS
  <2>2. PICK o \in MergeOutcomes(plans) : result' = o
    BY <1>8, <2>1 DEF Join
  <2>3. Len(plans) = N
    BY <1>3, <1>4, <2>1
  <2>4. \A i \in 1 .. N :
          /\ Failing(codec, RangeAt(frames, cut, i)) = {}
          /\ plans[i] = Unpadded(codec, RangeAt(frames, cut, i))
    <3>1. TAKE i \in 1 .. N
    <3>2. ~part[i - 1].failed
      BY <1>1, <1>3, <1>4, <1>8 DEF FailedWorkers
    <3>3. PartOk(codec, RangeAt(frames, cut, i), part[i - 1])
      BY <1>6
    <3>4. plans[i] = part[i - 1].plan
      BY <1>3, <1>4, <2>1
    <3> QED
      BY <3>2, <3>3, <3>4 DEF PartOk
  <2>5. /\ AsOneThread(codec, frames, o)
        /\ o.failed \in BOOLEAN /\ o.errorFrame = NoFrame
    BY <1>1, <1>5, <2>2, <2>3, <2>4, FromMerge
  <2>6. Ending
    BY <2>2, <2>5 DEF Ending, Join
  <2> QED
    BY <2>6, EndingStep
<1> QED
  BY <1>7, <1>8

\* Without memory nothing is planned.
LEMMA NoWorkersStep ==
  ASSUME PlanInv, NoWorkers, codec' = codec
  PROVE  PlanInv'
<1>1. /\ AsOneThread(codec, frames, OutOfMemory(NoFrame))
      /\ OutOfMemory(NoFrame).failed \in BOOLEAN
      /\ OutOfMemory(NoFrame).errorFrame = NoFrame
  BY DEF AsOneThread, OutOfMemory, Fail
<1>2. Ending
  BY <1>1 DEF NoWorkers, Ending
<1> QED
  BY <1>2, EndingStep

\* A frame by itself is a range.
LEMMA OneFrame ==
  ASSUME NEW fs, Frames(fs), NEW i \in 1 .. Len(fs)
  PROVE  Between(fs, i - 1, 1) = <<fs[i]>> /\ Frames(<<fs[i]>>)
<1>1. Len(fs) \in Nat /\ i - 1 \in Nat /\ i - 1 + 1 = i /\ i <= Len(fs)
  BY DEF Frames
<1>2. FrameOk(fs[i])
  BY DEF Frames
<1>3. Frames(<<fs[i]>>)
  BY <1>2 DEF Frames
<1>4. SubSeq(fs, i, i) = <<fs[i]>>
  <2>1. PICK b : b = SubSeq(fs, i, i)
    OBVIOUS
  <2>2. PICK S : S = {fs[i]}
    OBVIOUS
  <2>3. \A j \in i .. i : fs[j] \in S
    BY <2>2
  <2>4. b \in Seq(S) /\ Len(b) = IF i <= i THEN i - i + 1 ELSE 0
    BY <1>1, <2>1, <2>3, SubSeqProperties
  <2>5. Len(b) = 1
    BY <1>1, <2>4
  <2>6. b[1] = fs[i]
    BY <2>2, <2>4, <2>5
  <2>7. b = <<b[1]>>
    BY <2>4, <2>5
  <2> QED
    BY <2>1, <2>6, <2>7
<1> QED
  BY <1>1, <1>3, <1>4 DEF Between

\* Plans made during the capture are merged.
LEMMA MergeCapturedStep ==
  ASSUME PlanInv, MergeCaptured, codec' = codec
  PROVE  PlanInv'
<1>1. /\ codec \in Codecs /\ Frames(frames) /\ 1 <= Len(frames)
      /\ DOMAIN frames = 1 .. Len(frames)
  BY DEF PlanInv, BatchOk, Frames
<1>2. PICK N \in Nat : N = Len(frames)
  BY <1>1 DEF Frames
<1>3. PICK plans : plans = [i \in 1 .. N |-> BuildChunk(<<frames[i]>>).plan]
  OBVIOUS
<1>4. PICK cut : cut = [i \in 0 .. N |-> i]
  OBVIOUS
<1>5. Cuts(cut, N, frames)
  BY <1>2, <1>4 DEF Cuts
<1>6. ASSUME NEW i \in 1 .. N
      PROVE  /\ Failing(codec, RangeAt(frames, cut, i)) = {}
             /\ plans[i] = Unpadded(codec, RangeAt(frames, cut, i))
  <2>1. cut[i - 1] = i - 1 /\ cut[i] - cut[i - 1] = 1
    BY <1>4
  <2>2. PICK one : one = <<frames[i]>>
    OBVIOUS
  <2>3. RangeAt(frames, cut, i) = one /\ Frames(one)
    BY <1>1, <1>2, <2>1, <2>2, OneFrame DEF RangeAt
  <2>4. ~Build(codec, one).failed
    BY <1>1, <1>2, <2>2 DEF MergeCaptured
  <2>5. /\ Failing(codec, one) = {} /\ ~BuildChunk(one).failed
        /\ PartOk(codec, one, BuildChunk(one))
    BY <1>1, <2>3, <2>4, ChunkOk
  <2>6. BuildChunk(one).plan = Unpadded(codec, one)
    BY <2>5 DEF PartOk
  <2>7. plans[i] = BuildChunk(one).plan
    BY <1>3, <2>2
  <2> QED
    BY <2>3, <2>5, <2>6, <2>7
<1>7. PICK o : o \in MergeOutcomes(plans) /\ result' = o
  <2>1. \E o \in IF codec = "pfor" THEN {Planned(Merged(plans))}
                                   ELSE MergeOutcomes(plans) :
          result' = o
    BY <1>1, <1>2, <1>3 DEF MergeCaptured
  <2>2. codec = "pfor" => Planned(Merged(plans)) \in MergeOutcomes(plans)
    BY DEF MergeOutcomes, Merge
  <2> QED
    BY <2>1, <2>2
<1>8. Len(plans) = N
  BY <1>3
<1>9. /\ AsOneThread(codec, frames, o)
      /\ o.failed \in BOOLEAN /\ o.errorFrame = NoFrame
  BY <1>1, <1>5, <1>6, <1>7, <1>8, FromMerge
<1>10. Ending
  BY <1>7, <1>9 DEF Ending, MergeCaptured
<1> QED
  BY <1>10, EndingStep

\* Every step of the planner keeps the invariant.
LEMMA PlanStep == PlanInv /\ [PlanNext]_planVars => PlanInv'
<1> SUFFICES ASSUME PlanInv, [PlanNext]_planVars PROVE PlanInv'
  OBVIOUS
<1>1. CASE PlanNext
  <2>1. codec' = codec
    BY <1>1 DEF PlanNext
  <2>2. CASE PlanEnded
    BY <2>2 DEF PlanEnded, planVars, PlanInv, BatchOk, RangesOk, PartsOk,
      ResultOk, Chunk
  <2>3. CASE Start
    BY <2>1, <2>3, StartStep
  <2>4. CASE Join
    BY <2>1, <2>4, JoinStep
  <2>5. CASE NoWorkers
    BY <2>1, <2>5, NoWorkersStep
  <2>6. CASE MergeCaptured
    BY <2>1, <2>6, MergeCapturedStep
  <2>7. CASE \E w \in Workers : Work(w)
    BY <2>1, <2>7, WorkStep
  <2> QED
    BY <1>1, <2>2, <2>3, <2>4, <2>5, <2>6, <2>7 DEF PlanNext
<1>2. CASE UNCHANGED planVars
  BY <1>2 DEF planVars, PlanInv, BatchOk, RangesOk, PartsOk, ResultOk, Chunk
<1> QED
  BY <1>1, <1>2

\* The workers stay within the batch, and what they built is the plan of their
\* ranges.
THEOREM PlanInvHolds == PlanSpec => []PlanInv
<1> QED
  BY PlanInitOk, PlanStep, PTL DEF PlanSpec

\* Ranges lie within the batch, and so does a frame that is named.
THEOREM PlanTypeCorrect == PlanSpec => []PlanTypeOK
<1>1. ASSUME PlanInv PROVE PlanTypeOK
  <2>1. BatchOk /\ RangesOk /\ PartsOk /\ ResultOk
    BY <1>1 DEF PlanInv
  <2>2. /\ Len(frames) \in Nat /\ Len(frames) <= MaxFrames /\ MaxFrames \in Nat
        /\ next \in Nat /\ next <= MaxFrames
    BY <2>1, PlanAssumption DEF BatchOk
  <2>3. /\ first \in [Workers -> 0 .. Len(frames)]
        /\ count \in [Workers -> 0 .. Len(frames)]
    BY <2>1, <2>2 DEF RangesOk
  <2>4. threaded \subseteq Workers /\ built \subseteq Workers
    BY <2>1, <2>2 DEF PartsOk, Workers
  <2>5. ASSUME NEW w \in Workers
        PROVE  part[w].errorFrame \in {NoFrame} \cup Workers
    <3>1. CASE w \in built
      <4>1. PICK a \in Nat : a = first[w]
        BY <2>1 DEF RangesOk
      <4>2. PICK n \in Nat : n = count[w]
        BY <2>1 DEF RangesOk
      <4>3. w \in 0 .. next - 1 /\ PartOk(codec, Chunk(w), part[w])
        BY <2>1, <3>1 DEF PartsOk
      <4>4. a + n <= Len(frames)
        BY <2>1, <4>1, <4>2, <4>3 DEF RangesOk
      <4>5. Len(Chunk(w)) = n
        <5>1. Chunk(w) = Between(frames, a, n)
          BY <4>1, <4>2 DEF Chunk, Between
        <5> QED
          BY <2>1, <4>4, <5>1, BetweenFacts DEF BatchOk
      <4>6. part[w].errorFrame \in NoFrame .. n - 1
        BY <4>3, <4>5 DEF PartOk
      <4> QED
        BY <2>2, <4>4, <4>6 DEF NoFrame, Workers
    <3>2. CASE w \notin built
      BY <2>1, <3>2 DEF PartsOk, NoPart, Planned
    <3> QED
      BY <3>1, <3>2
  <2> QED
    BY <2>1, <2>3, <2>4, <2>5 DEF PlanTypeOK, BatchOk, ResultOk
<1> QED
  BY <1>1, PlanInvHolds, PTL

\* However many threads there are, and whichever of them could be created, the
\* merged plan is the one a single thread makes (pfor_gpu_plan_build_parallel,
\* pivco_gpu_plan_build_parallel).
THEOREM ParallelIsSequentialHolds == PlanSpec => []ParallelIsSequential
<1>1. PlanInv => ParallelIsSequential
  BY DEF PlanInv, ResultOk, AsOneThread, ParallelIsSequential
<1> QED
  BY <1>1, PlanInvHolds, PTL

\* The batch fails with threads when it fails without, and names a frame that
\* one thread could have named.
THEOREM FailsAsOneThreadHolds == PlanSpec => []FailsAsOneThread
<1>1. PlanInv => FailsAsOneThread
  BY DEF PlanInv, ResultOk, AsOneThread, BadFrames, FailsAsOneThread
<1> QED
  BY <1>1, PlanInvHolds, PTL

-----------------------------------------------------------------------------
(* The buffers of the batches                                              *)

USE RuntimeAssumption
USE DEF Backends

-----------------------------------------------------------------------------
(* Types                                                                   *)

\* An element of a sequence over S is in S.
LEMMA ElementOf ==
  ASSUME NEW S, NEW s \in Seq(S), NEW i \in DOMAIN s
  PROVE  s[i] \in S
OBVIOUS

\* A field of one buffer of one batch is set.
Put(f, b, i, x) == [f EXCEPT ![b][i] = x]

\* Put changes one element and nothing else.
LEMMA PutValues ==
  ASSUME NEW f, DOMAIN f = Batches, NEW b \in Batches, NEW i, NEW x
  PROVE  \A c \in Batches :
           /\ DOMAIN Put(f, b, i, x)[c] = DOMAIN f[c]
           /\ c # b => Put(f, b, i, x)[c] = f[c]
           /\ \A j \in DOMAIN f[c] :
                Put(f, b, i, x)[c][j] =
                  IF c = b /\ j = i THEN x ELSE f[c][j]
BY DEF Put

\* Put keeps the sequences over S.
LEMMA PutType ==
  ASSUME NEW S, NEW f \in [Batches -> Seq(S)], NEW b \in Batches,
         NEW i \in DOMAIN f[b], NEW x \in S
  PROVE  Put(f, b, i, x) \in [Batches -> Seq(S)]
<1>1. Put(f, b, i, x) = [f EXCEPT ![b] = [f[b] EXCEPT ![i] = x]]
  BY DEF Put
<1>2. [f[b] EXCEPT ![i] = x] \in Seq(S)
  OBVIOUS
<1> QED
  BY <1>1, <1>2

\* Padding to a multiple of Pad loses nothing.
LEMMA PaddedFacts ==
  ASSUME NEW n \in Nat
  PROVE  Padded(n) \in Nat /\ n <= Padded(n)
<1> DEFINE q == (n + Pad - 1) \div Pad
<1>1. Pad \in Nat \ {0} /\ n + Pad - 1 \in Nat
  OBVIOUS
<1>2. q \in Nat /\ n + Pad - 1 < q * Pad + Pad
  BY <1>1
<1>3. Padded(n) = q * Pad
  BY DEF Padded
<1> HIDE DEF q
<1>4. q * Pad \in Nat
  BY <1>1, <1>2
<1> QED
  BY <1>1, <1>2, <1>3, <1>4

\* A list of buffers that callers create a batch with.
LEMMA LayoutFacts ==
  ASSUME NEW l \in Layouts[backend], backend \in Backends
  PROVE  /\ l \in Seq(Buffer) /\ Len(l) \in Nat /\ Len(l) >= 1
         /\ DOMAIN l = 1 .. Len(l)
         /\ \A i \in 1 .. Len(l) : l[i] \in Buffer
<1>1. l \in Seq(Buffer) /\ l # <<>>
  BY DEF BuffersValid
<1> QED
  BY <1>1

\* A buffer of a batch that exists.
LEMMA BufferFacts ==
  ASSUME TypeOK, NEW b \in Batches
  PROVE  /\ layout[b] \in Seq(Buffer) /\ BufferCount(b) \in Nat
         /\ Exists(b) => layout[b] \in Layouts[backend] /\ BufferCount(b) >= 1
         /\ DOMAIN layout[b] = 1 .. BufferCount(b)
         /\ \A i \in 1 .. BufferCount(b) :
              /\ layout[b][i] \in Buffer
              /\ layout[b][i].bytes \in Nat /\ layout[b][i].bytes >= 1
              /\ layout[b][i].bytes <= SizeMax
              /\ layout[b][i].memory \in Memories
              /\ pointers[b][i] \in Addresses /\ capacities[b][i] \in Nat
              /\ offsets[b][i] \in Nat
         /\ pointers[b] \in Seq(Addresses) /\ capacities[b] \in Seq(Nat)
         /\ offsets[b] \in Seq(0 .. SizeMax)
         /\ DOMAIN pointers[b] = 1 .. BufferCount(b)
         /\ DOMAIN capacities[b] = 1 .. BufferCount(b)
         /\ DOMAIN offsets[b] = 1 .. BufferCount(b)
<1>1. layout[b] \in Layouts[backend] \cup {<<>>} /\ backend \in Backends
  BY DEF TypeOK
<1>2. layout[b] \in Seq(Buffer)
  <2>1. <<>> \in Seq(Buffer)
    OBVIOUS
  <2>2. \A l \in Layouts[backend] : l \in Seq(Buffer)
    BY <1>1, LayoutFacts
  <2> QED
    BY <1>1, <2>1, <2>2
<1>3. /\ BufferCount(b) \in Nat /\ DOMAIN layout[b] = 1 .. BufferCount(b)
      /\ \A i \in 1 .. BufferCount(b) : layout[b][i] \in Buffer
  BY <1>2 DEF BufferCount
<1>4. Exists(b) => layout[b] \in Layouts[backend] /\ BufferCount(b) >= 1
  BY <1>1, LayoutFacts DEF Exists, BufferCount
<1>5. \A i \in 1 .. BufferCount(b) :
        /\ layout[b][i].bytes \in Nat /\ layout[b][i].bytes >= 1
        /\ layout[b][i].bytes <= SizeMax
        /\ layout[b][i].memory \in Memories
  BY <1>3 DEF Buffer
<1>6. /\ pointers[b] \in Seq(Addresses) /\ capacities[b] \in Seq(Nat)
      /\ offsets[b] \in Seq(0 .. SizeMax)
      /\ DOMAIN pointers[b] = 1 .. BufferCount(b)
      /\ DOMAIN capacities[b] = 1 .. BufferCount(b)
      /\ DOMAIN offsets[b] = 1 .. BufferCount(b)
  BY <1>3 DEF TypeOK
<1>7. \A i \in 1 .. BufferCount(b) :
        /\ pointers[b][i] \in Addresses /\ capacities[b][i] \in Nat
        /\ offsets[b][i] \in Nat
  <2> TAKE i \in 1 .. BufferCount(b)
  <2>1. pointers[b][i] \in Addresses
    BY <1>6, ElementOf
  <2>2. capacities[b][i] \in Nat
    BY <1>6, ElementOf
  <2>3. offsets[b][i] \in 0 .. SizeMax
    BY <1>6, ElementOf
  <2> QED
    BY <2>1, <2>2, <2>3
<1> QED
  BY <1>2, <1>3, <1>4, <1>5, <1>6, <1>7

\* The types hold before the first call.
LEMMA TypeInit == Init => TypeOK
<1> SUFFICES ASSUME Init PROVE TypeOK
  OBVIOUS
<1> QED
  BY DEF Init, TypeOK, Addresses, NoBlock, NoMemory

\* The program's own variables stay in their range.
PoolOK ==
  /\ size \in [Blocks -> Nat]
  /\ spares \in [Spares -> Blocks \cup {NoBlock}]
  /\ spareBytes \in [Spares -> Nat]

\* acquire_device and acquire_private yield a block and keep the types.
LEMMA AcquireTypes ==
  ASSUME TypeOK, NEW bytes \in Nat, NEW k, NEW c, Acquire(bytes, k, c)
  PROVE  PoolOK' /\ k \in Blocks /\ c \in Nat
<1> USE DEF PoolOK
<1>1. CASE \E s \in Spares :
             /\ Best(s, bytes) /\ k = spares[s] /\ c = spareBytes[s]
             /\ EmptySlot(s) /\ UNCHANGED size
  BY <1>1 DEF TypeOK, EmptySlot, Best, Serves
<1>2. CASE /\ k \in Blocks /\ NewBlock(k) /\ c = bytes
           /\ size' = [size EXCEPT ![k] = bytes]
           /\ UNCHANGED <<spares, spareBytes>>
  BY <1>2 DEF TypeOK
<1>3. CASE /\ k \in Blocks /\ c = bytes
           /\ size' = [j \in Blocks |-> IF j = k THEN bytes
                                  ELSE IF Freed(j) THEN 0 ELSE size[j]]
           /\ spares' = [s \in Spares |-> NoBlock]
           /\ spareBytes' = [s \in Spares |-> 0]
  BY <1>3 DEF TypeOK
<1> QED
  BY <1>1, <1>2, <1>3 DEF Acquire

\* So does an attempt that fails, which may have freed the spares.
LEMMA AcquireFailsTypes ==
  ASSUME TypeOK, NEW bytes, AcquireFails(bytes)
  PROVE  PoolOK'
<1>1. CASE UNCHANGED <<size, spares, spareBytes>>
  BY <1>1 DEF TypeOK, PoolOK
<1>2. CASE /\ size' = [j \in Blocks |-> IF Freed(j) THEN 0 ELSE size[j]]
           /\ spares' = [s \in Spares |-> NoBlock]
           /\ spareBytes' = [s \in Spares |-> 0]
  BY <1>2 DEF TypeOK, PoolOK
<1> QED
  BY <1>1, <1>2 DEF AcquireFails, poolVars

\* release_device and release_private keep the types.
LEMMA ReleaseTypes ==
  ASSUME TypeOK, NEW k \in Blocks, NEW c \in Nat, Release(k, c)
  PROVE  PoolOK'
<1>1. PICK s \in Spares :
        IF Keeps(s, c)
          THEN /\ size' = [size EXCEPT ![k] = 0]
               /\ UNCHANGED <<spares, spareBytes>>
          ELSE /\ size' = [j \in Blocks |->
                            IF j = spares[s] THEN 0 ELSE size[j]]
               /\ spares' = [spares EXCEPT ![s] = k]
               /\ spareBytes' = [spareBytes EXCEPT ![s] = c]
  BY DEF Release
<1>2. CASE Keeps(s, c)
  <2>1. /\ size' = [size EXCEPT ![k] = 0]
        /\ UNCHANGED <<spares, spareBytes>>
    BY <1>1, <1>2, Zenon
  <2> QED
    BY <2>1 DEF TypeOK, PoolOK
<1>3. CASE ~Keeps(s, c)
  <2>1. /\ size' = [j \in Blocks |-> IF j = spares[s] THEN 0 ELSE size[j]]
        /\ spares' = [spares EXCEPT ![s] = k]
        /\ spareBytes' = [spareBytes EXCEPT ![s] = c]
    BY <1>1, <1>3, Zenon
  <2> QED
    BY <2>1 DEF TypeOK, PoolOK
<1> QED
  BY <1>2, <1>3

\* The start of batch_create keeps the types.
LEMMA CreateTypes ==
  ASSUME TypeOK, NEW b \in Batches, NEW l \in Layouts[backend], Create(b, l),
         UNCHANGED backend
  PROVE  TypeOK'
<1>1. l \in Seq(Buffer) /\ Len(l) \in Nat /\ DOMAIN l = 1 .. Len(l)
  BY LayoutFacts DEF TypeOK
<1>2. /\ [i \in DOMAIN l |-> NoBlock] \in Seq(Addresses)
      /\ [i \in DOMAIN l |-> 0] \in Seq(Nat)
      /\ NoOffsets(l) \in Seq(0 .. SizeMax) /\ DOMAIN NoOffsets(l) = DOMAIN l
  BY <1>1 DEF Addresses, NoBlock, NoOffsets, NoOffset
<1> QED
  BY <1>1, <1>2 DEF Create, TypeOK, poolVars, flagVars, lossVars

\* A turn of the layout loop keeps the types: no size wraps below zero.
LEMMA LayoutInputTypes ==
  ASSUME TypeOK, LayoutInput, UNCHANGED backend PROVE  TypeOK'
<1>1. who \in Batches /\ at \in 1 .. BufferCount(who)
  BY BufferFacts DEF LayoutInput, TypeOK
<1>2. /\ layout[who][at].bytes \in Nat
      /\ offsets[who] \in Seq(0 .. SizeMax)
      /\ DOMAIN offsets[who] = 1 .. BufferCount(who)
      /\ inputBytes[who] \in 0 .. SizeMax
  BY <1>1, BufferFacts DEF TypeOK
<1>3. UNCHANGED <<who, poolVars, layout, pointers, capacities, deviceInput,
                 inputCapacity, flagVars, memory, deviceVars, lossVars, open>>
  BY DEF LayoutInput
<1>4. /\ offsets' \in [Batches -> Seq(0 .. SizeMax)]
      /\ \A b \in Batches : DOMAIN offsets'[b] = DOMAIN offsets[b]
      /\ inputBytes' \in [Batches -> 0 .. SizeMax]
      /\ at' \in Nat \ {0} /\ op' \in {"layout", "release"}
  <2>1. CASE UNCHANGED <<offsets, inputBytes>>
    BY <1>1, <2>1 DEF LayoutInput, TypeOK
  <2>2. CASE /\ offsets' = [offsets EXCEPT ![who][at] = inputBytes[who]]
             /\ inputBytes' = [inputBytes EXCEPT ![who] =
                         (@ + Padded(layout[who][at].bytes)) % (SizeMax + 1)]
             /\ at' = at + 1 /\ UNCHANGED op
    <3>1. Padded(layout[who][at].bytes) \in Nat
      BY <1>2, PaddedFacts
    <3> DEFINE sum == inputBytes[who] + Padded(layout[who][at].bytes)
    <3>2. sum \in Nat
      BY <1>2, <3>1
    <3> HIDE DEF sum
    <3>3. sum % (SizeMax + 1) \in 0 .. SizeMax
      BY <3>2
    <3>4. inputBytes' = [inputBytes EXCEPT ![who] = sum % (SizeMax + 1)]
      BY <2>2 DEF sum
    <3>5. /\ offsets' \in [Batches -> Seq(0 .. SizeMax)]
          /\ \A b \in Batches : DOMAIN offsets'[b] = DOMAIN offsets[b]
      <4>1. offsets' = Put(offsets, who, at, inputBytes[who])
        BY <2>2 DEF Put
      <4>2. offsets \in [Batches -> Seq(0 .. SizeMax)]
        BY DEF TypeOK
      <4>3. inputBytes[who] \in 0 .. SizeMax /\ at \in DOMAIN offsets[who]
        BY <1>1, <1>2
      <4>4. offsets' \in [Batches -> Seq(0 .. SizeMax)]
        BY <1>1, <4>1, <4>2, <4>3, PutType
      <4>5. \A b \in Batches : DOMAIN offsets'[b] = DOMAIN offsets[b]
        BY <1>1, <4>1, <4>2, PutValues
      <4> QED
        BY <4>4, <4>5
    <3> QED
      BY <1>1, <2>2, <3>3, <3>4, <3>5 DEF TypeOK, LayoutInput
  <2> QED
    BY <2>1, <2>2 DEF LayoutInput
<1> QED
  BY <1>1, <1>3, <1>4 DEF TypeOK, poolVars, flagVars, lossVars, deviceVars

\* Acquiring the block of the inputs keeps the types.
LEMMA AcquireInputTypes ==
  ASSUME TypeOK, AcquireInput, UNCHANGED backend PROVE  TypeOK'
<1>1. who \in Batches /\ inputBytes[who] \in Nat
  BY DEF AcquireInput, TypeOK
<1>2. CASE AcquireFails(inputBytes[who]) /\ Goto("release")
           /\ UNCHANGED <<deviceInput, inputCapacity>>
  BY <1>1, <1>2, AcquireFailsTypes
     DEF TypeOK, PoolOK, AcquireInput, Goto, flagVars, lossVars, deviceVars
<1>3. ASSUME NEW k \in Blocks, NEW c, Acquire(inputBytes[who], k, c),
             deviceInput' = [deviceInput EXCEPT ![who] = k],
             inputCapacity' = [inputCapacity EXCEPT ![who] = c],
             Goto("acquire")
      PROVE  TypeOK'
  <2>1. PoolOK' /\ c \in Nat
    BY <1>1, <1>3, AcquireTypes
  <2> QED
    BY <1>1, <1>3, <2>1
       DEF TypeOK, PoolOK, AcquireInput, Goto, flagVars, lossVars, deviceVars
<1> QED
  BY <1>2, <1>3 DEF AcquireInput

\* An alias is of an earlier buffer.
LEMMA AliasFacts ==
  ASSUME TypeOK, NEW b \in Batches, NEW i \in DOMAIN layout[b],
         layout[b][i].kind = "alias"
  PROVE  /\ layout[b][i].alias \in DOMAIN layout[b]
         /\ layout[b][i].alias < i
<1>1. layout[b] \in Layouts[backend] /\ backend \in Backends
  BY BufferFacts DEF Exists, BufferCount, TypeOK
<1>2. BuffersValid(layout[b])
  BY <1>1
<1>3. i \in 1 .. BufferCount(b) /\ BufferCount(b) \in Nat
      /\ DOMAIN layout[b] = 1 .. BufferCount(b)
  BY BufferFacts
<1>4. layout[b][i].alias \in 1 .. i - 1
  BY <1>2 DEF BuffersValid
<1> QED
  BY <1>3, <1>4

\* Where a buffer with storage elsewhere lies is an address.
LEMMA BoundTypes ==
  ASSUME TypeOK, who \in Batches, at \in DOMAIN layout[who]
  PROVE  Bound(who, at) \in Addresses
<1>1. layout[who][at].kind = "alias" =>
        layout[who][at].alias \in 1 .. BufferCount(who)
  BY AliasFacts, BufferFacts
<1>2. deviceInput[who] \in Addresses /\ Foreign \in Addresses
  <2>1. deviceInput[who] \in Blocks \cup {NoBlock}
    BY DEF TypeOK
  <2> QED
    BY <2>1 DEF Addresses, Blocks, Foreign, NoBlock
<1>3. memory[layout[who][at].memory].pointer \in Addresses
  BY BufferFacts DEF TypeOK
<1>4. layout[who][at].kind = "alias" =>
        pointers[who][layout[who][at].alias] \in Addresses
  BY <1>1, BufferFacts
<1> QED
  BY <1>2, <1>3, <1>4 DEF Bound

\* A turn of the acquire loop keeps the types.
LEMMA AcquireBufferTypes ==
  ASSUME TypeOK, AcquireBuffer, UNCHANGED backend PROVE  TypeOK'
<1>1. who \in Batches /\ at \in 1 .. BufferCount(who)
  BY BufferFacts DEF AcquireBuffer, TypeOK
<1>2. /\ layout[who][at] \in Buffer /\ layout[who][at].bytes \in Nat
      /\ pointers[who] \in Seq(Addresses) /\ capacities[who] \in Seq(Nat)
      /\ DOMAIN pointers[who] = 1 .. BufferCount(who)
      /\ DOMAIN capacities[who] = 1 .. BufferCount(who)
  BY <1>1, BufferFacts
<1>3. Request(layout[who][at].bytes) \in Nat
  BY <1>2, PaddedFacts DEF Request
<1>4. Bound(who, at) \in Addresses
  BY <1>1, BufferFacts, BoundTypes
<1>5. UNCHANGED <<who, layout, offsets, inputBytes, deviceInput,
                  inputCapacity, flagVars, memory, deviceVars, lossVars, open>>
  BY DEF AcquireBuffer
<1>6. PoolOK' /\ at' \in Nat \ {0} /\ op' \in {"acquire", "release"}
      /\ \/ UNCHANGED pointers
         \/ \E x \in Addresses : pointers' = Put(pointers, who, at, x)
      /\ \/ UNCHANGED capacities
         \/ \E x \in Nat : capacities' = Put(capacities, who, at, x)
  <2>1. PoolOK
    BY DEF PoolOK, TypeOK
  <2>2. UNCHANGED poolVars => PoolOK'
    BY <2>1 DEF PoolOK, poolVars
  <2>3. \A k \in Blocks : k \in Addresses
    BY DEF Blocks, Addresses
  <2>4. \A k, c : Acquire(Request(layout[who][at].bytes), k, c) =>
                 PoolOK' /\ c \in Nat
    BY <1>3, AcquireTypes
  <2>5. AcquireFails(Request(layout[who][at].bytes)) => PoolOK'
    BY AcquireFailsTypes
  <2> QED
    BY <1>1, <1>4, <2>2, <2>3, <2>4, <2>5 DEF AcquireBuffer, Put
<1>7. /\ pointers' \in [Batches -> Seq(Addresses)]
      /\ \A b \in Batches : DOMAIN pointers'[b] = DOMAIN pointers[b]
  <2>1. pointers \in [Batches -> Seq(Addresses)] /\ at \in DOMAIN pointers[who]
    BY <1>1, <1>2 DEF TypeOK
  <2>2. pointers' \in [Batches -> Seq(Addresses)]
    BY <1>1, <1>6, <2>1, PutType
  <2>3. \A b \in Batches : DOMAIN pointers'[b] = DOMAIN pointers[b]
    BY <1>1, <1>6, <2>1, PutValues
  <2> QED
    BY <2>2, <2>3
<1>8. /\ capacities' \in [Batches -> Seq(Nat)]
      /\ \A b \in Batches : DOMAIN capacities'[b] = DOMAIN capacities[b]
  <2>1. capacities \in [Batches -> Seq(Nat)] /\ at \in DOMAIN capacities[who]
    BY <1>1, <1>2 DEF TypeOK
  <2>2. capacities' \in [Batches -> Seq(Nat)]
    BY <1>1, <1>6, <2>1, PutType
  <2>3. \A b \in Batches : DOMAIN capacities'[b] = DOMAIN capacities[b]
    BY <1>1, <1>6, <2>1, PutValues
  <2> QED
    BY <2>2, <2>3
<1> QED
  BY <1>1, <1>5, <1>6, <1>7, <1>8
     DEF TypeOK, PoolOK, flagVars, lossVars, deviceVars

\* batch_take keeps the types.
LEMMA TakeTypes ==
  ASSUME TypeOK, UNCHANGED backend, NEW b \in Batches,
         NEW i \in DOMAIN layout[b], NEW m \in Memories, Take(b, i, m)
  PROVE  TypeOK'
<1>1. /\ pointers[b] \in Seq(Addresses) /\ layout[b][i].bytes \in Nat
      /\ i \in DOMAIN pointers[b] /\ pointers[b][i] \in Addresses
  BY BufferFacts
<1>2. /\ pointers' \in [Batches -> Seq(Addresses)]
      /\ \A c \in Batches : DOMAIN pointers'[c] = DOMAIN pointers[c]
  <2>1. NoBlock \in Addresses
    BY DEF Addresses, NoBlock
  <2>2. pointers' = Put(pointers, b, i, NoBlock)
    BY DEF Take, Moved, Put
  <2>3. pointers \in [Batches -> Seq(Addresses)]
    BY DEF TypeOK
  <2>4. pointers' \in [Batches -> Seq(Addresses)]
    BY <1>1, <2>1, <2>2, <2>3, PutType
  <2>5. \A c \in Batches : DOMAIN pointers'[c] = DOMAIN pointers[c]
    BY <2>2, <2>3, PutValues
  <2> QED
    BY <2>4, <2>5
<1>3. memory' \in [Memories ->
                     [pointer : Addresses, bytes : Nat, owned : BOOLEAN]]
  BY <1>1 DEF Take, TypeOK
<1> QED
  BY <1>2, <1>3 DEF Take, TypeOK, poolVars, opVars, lossVars, deviceVars

\* The end of batch_destroy keeps the types if the pool did.
LEMMA ForgetTypes ==
  ASSUME TypeOK, PoolOK', Forget, who \in Batches, UNCHANGED backend,
         lost' \subseteq Blocks, failures' \in Nat
  PROVE  TypeOK'
<1>1. <<>> \in Seq(Addresses) /\ <<>> \in Seq(Nat) /\ <<>> \in Seq(0 .. SizeMax)
  OBVIOUS
<1> QED
  BY <1>1 DEF Forget, Forgotten, TypeOK, PoolOK, deviceVars, NoBlock

\* A buffer from the pool has a block or none.
PoolPointers ==
  \A b \in Batches : \A i \in DOMAIN layout[b] :
    Pooled(layout[b][i].kind) => pointers[b][i] \in Blocks \cup {NoBlock}

\* A block a batch releases is one.
LEMMA ReleasableFacts ==
  ASSUME TypeOK, PoolPointers, NEW b \in Batches, NEW i \in Nat \ {0},
         Releasable(b, i)
  PROVE  /\ i \in 1 .. BufferCount(b) /\ i \in DOMAIN layout[b]
         /\ pointers[b][i] \in Blocks
         /\ capacities[b][i] \in Nat
<1>1. i \in 1 .. BufferCount(b) /\ i \in DOMAIN layout[b]
  BY BufferFacts DEF Releasable
<1> QED
  BY <1>1, BufferFacts DEF Releasable, PoolPointers

\* batch_destroy without a context keeps the types: what it loses are blocks.
LEMMA LoseBlocksTypes ==
  ASSUME TypeOK, PoolPointers, LoseBlocks, UNCHANGED backend PROVE  TypeOK'
<1>1. who \in Batches
  BY DEF LoseBlocks, TypeOK
<1>2. \A i \in DOMAIN layout[who] :
        Releasable(who, i) => pointers[who][i] \in Blocks
  BY <1>1, BufferFacts DEF Releasable, PoolPointers
<1>3. lost' \subseteq Blocks
  BY <1>1, <1>2 DEF LoseBlocks, GiveUp, TypeOK
<1>4. PoolOK' /\ failures' \in Nat /\ Forget
  BY DEF LoseBlocks, GiveUp, PushFails, TypeOK, PoolOK, poolVars
<1> QED
  BY <1>1, <1>3, <1>4, ForgetTypes

\* A turn of the release loop keeps the types.
LEMMA ReleaseBufferTypes ==
  ASSUME TypeOK, PoolPointers, ReleaseBuffer, UNCHANGED backend PROVE  TypeOK'
<1>1. who \in Batches /\ at \in 1 .. BufferCount(who)
  BY BufferFacts DEF ReleaseBuffer, TypeOK
<1>2. PoolOK'
  <2>1. CASE Releasable(who, at)
    BY <1>1, <2>1, ReleasableFacts, ReleaseTypes DEF ReleaseBuffer
  <2>2. CASE ~Releasable(who, at)
    <3>1. UNCHANGED poolVars
      BY <2>2, Zenon DEF ReleaseBuffer
    <3> QED
      BY <3>1 DEF TypeOK, PoolOK, poolVars
  <2> QED
    BY <2>1, <2>2
<1>3. /\ pointers' \in [Batches -> Seq(Addresses)]
      /\ \A b \in Batches : DOMAIN pointers'[b] = DOMAIN pointers[b]
  <2>1. pointers \in [Batches -> Seq(Addresses)]
    BY DEF TypeOK
  <2>2. pointers' = Put(pointers, who, at, NoBlock)
    BY DEF ReleaseBuffer, Put
  <2>3. at \in DOMAIN pointers[who] /\ NoBlock \in Addresses
    BY <1>1, BufferFacts DEF NoBlock, Addresses
  <2>4. pointers' \in [Batches -> Seq(Addresses)]
    BY <1>1, <2>1, <2>2, <2>3, PutType
  <2>5. \A b \in Batches : DOMAIN pointers'[b] = DOMAIN pointers[b]
    BY <1>1, <2>1, <2>2, PutValues
  <2> QED
    BY <2>4, <2>5
<1> QED
  BY <1>1, <1>2, <1>3
     DEF ReleaseBuffer, TypeOK, PoolOK, flagVars, lossVars, deviceVars

\* Releasing the block of the inputs keeps the types.
LEMMA ReleaseInputTypes ==
  ASSUME TypeOK, ReleaseInput, UNCHANGED backend PROVE  TypeOK'
<1>1. who \in Batches
  BY DEF ReleaseInput, TypeOK
<1>2. PoolOK'
  <2>1. CASE deviceInput[who] # NoBlock
    BY <1>1, <2>1, ReleaseTypes DEF ReleaseInput, TypeOK
  <2>2. CASE deviceInput[who] = NoBlock
    BY <2>2 DEF ReleaseInput, TypeOK, PoolOK, poolVars
  <2> QED
    BY <2>1, <2>2
<1> QED
  BY <1>1, <1>2, ForgetTypes DEF ReleaseInput, lossVars, TypeOK

\* An owned memory has a block, another one has none of the runtime's.
MemoryInv ==
  \A m \in Memories :
    memory[m].pointer \in IF memory[m].owned THEN Blocks ELSE {NoBlock, Foreign}

\* The calls on memories keep the types.
LEMMA MemoryTypes ==
  ASSUME TypeOK, MemoryInv, MemoryCall, UNCHANGED backend PROVE  TypeOK'
<1>1. \A bytes \in Sizes : bytes \in Nat /\ Request(bytes) \in Nat
  BY PaddedFacts DEF Request
<1>2. PICK m \in Memories :
        \/ \E bytes \in Sizes : MemoryCreate(m, bytes) \/ MemoryWrap(m, bytes)
        \/ MemoryDestroy(m)
  BY DEF MemoryCall
<1>3. \A k \in Blocks : k \in Addresses
  BY DEF Blocks, Addresses
<1>4. Foreign \in Addresses /\ NoBlock \in Addresses
  BY DEF Foreign, Addresses, NoBlock
<1>5. /\ size' \in [Blocks -> Nat]
      /\ memory' \in [Memories ->
                        [pointer : Addresses, bytes : Nat, owned : BOOLEAN]]
      /\ lost' \subseteq Blocks /\ failures' \in Nat
      /\ UNCHANGED <<spares, spareBytes, batchVars, flagVars, opVars,
                      deviceVars, open>>
  <2>1. ASSUME NEW bytes \in Sizes, MemoryCreate(m, bytes)
        PROVE  <1>5!:
    <3>1. PICK k \in Blocks :
            /\ size' = [size EXCEPT ![k] = Request(bytes)]
            /\ memory' = [memory EXCEPT ![m] =
                 [pointer |-> k, bytes |-> bytes, owned |-> TRUE]]
      BY <2>1 DEF MemoryCreate
    <3>2. size' \in [Blocks -> Nat]
      BY <1>1, <3>1 DEF TypeOK
    <3>3. memory' \in [Memories ->
                        [pointer : Addresses, bytes : Nat, owned : BOOLEAN]]
      BY <1>1, <1>3, <3>1 DEF TypeOK
    <3> QED
      BY <2>1, <3>2, <3>3 DEF MemoryCreate, lossVars, TypeOK
  <2>2. ASSUME NEW bytes \in Sizes, MemoryWrap(m, bytes)
        PROVE  <1>5!:
    BY <1>1, <1>4, <2>2 DEF MemoryWrap, TypeOK, poolVars, lossVars
  <2>3. CASE MemoryDestroy(m)
    <3>1. memory[m].owned => memory[m].pointer \in Blocks
      BY DEF MemoryInv
    <3>2. size' \in [Blocks -> Nat]
      <4>1. UNCHANGED size \/ size' = [size EXCEPT ![memory[m].pointer] = 0]
        BY <2>3 DEF MemoryDestroy
      <4> QED
        BY <4>1 DEF TypeOK
    <3>3. lost' \subseteq Blocks /\ failures' \in Nat
      BY <2>3, <3>1 DEF MemoryDestroy, GiveUp, PushFails, lossVars, TypeOK
    <3>4. memory' \in [Memories ->
                        [pointer : Addresses, bytes : Nat, owned : BOOLEAN]]
      BY <1>4, <2>3 DEF MemoryDestroy, TypeOK, NoMemory
    <3> QED
      BY <2>3, <3>2, <3>3, <3>4 DEF MemoryDestroy
  <2> QED
    BY <1>2, <2>1, <2>2, <2>3
<1> QED
  BY <1>5 DEF TypeOK, batchVars, flagVars, opVars, deviceVars

\* The kernels of a batch touch blocks.
LEMMA TouchesBlocks ==
  ASSUME TypeOK, NEW b \in Batches
  PROVE  Touches(b) \subseteq Blocks
<1>1. \A i \in DOMAIN layout[b] : pointers[b][i] \in Addresses
  BY BufferFacts
<1> QED
  BY <1>1 DEF Touches, Addresses, Blocks, NoBlock, Foreign

\* The calls and steps that only move flags, the device and the loops.
LEMMA OtherTypes ==
  ASSUME TypeOK, UNCHANGED backend,
         \/ LaidOut \/ Created \/ ProgramDestroy \/ Gone
         \/ \E b \in Batches :
              \/ Run(b) \/ Enqueue(b) \/ Wait(b) \/ BeginDestroy(b)
              \/ DestroyUnwaited(b) \/ Complete(b) \/ Overwrite(b)
  PROVE  TypeOK'
<1> USE DEF batchVars, poolVars, flagVars, lossVars, deviceVars, opVars
<1>1. CASE LaidOut \/ Created
  <2>1. /\ UNCHANGED <<poolVars, batchVars, flagVars, memory, deviceVars,
                       lossVars, open>>
        /\ op # "idle"
        /\ \E where \in {"idle", "input", "acquire", "release"} : Goto(where)
    BY <1>1 DEF LaidOut, Created
  <2>2. /\ op' \in {"idle", "layout", "input", "acquire", "release"}
        /\ who' \in IF op' = "idle" THEN {Nobody} ELSE Batches
        /\ at' \in Nat \ {0}
    BY <2>1 DEF Goto, TypeOK
  <2> QED
    BY <2>1, <2>2 DEF TypeOK
<1>2. CASE ProgramDestroy
  <2>1. {spares[s] : s \in Spares} \subseteq Blocks \cup {NoBlock}
    BY DEF TypeOK
  <2>2. lost' \subseteq Blocks /\ failures' \in Nat
    BY <1>2, <2>1 DEF ProgramDestroy, GiveUp, PushFails, TypeOK
  <2>3. size' \in [Blocks -> Nat]
    BY <1>2 DEF ProgramDestroy, TypeOK
  <2> QED
    BY <1>2, <2>2, <2>3 DEF ProgramDestroy, TypeOK
<1>3. CASE Gone
  BY <1>3 DEF Gone, vars, TypeOK
<1>4. ASSUME NEW b \in Batches, Run(b)
      PROVE  TypeOK'
  <2>1. /\ UNCHANGED <<poolVars, batchVars, detached, queued, memory, opVars,
                       inflight, stray, lossVars, open>>
        /\ completed' \subseteq completed \cup {b}
        /\ \E c \in {"none", "fresh", "bad"} :
             content' = [content EXCEPT ![b] = c]
    BY <1>4 DEF Run
  <2> QED
    BY <2>1 DEF TypeOK
<1>5. ASSUME NEW b \in Batches, Enqueue(b)
      PROVE  TypeOK'
  <2>1. /\ UNCHANGED <<poolVars, batchVars, detached, memory, opVars,
                       stray, lossVars, open>>
        /\ completed' \subseteq completed
        /\ queued' \subseteq queued \cup {b}
        /\ inflight' \subseteq inflight \cup {b}
        /\ \E c \in {"none", "fresh", "bad"} :
             content' = [content EXCEPT ![b] = c]
    BY <1>5 DEF Enqueue
  <2> QED
    BY <2>1 DEF TypeOK
<1>6. ASSUME NEW b \in Batches, Wait(b) \/ BeginDestroy(b)
      PROVE  TypeOK'
  <2>1. CASE Wait(b)
    BY <2>1 DEF Wait, TypeOK
  <2>2. CASE BeginDestroy(b)
    BY <2>2 DEF BeginDestroy, TypeOK
  <2> QED
    BY <1>6, <2>1, <2>2
<1>7. ASSUME NEW b \in Batches, Complete(b) \/ Overwrite(b)
      PROVE  TypeOK'
  <2>1. /\ UNCHANGED <<poolVars, batchVars, flagVars, memory, opVars, stray,
                       lossVars, open>>
        /\ inflight' \subseteq inflight
        /\ \E c \in {"fresh", "bad", "overwritten"} :
             content' = [content EXCEPT ![b] = c]
    BY <1>7 DEF Complete, Overwrite
  <2> QED
    BY <2>1 DEF TypeOK
<1>8. ASSUME NEW b \in Batches, DestroyUnwaited(b)
      PROVE  TypeOK'
  <2>1. Touches(b) \subseteq Blocks
    BY TouchesBlocks
  <2> QED
    BY <1>8, <2>1 DEF DestroyUnwaited, PushFails, TypeOK
<1> QED
  BY <1>1, <1>2, <1>3, <1>4, <1>5, <1>6, <1>7, <1>8

\* Every step keeps the types.
LEMMA TypeStep ==
  ASSUME TypeOK, PoolPointers, MemoryInv, Next PROVE  TypeOK'
<1>1. UNCHANGED backend
  BY DEF Next
<1> QED
  BY <1>1, CreateTypes, LayoutInputTypes, AcquireInputTypes,
     AcquireBufferTypes, TakeTypes, LoseBlocksTypes, ReleaseBufferTypes,
     ReleaseInputTypes, MemoryTypes, OtherTypes, Zenon
     DEF Next, BatchCall, BatchStep, Device, TypeOK

\* The fields of a batch that is not freed.
LEMMA ForgetEffect ==
  ASSUME TypeOK, Forget, who \in Batches
  PROVE  /\ layout'[who] = <<>> /\ DOMAIN layout'[who] = {}
         /\ deviceInput'[who] = NoBlock
         /\ who \notin completed' \cup detached' \cup queued'
         /\ \A b \in Batches \ {who} :
              /\ layout'[b] = layout[b] /\ pointers'[b] = pointers[b]
              /\ capacities'[b] = capacities[b] /\ offsets'[b] = offsets[b]
              /\ inputBytes'[b] = inputBytes[b]
              /\ deviceInput'[b] = deviceInput[b]
              /\ inputCapacity'[b] = inputCapacity[b]
BY DEF Forget, Forgotten, TypeOK

\* One turn of a loop sets one pointer.
LEMMA AcquireBufferEffect ==
  ASSUME TypeOK, AcquireBuffer
  PROVE  /\ who \in Batches /\ at \in DOMAIN layout[who]
         /\ \/ \E x \in Addresses :
                 /\ pointers' = Put(pointers, who, at, x)
                 /\ Pooled(layout[who][at].kind) => x \in Blocks
                 /\ ~Pooled(layout[who][at].kind) => x = Bound(who, at)
                 /\ at' = at + 1 /\ op' = op
            \/ UNCHANGED pointers /\ op' = "release" /\ at' = 1
<1>1. who \in Batches /\ at \in DOMAIN layout[who]
  BY BufferFacts DEF AcquireBuffer, TypeOK
<1> DEFINE kind == layout[who][at].kind
           bytes == Request(layout[who][at].bytes)
<1>2. bytes \in Nat
  BY <1>1, BufferFacts, PaddedFacts DEF Request
<1>3. CASE /\ ~Pooled(kind)
           /\ pointers' = [pointers EXCEPT ![who][at] = Bound(who, at)]
           /\ at' = at + 1 /\ UNCHANGED <<poolVars, capacities, op>>
  BY <1>1, <1>3, BoundTypes DEF Put
<1>4. CASE UNCHANGED pointers /\ op' = "release" /\ at' = 1
  BY <1>1, <1>4
<1>5. ASSUME Pooled(kind), NEW k \in Blocks, NEW c, Acquire(bytes, k, c),
             pointers' = [pointers EXCEPT ![who][at] = k],
             at' = at + 1, UNCHANGED op
      PROVE  /\ pointers' = Put(pointers, who, at, k) /\ k \in Addresses
             /\ Pooled(kind) /\ k \in Blocks /\ at' = at + 1 /\ op' = op
  BY <1>5 DEF Put, Blocks, Addresses
<1> HIDE DEF kind, bytes
<1>6. \/ /\ ~Pooled(kind)
         /\ pointers' = [pointers EXCEPT ![who][at] = Bound(who, at)]
         /\ at' = at + 1 /\ UNCHANGED <<poolVars, capacities, op>>
      \/ UNCHANGED pointers /\ op' = "release" /\ at' = 1
      \/ /\ Pooled(kind)
         /\ \E k \in Blocks : \E c :
              /\ Acquire(bytes, k, c)
              /\ pointers' = [pointers EXCEPT ![who][at] = k]
              /\ at' = at + 1 /\ UNCHANGED op
  BY DEF AcquireBuffer, kind, bytes
<1> QED
  BY <1>1, <1>3, <1>4, <1>5, <1>6 DEF kind

\* Every step keeps the buffers from the pool at a block or none.
LEMMA PoolPointersStep ==
  ASSUME TypeOK, PoolPointers, Next PROVE  PoolPointers'
<1> USE DEF PoolPointers
<1>1. backend' = backend /\ \A kind : Pooled(kind)' = Pooled(kind)
  BY DEF Next, Pooled
<1>2. CASE UNCHANGED <<layout, pointers>>
  BY <1>1, <1>2
<1>3. ASSUME NEW b \in Batches, NEW l \in Layouts[backend], Create(b, l)
      PROVE  PoolPointers'
  BY <1>1, <1>3 DEF Create, TypeOK
<1>4. CASE Forget /\ who \in Batches
  BY <1>1, <1>4, ForgetEffect
<1>5. ASSUME NEW b \in Batches, NEW i \in DOMAIN layout[b],
             NEW x \in Addresses, pointers' = Put(pointers, b, i, x),
             layout' = layout,
             Pooled(layout[b][i].kind) => x \in Blocks \cup {NoBlock}
      PROVE  PoolPointers'
  <2>1. DOMAIN pointers = Batches
        /\ \A c \in Batches : DOMAIN pointers[c] = DOMAIN layout[c]
    BY DEF TypeOK
  <2> QED
    BY <1>1, <1>5, <2>1, PutValues
<1>6. CASE AcquireBuffer
  <2>1. layout' = layout
    BY <1>6 DEF AcquireBuffer
  <2> QED
    BY <1>2, <1>5, <1>6, <2>1, AcquireBufferEffect
<1>7. ASSUME NEW b \in Batches, NEW i \in DOMAIN layout[b],
             pointers' = Put(pointers, b, i, NoBlock), layout' = layout
      PROVE  PoolPointers'
  <2>1. NoBlock \in Addresses
    BY DEF NoBlock, Addresses
  <2> QED
    BY <1>5, <1>7, <2>1
<1>8. CASE ReleaseBuffer
  <2>1. who \in Batches /\ at \in DOMAIN layout[who]
    BY <1>8, BufferFacts DEF ReleaseBuffer, TypeOK
  <2> QED
    BY <1>7, <1>8, <2>1 DEF ReleaseBuffer, Put
<1>9. ASSUME NEW b \in Batches, NEW i \in DOMAIN layout[b],
             NEW m \in Memories, Take(b, i, m)
      PROVE  PoolPointers'
  BY <1>7, <1>9 DEF Take, Moved, Put
<1>10. \/ UNCHANGED <<layout, pointers>> \/ AcquireBuffer \/ ReleaseBuffer
       \/ Forget /\ who \in Batches
       \/ \E b \in Batches : \E l \in Layouts[backend] : Create(b, l)
       \/ \E b \in Batches : \E i \in DOMAIN layout[b], m \in Memories :
            Take(b, i, m)
  BY DEF Next, BatchCall, BatchStep, MemoryCall, Device, Run, Enqueue, Wait,
         BeginDestroy, DestroyUnwaited, MemoryCreate, MemoryWrap, MemoryDestroy,
         Complete, Overwrite, ProgramDestroy, Gone, LayoutInput, LaidOut,
         AcquireInput, Created,
         LoseBlocks, ReleaseInput, batchVars, vars, TypeOK
<1> QED
  BY <1>2, <1>3, <1>4, <1>6, <1>8, <1>9, <1>10

-----------------------------------------------------------------------------
(* The loops of batch_create and batch_destroy, and the flags of a batch    *)

\* Inside a loop: the batch it works on exists and the device is done with it.
\* Before the acquire loop nothing is held; that loop fills the buffers from the
\* front, and the release loop empties them from the front.
Loops ==
  op # "idle" =>
    /\ Exists(who) /\ who \notin inflight
    /\ op # "release" => who \notin completed \cup detached \cup queued
    /\ op \in {"layout", "input"} =>
         /\ backend = "cuda" /\ deviceInput[who] = NoBlock
         /\ \A i \in DOMAIN layout[who] : pointers[who][i] = NoBlock
    /\ op = "input" => inputBytes[who] # 0
    /\ op = "acquire" => \A i \in DOMAIN layout[who] :
         i >= at => pointers[who][i] = NoBlock
    /\ op = "release" => \A i \in DOMAIN layout[who] :
         i < at => pointers[who][i] = NoBlock

\* Nothing is left of a batch that was destroyed.
Absent ==
  \A b \in Batches : ~Exists(b) =>
    deviceInput[b] = NoBlock /\ b \notin completed \cup detached \cup queued

\* A batch in flight is queued; a queued one is not completed and gave nothing
\* away.
Flags ==
  /\ inflight \subseteq queued
  /\ queued \cap (completed \cup detached) = {}

\* What is in a completed or queued batch when the device is done with it.  The
\* batch that is destroyed may be done with before the device is.
Contents ==
  /\ \A b \in completed : content[b] \in {"fresh", "overwritten"}
  /\ \A b \in queued \ inflight : b # who => content[b] # "none"

\* Only inputs on CUDA have an offset, so the loop of batch_destroy skips
\* nothing that the loop of batch_create acquired.
OffsetsOfInputs ==
  \A b \in Batches : \A i \in DOMAIN layout[b] : offsets[b][i] # NoOffset =>
    backend = "cuda" /\ layout[b][i].kind = "input"

ControlInv == Loops /\ Absent /\ Flags /\ Contents /\ OffsetsOfInputs

\* The loops' own steps change no flag and leave the device alone.
LEMMA LoopsLeaveFlags ==
  ASSUME \/ LayoutInput \/ LaidOut \/ AcquireInput \/ AcquireBuffer \/ Created
         \/ ReleaseBuffer
  PROVE  UNCHANGED <<layout, flagVars, deviceVars>>
BY DEF LayoutInput, LaidOut, AcquireInput, AcquireBuffer, Created,
       ReleaseBuffer, batchVars

\* Every step keeps the flags and contents of the batches as stated.
LEMMA FlagsStep ==
  ASSUME TypeOK, ControlInv, Next
  PROVE  Absent' /\ Flags' /\ Contents'
<1> USE DEF ControlInv, Flags, Contents, Absent, Exists
<1>1. CASE /\ UNCHANGED <<layout, deviceInput, flagVars, deviceVars>>
           /\ who' = who \/ op = "idle" \/ who \notin queued
  <2>1. op = "idle" => who \notin queued
    BY NobodyAssumption DEF TypeOK
  <2> QED
    BY <1>1, <2>1 DEF flagVars, deviceVars
<1>2. CASE Forget /\ op # "idle"
  <2>1. who \in Batches /\ who \notin inflight
    BY <1>2 DEF Loops, TypeOK
  <2>2. who \notin queued'
    BY <1>2, <2>1, ForgetEffect
  <2> QED
    BY <1>2, <2>1, <2>2, ForgetEffect DEF Forget, deviceVars, TypeOK
<1>3. CASE AcquireInput
  <2>1. who \in Batches /\ layout[who] # <<>>
    BY <1>3 DEF Loops, AcquireInput, TypeOK
  <2>2. UNCHANGED <<layout, flagVars, deviceVars>>
    BY <1>3, LoopsLeaveFlags
  <2>3. \A b \in Batches : b # who => deviceInput'[b] = deviceInput[b]
    BY <1>3 DEF AcquireInput, TypeOK
  <2>4. who' = who
    BY <1>3 DEF AcquireInput, Goto
  <2> QED
    BY <2>1, <2>2, <2>3, <2>4 DEF flagVars, deviceVars
<1>4. ASSUME NEW b \in Batches, NEW l \in Layouts[backend], Create(b, l)
      PROVE  Absent' /\ Flags' /\ Contents'
  <2>1. b \notin completed \cup queued \cup detached
    BY <1>4 DEF Create
  <2>2. \A c \in Batches \ {b} :
          layout'[c] = layout[c] /\ content'[c] = content[c]
    BY <1>4 DEF Create, TypeOK
  <2>3. layout'[b] # <<>>
    BY <1>4, LayoutFacts DEF Create, TypeOK
  <2>4. UNCHANGED <<deviceInput, completed, detached, queued, inflight>>
    BY <1>4 DEF Create, flagVars
  <2>5. who \notin queued
    BY <1>4, NobodyAssumption DEF Create, TypeOK
  <2> QED
    BY <2>1, <2>2, <2>3, <2>4, <2>5 DEF TypeOK
<1>5. ASSUME NEW b \in Batches, Run(b)
      PROVE  Absent' /\ Flags' /\ Contents'
  BY <1>5 DEF Run, Runnable, batchVars, opVars, TypeOK
<1>6. ASSUME NEW b \in Batches, Enqueue(b)
      PROVE  Absent' /\ Flags' /\ Contents'
  <2>1. /\ b \notin queued \cup detached /\ layout[b] # <<>>
        /\ completed' = completed \ {b}
        /\ UNCHANGED <<layout, deviceInput, detached, who>>
    BY <1>6 DEF Enqueue, Runnable, batchVars, opVars
  <2>2. /\ content' \in [Batches -> {"none", "fresh", "bad", "overwritten"}]
        /\ \A c \in Batches : c # b => content'[c] = content[c]
    BY <1>6 DEF Enqueue, TypeOK
  <2>3. \/ inflight' = inflight \cup {b} /\ queued' = queued \cup {b}
        \/ /\ inflight' = inflight /\ queued' = queued \cup {b}
           /\ content'[b] = "fresh"
        \/ UNCHANGED <<inflight, queued>>
    BY <1>6 DEF Enqueue, TypeOK
  <2>4. Absent' /\ Flags'
    BY <2>1, <2>3
  <2>5. Contents'
    BY <2>1, <2>2, <2>3 DEF TypeOK
  <2> QED
    BY <2>4, <2>5
<1>7. ASSUME NEW b \in Batches, Wait(b)
      PROVE  Absent' /\ Flags' /\ Contents'
  BY <1>7, NobodyAssumption
     DEF Wait, WaitSucceeds, batchVars, deviceVars, opVars, TypeOK
<1>8. ASSUME NEW b \in Batches, Complete(b) \/ Overwrite(b)
      PROVE  Absent' /\ Flags' /\ Contents'
  BY <1>8 DEF Complete, Overwrite, batchVars, flagVars, opVars, TypeOK
<1>9. ASSUME NEW b \in Batches, NEW i \in DOMAIN layout[b],
             NEW m \in Memories, Take(b, i, m)
      PROVE  Absent' /\ Flags' /\ Contents'
  BY <1>9 DEF Take, Takeable, deviceVars, opVars, TypeOK
<1>10. ASSUME NEW b \in Batches, DestroyUnwaited(b)
       PROVE  Absent' /\ Flags' /\ Contents'
  <2>1. /\ UNCHANGED <<layout, deviceInput, flagVars, content>>
        /\ inflight' = inflight \ {b} /\ who' = b
    BY <1>10 DEF DestroyUnwaited, batchVars
  <2>2. who \notin queued
    BY <1>10, NobodyAssumption DEF DestroyUnwaited, TypeOK
  <2> QED
    BY <2>1, <2>2 DEF flagVars
<1>11. ASSUME LayoutInput \/ LaidOut \/ AcquireBuffer \/ Created
              \/ ReleaseBuffer
       PROVE  who' = who \/ who \notin queued
  BY <1>11 DEF LayoutInput, LaidOut, AcquireBuffer, Created, ReleaseBuffer,
               Goto, Loops
<1>12. \/ /\ UNCHANGED <<layout, deviceInput, flagVars, deviceVars>>
          /\ who' = who \/ op = "idle" \/ who \notin queued
       \/ (Forget /\ op # "idle") \/ AcquireInput
       \/ \E b \in Batches : \/ \E l \in Layouts[backend] : Create(b, l)
                             \/ Run(b) \/ Enqueue(b) \/ Wait(b) \/ Complete(b)
                             \/ DestroyUnwaited(b) \/ Overwrite(b)
                             \/ \E i \in DOMAIN layout[b], m \in Memories :
                                  Take(b, i, m)
  BY <1>11, LoopsLeaveFlags
     DEF Next, BatchCall, BatchStep, MemoryCall, Device, BeginDestroy,
         Destroyable, MemoryCreate, MemoryWrap, MemoryDestroy, ProgramDestroy,
         Gone, LayoutInput, LaidOut, AcquireBuffer, Created, ReleaseBuffer,
         LoseBlocks, ReleaseInput, batchVars, opVars, vars
<1> QED
  BY <1>1, <1>2, <1>3, <1>4, <1>5, <1>6, <1>7, <1>8, <1>9, <1>10, <1>12

\* Every step leaves an offset to the inputs on CUDA alone.
LEMMA OffsetsStep ==
  ASSUME TypeOK, ControlInv, Next PROVE OffsetsOfInputs'
<1> USE DEF ControlInv, OffsetsOfInputs
<1>1. CASE UNCHANGED <<layout, offsets, backend>>
  BY <1>1
<1>2. CASE Forget /\ op # "idle" /\ UNCHANGED backend
  <2>1. who \in Batches
    BY <1>2 DEF TypeOK
  <2>2. \A b \in Batches : b # who =>
          layout'[b] = layout[b] /\ offsets'[b] = offsets[b]
    BY <1>2, <2>1, ForgetEffect
  <2>3. DOMAIN layout'[who] = {}
    BY <1>2, <2>1, ForgetEffect
  <2> QED
    BY <1>2, <2>2, <2>3
<1>3. ASSUME NEW b \in Batches, NEW l \in Layouts[backend], Create(b, l),
             UNCHANGED backend
      PROVE  OffsetsOfInputs'
  <2>1. /\ layout' = [layout EXCEPT ![b] = l]
        /\ offsets' = [offsets EXCEPT ![b] = NoOffsets(l)]
        /\ \A i \in DOMAIN l : NoOffsets(l)[i] = NoOffset
    BY <1>3 DEF Create, NoOffsets
  <2> QED
    BY <1>3, <2>1 DEF TypeOK
<1>4. CASE LayoutInput /\ UNCHANGED backend
  <2>1. who \in Batches /\ UNCHANGED layout /\ backend = "cuda"
    BY <1>4 DEF LayoutInput, TypeOK, Loops
  <2>2. CASE UNCHANGED offsets
    BY <1>1, <1>4, <2>1, <2>2
  <2>3. CASE layout[who][at].kind = "input"
             /\ offsets' = Put(offsets, who, at, inputBytes[who])
    <3>1. DOMAIN offsets = Batches
          /\ \A b \in Batches : DOMAIN offsets[b] = DOMAIN layout[b]
      BY DEF TypeOK
    <3> QED
      BY <1>4, <2>1, <2>3, <3>1, PutValues
  <2> QED
    BY <1>4, <2>2, <2>3 DEF LayoutInput, Put
<1>5. UNCHANGED backend /\
       \/ UNCHANGED <<layout, offsets>>
       \/ (Forget /\ op # "idle") \/ LayoutInput
       \/ \E b \in Batches : \E l \in Layouts[backend] : Create(b, l)
  BY DEF Next, BatchCall, BatchStep, MemoryCall, Device, Run, Enqueue, Wait,
         BeginDestroy, DestroyUnwaited, Complete, Overwrite, Take, MemoryCreate, MemoryWrap, MemoryDestroy,
         ProgramDestroy, Gone, LaidOut, AcquireInput, AcquireBuffer, Created,
         ReleaseBuffer, LoseBlocks, ReleaseInput, batchVars, vars
<1> QED
  BY <1>1, <1>2, <1>3, <1>4, <1>5

\* Every step keeps what holds inside the loops.
LEMMA LoopsStep ==
  ASSUME TypeOK, PoolPointers, ControlInv, Next PROVE Loops'
<1> USE DEF ControlInv, Exists
<1>1. CASE op' = "idle"
  BY <1>1 DEF Loops
<1>2. CASE UNCHANGED <<op, who, at, backend, layout, pointers, deviceInput,
                       inputBytes, completed, detached, queued>>
           /\ inflight' \subseteq inflight
  BY <1>2 DEF Loops
<1>3. ASSUME NEW b \in Batches, NEW l \in Layouts[backend], Create(b, l),
             UNCHANGED backend
      PROVE  Loops'
  <2>1. /\ layout'[b] = l /\ l # <<>> /\ deviceInput'[b] = NoBlock
        /\ pointers'[b] = [i \in DOMAIN l |-> NoBlock]
    BY <1>3, LayoutFacts DEF Create, TypeOK, Absent
  <2>2. /\ b \notin completed \cup queued \cup detached \cup inflight
        /\ UNCHANGED <<completed, queued, detached, inflight>>
    BY <1>3 DEF Create, flagVars, Absent, Flags
  <2>3. who' = b /\ at' = 1
        /\ op' = IF backend = "cuda" THEN "layout" ELSE "acquire"
    BY <1>3 DEF Create
  <2> QED
    BY <1>3, <2>1, <2>2, <2>3 DEF Loops
<1>4. CASE LayoutInput /\ UNCHANGED backend
  <2>1. UNCHANGED <<who, layout, pointers, deviceInput, flagVars, inflight>>
    BY <1>4 DEF LayoutInput, deviceVars
  <2>2. /\ op = "layout" /\ at' \in Nat
        /\ op' = "layout" \/ (op' = "release" /\ at' = 1)
    <3>1. at \in Nat
      BY DEF TypeOK
    <3>2. /\ op = "layout"
          /\ \/ at' = at + 1 /\ op' = op
             \/ op' = "release" /\ at' = 1
      BY <1>4 DEF LayoutInput
    <3> QED
      BY <3>1, <3>2
  <2> QED
    BY <1>4, <2>1, <2>2 DEF Loops, flagVars
<1>5. CASE LaidOut /\ UNCHANGED backend
  <2>1. UNCHANGED <<who, batchVars, flagVars, inflight>>
    BY <1>5 DEF LaidOut, deviceVars, Goto
  <2>2. /\ op = "layout" /\ at' = 1
        /\ \/ op' \in {"release", "acquire"}
           \/ op' = "input" /\ inputBytes[who] # 0
    BY <1>5 DEF LaidOut, Goto
  <2>3. \A i \in DOMAIN layout[who] : pointers[who][i] = NoBlock
    BY <2>2 DEF Loops
  <2> QED
    BY <1>5, <2>1, <2>2, <2>3 DEF Loops, flagVars, batchVars
<1>6. CASE AcquireInput /\ UNCHANGED backend
  <2>1. UNCHANGED <<who, layout, pointers, flagVars, inflight>>
    BY <1>6 DEF AcquireInput, deviceVars, Goto
  <2>2. op = "input" /\ at' = 1 /\ op' \in {"release", "acquire"}
    BY <1>6 DEF AcquireInput, Goto
  <2>3. \A i \in DOMAIN layout[who] : pointers[who][i] = NoBlock
    BY <2>2 DEF Loops
  <2> QED
    BY <1>6, <2>1, <2>2, <2>3 DEF Loops, flagVars
<1>7. CASE AcquireBuffer /\ UNCHANGED backend
  <2>1. op = "acquire" /\ UNCHANGED <<who, layout, flagVars, inflight>>
    BY <1>7 DEF AcquireBuffer, deviceVars
  <2>2. CASE op' = "release" /\ at' = 1
    <3>1. \A i \in DOMAIN layout[who] : ~(i < 1)
      BY <1>7, AcquireBufferEffect, BufferFacts
    <3> QED
      BY <2>1, <2>2, <3>1 DEF Loops, flagVars
  <2>3. CASE op' = op /\ at' = at + 1
             /\ \E x : pointers' = Put(pointers, who, at, x)
    <3>1. at \in Nat /\ who \in Batches
      BY <2>1 DEF TypeOK
    <3>2. \A i \in DOMAIN layout[who] : i \in Nat
      BY <3>1, BufferFacts
    <3>3. DOMAIN pointers = Batches /\ DOMAIN pointers[who] = DOMAIN layout[who]
      BY <3>1 DEF TypeOK
    <3>4. \A i \in DOMAIN layout[who] :
            i # at => pointers'[who][i] = pointers[who][i]
      BY <2>3, <3>1, <3>3, PutValues
    <3> QED
      BY <2>1, <2>3, <3>1, <3>2, <3>4 DEF Loops, flagVars
  <2> QED
    BY <1>7, <2>2, <2>3, AcquireBufferEffect
<1>8. ASSUME NEW b \in Batches, BeginDestroy(b) \/ DestroyUnwaited(b),
             UNCHANGED backend
      PROVE  Loops'
  <2>1. /\ op' = "release" /\ who' = b /\ at' = 1 /\ layout[b] # <<>>
        /\ b \notin inflight' /\ UNCHANGED layout
    BY <1>8 DEF BeginDestroy, Destroyable, DestroyUnwaited, batchVars,
                deviceVars, Flags
  <2>2. \A i \in DOMAIN layout[b] : ~(i < 1)
    BY BufferFacts
  <2> QED
    BY <2>1, <2>2 DEF Loops
<1>9. CASE ReleaseBuffer /\ UNCHANGED backend
  <2>1. /\ who \in Batches /\ at' = at + 1 /\ op = "release"
        /\ UNCHANGED <<op, who, layout, flagVars, inflight>>
        /\ pointers' = Put(pointers, who, at, NoBlock)
    BY <1>9 DEF ReleaseBuffer, deviceVars, Put, TypeOK
  <2>2. at \in Nat /\ \A i \in DOMAIN layout[who] : i \in Nat
    <3>1. at \in Nat
      BY DEF TypeOK
    <3> QED
      BY <2>1, <3>1, BufferFacts
  <2>3. \A i \in DOMAIN layout[who] :
          pointers'[who][i] = IF i = at THEN NoBlock ELSE pointers[who][i]
    BY <2>1, PutValues DEF TypeOK
  <2> QED
    BY <2>1, <2>2, <2>3 DEF Loops, flagVars
<1>10. CASE Created /\ UNCHANGED backend
  <2>1. \/ op' = "idle"
        \/ op' = "release" /\ at' = 1 /\ UNCHANGED <<who, layout, inflight>>
    BY <1>10 DEF Created, Goto, batchVars, deviceVars
  <2>2. op = "acquire" /\ who \in Batches
    BY <1>10 DEF Created, TypeOK
  <2>3. \A i \in DOMAIN layout[who] : ~(i < 1)
    BY <2>2, BufferFacts
  <2> QED
    BY <1>1, <2>1, <2>2, <2>3 DEF Loops
<1>11. BatchCall => op' = "idle" \/ \E b \in Batches :
         BeginDestroy(b) \/ DestroyUnwaited(b) \/ \E l \in Layouts[backend] : Create(b, l)
  BY DEF BatchCall, Run, Runnable, Enqueue, Wait, Take, opVars
<1>12. MemoryCall \/ ProgramDestroy => op' = "idle"
  BY DEF MemoryCall, MemoryCreate, MemoryWrap, MemoryDestroy, ProgramDestroy,
         opVars
<1>13. LoseBlocks \/ ReleaseInput => op' = "idle"
  BY DEF LoseBlocks, ReleaseInput, Forget
<1>14. ASSUME Device \/ Gone
       PROVE  /\ UNCHANGED <<op, who, at, layout, pointers, deviceInput,
                             inputBytes, completed, detached, queued>>
              /\ inflight' \subseteq inflight
  BY <1>14 DEF Device, Complete, Overwrite, Gone, vars, opVars, batchVars, flagVars,
               deviceVars
<1>15. UNCHANGED backend
  BY DEF Next
<1> QED
  BY <1>1, <1>2, <1>3, <1>4, <1>5, <1>6, <1>7, <1>8, <1>9, <1>10, <1>11,
     <1>12, <1>13, <1>14, <1>15 DEF Next, BatchStep

\* All this holds before the first call.
LEMMA ControlInit == Init => ControlInv
BY DEF Init, ControlInv, Loops, Absent, Flags, Contents, OffsetsOfInputs,
       Exists, NoBlock

\* Every step keeps it.
LEMMA ControlStep ==
  ASSUME TypeOK, PoolPointers, ControlInv, Next PROVE ControlInv'
BY FlagsStep, OffsetsStep, LoopsStep DEF ControlInv

-----------------------------------------------------------------------------
(* What is left to the kernels of batches that are gone                    *)

\* A batch that is being created has no output.  An output is overwritten only
\* if the batch has a block in stray, or had one until it was taken or released,
\* and a block is in stray only after a failed push.
Leftovers ==
  /\ op \notin {"idle", "release"} => content[who] = "none"
  /\ \A b \in Batches : content[b] = "overwritten" =>
       /\ stray # {}
       /\ Exists(b) /\ b \notin detached /\ b # who =>
            Touches(b) \cap stray # {}
  /\ failures = 0 => stray = {}

\* The steps that leave the other batches' buffers and outputs as they are.
LEMMA LeftoversKept ==
  ASSUME TypeOK, Leftovers, stray \subseteq stray',
         failures' = 0 => failures = 0 /\ stray' = stray,
         op' \notin {"idle", "release"} => content'[who'] = "none",
         \A b \in Batches : content'[b] = "overwritten" =>
           /\ content[b] = "overwritten"
           /\ Exists(b)' /\ b \notin detached' /\ b # who' =>
                /\ Exists(b) /\ b \notin detached /\ b # who
                /\ layout'[b] = layout[b] /\ pointers'[b] = pointers[b]
  PROVE  Leftovers'
<1>1. ASSUME NEW b \in Batches, content'[b] = "overwritten"
      PROVE  /\ stray' # {}
             /\ Exists(b)' /\ b \notin detached' /\ b # who' =>
                  Touches(b)' \cap stray' # {}
  <2>1. stray' # {}
    BY <1>1 DEF Leftovers
  <2>2. ASSUME Exists(b)', b \notin detached', b # who'
        PROVE  Touches(b)' \cap stray' # {}
    <3>1. /\ Touches(b) \cap stray # {}
          /\ layout'[b] = layout[b] /\ pointers'[b] = pointers[b]
      BY <1>1, <2>2 DEF Leftovers
    <3>2. Touches(b)' = Touches(b)
      BY <3>1 DEF Touches
    <3> QED
      BY <3>1, <3>2
  <2> QED
    BY <2>1, <2>2
<1>2. failures' = 0 => stray' = {}
  BY DEF Leftovers
<1> QED
  BY <1>1, <1>2 DEF Leftovers

\* Only a failed push leaves blocks to kernels whose batch is gone, and they
\* are left to them for good.
LEMMA StrayStep ==
  ASSUME TypeOK, Next
  PROVE  /\ stray \subseteq stray'
         /\ failures' = 0 => failures = 0 /\ stray' = stray
<1>1. PushFails => failures' # 0
  BY DEF PushFails, TypeOK
<1>2. ASSUME NEW b \in Batches, DestroyUnwaited(b)
      PROVE  stray \subseteq stray' /\ failures' # 0
  BY <1>1, <1>2 DEF DestroyUnwaited
<1>3. UNCHANGED stray \/ \E b \in Batches : DestroyUnwaited(b)
  BY DEF Next, BatchCall, BatchStep, MemoryCall, Device, Create, Run, Enqueue,
         Wait, BeginDestroy, Complete, Overwrite, Take, MemoryCreate,
         MemoryWrap, MemoryDestroy, ProgramDestroy, Gone, LayoutInput, LaidOut,
         AcquireInput, AcquireBuffer, Created, ReleaseBuffer, LoseBlocks,
         ReleaseInput, Forget, deviceVars, vars
<1>4. UNCHANGED failures \/ PushFails
  BY DEF Next, BatchCall, BatchStep, MemoryCall, Device, Create, Run, Enqueue,
         Wait, BeginDestroy, DestroyUnwaited, Complete, Overwrite, Take,
         MemoryCreate, MemoryWrap, MemoryDestroy, ProgramDestroy, Gone,
         LayoutInput, LaidOut, AcquireInput, AcquireBuffer, Created,
         ReleaseBuffer, LoseBlocks, ReleaseInput, GiveUp, lossVars, vars
<1> QED
  BY <1>1, <1>2, <1>3, <1>4

\* Every step keeps it.
LEMMA LeftoversStep ==
  ASSUME TypeOK, ControlInv, Leftovers, Next PROVE Leftovers'
<1>1. /\ stray \subseteq stray'
      /\ failures' = 0 => failures = 0 /\ stray' = stray
  BY StrayStep
<1>2. op = "idle" => \A b \in Batches : b # who
  BY NobodyAssumption DEF TypeOK
<1> DEFINE Moves ==
             /\ who' = who \/ op \in {"idle", "acquire"}
             /\ \/ op' \in {"idle", "release"}
                \/ op \notin {"idle", "release"} /\ who' = who
<1>3. CASE /\ UNCHANGED <<layout, detached, content>>
           /\ \A b \in Batches : b # who => pointers'[b] = pointers[b]
           /\ Moves
  BY <1>1, <1>2, <1>3, LeftoversKept DEF Leftovers, Exists
<1>4. CASE Forget /\ who \in Batches
  BY <1>1, <1>4, LeftoversKept, ForgetEffect DEF Leftovers, Exists, Forget, deviceVars
<1>5. ASSUME NEW b \in Batches, NEW l \in Layouts[backend], Create(b, l)
      PROVE  Leftovers'
  <2>1. /\ content'[b] = "none" /\ who' = b /\ UNCHANGED detached
        /\ \A c \in Batches \ {b} :
             /\ content'[c] = content[c] /\ layout'[c] = layout[c]
             /\ pointers'[c] = pointers[c] /\ c # who
    BY <1>2, <1>5 DEF Create, TypeOK, flagVars
  <2> QED
    BY <1>1, <2>1, LeftoversKept DEF Leftovers, Exists
<1>6. ASSUME NEW b \in Batches, NEW i \in DOMAIN layout[b],
             NEW m \in Memories, Take(b, i, m)
      PROVE  Leftovers'
  <2>1. /\ detached' = detached \cup {b} /\ op' = "idle"
        /\ UNCHANGED <<layout, content>>
        /\ \A c \in Batches \ {b} : pointers'[c] = pointers[c] /\ c # who
    BY <1>2, <1>6 DEF Take, Moved, TypeOK, opVars, deviceVars
  <2> QED
    BY <1>1, <2>1, LeftoversKept DEF Exists
<1>7. ASSUME NEW b \in Batches,
             Run(b) \/ Enqueue(b) \/ Complete(b) \/ Overwrite(b)
      PROVE  Leftovers'
  <2>1. UNCHANGED <<batchVars, detached, opVars, stray>>
    BY <1>7 DEF Run, Enqueue, Complete, Overwrite, flagVars
  <2>2. \A c \in Batches \ {b} : content'[c] = content[c]
    BY <1>7 DEF Run, Enqueue, Complete, Overwrite, TypeOK
  <2>3. op \notin {"idle", "release"} => b # who
    BY <1>7
       DEF Run, Enqueue, Runnable, Complete, Overwrite, ControlInv, Loops,
           Leftovers
  <2>4. op' \notin {"idle", "release"} => content'[who'] = "none"
    BY <2>1, <2>2, <2>3 DEF opVars, Leftovers, TypeOK
  <2>5. CASE content'[b] # "overwritten"
    BY <1>1, <2>1, <2>2, <2>4, <2>5, LeftoversKept
       DEF batchVars, opVars, Exists
  <2>6. CASE Overwrite(b)
    <3>1. Touches(b) \cap stray # {}
      BY <2>6 DEF Overwrite
    <3>2. \A c \in Batches : Touches(c)' = Touches(c) /\ Exists(c)' = Exists(c)
      BY <2>1 DEF batchVars, Touches, Exists
    <3>3. \A c \in Batches : content'[c] = "overwritten" =>
            /\ stray # {}
            /\ Exists(c) /\ c \notin detached /\ c # who =>
                 Touches(c) \cap stray # {}
      BY <2>2, <3>1 DEF Leftovers
    <3>4. failures' = 0 => stray = {}
      BY <1>1 DEF Leftovers
    <3> QED
      BY <2>1, <2>4, <3>2, <3>3, <3>4 DEF Leftovers, opVars
  <2> QED
    BY <1>7, <2>5, <2>6 DEF Run, Enqueue, Complete, TypeOK
<1>8. ASSUME \/ LaidOut \/ LayoutInput \/ AcquireInput \/ Created
             \/ AcquireBuffer \/ ReleaseBuffer \/ MemoryCall
             \/ ProgramDestroy \/ Gone
             \/ \E b \in Batches :
                  Wait(b) \/ BeginDestroy(b) \/ DestroyUnwaited(b)
      PROVE  Leftovers'
  <2>1. UNCHANGED <<layout, detached, content>>
    BY <1>8 DEF LaidOut, LayoutInput, AcquireInput, Created, AcquireBuffer,
         ReleaseBuffer, MemoryCall, MemoryCreate, MemoryWrap, MemoryDestroy,
         ProgramDestroy, Gone, Wait, BeginDestroy, DestroyUnwaited, batchVars,
         flagVars, deviceVars, vars
  <2>2. UNCHANGED pointers \/ AcquireBuffer \/ ReleaseBuffer
    BY <1>8 DEF LaidOut, LayoutInput, AcquireInput, Created, MemoryCall,
         MemoryCreate, MemoryWrap, MemoryDestroy, ProgramDestroy, Gone, Wait,
         BeginDestroy, DestroyUnwaited, batchVars, vars
  <2>3. \A b \in Batches : b # who => pointers'[b] = pointers[b]
    BY <2>2 DEF AcquireBuffer, ReleaseBuffer, TypeOK
  <2>4. Moves
    <3>1. CASE LaidOut
      BY <3>1 DEF LaidOut, Goto
    <3>2. CASE LayoutInput \/ AcquireBuffer \/ ReleaseBuffer
      BY <3>2 DEF LayoutInput, AcquireBuffer, ReleaseBuffer
    <3>3. CASE AcquireInput
      BY <3>3 DEF AcquireInput, Goto
    <3>4. CASE Created
      BY <3>4 DEF Created, Goto
    <3>5. CASE MemoryCall \/ ProgramDestroy
      BY <3>5 DEF MemoryCall, MemoryCreate, MemoryWrap, MemoryDestroy,
           ProgramDestroy, opVars
    <3>6. CASE Gone
      BY <3>6 DEF Gone, opVars, vars
    <3>7. ASSUME NEW b \in Batches,
                 Wait(b) \/ BeginDestroy(b) \/ DestroyUnwaited(b)
          PROVE  Moves
      BY <3>7 DEF Wait, BeginDestroy, Destroyable, DestroyUnwaited, opVars
    <3> QED
      BY <1>8, <3>1, <3>2, <3>3, <3>4, <3>5, <3>6, <3>7
  <2> QED
    BY <1>3, <2>1, <2>3, <2>4
<1>9. LoseBlocks \/ ReleaseInput => Forget /\ who \in Batches
  BY DEF LoseBlocks, ReleaseInput, TypeOK
<1> QED
  BY <1>3, <1>4, <1>5, <1>6, <1>7, <1>8, <1>9
     DEF Next, BatchCall, BatchStep, Device

-----------------------------------------------------------------------------
(* What a batch's buffers are bound to                                     *)

\* The buffers a batch has bound: all, or those behind which the loop is.
Ready(b, i) ==
  /\ i \in DOMAIN layout[b] /\ b \notin detached
  /\ op # "idle" /\ who = b => op = "acquire" /\ i < at

\* What a batch may lead its kernels to: its inputs, the blocks it acquired and
\* the memories bound to it.
Reaches(b, k) ==
  \/ k = deviceInput[b]
  \/ \E i \in DOMAIN layout[b] : BufferBlock(b, i) = k
  \/ \E i \in DOMAIN layout[b] :
       layout[b][i].kind = "external" /\ MemoryBlock(layout[b][i].memory) = k

\* Every bound buffer of the pool has a block, and every bound buffer lies in
\* what its batch reaches.
BoundInv ==
  \A b \in Batches : \A i \in DOMAIN layout[b] : Ready(b, i) =>
    /\ Pooled(layout[b][i].kind) => pointers[b][i] # NoBlock
    /\ pointers[b][i] \notin {NoBlock, Foreign} => Reaches(b, pointers[b][i])

\* The fields of a batch that say what its buffers are bound to stay.
Same(b) ==
  /\ layout'[b] = layout[b] /\ pointers'[b] = pointers[b]
  /\ offsets'[b] = offsets[b] /\ deviceInput'[b] = deviceInput[b]

\* A memory that a batch binds keeps its block.
MemoriesServe ==
  \A m \in Memories :
    \/ MemoryBlock(m)' = MemoryBlock(m) \/ MemoryBlock(m) = NoBlock \/ ~InUse(m)

\* A buffer from the pool has no offset.
LEMMA ReleasableIf ==
  ASSUME TypeOK, OffsetsOfInputs, NEW b \in Batches, NEW i \in DOMAIN layout[b]
  PROVE  Releasable(b, i) <=>
           Pooled(layout[b][i].kind) /\ pointers[b][i] # NoBlock
<1>1. i <= BufferCount(b)
  BY BufferFacts
<1>2. Pooled(layout[b][i].kind) => offsets[b][i] = NoOffset
  BY DEF OffsetsOfInputs, Pooled
<1> QED
  BY <1>1, <1>2 DEF Releasable

\* A batch whose fields stay reaches what it reached, as long as the memories
\* it binds serve.
LEMMA ReachesKept ==
  ASSUME TypeOK, NEW b \in Batches, Same(b), UNCHANGED backend, MemoriesServe,
         NEW k, k # NoBlock, Reaches(b, k)
  PROVE  Reaches(b, k)'
<1>1. CASE k = deviceInput[b]
  BY <1>1 DEF Reaches, Same
<1>2. ASSUME NEW i \in DOMAIN layout[b], BufferBlock(b, i) = k
      PROVE  Reaches(b, k)'
  BY <1>2 DEF Reaches, Same, BufferBlock, Releasable, BufferCount, Pooled
<1>3. ASSUME NEW i \in DOMAIN layout[b], layout[b][i].kind = "external",
             MemoryBlock(layout[b][i].memory) = k
      PROVE  Reaches(b, k)'
  <2>1. layout[b][i].memory \in Memories /\ InUse(layout[b][i].memory)
    BY <1>3, BufferFacts DEF InUse
  <2>2. MemoryBlock(layout[b][i].memory)' = k
    BY <1>3, <2>1 DEF MemoriesServe, Same, MemoryBlock
  <2> QED
    BY <1>3, <2>2 DEF Reaches, Same
<1> QED
  BY <1>1, <1>2, <1>3 DEF Reaches

\* A buffer that was bound before, of a batch that stays, is bound still.
LEMMA BoundKept ==
  ASSUME TypeOK, BoundInv, UNCHANGED backend, MemoriesServe,
         \A b \in Batches : \A i \in DOMAIN layout'[b] :
           Ready(b, i)' => Ready(b, i) /\ Same(b)
  PROVE  BoundInv'
<1> SUFFICES ASSUME NEW b \in Batches, NEW i \in DOMAIN layout'[b], Ready(b, i)'
             PROVE  /\ Pooled(layout[b][i].kind)' => pointers'[b][i] # NoBlock
                    /\ pointers'[b][i] \notin {NoBlock, Foreign} =>
                         Reaches(b, pointers[b][i])'
  BY DEF BoundInv
<1>1. Ready(b, i) /\ Same(b) /\ i \in DOMAIN layout[b]
  BY DEF Same
<1>2. /\ Pooled(layout[b][i].kind) => pointers[b][i] # NoBlock
      /\ pointers[b][i] \notin {NoBlock, Foreign} => Reaches(b, pointers[b][i])
  BY <1>1 DEF BoundInv
<1>3. pointers'[b][i] = pointers[b][i] /\ layout'[b][i] = layout[b][i]
  BY <1>1 DEF Same
<1>4. Pooled(layout[b][i].kind)' = Pooled(layout[b][i].kind)
  BY <1>3 DEF Pooled
<1>5. ASSUME pointers[b][i] \notin {NoBlock, Foreign}
      PROVE  Reaches(b, pointers[b][i])'
  <2>1. Reaches(b, pointers[b][i]) /\ pointers[b][i] # NoBlock
    BY <1>2, <1>5
  <2>2. PICK k : k = pointers[b][i]
    OBVIOUS
  <2>3. Reaches(b, k)'
    BY <1>1, <2>1, <2>2, ReachesKept
  <2> QED
    BY <1>3, <2>2, <2>3 DEF Reaches
<1> QED
  BY <1>2, <1>3, <1>4, <1>5

\* batch_take finds the block of a buffer that the batch acquired.
LEMMA TakeFacts ==
  ASSUME TypeOK, PoolPointers, ControlInv, BoundInv, NEW b \in Batches,
         NEW i \in DOMAIN layout[b], NEW m \in Memories, Take(b, i, m)
  PROVE  /\ Releasable(b, i) /\ pointers[b][i] \in Blocks
         /\ b \notin queued \cup detached
<1>1. /\ layout[b][i] \in Buffer /\ BuffersValid(layout[b])
      /\ i \in 1 .. BufferCount(b)
  BY BufferFacts DEF TypeOK, Take, Exists
<1>2. layout[b][i].kind = "own"
  <2>1. /\ layout[b][i].kind \notin {"alias", "input", "output"}
        /\ layout[b][i].result
    BY DEF Take, Takeable
  <2>2. layout[b][i].kind # "external"
    BY <1>1, <2>1 DEF BuffersValid
  <2> QED
    BY <1>1, <2>1, <2>2 DEF Buffer
<1>3. Pooled(layout[b][i].kind)
  BY <1>2 DEF Pooled
<1>4. Ready(b, i) /\ b \notin queued \cup detached
  BY DEF Ready, Take, Takeable, ControlInv, Flags
<1>5. pointers[b][i] # NoBlock
  BY <1>3, <1>4 DEF BoundInv
<1> QED
  BY <1>3, <1>4, <1>5, ReleasableIf DEF ControlInv, PoolPointers

\* Every step keeps the memories a batch binds, and their blocks.
LEMMA MemoryStep ==
  ASSUME TypeOK, PoolPointers, ControlInv, BoundInv, MemoryInv, Next
  PROVE  MemoryInv' /\ MemoriesServe
<1> USE DEF MemoryInv, MemoryBlock
<1>1. CASE UNCHANGED memory
  BY <1>1 DEF MemoriesServe
<1>2. ASSUME NEW m \in Memories, NEW x, memory[m] = NoMemory,
             memory' = [memory EXCEPT ![m] = x],
             x.pointer \in IF x.owned THEN Blocks ELSE {NoBlock, Foreign}
      PROVE  MemoryInv' /\ MemoriesServe
  <2>1. /\ \A n \in Memories : n # m => memory'[n] = memory[n]
        /\ memory'[m] = x
    BY <1>2 DEF TypeOK
  <2>2. MemoryBlock(m) = NoBlock
    BY <1>2 DEF NoMemory
  <2> QED
    BY <1>2, <2>1, <2>2 DEF MemoriesServe
<1>3. ASSUME NEW b \in Batches, NEW i \in DOMAIN layout[b],
             NEW m \in Memories, Take(b, i, m)
      PROVE  MemoryInv' /\ MemoriesServe
  <2> DEFINE x == [pointer |-> pointers[b][i], bytes |-> layout[b][i].bytes,
                   owned |-> TRUE]
  <2>1. x.pointer \in IF x.owned THEN Blocks ELSE {NoBlock, Foreign}
    BY <1>3, TakeFacts
  <2>2. memory[m] = NoMemory /\ memory' = [memory EXCEPT ![m] = x]
    BY <1>3 DEF Take
  <2> HIDE DEF x
  <2> QED
    BY <1>2, <2>1, <2>2
<1>4. ASSUME NEW m \in Memories, NEW bytes \in Sizes, MemoryCreate(m, bytes)
      PROVE  MemoryInv' /\ MemoriesServe
  <2>1. PICK k \in Blocks : memory' = [memory EXCEPT ![m] =
            [pointer |-> k, bytes |-> bytes, owned |-> TRUE]]
    BY <1>4 DEF MemoryCreate
  <2> DEFINE x == [pointer |-> k, bytes |-> bytes, owned |-> TRUE]
  <2>2. x.pointer \in IF x.owned THEN Blocks ELSE {NoBlock, Foreign}
    OBVIOUS
  <2>3. memory[m] = NoMemory /\ memory' = [memory EXCEPT ![m] = x]
    BY <1>4, <2>1 DEF MemoryCreate
  <2> HIDE DEF x
  <2> QED
    BY <1>2, <2>2, <2>3
<1>5. ASSUME NEW m \in Memories, NEW bytes \in Sizes, MemoryWrap(m, bytes)
      PROVE  MemoryInv' /\ MemoriesServe
  <2> DEFINE x == [pointer |-> Foreign, bytes |-> bytes, owned |-> FALSE]
  <2>1. x.pointer \in IF x.owned THEN Blocks ELSE {NoBlock, Foreign}
    OBVIOUS
  <2>2. memory[m] = NoMemory /\ memory' = [memory EXCEPT ![m] = x]
    BY <1>5 DEF MemoryWrap
  <2> HIDE DEF x
  <2> QED
    BY <1>2, <2>1, <2>2
<1>6. ASSUME NEW m \in Memories, MemoryDestroy(m)
      PROVE  MemoryInv' /\ MemoriesServe
  <2>1. /\ \A n \in Memories : n # m => memory'[n] = memory[n]
        /\ memory'[m] = NoMemory /\ ~InUse(m)
    BY <1>6 DEF MemoryDestroy, TypeOK
  <2> QED
    BY <2>1 DEF MemoriesServe, NoMemory
<1>7. \/ UNCHANGED memory \/ MemoryCall
      \/ \E b \in Batches : \E i \in DOMAIN layout[b], m \in Memories :
           Take(b, i, m)
  BY DEF Next, BatchCall, BatchStep, Device, Create, Run, Enqueue, Wait,
         BeginDestroy, DestroyUnwaited, Complete, Overwrite, ProgramDestroy, Gone, LayoutInput, LaidOut,
         AcquireInput, AcquireBuffer, Created, ReleaseBuffer, LoseBlocks,
         ReleaseInput, Forget, vars
<1> QED
  BY <1>1, <1>3, <1>4, <1>5, <1>6, <1>7 DEF MemoryCall

\* The buffer a turn of the acquire loop binds lies in what the batch reaches.
LEMMA AcquireBufferBound ==
  ASSUME TypeOK, PoolPointers, ControlInv, BoundInv, MemoryInv,
         AcquireBuffer, UNCHANGED backend
  PROVE  BoundInv'
<1>0. PICK w \in Batches : w = who
  BY AcquireBufferEffect
<1>1. PICK n \in DOMAIN layout[w] : w = who /\ n = at
  BY <1>0, AcquireBufferEffect
<1> DEFINE kind == layout[w][n].kind
<1>2. /\ n \in Nat /\ op = "acquire"
      /\ UNCHANGED <<who, layout, offsets, deviceInput, memory, detached>>
      /\ \A b \in Batches : DOMAIN pointers[b] = DOMAIN layout[b]
      /\ DOMAIN pointers = Batches
  BY <1>1 DEF AcquireBuffer, flagVars, TypeOK
<1>3. MemoriesServe
  BY <1>2 DEF MemoriesServe, MemoryBlock
<1>4. CASE UNCHANGED pointers /\ op' = "release"
  <2>1. \A b \in Batches : Same(b)
    BY <1>2, <1>4 DEF Same
  <2>2. \A b \in Batches : \A i \in DOMAIN layout'[b] :
          Ready(b, i)' => Ready(b, i)
    BY <1>2, <1>4 DEF Ready
  <2> QED
    BY <1>3, <2>1, <2>2, BoundKept
<1>5. ASSUME NEW x \in Addresses, pointers' = Put(pointers, w, n, x),
             Pooled(kind) => x \in Blocks, ~Pooled(kind) => x = Bound(w, n),
             at' = at + 1, op' = op
      PROVE  BoundInv'
  <2>1. \A b \in Batches : \A i \in DOMAIN layout[b] :
          pointers'[b][i] = IF b = w /\ i = n THEN x ELSE pointers[b][i]
    BY <1>2, <1>5, PutValues
  <2>2. \A b \in Batches : b # w => Same(b)
    BY <1>2, <1>5, PutValues DEF Same
  <2>3. pointers[w][n] = NoBlock
    BY <1>1, <1>2 DEF ControlInv, Loops
  <2>4. \A b \in Batches : \A i \in DOMAIN layout[b] :
          Ready(b, i)' => Ready(b, i) \/ (b = w /\ i = n)
    <3>1. \A b \in Batches : \A i \in DOMAIN layout[b] : i \in Nat
      BY BufferFacts
    <3> QED
      BY <1>1, <1>2, <1>5, <3>1 DEF Ready
  <2>5. ASSUME NEW b \in Batches, NEW k, k # NoBlock, Reaches(b, k)
        PROVE  Reaches(b, k)'
    <3>1. CASE b # w
      BY <1>3, <2>2, <2>5, <3>1, ReachesKept
    <3>2. CASE b = w
      <4>1. ASSUME NEW i \in DOMAIN layout[b], BufferBlock(b, i) = k
            PROVE  BufferBlock(b, i)' = k
        <5>1. Releasable(b, i) /\ pointers[b][i] = k
          BY <2>5, <4>1 DEF BufferBlock
        <5>2. pointers'[b][i] = k
          BY <2>1, <2>3, <2>5, <3>2, <5>1
        <5> QED
          BY <1>2, <2>5, <5>1, <5>2
             DEF BufferBlock, Releasable, BufferCount, Pooled
      <4> QED
        BY <1>2, <2>5, <4>1 DEF Reaches, MemoryBlock
    <3> QED
      BY <3>1, <3>2
  <2>6. /\ Pooled(kind) => x # NoBlock
        /\ x \notin {NoBlock, Foreign} => Reaches(w, x)'
    <3>1. CASE Pooled(kind)
      <4>1. x \in Blocks /\ x # NoBlock
        BY <1>5, <3>1 DEF Blocks, NoBlock
      <4>2. Releasable(w, n)'
        <5>1. offsets[w][n] = NoOffset
          BY <3>1 DEF ControlInv, OffsetsOfInputs, Pooled
        <5>2. pointers'[w][n] = x /\ n <= BufferCount(w)
          BY <2>1, BufferFacts
        <5> QED
          BY <1>2, <3>1, <4>1, <5>1, <5>2 DEF Releasable, Pooled, BufferCount
      <4>3. BufferBlock(w, n)' = x
        BY <2>1, <4>2 DEF BufferBlock
      <4> QED
        BY <1>2, <4>1, <4>3 DEF Reaches
    <3>2. CASE ~Pooled(kind) /\ kind = "alias"
      <4> DEFINE j == layout[w][n].alias
      <4>1. j \in DOMAIN layout[w] /\ j < n
        BY <3>2, AliasFacts
      <4>2. x = pointers[w][j]
        BY <1>5, <3>2 DEF Bound
      <4>3. Ready(w, j)
        <5>1. w \notin detached
          BY <1>1, <1>2 DEF ControlInv, Loops
        <5> QED
          BY <1>1, <1>2, <4>1, <5>1 DEF Ready
      <4>4. x \notin {NoBlock, Foreign} => Reaches(w, x)
        BY <4>1, <4>2, <4>3 DEF BoundInv
      <4> QED
        BY <2>5, <3>2, <4>4
    <3>3. CASE ~Pooled(kind) /\ kind = "external"
      <4>1. /\ x = memory[layout[w][n].memory].pointer
            /\ layout[w][n].memory \in Memories
        BY <1>5, <3>3, BufferFacts DEF Bound
      <4>2. x \notin {NoBlock, Foreign} => MemoryBlock(layout[w][n].memory) = x
        BY <4>1 DEF MemoryInv, MemoryBlock
      <4>3. x \notin {NoBlock, Foreign} => Reaches(w, x)
        BY <3>3, <4>2 DEF Reaches
      <4> QED
        BY <2>5, <3>3, <4>3
    <3>4. CASE ~Pooled(kind) /\ kind \notin {"alias", "external"}
      <4>1. x = deviceInput[w] \/ x = Foreign
        BY <1>5, <3>4 DEF Bound
      <4> QED
        BY <1>2, <3>4, <4>1 DEF Reaches
    <3> QED
      BY <3>1, <3>2, <3>3, <3>4
  <2> SUFFICES ASSUME NEW b \in Batches, NEW i \in DOMAIN layout[b],
                      NEW k, k = pointers'[b][i], Ready(b, i)'
               PROVE  /\ Pooled(layout[b][i].kind)' => k # NoBlock
                      /\ k \notin {NoBlock, Foreign} => Reaches(b, k)'
    BY <1>2 DEF BoundInv, Reaches
  <2>7. Pooled(layout[b][i].kind)' = Pooled(layout[b][i].kind)
    BY <1>2 DEF Pooled
  <2>8. CASE b = w /\ i = n
    BY <2>1, <2>6, <2>7, <2>8
  <2>9. CASE ~(b = w /\ i = n)
    <3>1. Ready(b, i) /\ k = pointers[b][i]
      BY <2>1, <2>4, <2>9
    <3>2. /\ Pooled(layout[b][i].kind) => k # NoBlock
          /\ k \notin {NoBlock, Foreign} => Reaches(b, k)
      BY <3>1 DEF BoundInv
    <3> QED
      BY <2>5, <2>7, <3>2
  <2> QED
    BY <2>8, <2>9
<1> QED
  BY <1>1, <1>4, <1>5, AcquireBufferEffect

\* Every step keeps the bound buffers in what their batch reaches.
LEMMA BoundStep ==
  ASSUME TypeOK, PoolPointers, ControlInv, BoundInv, MemoryInv, Next
  PROVE  BoundInv'
<1>1. UNCHANGED backend /\ MemoriesServe
  BY MemoryStep DEF Next
<1>2. CASE AcquireBuffer
  BY <1>1, <1>2, AcquireBufferBound
<1>3. ASSUME \A b \in Batches : \A i \in DOMAIN layout'[b] :
               Ready(b, i)' => Ready(b, i) /\ Same(b)
      PROVE  BoundInv'
  BY <1>1, <1>3, BoundKept
<1>4. CASE /\ UNCHANGED <<layout, pointers, offsets, deviceInput, detached>>
           /\ UNCHANGED <<op, who, at>>
  BY <1>3, <1>4 DEF Same, Ready
<1>5. ASSUME NEW w \in Batches, op' # "idle", who' = w,
             op' = "acquire" => at' = 1, UNCHANGED detached,
             op = "idle" \/ who = w,
             \A b \in Batches : b # w => Same(b),
             \A i \in DOMAIN layout'[w] : ~(i < 1)
      PROVE  BoundInv'
  BY <1>3, <1>5 DEF Ready, Same
<1>6. ASSUME NEW b \in Batches, NEW l \in Layouts[backend], Create(b, l)
      PROVE  BoundInv'
  <2>1. \A c \in Batches : c # b => Same(c)
    BY <1>6 DEF Create, Same, TypeOK
  <2>2. layout'[b] = l /\ \A i \in DOMAIN l : ~(i < 1)
    BY <1>6, LayoutFacts DEF Create, TypeOK
  <2> QED
    BY <1>5, <1>6, <2>1, <2>2 DEF Create, flagVars
<1>7. CASE LayoutInput \/ LaidOut \/ AcquireInput
  <2>1. /\ who \in Batches /\ who' = who /\ op' # "idle"
        /\ op' = "acquire" => at' = 1
        /\ UNCHANGED <<detached, layout, pointers>>
    BY <1>7 DEF LayoutInput, LaidOut, AcquireInput, TypeOK, Goto, flagVars,
                batchVars
  <2>2. \A b \in Batches : b # who =>
          offsets'[b] = offsets[b] /\ deviceInput'[b] = deviceInput[b]
    <3>1. CASE LayoutInput
      <4>1. UNCHANGED deviceInput
        BY <3>1 DEF LayoutInput
      <4>2. \/ UNCHANGED offsets
            \/ offsets' = Put(offsets, who, at, inputBytes[who])
        BY <3>1 DEF LayoutInput, Put
      <4> QED
        BY <2>1, <4>1, <4>2, PutValues DEF TypeOK
    <3>2. CASE LaidOut
      BY <3>2 DEF LaidOut, batchVars
    <3>3. CASE AcquireInput
      BY <3>3 DEF AcquireInput, TypeOK
    <3> QED
      BY <1>7, <3>1, <3>2, <3>3
  <2>3. \A i \in DOMAIN layout'[who] : ~(i < 1)
    BY <2>1, BufferFacts
  <2> QED
    BY <1>5, <2>1, <2>2, <2>3 DEF Same
<1>8. CASE ReleaseBuffer
  <2>1. /\ who \in Batches /\ op' = "release" /\ UNCHANGED who
        /\ UNCHANGED <<detached, layout, offsets, deviceInput>>
        /\ pointers' = Put(pointers, who, at, NoBlock)
    BY <1>8 DEF ReleaseBuffer, Put, TypeOK, flagVars
  <2>2. \A b \in Batches : b # who => Same(b)
    BY <2>1, PutValues DEF Same, TypeOK
  <2>3. \A i \in DOMAIN layout'[who] : ~(i < 1)
    BY <2>1, BufferFacts
  <2> QED
    BY <1>5, <2>1, <2>2, <2>3
<1>9. ASSUME NEW b \in Batches, BeginDestroy(b) \/ DestroyUnwaited(b)
      PROVE  BoundInv'
  <2>1. /\ op = "idle" /\ op' = "release" /\ who' = b
        /\ UNCHANGED <<detached, layout, offsets, pointers, deviceInput>>
    BY <1>9 DEF BeginDestroy, Destroyable, DestroyUnwaited, flagVars, batchVars
  <2>2. \A i \in DOMAIN layout'[b] : ~(i < 1)
    BY <2>1, BufferFacts
  <2> QED
    BY <1>5, <2>1, <2>2 DEF Same
<1>10. CASE Created
  <2>1. /\ op = "acquire" /\ who \in Batches /\ at > BufferCount(who)
        /\ \/ op' = "idle"
           \/ op' = "release" /\ UNCHANGED who
        /\ UNCHANGED <<detached, layout, offsets, pointers, deviceInput>>
    BY <1>10 DEF Created, Goto, TypeOK, flagVars, batchVars
  <2>2. \A i \in DOMAIN layout[who] : i < at
    <3>1. /\ DOMAIN layout[who] = 1 .. BufferCount(who)
          /\ BufferCount(who) \in Nat /\ at \in Nat
      BY <2>1, BufferFacts DEF TypeOK
    <3> QED
      BY <2>1, <3>1
  <2> QED
    BY <1>3, <2>1, <2>2 DEF Ready, Same
<1>11. CASE Forget /\ op # "idle"
  <2>1. who \in Batches
    BY <1>11 DEF TypeOK
  <2>2. \A b \in Batches : b # who => Same(b)
    BY <1>11, <2>1, ForgetEffect DEF Same
  <2>3. DOMAIN layout'[who] = {}
    BY <1>11, <2>1, ForgetEffect
  <2>4. \A b \in Batches : b # who /\ b \notin detached' => b \notin detached
    BY <1>11 DEF Forget
  <2> QED
    BY <1>3, <2>2, <2>3, <2>4 DEF Ready, Same
<1>12. ASSUME NEW b \in Batches, NEW i \in DOMAIN layout[b],
              NEW m \in Memories, Take(b, i, m)
       PROVE  BoundInv'
  <2>1. /\ UNCHANGED <<layout, offsets, deviceInput, op, who, at>>
        /\ pointers' = Put(pointers, b, i, NoBlock)
        /\ detached' = detached \cup {b}
    BY <1>12 DEF Take, Moved, Put, opVars
  <2>2. \A c \in Batches : c # b => Same(c)
    BY <2>1, PutValues DEF Same, TypeOK
  <2> QED
    BY <1>3, <2>1, <2>2 DEF Ready
<1>13. \/ /\ UNCHANGED <<layout, pointers, offsets, deviceInput, detached>>
          /\ UNCHANGED <<op, who, at>>
       \/ LayoutInput \/ LaidOut \/ AcquireInput \/ AcquireBuffer \/ Created
       \/ ReleaseBuffer \/ (Forget /\ op # "idle")
       \/ \E b \in Batches :
            \/ BeginDestroy(b) \/ DestroyUnwaited(b)
            \/ \E l \in Layouts[backend] : Create(b, l)
            \/ \E i \in DOMAIN layout[b], m \in Memories : Take(b, i, m)
  BY DEF Next, BatchCall, BatchStep, MemoryCall, Device, Run, Enqueue, Wait,
         Complete, Overwrite, MemoryCreate, MemoryWrap, MemoryDestroy,
         ProgramDestroy, Gone, LoseBlocks, ReleaseInput, batchVars, flagVars,
         opVars, vars
<1> QED
  BY <1>2, <1>4, <1>6, <1>7, <1>8, <1>9, <1>10, <1>11, <1>12, <1>13

-----------------------------------------------------------------------------
(* Who holds the blocks                                                    *)

\* The holders but the spares: a buffer of a batch, its inputs, a memory.
Owners ==
  {<<"buffer", b, i>> : b \in Batches, i \in Nat \ {0}}
  \cup {<<"input", b>> : b \in Batches}
  \cup {<<"memory", m>> : m \in Memories}

\* What each owner holds.
owner == [h \in Owners |-> Held(h)]

\* The blocks of a pool (sp with the sizes sb), of the owners o and those lost:
\* whoever holds a block holds it alone, its size is what the pool recorded,
\* and an allocated block is held or lost.
Sound(sp, sb, sz, o, gone) ==
  /\ \A k \in gone : sz[k] # 0
  /\ \A s \in Spares : sp[s] # NoBlock =>
       /\ sz[sp[s]] # 0 /\ sp[s] \notin gone /\ sb[s] = sz[sp[s]]
       /\ \A t \in Spares : sp[t] = sp[s] => t = s
       /\ \A h \in Owners : o[h] # sp[s]
  /\ \A h \in Owners : o[h] # NoBlock =>
       /\ sz[o[h]] # 0 /\ o[h] \notin gone
       /\ \A g \in Owners : o[g] = o[h] => g = h
  /\ \A k \in Blocks : sz[k] # 0 =>
       \/ k \in gone \/ \E s \in Spares : sp[s] = k
       \/ \E h \in Owners : o[h] = k

\* What each kind of owner holds.
LEMMA HeldFacts ==
  /\ \A b \in Batches : \A i \in Nat \ {0} :
       /\ <<"buffer", b, i>> \in Owners
       /\ owner[<<"buffer", b, i>>] = BufferBlock(b, i)
  /\ \A b \in Batches :
       <<"input", b>> \in Owners /\ owner[<<"input", b>>] = deviceInput[b]
  /\ \A m \in Memories :
       <<"memory", m>> \in Owners /\ owner[<<"memory", m>>] = MemoryBlock(m)
BY DEF owner, Owners, Held

\* The same after a step.
LEMMA HeldFactsNext ==
  /\ \A b \in Batches : \A i \in Nat \ {0} :
       owner'[<<"buffer", b, i>>] = BufferBlock(b, i)'
  /\ \A b \in Batches : owner'[<<"input", b>>] = deviceInput'[b]
  /\ \A m \in Memories : owner'[<<"memory", m>>] = MemoryBlock(m)'
BY DEF owner, Owners, Held

\* The kinds of owners.
LEMMA OwnerCases ==
  ASSUME NEW h \in Owners
  PROVE  \/ \E b \in Batches : \E i \in Nat \ {0} : h = <<"buffer", b, i>>
         \/ \E b \in Batches : h = <<"input", b>>
         \/ \E m \in Memories : h = <<"memory", m>>
BY DEF Owners

\* Owners are told apart by their kind, batch, buffer and memory.
LEMMA Distinct ==
  /\ \A b, c \in Batches : \A i, j \in Nat \ {0} :
       <<"buffer", b, i>> = <<"buffer", c, j>> <=> b = c /\ i = j
  /\ \A b, c \in Batches : <<"input", b>> = <<"input", c>> <=> b = c
  /\ \A m, n \in Memories : <<"memory", m>> = <<"memory", n>> <=> m = n
  /\ \A b, c \in Batches : \A i \in Nat \ {0} : \A m \in Memories :
       /\ <<"buffer", b, i>> # <<"input", c>>
       /\ <<"buffer", b, i>> # <<"memory", m>>
  /\ \A b \in Batches : \A m \in Memories : <<"input", b>> # <<"memory", m>>
OBVIOUS

\* An owner holds a block or nothing.
LEMMA OwnerType ==
  ASSUME TypeOK, PoolPointers, MemoryInv
  PROVE  owner \in [Owners -> Blocks \cup {NoBlock}]
<1>1. \A b \in Batches : \A i \in Nat \ {0} :
        BufferBlock(b, i) \in Blocks \cup {NoBlock}
  BY ReleasableFacts DEF BufferBlock
<1>2. \A b \in Batches : deviceInput[b] \in Blocks \cup {NoBlock}
  BY DEF TypeOK
<1>3. \A m \in Memories : MemoryBlock(m) \in Blocks \cup {NoBlock}
  BY DEF MemoryInv, MemoryBlock
<1>4. \A h \in Owners : owner[h] \in Blocks \cup {NoBlock}
  BY <1>1, <1>2, <1>3, HeldFacts, OwnerCases
<1> QED
  BY <1>4 DEF owner

\* A step leaves every owner what it holds.
LEMMA OwnersSame ==
  ASSUME \A b \in Batches : \A i \in Nat \ {0} :
           BufferBlock(b, i)' = BufferBlock(b, i),
         \A b \in Batches : deviceInput'[b] = deviceInput[b],
         \A m \in Memories : MemoryBlock(m)' = MemoryBlock(m)
  PROVE  \A h \in Owners : owner'[h] = owner[h]
BY HeldFacts, HeldFactsNext, OwnerCases

\* A step gives the owner g the block k.
LEMMA OwnerGets ==
  ASSUME NEW g \in Owners, NEW k,
         \A b \in Batches : \A i \in Nat \ {0} :
           BufferBlock(b, i)' = IF <<"buffer", b, i>> = g THEN k
                                ELSE BufferBlock(b, i),
         \A b \in Batches :
           deviceInput'[b] = IF <<"input", b>> = g THEN k ELSE deviceInput[b],
         \A m \in Memories :
           MemoryBlock(m)' = IF <<"memory", m>> = g THEN k ELSE MemoryBlock(m)
  PROVE  \A h \in Owners : owner'[h] = IF h = g THEN k ELSE owner[h]
BY HeldFacts, HeldFactsNext, OwnerCases

\* A step takes their blocks from the owners in G.
LEMMA OwnersLose ==
  ASSUME NEW G \in SUBSET Owners,
         \A b \in Batches : \A i \in Nat \ {0} :
           BufferBlock(b, i)' = IF <<"buffer", b, i>> \in G THEN NoBlock
                                ELSE BufferBlock(b, i),
         \A b \in Batches :
           deviceInput'[b] = IF <<"input", b>> \in G THEN NoBlock
                             ELSE deviceInput[b],
         \A m \in Memories :
           MemoryBlock(m)' = IF <<"memory", m>> \in G THEN NoBlock
                             ELSE MemoryBlock(m)
  PROVE  \A h \in Owners : owner'[h] = IF h \in G THEN NoBlock ELSE owner[h]
BY HeldFacts, HeldFactsNext, OwnerCases

-----------------------------------------------------------------------------
(* acquire_device, release_device and their like keep the blocks apart     *)

\* g, who held nothing, has the block k of the capacity that comes with it,
\* which is what was asked for or more; nobody else notices.
LEMMA AcquireSound ==
  ASSUME TypeOK, NEW o \in [Owners -> Blocks \cup {NoBlock}],
         Sound(spares, spareBytes, size, o, lost),
         NEW bytes \in Nat, bytes # 0, NEW k, NEW c, Acquire(bytes, k, c),
         NEW g \in Owners, o[g] = NoBlock, NEW p,
         \A h \in Owners : p[h] = IF h = g THEN k ELSE o[h]
  PROVE  /\ Sound(spares', spareBytes', size', p, lost)
         /\ k \in Blocks /\ size'[k] = c /\ bytes <= c
         /\ \A h \in Owners : o[h] # NoBlock => size'[o[h]] = size[o[h]]
<1> USE DEF Sound
<1>1. /\ size \in [Blocks -> Nat] /\ spareBytes \in [Spares -> Nat]
      /\ spares \in [Spares -> Blocks \cup {NoBlock}] /\ lost \subseteq Blocks
      /\ NoBlock \notin Blocks
  BY DEF TypeOK, NoBlock, Blocks
<1>2. ASSUME NEW s \in Spares, Best(s, bytes), k = spares[s],
             c = spareBytes[s], EmptySlot(s), UNCHANGED size
      PROVE  /\ Sound(spares', spareBytes', size', p, lost)
             /\ k \in Blocks /\ size'[k] = c /\ bytes <= c
             /\ \A h \in Owners : o[h] # NoBlock => size'[o[h]] = size[o[h]]
  <2>1. k \in Blocks /\ bytes <= c /\ size[k] = c
    BY <1>1, <1>2 DEF Best, Serves
  <2>2. \A t \in Spares :
          spares'[t] = IF t = s THEN NoBlock ELSE spares[t]
    BY <1>1, <1>2 DEF EmptySlot
  <2>3. \A t \in Spares : t # s => spareBytes'[t] = spareBytes[t]
    BY <1>1, <1>2 DEF EmptySlot
  <2> QED
    BY <1>1, <1>2, <2>1, <2>2, <2>3
<1>3. ASSUME k \in Blocks, NewBlock(k), c = bytes,
             size' = [size EXCEPT ![k] = bytes],
             UNCHANGED <<spares, spareBytes>>
      PROVE  /\ Sound(spares', spareBytes', size', p, lost)
             /\ k \in Blocks /\ size'[k] = c /\ bytes <= c
             /\ \A h \in Owners : o[h] # NoBlock => size'[o[h]] = size[o[h]]
  <2>1. /\ size[k] = 0
        /\ \A j \in Blocks : size'[j] = IF j = k THEN bytes ELSE size[j]
    BY <1>1, <1>3 DEF NewBlock
  <2> QED
    BY <1>1, <1>3, <2>1
<1>4. ASSUME k \in Blocks, size[k] = 0 \/ Freed(k), c = bytes,
             size' = [j \in Blocks |-> IF j = k THEN bytes
                                  ELSE IF Freed(j) THEN 0 ELSE size[j]],
             spares' = [s \in Spares |-> NoBlock],
             spareBytes' = [s \in Spares |-> 0]
      PROVE  /\ Sound(spares', spareBytes', size', p, lost)
             /\ k \in Blocks /\ size'[k] = c /\ bytes <= c
             /\ \A h \in Owners : o[h] # NoBlock => size'[o[h]] = size[o[h]]
  <2>1. \A j \in Blocks : Freed(j) <=> \E s \in Spares : spares[s] = j
    BY DEF Freed
  <2> QED
    BY <1>1, <1>4, <2>1
<1> QED
  BY <1>2, <1>3, <1>4 DEF Acquire

\* An attempt that fails may free the spares, and no block of an owner.
LEMMA AcquireFailsSound ==
  ASSUME TypeOK, NEW o \in [Owners -> Blocks \cup {NoBlock}],
         Sound(spares, spareBytes, size, o, lost),
         NEW bytes, AcquireFails(bytes)
  PROVE  /\ Sound(spares', spareBytes', size', o, lost)
         /\ \A h \in Owners : o[h] # NoBlock => size'[o[h]] = size[o[h]]
<1> USE DEF Sound
<1>1. /\ size \in [Blocks -> Nat] /\ spareBytes \in [Spares -> Nat]
      /\ spares \in [Spares -> Blocks \cup {NoBlock}] /\ lost \subseteq Blocks
      /\ NoBlock \notin Blocks
  BY DEF TypeOK, NoBlock, Blocks
<1>2. \A j \in Blocks : Freed(j) <=> \E s \in Spares : spares[s] = j
  BY DEF Freed
<1>3. CASE backend = "cuda"
  BY <1>1, <1>2, <1>3 DEF AcquireFails
<1>4. CASE backend # "cuda"
  BY <1>4 DEF AcquireFails, poolVars
<1> QED
  BY <1>3, <1>4

\* The block of g is a spare now, or is freed, or displaces the smallest spare.
LEMMA ReleaseSound ==
  ASSUME TypeOK, NEW o \in [Owners -> Blocks \cup {NoBlock}],
         Sound(spares, spareBytes, size, o, lost),
         NEW g \in Owners, o[g] # NoBlock, Release(o[g], size[o[g]]), NEW p,
         \A h \in Owners : p[h] = IF h = g THEN NoBlock ELSE o[h]
  PROVE  /\ Sound(spares', spareBytes', size', p, lost)
         /\ \A h \in Owners : p[h] # NoBlock => size'[p[h]] = size[p[h]]
<1> USE DEF Sound
<1>1. /\ size \in [Blocks -> Nat] /\ spareBytes \in [Spares -> Nat]
      /\ spares \in [Spares -> Blocks \cup {NoBlock}] /\ lost \subseteq Blocks
      /\ NoBlock \notin Blocks
  BY DEF TypeOK, NoBlock, Blocks
<1>2. PICK k \in Blocks : k = o[g]
  OBVIOUS
<1>3. PICK s \in Spares :
        IF Keeps(s, size[k])
          THEN /\ size' = [size EXCEPT ![k] = 0]
               /\ UNCHANGED <<spares, spareBytes>>
          ELSE /\ size' = [j \in Blocks |->
                            IF j = spares[s] THEN 0 ELSE size[j]]
               /\ spares' = [spares EXCEPT ![s] = k]
               /\ spareBytes' = [spareBytes EXCEPT ![s] = size[k]]
  BY <1>2 DEF Release
<1>4. CASE Keeps(s, size[k])
  <2>1. /\ size' = [size EXCEPT ![k] = 0]
        /\ UNCHANGED <<spares, spareBytes>>
    BY <1>3, <1>4, Zenon
  <2>2. \A j \in Blocks : size'[j] = IF j = k THEN 0 ELSE size[j]
    BY <1>1, <2>1
  <2> QED
    BY <1>1, <1>2, <2>1, <2>2
<1>5. CASE ~Keeps(s, size[k])
  <2>1. /\ size' = [j \in Blocks |-> IF j = spares[s] THEN 0 ELSE size[j]]
        /\ spares' = [spares EXCEPT ![s] = k]
        /\ spareBytes' = [spareBytes EXCEPT ![s] = size[k]]
    BY <1>3, <1>5, Zenon
  <2>2. /\ \A j \in Blocks : size'[j] = IF j = spares[s] THEN 0 ELSE size[j]
        /\ \A t \in Spares : spares'[t] = IF t = s THEN k ELSE spares[t]
        /\ \A t \in Spares :
             spareBytes'[t] = IF t = s THEN size[k] ELSE spareBytes[t]
    BY <1>1, <2>1
  <2>3. k # spares[s] /\ size[k] # 0
    BY <1>2
  <2> QED
    BY <1>1, <1>2, <2>2, <2>3
<1> QED
  BY <1>4, <1>5

\* Without a context, the blocks of the owners in G are lost.
LEMMA LoseSound ==
  ASSUME TypeOK, NEW o \in [Owners -> Blocks \cup {NoBlock}],
         Sound(spares, spareBytes, size, o, lost),
         NEW G \in SUBSET Owners, NEW p, NEW gone,
         gone = (lost \cup {o[h] : h \in G}) \ {NoBlock},
         \A h \in Owners : p[h] = IF h \in G THEN NoBlock ELSE o[h]
  PROVE  Sound(spares, spareBytes, size, p, gone)
<1> USE DEF Sound
<1>1. NoBlock \notin Blocks /\ lost \subseteq Blocks
  BY DEF NoBlock, Blocks, TypeOK
<1>2. /\ lost \subseteq gone
      /\ \A k \in gone : k \in lost \/ \E h \in G : o[h] = k /\ k # NoBlock
      /\ \A h \in G : o[h] # NoBlock => o[h] \in gone
  BY <1>1
<1> QED
  BY <1>1, <1>2

\* Without a context, the spares are lost.
LEMMA LoseSparesSound ==
  ASSUME TypeOK, NEW o \in [Owners -> Blocks \cup {NoBlock}],
         Sound(spares, spareBytes, size, o, lost),
         NEW sp, NEW sb, sp = [s \in Spares |-> NoBlock], NEW gone,
         gone = (lost \cup {spares[s] : s \in Spares}) \ {NoBlock}
  PROVE  Sound(sp, sb, size, o, gone)
<1> USE DEF Sound
<1>1. NoBlock \notin Blocks /\ lost \subseteq Blocks
  BY DEF NoBlock, Blocks, TypeOK
<1>2. /\ lost \subseteq gone
      /\ \A k \in gone :
           k \in lost \/ \E s \in Spares : spares[s] = k /\ k # NoBlock
      /\ \A s \in Spares : spares[s] # NoBlock => spares[s] \in gone
      /\ \A s \in Spares : sp[s] = NoBlock
  BY <1>1
<1> QED
  BY <1>1, <1>2

\* A block passes from f to g.
LEMMA MoveSound ==
  ASSUME TypeOK, NEW o \in [Owners -> Blocks \cup {NoBlock}],
         Sound(spares, spareBytes, size, o, lost),
         NEW f \in Owners, NEW g \in Owners, f # g, o[g] = NoBlock, NEW p,
         \A h \in Owners :
           p[h] = IF h = f THEN NoBlock ELSE IF h = g THEN o[f] ELSE o[h]
  PROVE  Sound(spares, spareBytes, size, p, lost)
BY DEF Sound, NoBlock, Blocks

\* g has a new block of its own.
LEMMA NewSound ==
  ASSUME TypeOK, NEW o \in [Owners -> Blocks \cup {NoBlock}],
         Sound(spares, spareBytes, size, o, lost),
         NEW k \in Blocks, NewBlock(k), NEW bytes \in Nat, bytes # 0,
         \A j \in Blocks : size'[j] = IF j = k THEN bytes ELSE size[j],
         NEW g \in Owners, o[g] = NoBlock, NEW p,
         \A h \in Owners : p[h] = IF h = g THEN k ELSE o[h]
  PROVE  /\ Sound(spares, spareBytes, size', p, lost) /\ size'[k] = bytes
         /\ \A h \in Owners : o[h] # NoBlock => size'[o[h]] = size[o[h]]
<1>1. /\ size \in [Blocks -> Nat] /\ spareBytes \in [Spares -> Nat]
      /\ spares \in [Spares -> Blocks \cup {NoBlock}] /\ lost \subseteq Blocks
      /\ NoBlock \notin Blocks
  BY DEF TypeOK, NoBlock, Blocks
<1>2. size[k] = 0
  BY DEF NewBlock
<1> QED
  BY <1>1, <1>2 DEF Sound

\* The block of g is freed, if it has one.
LEMMA FreeSound ==
  ASSUME TypeOK, NEW o \in [Owners -> Blocks \cup {NoBlock}],
         Sound(spares, spareBytes, size, o, lost),
         NEW g \in Owners,
         \A j \in Blocks : size'[j] = IF j = o[g] THEN 0 ELSE size[j],
         NEW p, \A h \in Owners : p[h] = IF h = g THEN NoBlock ELSE o[h]
  PROVE  /\ Sound(spares, spareBytes, size', p, lost)
         /\ \A h \in Owners : p[h] # NoBlock => size'[p[h]] = size[p[h]]
<1>1. /\ size \in [Blocks -> Nat] /\ spareBytes \in [Spares -> Nat]
      /\ spares \in [Spares -> Blocks \cup {NoBlock}] /\ lost \subseteq Blocks
      /\ NoBlock \notin Blocks
  BY DEF TypeOK, NoBlock, Blocks
<1> QED
  BY <1>1 DEF Sound

\* program_destroy frees the spares.
LEMMA FreeSparesSound ==
  ASSUME TypeOK, NEW o \in [Owners -> Blocks \cup {NoBlock}],
         Sound(spares, spareBytes, size, o, lost),
         size' = [j \in Blocks |-> IF Freed(j) THEN 0 ELSE size[j]],
         spares' = [s \in Spares |-> NoBlock],
         spareBytes' = [s \in Spares |-> 0]
  PROVE  /\ Sound(spares', spareBytes', size', o, lost)
         /\ \A h \in Owners : o[h] # NoBlock => size'[o[h]] = size[o[h]]
<1>1. /\ size \in [Blocks -> Nat] /\ lost \subseteq Blocks
      /\ spares \in [Spares -> Blocks \cup {NoBlock}] /\ NoBlock \notin Blocks
  BY DEF TypeOK, NoBlock, Blocks
<1>2. \A j \in Blocks : Freed(j) <=> \E s \in Spares : spares[s] = j
  BY DEF Freed
<1> QED
  BY <1>1, <1>2 DEF Sound

-----------------------------------------------------------------------------
(* The calls keep the blocks apart                                         *)

\* Who holds what is as it should be.
OwnedInv == Sound(spares, spareBytes, size, owner, lost)

\* The invariant after a step, spelled out.
LEMMA OwnedNext ==
  OwnedInv' <=> Sound(spares', spareBytes', size', owner', lost')
BY DEF OwnedInv, Sound

\* An owner that keeps its block keeps the block's size.
SizesKept ==
  \A h \in Owners :
    owner'[h] = owner[h] /\ owner[h] # NoBlock =>
      size'[owner[h]] = size[owner[h]]

\* What a batch holds in a buffer.
LEMMA BlockOf ==
  ASSUME TypeOK, OffsetsOfInputs, NEW b \in Batches, NEW i \in Nat \ {0}
  PROVE  BufferBlock(b, i) =
           IF i \in DOMAIN layout[b] /\ Pooled(layout[b][i].kind)
             THEN pointers[b][i] ELSE NoBlock
<1>1. CASE i \in DOMAIN layout[b]
  BY <1>1, ReleasableIf DEF BufferBlock
<1>2. CASE i \notin DOMAIN layout[b]
  <2>1. ~(i <= BufferCount(b))
    BY <1>2, BufferFacts
  <2> QED
    BY <1>2, <2>1 DEF BufferBlock, Releasable
<1> QED
  BY <1>1, <1>2

\* The same after a step that changes the buffers of one batch.
LEMMA BlockOfOthers ==
  ASSUME UNCHANGED backend, NEW b \in Batches, Same(b), NEW i
  PROVE  BufferBlock(b, i)' = BufferBlock(b, i)
BY DEF Same, BufferBlock, Releasable, BufferCount, Pooled

\* One pointer of a batch is set.
LEMMA BlockOfPut ==
  ASSUME TypeOK, OffsetsOfInputs, NEW w \in Batches, NEW n \in DOMAIN layout[w],
         NEW x, pointers' = Put(pointers, w, n, x),
         UNCHANGED <<backend, layout, offsets>>
  PROVE  \A b \in Batches : \A i \in Nat \ {0} :
           BufferBlock(b, i)' =
             IF b = w /\ i = n
               THEN IF Pooled(layout[w][n].kind) THEN x ELSE NoBlock
             ELSE BufferBlock(b, i)
<1>1. /\ DOMAIN pointers = Batches
      /\ \A b \in Batches : DOMAIN pointers[b] = DOMAIN layout[b]
  BY DEF TypeOK
<1>2. \A b \in Batches : \A i \in DOMAIN layout[b] :
        pointers'[b][i] = IF b = w /\ i = n THEN x ELSE pointers[b][i]
  BY <1>1, PutValues
<1>3. \A b \in Batches : \A i \in Nat \ {0} :
        Releasable(b, i)' <=> /\ i \in DOMAIN layout[b]
                              /\ Pooled(layout[b][i].kind)
                              /\ pointers'[b][i] # NoBlock
  <2> TAKE b \in Batches
  <2> TAKE i \in Nat \ {0}
  <2>1. i <= BufferCount(b) <=> i \in DOMAIN layout[b]
    BY BufferFacts
  <2>2. /\ BufferCount(b)' = BufferCount(b)
        /\ Pooled(layout[b][i].kind)' = Pooled(layout[b][i].kind)
    BY DEF BufferCount, Pooled
  <2>3. i \in DOMAIN layout[b] /\ Pooled(layout[b][i].kind) =>
          offsets[b][i] = NoOffset
    BY DEF OffsetsOfInputs, Pooled
  <2> QED
    BY <2>1, <2>2, <2>3 DEF Releasable
<1> QED
  BY <1>2, <1>3, BlockOf DEF BufferBlock

\* The inputs of a batch lie behind each other.
InputsInv ==
  /\ \A b \in Batches : \A i, j \in DOMAIN layout[b] :
       offsets[b][i] # NoOffset =>
         /\ offsets[b][i] + layout[b][i].bytes <= inputBytes[b]
         /\ offsets[b][j] # NoOffset /\ i < j =>
              offsets[b][i] + layout[b][i].bytes <= offsets[b][j]
  /\ op = "layout" => \A i \in DOMAIN layout[who] :
       i >= at => offsets[who][i] = NoOffset

\* What is recorded of a held block is its size, and enough.
RecordedInv ==
  /\ \A b \in Batches : \A i \in DOMAIN layout[b] : Releasable(b, i) =>
       /\ capacities[b][i] = size[pointers[b][i]]
       /\ layout[b][i].bytes <= capacities[b][i]
  /\ \A b \in Batches : deviceInput[b] # NoBlock =>
       /\ inputCapacity[b] = size[deviceInput[b]]
       /\ inputBytes[b] <= inputCapacity[b]
  /\ \A m \in Memories : memory[m].owned =>
       memory[m].bytes <= size[memory[m].pointer]

\* The inductive invariant.
IInv ==
  /\ TypeOK /\ PoolPointers /\ ControlInv /\ Leftovers /\ BoundInv
  /\ MemoryInv /\ OwnedInv /\ InputsInv /\ RecordedInv

\* The pool, the lost blocks and every owner stay as they are.
LEMMA OwnersStay ==
  ASSUME IInv, UNCHANGED <<poolVars, lost>>,
         \A b \in Batches : \A i \in Nat \ {0} :
           BufferBlock(b, i)' = BufferBlock(b, i),
         UNCHANGED deviceInput,
         \A m \in Memories : MemoryBlock(m)' = MemoryBlock(m)
  PROVE  OwnedInv' /\ SizesKept
<1>1. \A h \in Owners : owner'[h] = owner[h]
  BY OwnersSame
<1>2. UNCHANGED <<size, spares, spareBytes>>
  BY DEF poolVars
<1>3. Sound(spares', spareBytes', size', owner', lost')
  BY <1>1, <1>2 DEF Sound, IInv, OwnedInv
<1> QED
  BY <1>1, <1>2, <1>3, OwnedNext DEF SizesKept

\* The start of batch_create moves no block.
LEMMA CreateOwned ==
  ASSUME IInv, UNCHANGED backend, NEW w \in Batches,
         NEW l \in Layouts[backend], Create(w, l)
  PROVE  OwnedInv' /\ SizesKept
<1>1. /\ UNCHANGED <<poolVars, lost, deviceInput, memory>>
      /\ \A b \in Batches : b # w => Same(b)
      /\ layout[w] = <<>> /\ layout'[w] = l
      /\ pointers'[w] = [i \in DOMAIN l |-> NoBlock]
  BY DEF Create, Same, IInv, TypeOK, lossVars, Exists
<1>2. \A i \in Nat \ {0} : ~Releasable(w, i) /\ ~Releasable(w, i)'
  <2>1. /\ DOMAIN l = 1 .. Len(l) /\ Len(l) \in Nat
    BY LayoutFacts DEF IInv, TypeOK
  <2>2. Len(layout[w]) = 0
    BY <1>1
  <2> QED
    BY <1>1, <2>1, <2>2 DEF Releasable, BufferCount
<1>3. \A b \in Batches : \A i \in Nat \ {0} :
        BufferBlock(b, i)' = BufferBlock(b, i)
  BY <1>1, <1>2, BlockOfOthers DEF BufferBlock
<1> QED
  BY <1>1, <1>3, OwnersStay DEF MemoryBlock

\* A turn of the layout loop moves no block.
LEMMA LayoutInputOwned ==
  ASSUME IInv, UNCHANGED backend, LayoutInput
  PROVE  OwnedInv' /\ SizesKept
<1>1. PICK w \in Batches : w = who
  BY DEF IInv, TypeOK, LayoutInput
<1>2. UNCHANGED <<poolVars, lost, deviceInput, memory, layout, pointers>>
  BY DEF LayoutInput, lossVars
<1>3. \A b \in Batches : b # w => Same(b)
  <2>1. \A b \in Batches : b # w => offsets'[b] = offsets[b]
    <3>1. UNCHANGED offsets \/ offsets' = Put(offsets, w, at, inputBytes[w])
      BY <1>1 DEF LayoutInput, Put
    <3> QED
      BY <3>1, PutValues DEF IInv, TypeOK
  <2> QED
    BY <1>2, <2>1 DEF Same
<1>4. \A i \in Nat \ {0} : ~Releasable(w, i) /\ ~Releasable(w, i)'
  <2>1. \A i \in DOMAIN layout[w] : pointers[w][i] = NoBlock
    BY <1>1 DEF IInv, ControlInv, Loops, LayoutInput
  <2>2. \A i \in Nat \ {0} : i <= BufferCount(w) => i \in DOMAIN layout[w]
    BY BufferFacts DEF IInv
  <2> QED
    BY <1>2, <2>1, <2>2 DEF Releasable, BufferCount
<1>5. \A b \in Batches : \A i \in Nat \ {0} :
        BufferBlock(b, i)' = BufferBlock(b, i)
  BY <1>3, <1>4, BlockOfOthers DEF BufferBlock
<1> QED
  BY <1>2, <1>5, OwnersStay DEF MemoryBlock

\* The steps that move no block.
LEMMA StillOwned ==
  ASSUME IInv, UNCHANGED backend,
         \/ LaidOut \/ Created \/ Gone
         \/ \E b \in Batches :
              \/ Run(b) \/ Enqueue(b) \/ Wait(b) \/ BeginDestroy(b)
              \/ DestroyUnwaited(b) \/ Complete(b) \/ Overwrite(b)
  PROVE  OwnedInv' /\ SizesKept
<1>1. UNCHANGED <<poolVars, lost, batchVars, memory>>
  BY DEF LaidOut, Created, Gone, Run, Enqueue, Wait, BeginDestroy, DestroyUnwaited, Complete, Overwrite,
         lossVars, vars
<1>2. \A b \in Batches : Same(b)
  BY <1>1 DEF Same, batchVars
<1>3. /\ UNCHANGED deviceInput
      /\ \A m \in Memories : MemoryBlock(m)' = MemoryBlock(m)
  BY <1>1 DEF batchVars, MemoryBlock
<1> QED
  BY <1>1, <1>2, <1>3, BlockOfOthers, OwnersStay

\* A batch acquires the block of its inputs.
LEMMA AcquireInputOwned ==
  ASSUME IInv, UNCHANGED backend, AcquireInput
  PROVE  /\ OwnedInv' /\ SizesKept
         /\ \/ UNCHANGED <<deviceInput, inputCapacity>>
            \/ /\ inputCapacity'[who] = size'[deviceInput'[who]]
               /\ inputBytes[who] <= inputCapacity'[who]
<1>1. PICK w \in Batches : w = who
  BY DEF IInv, TypeOK, AcquireInput
<1>2. /\ UNCHANGED <<lost, memory, layout, pointers, offsets>>
      /\ inputBytes[w] \in Nat /\ inputBytes[w] # 0
      /\ deviceInput[w] = NoBlock
  BY <1>1 DEF AcquireInput, lossVars, IInv, ControlInv, Loops, TypeOK
<1>3. \A b \in Batches : \A i \in Nat \ {0} :
        BufferBlock(b, i)' = BufferBlock(b, i)
  BY <1>2 DEF BufferBlock, Releasable, BufferCount, Pooled
<1>4. \A m \in Memories : MemoryBlock(m)' = MemoryBlock(m)
  BY <1>2 DEF MemoryBlock
<1>5. /\ owner \in [Owners -> Blocks \cup {NoBlock}]
      /\ Sound(spares, spareBytes, size, owner, lost) /\ TypeOK
  BY OwnerType DEF IInv, OwnedInv
<1>6. CASE AcquireFails(inputBytes[w])
           /\ UNCHANGED <<deviceInput, inputCapacity>>
  <2>1. \A h \in Owners : owner'[h] = owner[h]
    BY <1>3, <1>4, <1>6, OwnersSame
  <2>2. /\ Sound(spares', spareBytes', size', owner, lost)
        /\ \A h \in Owners : owner[h] # NoBlock =>
             size'[owner[h]] = size[owner[h]]
    BY <1>5, <1>6, AcquireFailsSound
  <2>3. Sound(spares', spareBytes', size', owner', lost')
    BY <1>2, <2>1, <2>2 DEF Sound
  <2> QED
    BY <1>6, <2>2, <2>3, OwnedNext DEF SizesKept
<1>7. ASSUME NEW k \in Blocks, NEW c, Acquire(inputBytes[w], k, c),
             deviceInput' = [deviceInput EXCEPT ![w] = k],
             inputCapacity' = [inputCapacity EXCEPT ![w] = c]
      PROVE  /\ OwnedInv' /\ SizesKept
             /\ inputCapacity'[w] = size'[deviceInput'[w]]
             /\ inputBytes[w] <= inputCapacity'[w]
  <2> DEFINE g == <<"input", w>>
  <2>1. g \in Owners /\ owner[g] = NoBlock
    BY <1>2, HeldFacts
  <2>2. \A b \in Batches :
          deviceInput'[b] = IF <<"input", b>> = g THEN k ELSE deviceInput[b]
    BY <1>7, Distinct DEF IInv, TypeOK
  <2>3. /\ \A b \in Batches : \A i \in Nat \ {0} : <<"buffer", b, i>> # g
        /\ \A m \in Memories : <<"memory", m>> # g
    BY Distinct
  <2> HIDE DEF g
  <2>4. \A h \in Owners : owner'[h] = IF h = g THEN k ELSE owner[h]
    BY <1>3, <1>4, <2>1, <2>2, <2>3, OwnerGets
  <2>5. /\ Sound(spares', spareBytes', size', owner', lost)
        /\ k \in Blocks /\ size'[k] = c /\ inputBytes[w] <= c
        /\ \A h \in Owners : owner[h] # NoBlock =>
             size'[owner[h]] = size[owner[h]]
    BY <1>2, <1>5, <1>7, <2>1, <2>4, AcquireSound
  <2>6. deviceInput'[w] = k /\ inputCapacity'[w] = c
    BY <1>7 DEF IInv, TypeOK
  <2> QED
    BY <1>2, <2>5, <2>6, OwnedNext DEF SizesKept
<1> QED
  BY <1>1, <1>6, <1>7 DEF AcquireInput

\* What is recorded of the block that a buffer holds.
Noted(b, i) ==
  Releasable(b, i) => /\ capacities[b][i] = size[pointers[b][i]]
                      /\ layout[b][i].bytes <= capacities[b][i]

\* A turn of the acquire loop, which may get a block for one buffer.
LEMMA AcquireBufferOwned ==
  ASSUME IInv, UNCHANGED backend, AcquireBuffer
  PROVE  /\ OwnedInv' /\ SizesKept
         /\ \A w \in Batches : \A n \in DOMAIN layout[w] :
              w = who /\ n = at => Noted(w, n)'
<1>1. PICK w \in Batches : w = who
  BY AcquireBufferEffect DEF IInv
<1>2. PICK n \in DOMAIN layout[w] : n = at
  BY <1>1, AcquireBufferEffect DEF IInv
<1> DEFINE kind == layout[w][n].kind
           bytes == layout[w][n].bytes
<1>3. /\ UNCHANGED <<lost, memory, layout, offsets, deviceInput>>
      /\ pointers[w][n] = NoBlock /\ n \in Nat \ {0}
      /\ TypeOK /\ OffsetsOfInputs
  <2>1. n \in Nat \ {0}
    BY <1>1, <1>2, BufferFacts DEF IInv
  <2>2. pointers[w][n] = NoBlock
    BY <1>1, <1>2, <2>1 DEF IInv, ControlInv, Loops, AcquireBuffer
  <2> QED
    BY <2>1, <2>2 DEF AcquireBuffer, lossVars, IInv, ControlInv
<1>4. /\ \A b \in Batches : deviceInput'[b] = deviceInput[b]
      /\ \A m \in Memories : MemoryBlock(m)' = MemoryBlock(m)
  BY <1>3 DEF MemoryBlock
<1>5. /\ owner \in [Owners -> Blocks \cup {NoBlock}]
      /\ Sound(spares, spareBytes, size, owner, lost)
  BY OwnerType DEF IInv, OwnedInv
<1>6. BufferBlock(w, n) = NoBlock
  BY <1>3 DEF BufferBlock
<1>7. /\ bytes \in Nat /\ Request(bytes) \in Nat
      /\ bytes <= Request(bytes) /\ Request(bytes) # 0
  <2>1. bytes \in Nat /\ bytes >= 1
    BY <1>3, BufferFacts
  <2>2. Padded(bytes) \in Nat /\ bytes <= Padded(bytes)
    BY <2>1, PaddedFacts
  <2> QED
    BY <2>1, <2>2 DEF Request
<1> HIDE DEF kind, bytes
<1>8. CASE /\ UNCHANGED pointers
           /\ UNCHANGED poolVars \/ AcquireFails(Request(bytes))
  <2>1. \A b \in Batches : \A i \in Nat \ {0} :
          BufferBlock(b, i)' = BufferBlock(b, i)
    BY <1>3, <1>8 DEF BufferBlock, Releasable, BufferCount, Pooled
  <2>2. \A h \in Owners : owner'[h] = owner[h]
    BY <1>4, <2>1, OwnersSame
  <2>3. /\ Sound(spares', spareBytes', size', owner, lost)
        /\ \A h \in Owners : owner[h] # NoBlock =>
             size'[owner[h]] = size[owner[h]]
    BY <1>3, <1>5, <1>8, AcquireFailsSound DEF poolVars
  <2>4. Sound(spares', spareBytes', size', owner', lost')
    BY <1>3, <2>2, <2>3 DEF Sound
  <2>5. Noted(w, n)'
    BY <1>3, <1>8 DEF Noted, Releasable
  <2> QED
    BY <1>1, <1>2, <2>3, <2>4, <2>5, OwnedNext DEF SizesKept
<1>9. CASE /\ ~Pooled(kind) /\ UNCHANGED poolVars
           /\ \E x : pointers' = Put(pointers, w, n, x)
  <2>1. \A b \in Batches : \A i \in Nat \ {0} :
          BufferBlock(b, i)' = BufferBlock(b, i)
    BY <1>3, <1>6, <1>9, BlockOfPut DEF kind
  <2>2. OwnedInv' /\ SizesKept
    BY <1>3, <1>4, <1>9, <2>1, OwnersStay
  <2>3. Noted(w, n)'
    BY <1>3, <1>9 DEF Noted, Releasable, Pooled, kind
  <2> QED
    BY <1>1, <1>2, <2>2, <2>3
<1>10. ASSUME Pooled(kind), NEW k \in Blocks, NEW c,
              Acquire(Request(bytes), k, c),
              pointers' = Put(pointers, w, n, k),
              capacities' = Put(capacities, w, n, c)
       PROVE  OwnedInv' /\ SizesKept /\ Noted(w, n)'
  <2> DEFINE g == <<"buffer", w, n>>
  <2>1. g \in Owners /\ owner[g] = NoBlock
    BY <1>3, <1>6, HeldFacts
  <2>2. \A b \in Batches : \A i \in Nat \ {0} :
          BufferBlock(b, i)' = IF <<"buffer", b, i>> = g THEN k
                               ELSE BufferBlock(b, i)
    BY <1>3, <1>10, BlockOfPut DEF kind
  <2>3. /\ \A b \in Batches : <<"input", b>> # g
        /\ \A m \in Memories : <<"memory", m>> # g
    BY <1>3, Distinct
  <2> HIDE DEF g
  <2>4. \A h \in Owners : owner'[h] = IF h = g THEN k ELSE owner[h]
    BY <1>4, <2>1, <2>2, <2>3, OwnerGets
  <2>5. /\ Sound(spares', spareBytes', size', owner', lost)
        /\ k \in Blocks /\ size'[k] = c /\ Request(bytes) <= c
        /\ \A h \in Owners : owner[h] # NoBlock =>
             size'[owner[h]] = size[owner[h]]
    BY <1>3, <1>5, <1>7, <1>10, <2>1, <2>4, AcquireSound
  <2>6. pointers'[w][n] = k /\ capacities'[w][n] = c
    BY <1>3, <1>10, PutValues DEF TypeOK
  <2>7. c \in Nat
    BY <1>3, <1>7, <1>10, AcquireTypes
  <2>8. Noted(w, n)'
    BY <1>3, <1>7, <2>5, <2>6, <2>7 DEF Noted, bytes
  <2> QED
    BY <1>3, <2>5, <2>8, OwnedNext DEF SizesKept
<1>11. \/ /\ UNCHANGED pointers
          /\ UNCHANGED poolVars \/ AcquireFails(Request(bytes))
       \/ /\ ~Pooled(kind) /\ UNCHANGED poolVars
          /\ \E x : pointers' = Put(pointers, w, n, x)
       \/ /\ Pooled(kind)
          /\ \E k \in Blocks : \E c :
               /\ Acquire(Request(bytes), k, c)
               /\ pointers' = Put(pointers, w, n, k)
               /\ capacities' = Put(capacities, w, n, c)
  BY <1>1, <1>2 DEF AcquireBuffer, kind, bytes, Put
<1> QED
  BY <1>1, <1>2, <1>8, <1>9, <1>10, <1>11

\* A turn of the release loop, which gives back the block of one buffer.
LEMMA ReleaseBufferOwned ==
  ASSUME IInv, UNCHANGED backend, ReleaseBuffer
  PROVE  OwnedInv' /\ SizesKept
<1>1. PICK w \in Batches : w = who
  BY DEF IInv, TypeOK, ReleaseBuffer
<1>2. TypeOK /\ OffsetsOfInputs /\ PoolPointers
  BY DEF IInv, ControlInv
<1>3. PICK n \in DOMAIN layout[w] : n = at
  BY <1>1, <1>2, BufferFacts DEF ReleaseBuffer, TypeOK
<1>4. /\ UNCHANGED <<lost, memory, layout, offsets, deviceInput>>
      /\ n \in Nat \ {0} /\ pointers' = Put(pointers, w, n, NoBlock)
  <2>1. n \in Nat \ {0}
    BY <1>2, BufferFacts
  <2> QED
    BY <1>1, <1>3, <2>1 DEF ReleaseBuffer, lossVars, Put
<1>5. /\ \A b \in Batches : deviceInput'[b] = deviceInput[b]
      /\ \A m \in Memories : MemoryBlock(m)' = MemoryBlock(m)
  BY <1>4 DEF MemoryBlock
<1>6. \A b \in Batches : \A i \in Nat \ {0} :
        BufferBlock(b, i)' = IF b = w /\ i = n THEN NoBlock
                             ELSE BufferBlock(b, i)
  BY <1>2, <1>4, BlockOfPut
<1>7. CASE ~Releasable(w, n)
  <2>1. UNCHANGED poolVars
    BY <1>1, <1>3, <1>7, Zenon DEF ReleaseBuffer
  <2>2. BufferBlock(w, n) = NoBlock
    BY <1>7 DEF BufferBlock
  <2> QED
    BY <1>4, <1>5, <1>6, <2>1, <2>2, OwnersStay
<1>8. CASE Releasable(w, n)
  <2> DEFINE g == <<"buffer", w, n>>
  <2>1. /\ owner \in [Owners -> Blocks \cup {NoBlock}]
        /\ Sound(spares, spareBytes, size, owner, lost)
    BY OwnerType DEF IInv, OwnedInv
  <2>2. /\ g \in Owners /\ owner[g] = pointers[w][n] /\ owner[g] # NoBlock
    BY <1>4, <1>8, HeldFacts DEF BufferBlock, Releasable
  <2>3. Release(pointers[w][n], capacities[w][n])
    BY <1>1, <1>3, <1>8, Zenon DEF ReleaseBuffer
  <2>4. capacities[w][n] = size[pointers[w][n]]
    BY <1>8 DEF IInv, RecordedInv
  <2>5. \A b \in Batches : \A i \in Nat \ {0} :
          BufferBlock(b, i)' = IF <<"buffer", b, i>> = g THEN NoBlock
                               ELSE BufferBlock(b, i)
    BY <1>6
  <2>6. /\ \A b \in Batches : <<"input", b>> # g
        /\ \A m \in Memories : <<"memory", m>> # g
    BY <1>4, Distinct
  <2> HIDE DEF g
  <2>7. \A h \in Owners : owner'[h] = IF h = g THEN NoBlock ELSE owner[h]
    BY <1>5, <2>2, <2>5, <2>6, OwnerGets
  <2>8. /\ Sound(spares', spareBytes', size', owner', lost)
        /\ \A h \in Owners : owner'[h] # NoBlock =>
             size'[owner'[h]] = size[owner'[h]]
    BY <1>2, <2>1, <2>2, <2>3, <2>4, <2>7, ReleaseSound
  <2> QED
    BY <1>4, <2>8, OwnedNext DEF SizesKept
<1> QED
  BY <1>7, <1>8

\* Nothing is left of the batch that is forgotten, and nothing else changes.
LEMMA ForgetBlocks ==
  ASSUME TypeOK, Forget, NEW w \in Batches, w = who, UNCHANGED backend
  PROVE  /\ \A b \in Batches : \A i \in Nat \ {0} :
              BufferBlock(b, i)' = IF b = w THEN NoBlock ELSE BufferBlock(b, i)
         /\ \A b \in Batches :
              deviceInput'[b] = IF b = w THEN NoBlock ELSE deviceInput[b]
         /\ \A m \in Memories : MemoryBlock(m)' = MemoryBlock(m)
<1>1. \A i \in Nat \ {0} : ~Releasable(w, i)'
  <2>1. layout'[w] = <<>>
    BY ForgetEffect
  <2>2. BufferCount(w)' = 0
    BY <2>1 DEF BufferCount
  <2> QED
    BY <2>2 DEF Releasable
<1>2. \A b \in Batches : b # w => Same(b)
  BY ForgetEffect DEF Same
<1>3. \A b \in Batches :
        deviceInput'[b] = IF b = w THEN NoBlock ELSE deviceInput[b]
  BY DEF Forget, TypeOK
<1>4. \A m \in Memories : MemoryBlock(m)' = MemoryBlock(m)
  BY DEF Forget, MemoryBlock
<1>5. \A i \in Nat \ {0} : BufferBlock(w, i)' = NoBlock
  BY <1>1 DEF BufferBlock
<1> QED
  BY <1>2, <1>3, <1>4, <1>5, BlockOfOthers

\* The end of batch_destroy gives back the block of the inputs.
LEMMA ReleaseInputOwned ==
  ASSUME IInv, UNCHANGED backend, ReleaseInput
  PROVE  OwnedInv' /\ SizesKept
<1>1. PICK w \in Batches : w = who
  BY DEF IInv, TypeOK, ReleaseInput
<1>2. TypeOK /\ OffsetsOfInputs /\ Forget /\ UNCHANGED lost
  BY DEF IInv, ControlInv, ReleaseInput, lossVars
<1>3. \A i \in Nat \ {0} : BufferBlock(w, i) = NoBlock
  <2>1. BufferCount(w) < at /\ op = "release" /\ at \in Nat
    BY <1>1, <1>2 DEF ReleaseInput, BufferCount, TypeOK
  <2>2. \A i \in DOMAIN layout[w] : i < at
    BY <1>2, <2>1, BufferFacts
  <2>3. \A i \in DOMAIN layout[w] : pointers[w][i] = NoBlock
    BY <1>1, <2>1, <2>2 DEF IInv, ControlInv, Loops
  <2> QED
    BY <1>2, <2>3, BlockOf
<1>4. /\ \A b \in Batches : \A i \in Nat \ {0} :
           BufferBlock(b, i)' = BufferBlock(b, i)
      /\ \A m \in Memories : MemoryBlock(m)' = MemoryBlock(m)
      /\ \A b \in Batches :
           deviceInput'[b] = IF b = w THEN NoBlock ELSE deviceInput[b]
  BY <1>1, <1>2, <1>3, ForgetBlocks
<1> DEFINE g == <<"input", w>>
<1>5. /\ owner \in [Owners -> Blocks \cup {NoBlock}]
      /\ Sound(spares, spareBytes, size, owner, lost)
  BY OwnerType DEF IInv, OwnedInv
<1>6. g \in Owners /\ owner[g] = deviceInput[w]
  BY HeldFacts
<1>7. /\ \A b \in Batches : deviceInput'[b] =
           IF <<"input", b>> = g THEN NoBlock ELSE deviceInput[b]
      /\ \A b \in Batches : \A i \in Nat \ {0} : <<"buffer", b, i>> # g
      /\ \A m \in Memories : <<"memory", m>> # g
  BY <1>4, Distinct
<1> HIDE DEF g
<1>8. \A h \in Owners : owner'[h] = IF h = g THEN NoBlock ELSE owner[h]
  BY <1>4, <1>6, <1>7, OwnerGets
<1>9. CASE deviceInput[w] = NoBlock
  <2>1. UNCHANGED <<size, spares, spareBytes>>
    BY <1>1, <1>9 DEF ReleaseInput, poolVars
  <2>2. \A h \in Owners : owner'[h] = owner[h]
    BY <1>6, <1>8, <1>9
  <2>3. Sound(spares', spareBytes', size', owner', lost')
    BY <1>2, <1>5, <2>1, <2>2 DEF Sound
  <2> QED
    BY <2>1, <2>3, OwnedNext DEF SizesKept
<1>10. CASE deviceInput[w] # NoBlock
  <2>1. Release(deviceInput[w], inputCapacity[w])
    BY <1>1, <1>10 DEF ReleaseInput
  <2>2. inputCapacity[w] = size[deviceInput[w]]
    BY <1>10 DEF IInv, RecordedInv
  <2>3. /\ Sound(spares', spareBytes', size', owner', lost)
        /\ \A h \in Owners : owner'[h] # NoBlock =>
             size'[owner'[h]] = size[owner'[h]]
    BY <1>2, <1>5, <1>6, <1>8, <1>10, <2>1, <2>2, ReleaseSound
  <2> QED
    BY <1>2, <2>3, OwnedNext DEF SizesKept
<1> QED
  BY <1>9, <1>10

\* Without a context the blocks of the batch are lost.
LEMMA LoseBlocksOwned ==
  ASSUME IInv, UNCHANGED backend, LoseBlocks
  PROVE  OwnedInv' /\ SizesKept
<1>1. PICK w \in Batches : w = who
  BY DEF IInv, TypeOK, LoseBlocks
<1>2. TypeOK /\ Forget /\ UNCHANGED <<size, spares, spareBytes>>
  BY DEF IInv, LoseBlocks, poolVars
<1> DEFINE G == {<<"input", w>>} \cup {<<"buffer", w, i>> : i \in Nat \ {0}}
<1>3. /\ G \in SUBSET Owners
      /\ \A b \in Batches : <<"input", b>> \in G <=> b = w
      /\ \A b \in Batches : \A i \in Nat \ {0} :
           <<"buffer", b, i>> \in G <=> b = w
      /\ \A m \in Memories : <<"memory", m>> \notin G
  BY Distinct, HeldFacts
<1>4. \A k : k \in {owner[h] : h \in G} <=>
        k = deviceInput[w] \/ \E i \in Nat \ {0} : k = BufferBlock(w, i)
  BY HeldFacts
<1>5. \A i \in Nat \ {0} : Releasable(w, i) => i \in DOMAIN layout[w]
  BY ReleasableFacts DEF IInv
<1>6. DOMAIN layout[w] \subseteq Nat \ {0}
  BY <1>2, BufferFacts
<1>7. lost' = (lost \cup {owner[h] : h \in G}) \ {NoBlock}
  <2> HIDE DEF G
  <2>1. lost' = (lost \cup {deviceInput[w]} \cup
          {pointers[w][i] :
             i \in {j \in DOMAIN layout[w] : Releasable(w, j)}}) \ {NoBlock}
    BY <1>1 DEF LoseBlocks, GiveUp
  <2>2. \A k : k # NoBlock =>
          ((\E i \in Nat \ {0} : k = BufferBlock(w, i)) <=>
           k \in {pointers[w][i] :
                    i \in {j \in DOMAIN layout[w] : Releasable(w, j)}})
    BY <1>5, <1>6 DEF BufferBlock
  <2> QED
    BY <1>4, <2>1, <2>2
<1> HIDE DEF G
<1>8. \A h \in Owners : owner'[h] = IF h \in G THEN NoBlock ELSE owner[h]
  BY <1>1, <1>2, <1>3, ForgetBlocks, OwnersLose
<1>9. Sound(spares, spareBytes, size, owner', lost')
  BY <1>2, <1>3, <1>7, <1>8, OwnerType, LoseSound DEF IInv, OwnedInv
<1> QED
  BY <1>2, <1>9, OwnedNext DEF SizesKept

\* batch_take hands a block from a batch to a memory.
LEMMA TakeOwned ==
  ASSUME IInv, UNCHANGED backend, NEW b \in Batches, NEW i \in DOMAIN layout[b],
         NEW m \in Memories, Take(b, i, m)
  PROVE  OwnedInv' /\ SizesKept /\ size'[pointers[b][i]] = capacities[b][i]
<1>1. /\ TypeOK /\ OffsetsOfInputs
      /\ UNCHANGED <<poolVars, lost, layout, offsets, deviceInput>>
      /\ pointers' = Put(pointers, b, i, NoBlock) /\ memory[m] = NoMemory
  BY DEF IInv, ControlInv, Take, lossVars, Moved, Put
<1>2. Releasable(b, i) /\ pointers[b][i] \in Blocks /\ i \in Nat \ {0}
  BY TakeFacts, BufferFacts DEF IInv
<1>3. UNCHANGED <<size, spares, spareBytes>>
  BY <1>1 DEF poolVars
<1> DEFINE f == <<"buffer", b, i>>
           g == <<"memory", m>>
<1>4. /\ f \in Owners /\ g \in Owners /\ f # g
      /\ owner[f] = pointers[b][i] /\ owner[g] = NoBlock
  BY <1>1, <1>2, HeldFacts, Distinct DEF BufferBlock, MemoryBlock, NoMemory
<1>5. \A c \in Batches : \A j \in Nat \ {0} :
        owner'[<<"buffer", c, j>>] =
          IF c = b /\ j = i THEN NoBlock ELSE owner[<<"buffer", c, j>>]
  <2>1. \A c \in Batches : \A j \in Nat \ {0} :
          BufferBlock(c, j)' = IF c = b /\ j = i THEN NoBlock
                               ELSE BufferBlock(c, j)
    BY <1>1, BlockOfPut
  <2> TAKE c \in Batches
  <2> TAKE j \in Nat \ {0}
  <2>2. /\ owner[<<"buffer", c, j>>] = BufferBlock(c, j)
        /\ owner'[<<"buffer", c, j>>] = BufferBlock(c, j)'
    BY HeldFacts, HeldFactsNext
  <2> QED
    BY <2>1, <2>2
<1>6. \A c \in Batches : owner'[<<"input", c>>] = owner[<<"input", c>>]
  BY <1>1, HeldFacts, HeldFactsNext
<1>7. \A n \in Memories :
        owner'[<<"memory", n>>] =
          IF n = m THEN owner[f] ELSE owner[<<"memory", n>>]
  <2>1. \A n \in Memories :
          memory'[n] = IF n = m
            THEN [pointer |-> pointers[b][i], bytes |-> layout[b][i].bytes,
                  owned |-> TRUE]
            ELSE memory[n]
    BY DEF Take, IInv, TypeOK
  <2>2. \A n \in Memories :
          MemoryBlock(n)' = IF n = m THEN pointers[b][i] ELSE MemoryBlock(n)
    BY <2>1 DEF MemoryBlock
  <2> HIDE DEF f
  <2> QED
    BY <1>4, <2>2, HeldFacts, HeldFactsNext
<1>8. \A h \in Owners :
        owner'[h] = IF h = f THEN NoBlock
                    ELSE IF h = g THEN owner[f] ELSE owner[h]
  BY <1>2, <1>5, <1>6, <1>7, Distinct, OwnerCases
<1> HIDE DEF f, g
<1>9. Sound(spares, spareBytes, size, owner', lost)
  BY <1>1, <1>4, <1>8, OwnerType, MoveSound DEF IInv, OwnedInv
<1>10. Sound(spares', spareBytes', size', owner', lost')
  BY <1>1, <1>3, <1>9
<1>11. capacities[b][i] = size[pointers[b][i]]
  BY <1>2 DEF IInv, RecordedInv
<1> QED
  BY <1>3, <1>10, <1>11, OwnedNext DEF SizesKept

\* The calls that create, wrap and destroy a memory.
LEMMA MemoryOwned ==
  ASSUME IInv, UNCHANGED backend, MemoryCall
  PROVE  /\ OwnedInv' /\ SizesKept
         /\ \A m \in Memories : memory'[m].owned =>
              \/ memory'[m] = memory[m]
              \/ memory'[m].bytes <= size'[memory'[m].pointer]
<1>1. /\ TypeOK /\ OffsetsOfInputs
      /\ owner \in [Owners -> Blocks \cup {NoBlock}]
      /\ Sound(spares, spareBytes, size, owner, lost)
  BY OwnerType DEF IInv, ControlInv, OwnedInv
<1>2. UNCHANGED <<spares, spareBytes, batchVars>>
  BY DEF MemoryCall, MemoryCreate, MemoryWrap, MemoryDestroy, poolVars
<1>3. /\ \A b \in Batches : \A i \in Nat \ {0} :
           BufferBlock(b, i)' = BufferBlock(b, i)
      /\ UNCHANGED deviceInput
  BY <1>2 DEF batchVars, BufferBlock, Releasable, BufferCount, Pooled
<1>4. ASSUME NEW m \in Memories, NEW x,
             memory' = [memory EXCEPT ![m] = x]
      PROVE  /\ memory'[m] = x
             /\ \A n \in Memories \ {m} : memory'[n] = memory[n]
             /\ \A h \in Owners :
                  owner'[h] = IF h = <<"memory", m>> THEN MemoryBlock(m)'
                              ELSE owner[h]
  <2>1. memory'[m] = x /\ \A n \in Memories \ {m} : memory'[n] = memory[n]
    BY <1>1, <1>4 DEF TypeOK
  <2>2. PICK k : k = MemoryBlock(m)'
    OBVIOUS
  <2>3. \A n \in Memories :
          MemoryBlock(n)' = IF <<"memory", n>> = <<"memory", m>> THEN k
                            ELSE MemoryBlock(n)
    BY <2>1, <2>2 DEF MemoryBlock
  <2> DEFINE g == <<"memory", m>>
  <2>4. /\ g \in Owners
        /\ \A b \in Batches : <<"input", b>> # g
        /\ \A b \in Batches : \A i \in Nat \ {0} : <<"buffer", b, i>> # g
    BY HeldFacts, Distinct
  <2>5. \A n \in Memories :
          MemoryBlock(n)' = IF <<"memory", n>> = g THEN k ELSE MemoryBlock(n)
    BY <2>3
  <2> HIDE DEF g
  <2>6. \A h \in Owners : owner'[h] = IF h = g THEN k ELSE owner[h]
    BY <1>3, <2>4, <2>5, OwnerGets
  <2> QED
    BY <2>1, <2>2, <2>6 DEF g
<1>5. ASSUME NEW m \in Memories, NEW bytes \in Sizes, MemoryCreate(m, bytes)
      PROVE  /\ OwnedInv' /\ SizesKept
             /\ \A n \in Memories : memory'[n].owned =>
                  \/ memory'[n] = memory[n]
                  \/ memory'[n].bytes <= size'[memory'[n].pointer]
  <2>1. PICK k \in Blocks :
          /\ NewBlock(k) /\ size' = [size EXCEPT ![k] = Request(bytes)]
          /\ memory' = [memory EXCEPT ![m] =
               [pointer |-> k, bytes |-> bytes, owned |-> TRUE]]
    BY <1>5 DEF MemoryCreate
  <2>2. memory[m] = NoMemory
    BY <1>5 DEF MemoryCreate
  <2>3. /\ memory'[m] = [pointer |-> k, bytes |-> bytes, owned |-> TRUE]
        /\ \A n \in Memories \ {m} : memory'[n] = memory[n]
        /\ \A h \in Owners :
             owner'[h] = IF h = <<"memory", m>> THEN MemoryBlock(m)'
                         ELSE owner[h]
    BY <1>4, <2>1
  <2>4. MemoryBlock(m)' = k
    BY <2>3 DEF MemoryBlock
  <2>5. <<"memory", m>> \in Owners /\ owner[<<"memory", m>>] = NoBlock
    BY <2>2, HeldFacts DEF MemoryBlock, NoMemory
  <2>6. bytes \in Nat /\ Request(bytes) \in Nat /\ Request(bytes) # 0
        /\ bytes <= Request(bytes)
    <3>1. bytes \in Nat /\ bytes # 0
      <4>1. bytes \in 1 .. SizeMax /\ SizeMax \in Nat
        BY RuntimeAssumption
      <4> QED
        BY <4>1
    <3>2. Padded(bytes) \in Nat /\ bytes <= Padded(bytes)
      BY <3>1, PaddedFacts
    <3> QED
      BY <3>1, <3>2 DEF Request
  <2> DEFINE g == <<"memory", m>>
  <2>7. /\ \A h \in Owners : owner'[h] = IF h = g THEN k ELSE owner[h]
        /\ g \in Owners /\ owner[g] = NoBlock
        /\ \A j \in Blocks :
             size'[j] = IF j = k THEN Request(bytes) ELSE size[j]
    BY <1>1, <2>1, <2>3, <2>4, <2>5 DEF TypeOK
  <2> HIDE DEF g
  <2>8. /\ Sound(spares, spareBytes, size', owner', lost)
        /\ size'[k] = Request(bytes)
        /\ \A h \in Owners : owner[h] # NoBlock =>
             size'[owner[h]] = size[owner[h]]
    <3>1. PICK n \in Nat \ {0} : n = Request(bytes)
      BY <2>6
    <3>2. \A j \in Blocks : size'[j] = IF j = k THEN n ELSE size[j]
      BY <2>7, <3>1
    <3>3. NewBlock(k)
      BY <2>1
    <3>4. /\ Sound(spares, spareBytes, size', owner', lost) /\ size'[k] = n
          /\ \A h \in Owners : owner[h] # NoBlock =>
               size'[owner[h]] = size[owner[h]]
      BY <1>1, <2>7, <3>1, <3>2, <3>3, NewSound
    <3> QED
      BY <3>1, <3>4
  <2>9. Sound(spares', spareBytes', size', owner', lost')
    BY <1>2, <1>5, <2>8 DEF MemoryCreate, lossVars
  <2> QED
    BY <2>3, <2>6, <2>8, <2>9, OwnedNext DEF SizesKept
<1>6. ASSUME NEW m \in Memories, NEW bytes \in Sizes, MemoryWrap(m, bytes)
      PROVE  /\ OwnedInv' /\ SizesKept
             /\ \A n \in Memories : memory'[n].owned => memory'[n] = memory[n]
  <2> DEFINE x == [pointer |-> Foreign, bytes |-> bytes, owned |-> FALSE]
  <2>1. /\ memory[m] = NoMemory /\ UNCHANGED <<poolVars, lost>>
        /\ memory' = [memory EXCEPT ![m] = x] /\ ~x.owned
    BY <1>6 DEF MemoryWrap, lossVars
  <2> HIDE DEF x
  <2>2. memory'[m] = x /\ \A n \in Memories \ {m} : memory'[n] = memory[n]
    BY <1>4, <2>1
  <2>3. \A n \in Memories : MemoryBlock(n)' = MemoryBlock(n)
    BY <2>1, <2>2 DEF MemoryBlock, NoMemory
  <2> QED
    BY <1>2, <1>3, <2>1, <2>2, <2>3, OwnersStay
<1>7. ASSUME NEW m \in Memories, MemoryDestroy(m)
      PROVE  /\ OwnedInv' /\ SizesKept
             /\ \A n \in Memories : memory'[n].owned => memory'[n] = memory[n]
  <2>1. memory' = [memory EXCEPT ![m] = NoMemory]
    BY <1>7 DEF MemoryDestroy
  <2>2. /\ memory'[m] = NoMemory
        /\ \A n \in Memories \ {m} : memory'[n] = memory[n]
        /\ \A h \in Owners :
             owner'[h] = IF h = <<"memory", m>> THEN MemoryBlock(m)'
                         ELSE owner[h]
    BY <1>4, <2>1
  <2>3. MemoryBlock(m)' = NoBlock
    BY <2>2 DEF MemoryBlock, NoMemory
  <2>4. <<"memory", m>> \in Owners /\ owner[<<"memory", m>>] = MemoryBlock(m)
    BY HeldFacts
  <2> DEFINE g == <<"memory", m>>
  <2>5. /\ \A h \in Owners : owner'[h] = IF h = g THEN NoBlock ELSE owner[h]
        /\ g \in Owners
        /\ owner[g] = MemoryBlock(m)
    BY <2>2, <2>3, <2>4
  <2> HIDE DEF g
  <2>6. ASSUME memory[m].owned, GiveUp({memory[m].pointer}), UNCHANGED size
        PROVE  OwnedInv' /\ SizesKept
    <3>1. {owner[h] : h \in {g}} = {memory[m].pointer}
      BY <2>5, <2>6 DEF MemoryBlock
    <3>2. lost' = (lost \cup {owner[h] : h \in {g}}) \ {NoBlock}
      BY <2>6, <3>1 DEF GiveUp
    <3>3. \A h \in Owners :
            owner'[h] = IF h \in {g} THEN NoBlock ELSE owner[h]
      BY <2>5
    <3>4. Sound(spares, spareBytes, size, owner', lost')
      BY <1>1, <2>5, <3>2, <3>3, LoseSound
    <3>5. Sound(spares', spareBytes', size', owner', lost')
      BY <1>2, <2>6, <3>4
    <3>6. SizesKept
      BY <2>6 DEF SizesKept
    <3> QED
      BY <3>5, <3>6, OwnedNext
  <2>7. ASSUME size' = IF memory[m].owned
                         THEN [size EXCEPT ![memory[m].pointer] = 0] ELSE size,
               UNCHANGED lossVars
        PROVE  OwnedInv' /\ SizesKept
    <3>1. size' = IF MemoryBlock(m) = NoBlock THEN size
                  ELSE [size EXCEPT ![MemoryBlock(m)] = 0]
      <4>1. memory[m].owned => memory[m].pointer # NoBlock
        <5>1. NoBlock \notin Blocks
          BY DEF Blocks, NoBlock
        <5> QED
          BY <5>1 DEF IInv, MemoryInv
      <4>2. memory[m].owned \in BOOLEAN
        BY <1>1 DEF TypeOK
      <4> QED
        BY <2>7, <4>1, <4>2 DEF MemoryBlock
    <3>2. \A j \in Blocks : size'[j] = IF j = owner[g] THEN 0 ELSE size[j]
      <4>1. size \in [Blocks -> Nat] /\ NoBlock \notin Blocks
        BY <1>1 DEF TypeOK, Blocks, NoBlock
      <4> QED
        BY <2>5, <3>1, <4>1
    <3>3. /\ Sound(spares, spareBytes, size', owner', lost)
          /\ \A h \in Owners : owner'[h] # NoBlock =>
               size'[owner'[h]] = size[owner'[h]]
      BY <1>1, <2>5, <3>2, FreeSound
    <3>4. Sound(spares', spareBytes', size', owner', lost')
      BY <1>2, <2>7, <3>3 DEF lossVars
    <3>5. SizesKept
      BY <3>3 DEF SizesKept
    <3> QED
      BY <3>4, <3>5, OwnedNext
  <2>8. OwnedInv' /\ SizesKept
    BY <1>7, <2>6, <2>7 DEF MemoryDestroy
  <2> QED
    BY <2>2, <2>8 DEF NoMemory
<1> QED
  BY <1>5, <1>6, <1>7 DEF MemoryCall

\* program_destroy frees the spares and no other block.
LEMMA ProgramDestroyOwned ==
  ASSUME IInv, UNCHANGED backend, ProgramDestroy
  PROVE  OwnedInv' /\ SizesKept
<1>1. /\ UNCHANGED <<batchVars, memory>>
      /\ spares' = [s \in Spares |-> NoBlock]
      /\ spareBytes' = [s \in Spares |-> 0]
  BY DEF ProgramDestroy
<1>2. \A b \in Batches : \A i \in Nat \ {0} :
        BufferBlock(b, i)' = BufferBlock(b, i)
  BY <1>1 DEF batchVars, BufferBlock, Releasable, BufferCount, Pooled
<1>3. \A h \in Owners : owner'[h] = owner[h]
  BY <1>1, <1>2, OwnersSame DEF batchVars, MemoryBlock
<1>4. /\ TypeOK /\ owner \in [Owners -> Blocks \cup {NoBlock}]
      /\ Sound(spares, spareBytes, size, owner, lost)
  BY OwnerType DEF IInv, OwnedInv
<1>5. CASE GiveUp({spares[s] : s \in Spares}) /\ UNCHANGED size
  <2>1. lost' = (lost \cup {spares[s] : s \in Spares}) \ {NoBlock}
    BY <1>5 DEF GiveUp
  <2>2. Sound(spares', spareBytes', size, owner, lost')
    BY <1>1, <1>4, <2>1, LoseSparesSound
  <2>3. Sound(spares', spareBytes', size', owner', lost')
    BY <1>3, <1>5, <2>2 DEF Sound
  <2> QED
    BY <1>5, <2>3, OwnedNext DEF SizesKept
<1>6. CASE /\ size' = [j \in Blocks |-> IF Freed(j) THEN 0 ELSE size[j]]
           /\ UNCHANGED lossVars
  <2>1. /\ Sound(spares', spareBytes', size', owner, lost)
        /\ \A h \in Owners : owner[h] # NoBlock =>
             size'[owner[h]] = size[owner[h]]
    BY <1>1, <1>4, <1>6, FreeSparesSound
  <2>2. Sound(spares', spareBytes', size', owner', lost')
    BY <1>3, <1>6, <2>1 DEF Sound, lossVars
  <2> QED
    BY <2>1, <2>2, OwnedNext DEF SizesKept
<1> QED
  BY <1>5, <1>6 DEF ProgramDestroy

\* Every step leaves each block one holder and its size.
LEMMA OwnedStep ==
  ASSUME IInv, Next PROVE OwnedInv' /\ SizesKept
<1>1. UNCHANGED backend
  BY DEF Next
<1> QED
  BY <1>1, CreateOwned, LayoutInputOwned, StillOwned, AcquireInputOwned,
     AcquireBufferOwned, ReleaseBufferOwned, ReleaseInputOwned, LoseBlocksOwned,
     TakeOwned, MemoryOwned, ProgramDestroyOwned, Zenon
     DEF Next, BatchCall, BatchStep, Device

-----------------------------------------------------------------------------
(* What is recorded of the blocks                                          *)

\* The inputs are laid out behind each other without wrapping around.
LEMMA LayoutInputInputs ==
  ASSUME IInv, UNCHANGED backend, LayoutInput
  PROVE  InputsInv'
<1>1. PICK w \in Batches : w = who
  BY DEF IInv, TypeOK, LayoutInput
<1>2. PICK n \in DOMAIN layout[w] : n = at
  BY <1>1, BufferFacts DEF LayoutInput, IInv, TypeOK
<1>3. UNCHANGED <<who, layout>> /\ op = "layout" /\ TypeOK
  BY DEF LayoutInput, IInv
<1>4. \A b \in Batches : \A i \in DOMAIN layout[b] :
        /\ i \in Nat /\ offsets[b][i] \in Nat /\ layout[b][i].bytes \in Nat
        /\ layout[b][i].bytes >= 1
  <2> TAKE b \in Batches
  <2>1. /\ DOMAIN layout[b] = 1 .. BufferCount(b)
        /\ \A i \in 1 .. BufferCount(b) :
             /\ offsets[b][i] \in Nat /\ layout[b][i].bytes \in Nat
             /\ layout[b][i].bytes >= 1
    BY <1>3, BufferFacts
  <2> QED
    BY <2>1
<1>5. \A i \in DOMAIN layout[w] : i >= n => offsets[w][i] = NoOffset
  BY <1>1, <1>2, <1>3 DEF IInv, InputsInv
<1>6. CASE UNCHANGED <<offsets, inputBytes>>
  <2>1. at' = at + 1 \/ op' # "layout"
    BY <1>6 DEF LayoutInput
  <2> QED
    BY <1>1, <1>2, <1>3, <1>4, <1>6, <2>1 DEF IInv, InputsInv
<1>7. CASE /\ ~TooLarge(w, layout[w][n].bytes)
           /\ offsets' = Put(offsets, w, n, inputBytes[w])
           /\ inputBytes' = [inputBytes EXCEPT ![w] =
                 (@ + Padded(layout[w][n].bytes)) % (SizeMax + 1)]
           /\ at' = at + 1
  <2>1. PICK p \in Nat : p = Padded(layout[w][n].bytes)
    BY <1>4, PaddedFacts
  <2>2. layout[w][n].bytes <= p
    BY <1>4, <2>1, PaddedFacts
  <2>3. /\ inputBytes[w] \in Nat /\ SizeMax \in Nat
        /\ inputBytes[w] <= SizeMax
    BY <1>3, RuntimeAssumption DEF TypeOK
  <2>4. p <= SizeMax - inputBytes[w]
    BY <1>7, <2>1, <2>3 DEF TooLarge
  <2>5. PICK sum \in Nat : sum = inputBytes[w] + p
    BY <2>3
  <2>6. sum <= SizeMax
    BY <2>3, <2>4, <2>5
  <2>7. sum % (SizeMax + 1) = sum
    BY <2>3, <2>6
  <2>8. /\ inputBytes'[w] = inputBytes[w] + p
        /\ \A b \in Batches \ {w} : inputBytes'[b] = inputBytes[b]
    BY <1>3, <1>7, <2>1, <2>5, <2>7 DEF TypeOK
  <2>9. \A b \in Batches : \A i \in DOMAIN layout[b] :
          offsets'[b][i] = IF b = w /\ i = n THEN inputBytes[w]
                           ELSE offsets[b][i]
    <3>1. /\ DOMAIN offsets = Batches
          /\ \A b \in Batches : DOMAIN offsets[b] = DOMAIN layout[b]
      BY <1>3 DEF TypeOK
    <3> QED
      BY <1>7, <3>1, PutValues
  <2>10. ASSUME NEW b \in Batches, NEW i \in DOMAIN layout[b],
                NEW j \in DOMAIN layout[b], offsets'[b][i] # NoOffset
         PROVE  /\ offsets'[b][i] + layout[b][i].bytes <= inputBytes'[b]
                /\ offsets'[b][j] # NoOffset /\ i < j =>
                     offsets'[b][i] + layout[b][i].bytes <= offsets'[b][j]
    <3>1. CASE b # w
      BY <2>8, <2>9, <2>10, <3>1 DEF IInv, InputsInv
    <3>2. CASE b = w /\ i = n
      <4>1. i < j => offsets'[b][j] = NoOffset
        BY <1>4, <1>5, <2>9, <3>2
      <4> QED
        BY <1>4, <2>2, <2>3, <2>8, <2>9, <3>2, <4>1
    <3>3. CASE b = w /\ i # n
      <4>1. /\ offsets'[b][i] = offsets[b][i]
            /\ offsets[b][i] + layout[b][i].bytes <= inputBytes[w]
            /\ offsets[b][j] # NoOffset /\ i < j =>
                 offsets[b][i] + layout[b][i].bytes <= offsets[b][j]
        BY <2>9, <2>10, <3>3 DEF IInv, InputsInv
      <4>2. offsets[b][i] + layout[b][i].bytes <= inputBytes'[w]
        BY <1>4, <2>3, <2>8, <4>1
      <4> QED
        BY <2>9, <3>3, <4>1, <4>2
    <3> QED
      BY <3>1, <3>2, <3>3
  <2>11. \A i \in DOMAIN layout[w] : i >= n + 1 => offsets'[w][i] = NoOffset
    BY <1>4, <1>5, <2>9
  <2> QED
    BY <1>1, <1>2, <1>3, <1>7, <2>10, <2>11 DEF InputsInv
<1> QED
  BY <1>1, <1>2, <1>6, <1>7 DEF LayoutInput, Put

\* Every step keeps the inputs of a batch behind each other.
LEMMA InputsStep ==
  ASSUME IInv, Next PROVE InputsInv'
<1>1. UNCHANGED backend
  BY DEF Next
<1>2. CASE /\ UNCHANGED <<layout, offsets, inputBytes>>
           /\ op' = "layout" => UNCHANGED <<op, who, at>>
  BY <1>2 DEF IInv, InputsInv
<1>3. CASE Forget /\ op # "idle"
  <2>1. who \in Batches /\ op' = "idle" /\ TypeOK
    BY <1>3 DEF IInv, TypeOK, Forget
  <2> QED
    BY <1>3, <2>1, ForgetEffect DEF IInv, InputsInv
<1>4. ASSUME NEW b \in Batches, NEW l \in Layouts[backend], Create(b, l)
      PROVE  InputsInv'
  <2>1. /\ layout'[b] = l /\ who' = b
        /\ \A i \in DOMAIN l : offsets'[b][i] = NoOffset
        /\ \A c \in Batches \ {b} :
             /\ layout'[c] = layout[c] /\ offsets'[c] = offsets[c]
             /\ inputBytes'[c] = inputBytes[c]
    BY <1>4 DEF IInv, TypeOK, Create, NoOffsets
  <2> QED
    BY <2>1 DEF IInv, InputsInv
<1>5. \/ /\ UNCHANGED <<layout, offsets, inputBytes>>
         /\ op' = "layout" => UNCHANGED <<op, who, at>>
      \/ (Forget /\ op # "idle") \/ LayoutInput
      \/ \E b \in Batches : \E l \in Layouts[backend] : Create(b, l)
  <2>1. BatchStep =>
          \/ /\ UNCHANGED <<layout, offsets, inputBytes>> /\ op' # "layout"
          \/ (Forget /\ op # "idle") \/ LayoutInput
    BY DEF BatchStep, LaidOut, AcquireInput, AcquireBuffer, Created,
           ReleaseBuffer, LoseBlocks, ReleaseInput, batchVars, Goto
  <2>2. ASSUME \/ MemoryCall \/ Device \/ ProgramDestroy \/ Gone
               \/ \E b \in Batches :
                    \/ Run(b) \/ Enqueue(b) \/ Wait(b) \/ BeginDestroy(b)
                    \/ DestroyUnwaited(b)
                    \/ \E i \in DOMAIN layout[b], m \in Memories : Take(b, i, m)
        PROVE  /\ UNCHANGED <<layout, offsets, inputBytes>>
               /\ op' = "layout" => UNCHANGED <<op, who, at>>
    BY <2>2 DEF MemoryCall, Device, Run, Enqueue, Wait, BeginDestroy, DestroyUnwaited, Complete, Overwrite,
         Take, MemoryCreate, MemoryWrap, MemoryDestroy, ProgramDestroy, Gone,
         batchVars, opVars, vars
  <2> QED
    BY <2>1, <2>2 DEF Next, BatchCall
<1> QED
  BY <1>1, <1>2, <1>3, <1>4, <1>5, LayoutInputInputs

\* A buffer that keeps its block keeps what is recorded of it.
LEMMA NotedKept ==
  ASSUME IInv, SizesKept, UNCHANGED backend, NEW b \in Batches,
         NEW i \in DOMAIN layout[b], layout'[b] = layout[b],
         offsets'[b] = offsets[b], pointers'[b][i] = pointers[b][i],
         capacities'[b][i] = capacities[b][i]
  PROVE  Noted(b, i)'
<1> SUFFICES ASSUME Releasable(b, i)'
             PROVE  /\ capacities[b][i] = size'[pointers[b][i]]
                    /\ layout[b][i].bytes <= capacities[b][i]
  BY DEF Noted
<1>1. i \in Nat \ {0}
  BY BufferFacts DEF IInv
<1>2. Releasable(b, i)
  BY DEF Releasable, BufferCount, Pooled
<1>3. /\ capacities[b][i] = size[pointers[b][i]]
      /\ layout[b][i].bytes <= capacities[b][i]
  BY <1>2 DEF IInv, RecordedInv
<1>4. /\ BufferBlock(b, i) = pointers[b][i] /\ pointers[b][i] # NoBlock
      /\ BufferBlock(b, i)' = pointers[b][i]
  BY <1>2 DEF BufferBlock, Releasable
<1>5. /\ <<"buffer", b, i>> \in Owners
      /\ owner[<<"buffer", b, i>>] = pointers[b][i]
      /\ owner'[<<"buffer", b, i>>] = pointers[b][i]
  BY <1>1, <1>4, HeldFacts, HeldFactsNext
<1> QED
  BY <1>3, <1>4, <1>5 DEF SizesKept

\* One pointer of a batch is set, and its capacity or not.
LEMMA NotedPut ==
  ASSUME IInv, SizesKept, UNCHANGED <<backend, layout, offsets>>,
         NEW w \in Batches, NEW n \in DOMAIN layout[w],
         pointers' = pointers \/ \E x : pointers' = Put(pointers, w, n, x),
         \/ capacities' = capacities
         \/ \E x : capacities' = Put(capacities, w, n, x),
         Noted(w, n)'
  PROVE  \A b \in Batches : \A i \in DOMAIN layout'[b] : Noted(b, i)'
<1> TAKE b \in Batches
<1> SUFFICES ASSUME NEW i \in DOMAIN layout[b] PROVE Noted(b, i)'
  OBVIOUS
<1>1. CASE b = w /\ i = n
  BY <1>1
<1>2. CASE ~(b = w /\ i = n)
  <2>1. /\ DOMAIN pointers = Batches /\ DOMAIN capacities = Batches
        /\ DOMAIN pointers[b] = DOMAIN layout[b]
        /\ DOMAIN capacities[b] = DOMAIN layout[b]
    BY DEF IInv, TypeOK
  <2>2. /\ pointers'[b][i] = pointers[b][i]
        /\ capacities'[b][i] = capacities[b][i]
    BY <1>2, <2>1, PutValues
  <2> QED
    BY <2>2, NotedKept
<1> QED
  BY <1>1, <1>2

\* What is recorded of the buffers' blocks.
LEMMA BuffersRecorded ==
  ASSUME IInv, SizesKept, Next
  PROVE  \A b \in Batches : \A i \in DOMAIN layout'[b] : Noted(b, i)'
<1>1. UNCHANGED backend /\ TypeOK
  BY DEF Next, IInv
<1>2. CASE UNCHANGED <<layout, offsets, pointers, capacities>>
  BY <1>1, <1>2, NotedKept
<1>3. ASSUME NEW w \in Batches,
             \A b \in Batches \ {w} :
               /\ layout'[b] = layout[b] /\ offsets'[b] = offsets[b]
               /\ pointers'[b] = pointers[b] /\ capacities'[b] = capacities[b],
             \A i \in DOMAIN layout'[w] : pointers'[w][i] = NoBlock
      PROVE  \A b \in Batches : \A i \in DOMAIN layout'[b] : Noted(b, i)'
  <2>1. \A i \in DOMAIN layout'[w] : Noted(w, i)'
    BY <1>3 DEF Noted, Releasable
  <2>2. \A b \in Batches \ {w} : \A i \in DOMAIN layout'[b] : Noted(b, i)'
    BY <1>1, <1>3, NotedKept
  <2> QED
    BY <2>1, <2>2
<1>4. CASE Forget /\ op # "idle"
  <2>1. who \in Batches
    BY <1>1, <1>4 DEF TypeOK
  <2>2. \A i \in DOMAIN layout'[who] : pointers'[who][i] = NoBlock
    BY <1>1, <1>4, <2>1, ForgetEffect
  <2> QED
    BY <1>1, <1>3, <1>4, <2>1, <2>2, ForgetEffect
<1>5. ASSUME NEW b \in Batches, NEW l \in Layouts[backend], Create(b, l)
      PROVE  \A c \in Batches : \A i \in DOMAIN layout'[c] : Noted(c, i)'
  <2>1. /\ \A i \in DOMAIN layout'[b] : pointers'[b][i] = NoBlock
        /\ \A c \in Batches \ {b} :
             /\ layout'[c] = layout[c] /\ offsets'[c] = offsets[c]
             /\ pointers'[c] = pointers[c] /\ capacities'[c] = capacities[c]
    BY <1>1, <1>5 DEF Create, TypeOK
  <2> QED
    BY <1>3, <2>1
<1>6. CASE LayoutInput
  <2>1. who \in Batches /\ UNCHANGED <<layout, pointers, capacities>>
    BY <1>1, <1>6 DEF LayoutInput, TypeOK
  <2>2. \A b \in Batches \ {who} : offsets'[b] = offsets[b]
    <3>1. \/ UNCHANGED offsets
          \/ offsets' = Put(offsets, who, at, inputBytes[who])
      BY <1>6 DEF LayoutInput, Put
    <3> QED
      BY <1>1, <2>1, <3>1, PutValues DEF TypeOK
  <2>3. \A i \in DOMAIN layout'[who] : pointers'[who][i] = NoBlock
    BY <1>6, <2>1 DEF LayoutInput, IInv, ControlInv, Loops
  <2> QED
    BY <1>3, <2>1, <2>2, <2>3
<1>7. CASE AcquireBuffer
  <2>1. PICK w \in Batches : w = who
    BY <1>1, <1>7, AcquireBufferEffect
  <2>2. PICK n \in DOMAIN layout[w] : n = at
    BY <1>1, <1>7, <2>1, AcquireBufferEffect
  <2>3. /\ UNCHANGED <<layout, offsets>>
        /\ pointers' = pointers \/ \E x : pointers' = Put(pointers, w, n, x)
        /\ \/ capacities' = capacities
           \/ \E x : capacities' = Put(capacities, w, n, x)
    BY <1>7, <2>1, <2>2 DEF AcquireBuffer, Put
  <2>4. Noted(w, n)'
    BY <1>1, <1>7, <2>1, <2>2, AcquireBufferOwned
  <2> QED
    BY <1>1, <2>3, <2>4, NotedPut
<1>8. ASSUME NEW w \in Batches, NEW n \in DOMAIN layout[w],
             pointers' = Put(pointers, w, n, NoBlock),
             UNCHANGED <<layout, offsets, capacities>>
      PROVE  \A b \in Batches : \A i \in DOMAIN layout'[b] : Noted(b, i)'
  <2>1. Noted(w, n)'
    <3>1. pointers'[w][n] = NoBlock
      BY <1>1, <1>8, PutValues DEF TypeOK
    <3> QED
      BY <3>1 DEF Noted, Releasable
  <2> QED
    BY <1>1, <1>8, <2>1, NotedPut
<1>9. CASE ReleaseBuffer
  <2>1. /\ UNCHANGED <<layout, offsets, capacities>> /\ who \in Batches
        /\ pointers' = Put(pointers, who, at, NoBlock)
        /\ at \in DOMAIN layout[who]
    BY <1>1, <1>9, BufferFacts DEF ReleaseBuffer, Put, TypeOK
  <2> QED
    BY <1>8, <2>1
<1>10. ASSUME NEW b \in Batches, NEW i \in DOMAIN layout[b],
              NEW m \in Memories, Take(b, i, m)
       PROVE  \A c \in Batches : \A j \in DOMAIN layout'[c] : Noted(c, j)'
  BY <1>8, <1>10 DEF Take, Moved, Put
<1>11. \/ UNCHANGED <<layout, offsets, pointers, capacities>>
       \/ (Forget /\ op # "idle") \/ LayoutInput \/ AcquireBuffer
       \/ ReleaseBuffer
       \/ \E b \in Batches :
            \/ \E l \in Layouts[backend] : Create(b, l)
            \/ \E i \in DOMAIN layout[b], m \in Memories : Take(b, i, m)
  BY DEF Next, BatchCall, BatchStep, MemoryCall, Device, Run, Enqueue, Wait,
         BeginDestroy, DestroyUnwaited, Complete, Overwrite, MemoryCreate, MemoryWrap, MemoryDestroy,
         ProgramDestroy, Gone, LaidOut, AcquireInput, Created, LoseBlocks,
         ReleaseInput, batchVars, vars
<1> QED
  BY <1>2, <1>4, <1>5, <1>6, <1>7, <1>9, <1>10, <1>11

\* What is recorded of the block of a batch's inputs.
LEMMA InputsRecorded ==
  ASSUME IInv, SizesKept, Next
  PROVE  \A b \in Batches : deviceInput'[b] # NoBlock =>
           /\ inputCapacity'[b] = size'[deviceInput'[b]]
           /\ inputBytes'[b] <= inputCapacity'[b]
<1>1. UNCHANGED backend /\ TypeOK
  BY DEF Next, IInv
<1>2. ASSUME NEW b \in Batches, deviceInput'[b] # NoBlock,
             deviceInput'[b] = deviceInput[b],
             inputCapacity'[b] = inputCapacity[b],
             inputBytes'[b] = inputBytes[b]
      PROVE  /\ inputCapacity'[b] = size'[deviceInput'[b]]
             /\ inputBytes'[b] <= inputCapacity'[b]
  <2>1. /\ inputCapacity[b] = size[deviceInput[b]]
        /\ inputBytes[b] <= inputCapacity[b]
    BY <1>2 DEF IInv, RecordedInv
  <2>2. /\ <<"input", b>> \in Owners
        /\ owner[<<"input", b>>] = deviceInput[b]
        /\ owner'[<<"input", b>>] = deviceInput[b]
    BY <1>2, HeldFacts, HeldFactsNext
  <2>3. size'[deviceInput[b]] = size[deviceInput[b]]
    BY <1>2, <2>2 DEF SizesKept
  <2> QED
    BY <1>2, <2>1, <2>3
<1>3. CASE UNCHANGED <<deviceInput, inputCapacity, inputBytes>>
  BY <1>2, <1>3
<1>4. ASSUME NEW w \in Batches,
             \A b \in Batches \ {w} :
               /\ deviceInput'[b] = deviceInput[b]
               /\ inputCapacity'[b] = inputCapacity[b]
               /\ inputBytes'[b] = inputBytes[b],
             deviceInput'[w] # NoBlock =>
               /\ inputCapacity'[w] = size'[deviceInput'[w]]
               /\ inputBytes'[w] <= inputCapacity'[w]
      PROVE  \A b \in Batches : deviceInput'[b] # NoBlock =>
               /\ inputCapacity'[b] = size'[deviceInput'[b]]
               /\ inputBytes'[b] <= inputCapacity'[b]
  BY <1>2, <1>4
<1>5. CASE Forget /\ op # "idle"
  <2>1. who \in Batches
    BY <1>1, <1>5 DEF TypeOK
  <2> QED
    BY <1>1, <1>4, <1>5, <2>1, ForgetEffect
<1>6. ASSUME NEW b \in Batches, NEW l \in Layouts[backend], Create(b, l)
      PROVE  \A c \in Batches : deviceInput'[c] # NoBlock =>
               /\ inputCapacity'[c] = size'[deviceInput'[c]]
               /\ inputBytes'[c] <= inputCapacity'[c]
  <2>1. /\ UNCHANGED <<deviceInput, inputCapacity>> /\ deviceInput[b] = NoBlock
        /\ \A c \in Batches \ {b} : inputBytes'[c] = inputBytes[c]
    BY <1>1, <1>6 DEF Create, TypeOK, IInv, ControlInv, Absent
  <2> QED
    BY <1>4, <2>1
<1>7. CASE LayoutInput
  <2>1. /\ who \in Batches /\ UNCHANGED <<deviceInput, inputCapacity>>
        /\ deviceInput[who] = NoBlock
    BY <1>1, <1>7 DEF LayoutInput, TypeOK, IInv, ControlInv, Loops
  <2>2. \A b \in Batches \ {who} : inputBytes'[b] = inputBytes[b]
    BY <1>1, <1>7 DEF LayoutInput, TypeOK
  <2> QED
    BY <1>4, <2>1, <2>2
<1>8. CASE AcquireInput
  <2>1. /\ who \in Batches /\ UNCHANGED inputBytes
        /\ \A b \in Batches \ {who} :
             /\ deviceInput'[b] = deviceInput[b]
             /\ inputCapacity'[b] = inputCapacity[b]
    BY <1>1, <1>8 DEF AcquireInput, TypeOK
  <2>2. \/ UNCHANGED <<deviceInput, inputCapacity>>
        \/ /\ inputCapacity'[who] = size'[deviceInput'[who]]
           /\ inputBytes[who] <= inputCapacity'[who]
    BY <1>1, <1>8, AcquireInputOwned
  <2> QED
    BY <1>3, <1>4, <2>1, <2>2
<1>9. \/ UNCHANGED <<deviceInput, inputCapacity, inputBytes>>
      \/ (Forget /\ op # "idle") \/ LayoutInput \/ AcquireInput
      \/ \E b \in Batches : \E l \in Layouts[backend] : Create(b, l)
  BY DEF Next, BatchCall, BatchStep, MemoryCall, Device, Run, Enqueue, Wait,
         BeginDestroy, DestroyUnwaited, Complete, Overwrite, Take, MemoryCreate, MemoryWrap, MemoryDestroy,
         ProgramDestroy, Gone, LaidOut, AcquireBuffer, Created, ReleaseBuffer,
         LoseBlocks, ReleaseInput, batchVars, vars
<1> QED
  BY <1>3, <1>5, <1>6, <1>7, <1>8, <1>9

\* An owned memory has a block that holds its bytes.
LEMMA MemoriesRecorded ==
  ASSUME IInv, SizesKept, Next
  PROVE  \A m \in Memories : memory'[m].owned =>
           memory'[m].bytes <= size'[memory'[m].pointer]
<1>1. UNCHANGED backend /\ TypeOK
  BY DEF Next, IInv
<1>2. ASSUME NEW m \in Memories, memory'[m].owned, memory'[m] = memory[m]
      PROVE  memory'[m].bytes <= size'[memory'[m].pointer]
  <2>1. memory[m].bytes <= size[memory[m].pointer]
    BY <1>2 DEF IInv, RecordedInv
  <2>2. memory[m].pointer # NoBlock
    <3>1. NoBlock \notin Blocks
      BY DEF Blocks, NoBlock
    <3> QED
      BY <1>2, <3>1 DEF IInv, MemoryInv
  <2>3. /\ <<"memory", m>> \in Owners
        /\ owner[<<"memory", m>>] = memory[m].pointer
        /\ owner'[<<"memory", m>>] = memory[m].pointer
    BY <1>2, HeldFacts, HeldFactsNext DEF MemoryBlock
  <2>4. size'[memory[m].pointer] = size[memory[m].pointer]
    BY <2>2, <2>3 DEF SizesKept
  <2> QED
    BY <1>2, <2>1, <2>4
<1>3. CASE UNCHANGED memory
  BY <1>2, <1>3
<1>4. CASE MemoryCall
  BY <1>1, <1>2, <1>4, MemoryOwned
<1>5. ASSUME NEW b \in Batches, NEW i \in DOMAIN layout[b],
             NEW m \in Memories, Take(b, i, m)
      PROVE  \A n \in Memories : memory'[n].owned =>
               memory'[n].bytes <= size'[memory'[n].pointer]
  <2>1. /\ \A n \in Memories \ {m} : memory'[n] = memory[n]
        /\ memory'[m].pointer = pointers[b][i]
        /\ memory'[m].bytes = layout[b][i].bytes
    BY <1>1, <1>5 DEF Take, TypeOK
  <2>2. size'[pointers[b][i]] = capacities[b][i]
    BY <1>1, <1>5, TakeOwned
  <2>3. layout[b][i].bytes <= capacities[b][i]
    BY <1>5, TakeFacts DEF IInv, RecordedInv
  <2> QED
    BY <1>2, <2>1, <2>2, <2>3
<1>6. \/ UNCHANGED memory \/ MemoryCall
      \/ \E b \in Batches : \E i \in DOMAIN layout[b], m \in Memories :
           Take(b, i, m)
  BY DEF Next, BatchCall, BatchStep, Device, Create, Run, Enqueue, Wait,
         BeginDestroy, DestroyUnwaited, Complete, Overwrite, ProgramDestroy, Gone, LayoutInput, LaidOut,
         AcquireInput, AcquireBuffer, Created, ReleaseBuffer, LoseBlocks,
         ReleaseInput, Forget, vars
<1> QED
  BY <1>3, <1>4, <1>5, <1>6

\* Every step keeps what is recorded of the blocks true.
LEMMA RecordedStep ==
  ASSUME IInv, SizesKept, Next PROVE RecordedInv'
<1>1. \A b \in Batches : \A i \in DOMAIN layout'[b] : Noted(b, i)'
  BY BuffersRecorded
<1>2. \A b \in Batches : deviceInput'[b] # NoBlock =>
        /\ inputCapacity'[b] = size'[deviceInput'[b]]
        /\ inputBytes'[b] <= inputCapacity'[b]
  BY InputsRecorded
<1>3. \A m \in Memories : memory'[m].owned =>
        memory'[m].bytes <= size'[memory'[m].pointer]
  BY MemoriesRecorded
<1> QED
  BY <1>1, <1>2, <1>3 DEF RecordedInv, Noted

-----------------------------------------------------------------------------
(* The theorems                                                            *)

\* The inductive invariant holds before the first call.
LEMMA InitInv == Init => IInv
<1> SUFFICES ASSUME Init PROVE IInv
  OBVIOUS
<1>1. TypeOK /\ ControlInv
  BY TypeInit, ControlInit
<1>2. \A b \in Batches : DOMAIN layout[b] = {}
  BY DEF Init
<1>3. PoolPointers /\ BoundInv
  BY <1>2 DEF PoolPointers, BoundInv
<1>4. \A m \in Memories : memory[m] = NoMemory
  BY DEF Init
<1>5. MemoryInv
  BY <1>4 DEF MemoryInv, NoMemory
<1>6. InputsInv
  BY <1>2 DEF InputsInv, Init
<1>7. RecordedInv
  BY <1>2, <1>4 DEF RecordedInv, Init, NoMemory
<1>8. OwnedInv
  <2>1. \A b \in Batches : \A i \in Nat \ {0} : BufferBlock(b, i) = NoBlock
    BY <1>1, <1>2, BlockOf DEF ControlInv
  <2>2. \A h \in Owners : owner[h] = NoBlock
    BY <1>4, <2>1, HeldFacts, OwnerCases DEF Init, MemoryBlock, NoMemory
  <2>3. /\ \A s \in Spares : spares[s] = NoBlock
        /\ \A k \in Blocks : size[k] = 0
        /\ lost = {}
    BY DEF Init
  <2> QED
    BY <2>2, <2>3 DEF OwnedInv, Sound
<1>9. Leftovers
  BY DEF Leftovers, Init
<1> QED
  BY <1>1, <1>3, <1>5, <1>6, <1>7, <1>8, <1>9 DEF IInv

\* Every step preserves it.
LEMMA NextInv ==
  ASSUME IInv, [Next]_vars PROVE IInv'
<1>1. CASE Next
  <2>1. TypeOK' /\ PoolPointers' /\ ControlInv' /\ Leftovers'
    BY <1>1, TypeStep, PoolPointersStep, ControlStep, LeftoversStep DEF IInv
  <2>2. BoundInv' /\ MemoryInv'
    BY <1>1, BoundStep, MemoryStep DEF IInv
  <2>3. OwnedInv' /\ SizesKept
    BY <1>1, OwnedStep
  <2>4. InputsInv' /\ RecordedInv'
    BY <1>1, <2>3, InputsStep, RecordedStep
  <2> QED
    BY <2>1, <2>2, <2>3, <2>4 DEF IInv
<1>2. CASE UNCHANGED vars
  <2> USE <1>2 DEF vars, poolVars, batchVars, flagVars, deviceVars, opVars,
                   lossVars
  <2>1. TypeOK'
    BY DEF IInv, TypeOK
  <2>2. PoolPointers' /\ MemoryInv'
    BY DEF IInv, PoolPointers, MemoryInv, Pooled
  <2>3. ControlInv'
    BY DEF IInv, ControlInv, Loops, Absent, Flags, Contents, OffsetsOfInputs,
           Exists
  <2>7. Leftovers'
    BY DEF IInv, Leftovers, Touches, Exists
  <2>4. BoundInv'
    BY BoundKept DEF IInv, Same, Ready, MemoriesServe, MemoryBlock
  <2>5. OwnedInv'
    BY OwnersStay
       DEF BufferBlock, Releasable, BufferCount, Pooled, MemoryBlock
  <2>6. InputsInv' /\ RecordedInv'
    BY DEF IInv, InputsInv, RecordedInv, Releasable, BufferCount, Pooled
  <2> QED
    BY <2>1, <2>2, <2>3, <2>4, <2>5, <2>6, <2>7 DEF IInv
<1> QED
  BY <1>1, <1>2

\* So it holds always.
LEMMA Invariant == Spec => []IInv
BY InitInv, NextInv, PTL DEF Spec

\* Every variable of the device memory stays in its range, whatever the callers
\* create, run, take and destroy and whatever fails.
THEOREM TypeCorrect == Spec => []TypeOK
<1>1. IInv => TypeOK
  BY DEF IInv
<1> QED
  BY <1>1, Invariant, PTL

\* The four kinds of holders.
LEMMA HolderKinds ==
  ASSUME NEW h
  PROVE  h \in Holders <=>
           \/ h \in {"spare"} \X Spares
           \/ \E b \in Batches : h \in {"buffer"} \X {b} \X DOMAIN layout[b]
           \/ h \in {"input"} \X Batches
           \/ h \in {"memory"} \X Memories
<1> DEFINE S == {"spare"} \X Spares
           U == UNION {{"buffer"} \X {b} \X DOMAIN layout[b] : b \in Batches}
           I == {"input"} \X Batches
           M == {"memory"} \X Memories
<1>1. Holders = S \cup U \cup I \cup M
  BY DEF Holders
<1>2. h \in U <=>
        \E b \in Batches : h \in {"buffer"} \X {b} \X DOMAIN layout[b]
  BY Zenon
<1> HIDE DEF S, U, I, M
<1>3. h \in Holders <=> h \in S \/ h \in U \/ h \in I \/ h \in M
  BY <1>1
<1> QED
  BY <1>2, <1>3 DEF S, I, M

\* The holders are the spares and the owners.
LEMMA HoldersFacts ==
  ASSUME TypeOK, NEW h \in Holders
  PROVE  \/ \E s \in Spares : h = <<"spare", s>> /\ Held(h) = spares[s]
         \/ h \in Owners /\ Held(h) = owner[h]
<1>1. CASE h \in {"spare"} \X Spares
  BY <1>1 DEF Held, SpareBlock
<1>2. CASE h \in {"input"} \X Batches
  <2>1. PICK b \in Batches : h = <<"input", b>>
    BY <1>2
  <2> QED
    BY <2>1, HeldFacts DEF owner
<1>3. CASE h \in {"memory"} \X Memories
  <2>1. PICK m \in Memories : h = <<"memory", m>>
    BY <1>3
  <2> QED
    BY <2>1, HeldFacts DEF owner
<1>4. ASSUME NEW b \in Batches, h \in {"buffer"} \X {b} \X DOMAIN layout[b]
      PROVE  h \in Owners /\ Held(h) = owner[h]
  <2>1. PICK i \in DOMAIN layout[b] : h = <<"buffer", b, i>>
    BY <1>4
  <2>2. i \in Nat \ {0}
    BY BufferFacts
  <2> QED
    BY <2>1, <2>2, HeldFacts DEF owner
<1> QED
  BY <1>1, <1>2, <1>3, <1>4, HolderKinds

\* An owner that holds a block is a holder.
LEMMA OwnersAreHolders ==
  ASSUME TypeOK, OffsetsOfInputs, NEW h \in Owners, owner[h] # NoBlock
  PROVE  h \in Holders /\ Held(h) = owner[h]
<1>1. Held(h) = owner[h]
  BY DEF owner
<1>2. ASSUME NEW b \in Batches, NEW i \in Nat \ {0}, h = <<"buffer", b, i>>
      PROVE  h \in Holders
  <2>1. i \in DOMAIN layout[b]
    BY <1>2, HeldFacts, BlockOf
  <2>2. h \in {"buffer"} \X {b} \X DOMAIN layout[b]
    BY <1>2, <2>1
  <2> QED
    BY <1>2, <2>2, HolderKinds
<1>3. ASSUME NEW b \in Batches, h = <<"input", b>>
      PROVE  h \in Holders
  <2>1. h \in {"input"} \X Batches
    BY <1>3
  <2> QED
    BY <2>1, HolderKinds
<1>4. ASSUME NEW m \in Memories, h = <<"memory", m>>
      PROVE  h \in Holders
  <2>1. h \in {"memory"} \X Memories
    BY <1>4
  <2> QED
    BY <2>1, HolderKinds
<1> QED
  BY <1>1, <1>2, <1>3, <1>4, OwnerCases

\* A block has one holder, it is allocated and it was not lost.
THEOREM BlocksHaveOneHolder == Spec => []OneHolder
<1>1. ASSUME IInv PROVE OneHolder
  <2> SUFFICES ASSUME NEW g \in Holders, Held(g) # NoBlock
               PROVE  /\ size[Held(g)] # 0 /\ Held(g) \notin lost
                      /\ \A h \in Holders : Held(h) = Held(g) => h = g
    BY DEF OneHolder
  <2>1. TypeOK /\ Sound(spares, spareBytes, size, owner, lost)
    BY <1>1 DEF IInv, OwnedInv
  <2>2. CASE g \in Owners /\ Held(g) = owner[g]
    <3>1. size[Held(g)] # 0 /\ Held(g) \notin lost
      BY <2>1, <2>2 DEF Sound
    <3>2. ASSUME NEW h \in Holders, Held(h) = Held(g) PROVE h = g
      BY <2>1, <2>2, <3>2, HoldersFacts DEF Sound
    <3> QED
      BY <3>1, <3>2
  <2>3. ASSUME NEW s \in Spares, g = <<"spare", s>>, Held(g) = spares[s]
        PROVE  /\ size[Held(g)] # 0 /\ Held(g) \notin lost
               /\ \A h \in Holders : Held(h) = Held(g) => h = g
    <3>1. size[Held(g)] # 0 /\ Held(g) \notin lost
      BY <2>1, <2>3 DEF Sound
    <3>2. ASSUME NEW h \in Holders, Held(h) = Held(g) PROVE h = g
      BY <2>1, <2>3, <3>2, HoldersFacts DEF Sound
    <3> QED
      BY <3>1, <3>2
  <2> QED
    BY <2>1, <2>2, <2>3, HoldersFacts
<1> QED
  BY <1>1, Invariant, PTL

\* Every allocated block is held, or was lost with its context.
THEOREM NoBlockLeaks == Spec => []NothingLeaks
<1>1. ASSUME IInv PROVE NothingLeaks
  <2>1. /\ TypeOK /\ OffsetsOfInputs
        /\ Sound(spares, spareBytes, size, owner, lost)
    BY <1>1 DEF IInv, OwnedInv, ControlInv
  <2> SUFFICES ASSUME NEW k \in Blocks, size[k] # 0, k \notin lost
               PROVE  \E h \in Holders : Held(h) = k
    BY DEF NothingLeaks
  <2>2. k # NoBlock
    BY DEF Blocks, NoBlock
  <2>3. \/ \E s \in Spares : spares[s] = k
        \/ \E h \in Owners : owner[h] = k
    BY <2>1 DEF Sound
  <2>4. ASSUME NEW s \in Spares, spares[s] = k
        PROVE  <<"spare", s>> \in Holders /\ Held(<<"spare", s>>) = k
    BY <2>4 DEF Holders, Held, SpareBlock
  <2> QED
    BY <2>1, <2>2, <2>3, <2>4, OwnersAreHolders
<1> QED
  BY <1>1, Invariant, PTL

\* What is recorded of a block is its size, and it holds what it is used for.
THEOREM BlocksAreLargeEnough == Spec => []BlocksLargeEnough
<1>1. ASSUME IInv PROVE BlocksLargeEnough
  <2>1. TypeOK /\ InputsInv /\ RecordedInv
        /\ Sound(spares, spareBytes, size, owner, lost)
    BY <1>1 DEF IInv, OwnedInv
  <2>2. \A s \in Spares : spares[s] # NoBlock => spareBytes[s] = size[spares[s]]
    BY <2>1 DEF Sound
  <2>3. ASSUME NEW b \in Batches, deviceInput[b] # NoBlock,
               NEW i \in DOMAIN layout[b], offsets[b][i] # NoOffset
        PROVE  offsets[b][i] + layout[b][i].bytes <= inputCapacity[b]
    <3>1. /\ offsets[b][i] + layout[b][i].bytes <= inputBytes[b]
          /\ inputBytes[b] <= inputCapacity[b]
      BY <2>1, <2>3 DEF InputsInv, RecordedInv
    <3>2. offsets[b][i] \in Nat /\ layout[b][i].bytes \in Nat
      BY <2>1, BufferFacts
    <3>3. inputBytes[b] \in Nat /\ inputCapacity[b] \in Nat
      BY <2>1 DEF TypeOK
    <3> QED
      BY <3>1, <3>2, <3>3
  <2> QED
    BY <2>1, <2>2, <2>3 DEF BlocksLargeEnough, InputsInv, RecordedInv
<1> QED
  BY <1>1, Invariant, PTL

\* What a batch in flight touches, it reaches.
LEMMA WorkReaches ==
  ASSUME IInv, NEW b \in inflight
  PROVE  /\ b \in Batches /\ Exists(b) /\ b \in queued
         /\ \A k \in Touches(b) : k # NoBlock /\ Reaches(b, k)
<1>1. /\ b \in Batches /\ b \in queued /\ b \notin detached
      /\ op # "idle" => b # who
  BY DEF IInv, TypeOK, ControlInv, Flags, Loops
<1>2. Exists(b)
  BY <1>1 DEF IInv, ControlInv, Absent
<1>3. ASSUME NEW k \in Touches(b)
      PROVE  k # NoBlock /\ Reaches(b, k)
  <2>1. PICK i \in DOMAIN layout[b] :
          k = pointers[b][i] /\ k \notin {NoBlock, Foreign}
    BY DEF Touches
  <2>2. Ready(b, i)
    BY <1>1, <2>1 DEF Ready
  <2> QED
    BY <1>1, <2>1, <2>2 DEF IInv, BoundInv
<1> QED
  BY <1>1, <1>2, <1>3

\* While the device executes a batch, what its kernels touch is its own or a
\* memory bound to it; only after a failed push is a block left to the kernels
\* of a batch that was destroyed.
THEOREM WorkIsLeftItsBlocks == Spec => []WorkKeepsItsBlocks
<1>1. ASSUME IInv PROVE WorkKeepsItsBlocks
  <2>3. failures = 0 => stray = {}
    BY <1>1 DEF IInv, Leftovers
  <2> SUFFICES ASSUME NEW b \in inflight, NEW k \in Touches(b)
               PROVE  \/ k = deviceInput[b]
                      \/ \E i \in DOMAIN layout[b] : BufferBlock(b, i) = k
                      \/ \E m \in Memories : MemoryBlock(m) = k /\ InUse(m)
    BY <1>1, <2>3, WorkReaches DEF WorkKeepsItsBlocks
  <2>1. b \in Batches /\ Reaches(b, k) /\ TypeOK
    BY <1>1, WorkReaches DEF IInv
  <2>2. ASSUME NEW i \in DOMAIN layout[b], layout[b][i].kind = "external",
               MemoryBlock(layout[b][i].memory) = k
        PROVE  \E m \in Memories : MemoryBlock(m) = k /\ InUse(m)
    <3>1. layout[b][i].memory \in Memories /\ InUse(layout[b][i].memory)
      BY <2>1, <2>2, BufferFacts DEF InUse
    <3> QED
      BY <2>2, <3>1
  <2> QED
    BY <2>1, <2>2 DEF Reaches
<1> QED
  BY <1>1, Invariant, PTL

\* A completed batch holds the output of its last run, unless kernels of a batch
\* destroyed after a failed push had one of its blocks, and a result that was
\* taken is out of reach of the batches in flight that do not bind it.
THEOREM ResultsStayTheCallers == Spec => []ResultsAreTheCallers
<1>1. ASSUME IInv PROVE ResultsAreTheCallers
  <2>1. TypeOK /\ ControlInv /\ Sound(spares, spareBytes, size, owner, lost)
    BY <1>1 DEF IInv, OwnedInv
  <2>2. ASSUME NEW b \in completed
        PROVE  /\ b \notin inflight
               /\ \/ content[b] = "fresh"
                  \/ stray # {} /\ b \in detached \cup {who}
                  \/ Touches(b) \cap stray # {}
    <3>1. /\ b \in Batches /\ b \notin inflight /\ Exists(b)
          /\ content[b] \in {"fresh", "overwritten"}
      BY <2>1 DEF TypeOK, ControlInv, Flags, Contents, Absent
    <3> QED
      BY <1>1, <3>1 DEF IInv, Leftovers
  <2>3. ASSUME NEW m \in Memories, NEW b \in inflight,
               MemoryBlock(m) \in Touches(b)
        PROVE  InUse(m)
    <3>1. PICK k : k = MemoryBlock(m)
      OBVIOUS
    <3>2. b \in Batches /\ k # NoBlock /\ Reaches(b, k)
      BY <1>1, <2>3, <3>1, WorkReaches
    <3>3. /\ <<"memory", m>> \in Owners /\ owner[<<"memory", m>>] = k
          /\ \A h \in Owners : owner[h] = k => h = <<"memory", m>>
      BY <2>1, <3>1, <3>2, HeldFacts DEF Sound
    <3>4. k # deviceInput[b]
      <4>1. <<"input", b>> \in Owners /\ owner[<<"input", b>>] = deviceInput[b]
        BY <3>2, HeldFacts
      <4>2. <<"input", b>> # <<"memory", m>>
        OBVIOUS
      <4> QED
        BY <3>3, <4>1, <4>2
    <3>5. \A i \in DOMAIN layout[b] : BufferBlock(b, i) # k
      <4>1. DOMAIN layout[b] \subseteq Nat \ {0}
        BY <2>1, <3>2, BufferFacts
      <4> TAKE i \in DOMAIN layout[b]
      <4>2. /\ <<"buffer", b, i>> \in Owners
            /\ owner[<<"buffer", b, i>>] = BufferBlock(b, i)
        BY <3>2, <4>1, HeldFacts
      <4>3. <<"buffer", b, i>> # <<"memory", m>>
        OBVIOUS
      <4> QED
        BY <3>3, <4>2, <4>3
    <3>6. PICK i \in DOMAIN layout[b] :
            /\ layout[b][i].kind = "external"
            /\ MemoryBlock(layout[b][i].memory) = k
      BY <3>2, <3>4, <3>5 DEF Reaches
    <3>7. layout[b][i].memory \in Memories
      BY <2>1, <3>2, BufferFacts
    <3>8. layout[b][i].memory = m
      <4> DEFINE n == layout[b][i].memory
      <4>1. <<"memory", n>> \in Owners /\ owner[<<"memory", n>>] = k
        BY <3>6, <3>7, HeldFacts
      <4>2. <<"memory", n>> = <<"memory", m>>
        BY <3>3, <4>1
      <4> QED
        BY <4>2
    <3> QED
      BY <3>2, <3>6, <3>8 DEF InUse
  <2> QED
    BY <2>2, <2>3 DEF ResultsAreTheCallers
<1> QED
  BY <1>1, Invariant, PTL
=============================================================================
