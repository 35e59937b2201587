------------------------------ MODULE GpuPlan ------------------------------
(***************************************************************************)
(* The plan that one thread makes of captured frames for the device        *)
(* (core/src/gpu/pfor_plan.c, pivco_plan.c): the tasks of the kernels that *)
(* decode the samples.                                                     *)
(*                                                                         *)
(* A frame's payload is abstract: a task names the frame, the lane and the *)
(* block it decodes, and a frame whose payload does not check out is       *)
(* marked.  Symbol, tree and node counts stay below 2^32 (such a plan      *)
(* would not fit in memory); lane bytes are limited.                       *)
(***************************************************************************)
EXTENDS Integers, Sequences, FiniteSets, FiniteSetsExt

CONSTANTS
  Block,         \* GEOZL_PFOR_BLOCK
  Stride,        \* lanes start at multiples of this
  JoinSamples,   \* samples of a join task
  WavesPerGroup, \* task lists come in groups of this
  Symbols,       \* ZL_PIVCO_MAX_SYMBOLS
  MaxLaneBytes   \* UINT32_MAX - 256

ASSUME GpuPlanAssumption ==
  /\ {Block, Stride, JoinSamples, WavesPerGroup, Symbols} \subseteq Nat \ {0}
  /\ MaxLaneBytes \in Nat

Codecs == {"pfor", "pivco"}

\* A tree lists its nodes in pre-order with their level: the left child follows
\* its node, and right is the other one, or zero for a leaf.
IsTree(tree) ==
  /\ tree \in Seq([level : Nat, right : Nat]) /\ tree # <<>>
  /\ \A n \in DOMAIN tree : tree[n].right # 0 =>
       /\ tree[n].right \in n + 2 .. Len(tree)
       /\ \A child \in {n + 1, tree[n].right} :
            tree[child].level = tree[n].level + 1

IsLeaf(tree, n) == n \in DOMAIN tree /\ tree[n].right = 0

\* id is the place of the frame in the batch; count samples; lanes, one per byte
\* of a sample, each coded as PFOR or PivCo; block is the block size of its
\* PivCo lanes, tree is their tree and leaf the leaf of each sample; out is the
\* place of the output; planar says that the samples are zigzagged planar
\* residuals; bad says what is wrong with the payload.
IsFrame(f) ==
  /\ f.count \in Nat \ {0}
  /\ f.lanes \in Seq({"pfor", "pivco"}) /\ f.lanes # <<>>
  /\ f.block \in Nat \ {0} /\ f.out \in Nat
  /\ IsTree(f.tree) /\ \A k \in 1 .. f.count : IsLeaf(f.tree, f.leaf[k])
  /\ f.planar \in BOOLEAN
  /\ f.bad \in {"no", "header", "block"}

CeilDiv(a, b) == (a + b - 1) \div b

-----------------------------------------------------------------------------
(* pfor_gpu_plan_build                                                     *)

EmptyPfor == [blocks |-> <<>>]

\* pfor_gpu_plan_frame: a task per block of the frame.
PforTasks(f) ==
  [k \in 1 .. CeilDiv(f.count, Block) |->
     [payload |-> <<f.id, 1, k>>, output |-> f.out + (k - 1) * Block,
      count |-> IF k * Block <= f.count THEN Block
                ELSE f.count - (k - 1) * Block, transform |-> f.planar]]

PforFrame(p, f) == [p EXCEPT !.blocks = @ \o PforTasks(f)]

\* pad_blocks: padding reads the first block and decodes nothing.
PforPadding(p) ==
  [payload |-> p.blocks[1].payload, output |-> 0, count |-> 0,
   transform |-> FALSE]

PforPadded(p) ==
  LET n == Len(p.blocks)
      padded == CeilDiv(n, WavesPerGroup) * WavesPerGroup IN
  [p EXCEPT !.blocks =
     [i \in 1 .. padded |-> IF i <= n THEN p.blocks[i] ELSE PforPadding(p)]]

-----------------------------------------------------------------------------
(* pivco_gpu_plan_build                                                    *)

EmptyPivco ==
  [symbols |-> <<>>, trees |-> <<>>, nodes |-> <<>>, pivcoBlocks |-> <<>>,
   laneBlocks |-> <<>>, joins |-> <<>>, laneBytes |-> 0]

LaneStride(f) == CeilDiv(f.count, Stride) * Stride

Joins(p, f) ==
  [g \in 1 .. CeilDiv(f.count, JoinSamples) |->
     [laneBase |-> p.laneBytes, stride |-> LaneStride(f), count |-> f.count,
      output |-> f.out, start |-> (g - 1) * JoinSamples,
      transform |-> f.planar]]

\* A PFOR lane: a task per block.
PforLane(p, f, lane, laneOutput) ==
  [p EXCEPT !.laneBlocks = @ \o
     [k \in 1 .. CeilDiv(f.count, Block) |->
        [payload |-> <<f.id, lane, k>>,
         output |-> laneOutput + (k - 1) * Block]]]

\* The samples of block k of a frame, from 0.
BlockSamples(f, k) ==
  (k - 1) * f.block .. (IF k * f.block <= f.count THEN k * f.block
                                                  ELSE f.count) - 1

\* The last node below n.
LastBelow(tree, n) ==
  Max({m \in n .. Len(tree) :
         \A j \in n + 1 .. m : tree[j].level > tree[n].level})

\* The samples of block k whose leaf is below node n.
Passing(f, k, n) ==
  {s \in BlockSamples(f, k) : f.leaf[s + 1] \in n .. LastBelow(f.tree, n)}

\* walk_block, for one node of the tree: its samples lie behind those of the
\* nodes to its left.
WalkNode(f, lane, k, n, base) ==
  [payload |-> <<f.id, lane, k, n>>, count |-> Cardinality(Passing(f, k, n)),
   output |-> base + Cardinality({s \in BlockSamples(f, k) :
                                    f.leaf[s + 1] < n})]

\* All nodes of a lane, block after block.
LaneNodes(f, lane, base) ==
  [m \in 1 .. CeilDiv(f.count, f.block) * Len(f.tree) |->
     LET k == (m - 1) \div Len(f.tree) + 1 IN
     WalkNode(f, lane, k, ((m - 1) % Len(f.tree)) + 1, base + (k - 1) * f.block)]

\* Its blocks, in a plan that has so many nodes, tree nodes and symbols.
LaneBlocks(f, base, nodes, trees, symbols) ==
  [k \in 1 .. CeilDiv(f.count, f.block) |->
     [nodeBase |-> nodes + (k - 1) * Len(f.tree), treeBase |-> trees,
      symbolBase |-> symbols, outBase |-> base + (k - 1) * f.block,
      length |-> Cardinality(BlockSamples(f, k)), nodeCount |-> Len(f.tree)]]

\* A PivCo lane: its symbols and tree once, then for every block a task and
\* the nodes of the tree.
PivcoLane(p, f, lane, laneOutput) ==
  [p EXCEPT
     !.symbols = @ \o [s \in 1 .. Symbols |-> <<f.id, lane, s>>],
     !.trees = @ \o [t \in DOMAIN f.tree |-> <<f.id, lane, t>>],
     !.nodes = @ \o LaneNodes(f, lane, laneOutput),
     !.pivcoBlocks = @ \o LaneBlocks(f, laneOutput, Len(p.nodes),
                                      Len(p.trees), Len(p.symbols))]

Lane(p, f, lane) ==
  LET laneOutput == p.laneBytes + (lane - 1) * LaneStride(f) IN
  IF f.lanes[lane] = "pfor" THEN PforLane(p, f, lane, laneOutput)
                            ELSE PivcoLane(p, f, lane, laneOutput)

\* The lanes of a frame, in order.
Lanes(p, f) ==
  LET plan[n \in 0 .. Len(f.lanes)] ==
        IF n = 0 THEN p ELSE Lane(plan[n - 1], f, n) IN
  plan[Len(f.lanes)]

PivcoFrame(p, f) ==
  [Lanes([p EXCEPT !.joins = @ \o Joins(p, f)], f) EXCEPT
     !.laneBytes = @ + Len(f.lanes) * LaneStride(f)]

\* Padding repeats the first block into a sink behind the lanes.
PivcoPadding(p) ==
  [payload |-> p.laneBlocks[1].payload, output |-> p.laneBytes]

PivcoPadded(p) ==
  LET n == Len(p.laneBlocks)
      padded == CeilDiv(n, WavesPerGroup) * WavesPerGroup IN
  [p EXCEPT !.laneBlocks =
     [i \in 1 .. padded |->
        IF i <= n THEN p.laneBlocks[i] ELSE PivcoPadding(p)]]

-----------------------------------------------------------------------------
(* One thread                                                              *)

Empty(c) == IF c = "pfor" THEN EmptyPfor ELSE EmptyPivco

WithFrame(c, p, f) == IF c = "pfor" THEN PforFrame(p, f) ELSE PivcoFrame(p, f)

\* Frame after frame.
Unpadded(c, fs) ==
  LET plan[n \in 0 .. Len(fs)] ==
        IF n = 0 THEN Empty(c) ELSE WithFrame(c, plan[n - 1], fs[n]) IN
  plan[Len(fs)]

WithPadding(c, p) == IF c = "pfor" THEN PforPadded(p) ELSE PivcoPadded(p)

\* The lane buffer of the first n frames.
LaneBytes(fs, n) ==
  LET sum[m \in 0 .. n] ==
        IF m = 0 THEN 0
        ELSE sum[m - 1] + Len(fs[m].lanes) * LaneStride(fs[m]) IN
  sum[n]

\* Frames, by index in fs, that end a plan.  pfor_gpu_plan_build looks at all
\* the headers first; pivco_gpu_plan_build goes frame by frame and also stops
\* where the lane buffer grows past its limit.
Failing(c, fs) ==
  LET bad(what) == {i \in DOMAIN fs : fs[i].bad \in what} IN
  IF c = "pfor"
    THEN IF bad({"header"}) # {} THEN bad({"header"}) ELSE bad({"block"})
    ELSE bad({"header", "block"})
           \cup {i \in DOMAIN fs : LaneBytes(fs, i) > MaxLaneBytes}

\* No frame, SIZE_MAX in the code.
NoFrame == -1

Planned(plan) ==
  [failed |-> FALSE, oom |-> FALSE, errorFrame |-> NoFrame, plan |-> plan]
Fail(frame) ==
  [failed |-> TRUE, oom |-> FALSE, errorFrame |-> frame, plan |-> <<>>]
OutOfMemory(frame) == [Fail(frame) EXCEPT !.oom = TRUE]

\* pfor_gpu_plan_build, pivco_gpu_plan_build: frames are named from 0.
Build(c, fs) ==
  IF Failing(c, fs) # {} THEN Fail(Min(Failing(c, fs)) - 1)
                      ELSE Planned(WithPadding(c, Unpadded(c, fs)))

\* Where the planning of fs may run out of memory: PFOR allocates once, behind
\* the headers; PivCo grows its arrays in every frame it gets to.
Starved(c, fs) ==
  LET last == IF Failing(c, fs) = {} THEN Len(fs) ELSE Min(Failing(c, fs)) IN
  IF c = "pivco" THEN {OutOfMemory(i - 1) : i \in 1 .. last}
  ELSE IF \E i \in DOMAIN fs : fs[i].bad = "header" THEN {}
  ELSE {OutOfMemory(NoFrame)}
=============================================================================
