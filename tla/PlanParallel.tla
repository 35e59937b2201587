---------------------------- MODULE PlanParallel ----------------------------
(***************************************************************************)
(* Planning a batch with several threads (core/src/gpu/                    *)
(* pfor_plan_parallel.c, pivco_plan_parallel.c).  Threads plan ranges of   *)
(* frames and the parts are merged by shifting every base in them; plans   *)
(* made frame by frame during the capture are merged the same way.  What   *)
(* must come out is the plan that one thread makes of all frames.          *)
(* Allocations may fail.                                                   *)
(***************************************************************************)
EXTENDS GpuPlan

CONSTANTS
  FrameKinds,   \* codec -> the frames batches are made of, see IsFrame
  MaxFrames,    \* bound: frames in a batch
  MaxThreads    \* bound: threads asked for

ASSUME PlanAssumption ==
  /\ \A c \in Codecs : \A f \in FrameKinds[c] : IsFrame(f)
  /\ MaxFrames \in Nat \ {0} /\ MaxThreads \in Nat

VARIABLES
  codec,       \* of the batch
  frames,      \* the batch
  threads,     \* workers
  next,        \* the worker to start, from 0
  first,       \* worker -> first frame of its range, from 0
  count,       \* worker -> frames in it
  threaded,    \* workers on a thread of their own
  built,       \* workers that have planned their range
  part,        \* worker -> what its planning returned
  phase,       \* "start", "join", "done"
  result       \* what the call returned

planVars == <<codec, frames, threads, next, first, count, threaded, built, part,
          phase, result>>

-----------------------------------------------------------------------------
(* Threads                                                                 *)

Workers == 0 .. MaxFrames - 1
NoPart == Planned(<<>>)

\* A frame of the batch: its kind and its place.
Numbered(f, i) ==
  [id |-> i, count |-> f.count, lanes |-> f.lanes, block |-> f.block,
   tree |-> f.tree, leaf |-> f.leaf, out |-> f.out, planar |-> f.planar,
   bad |-> f.bad]

\* The batches of a codec.
BatchesOf(c) ==
  UNION {{[i \in 1 .. n |-> Numbered(kinds[i], i)] :
            kinds \in [1 .. n -> FrameKinds[c]]} : n \in 1 .. MaxFrames}

\* Threads asked for, at most one per frame and at least one.
ThreadCount(asked, frameCount) ==
  IF asked > frameCount THEN frameCount ELSE IF asked = 0 THEN 1 ELSE asked

\* All samples of a batch have the same number of bytes.
PlanInit ==
  /\ codec \in Codecs
  /\ frames \in {fs \in BatchesOf(codec) :
                   \A i \in DOMAIN fs : Len(fs[i].lanes) = Len(fs[1].lanes)}
  /\ threads \in {ThreadCount(asked, Len(frames)) : asked \in 0 .. MaxThreads}
  /\ next = 0
  /\ first = [w \in Workers |-> 0] /\ count = [w \in Workers |-> 0]
  /\ threaded = {} /\ built = {}
  /\ part = [w \in Workers |-> NoPart]
  /\ phase = "start" /\ result = NoPart

\* Mutant: equal ranges, which leave out the last frames.
ShareEqual(rest, workers) == Len(frames) \div threads

\* The range of the next worker: its share of the rest, rounded up.
Share(rest, workers) == CeilDiv(rest, workers)

Taken == IF next = 0 THEN 0 ELSE first[next - 1] + count[next - 1]

Chunk(w) == SubSeq(frames, first[w] + 1, first[w] + count[w])

\* Mutant: the padding of a part stays in.
TrimNothing(p) == p

\* A sequence without the padding at its end.
Without(seq, IsPadding(_)) ==
  SubSeq(seq, 1, Min({n \in 0 .. Len(seq) :
                        \A i \in n + 1 .. Len(seq) : IsPadding(seq[i])}))

\* trim_lane_padding: padding is what is written behind the lanes.  A PFOR
\* plan knows how many of its blocks are real.
Trimmed(p) ==
  LET DecodesNothing(b) == b.count = 0
      BehindLanes(b) == b.output = p.laneBytes IN
  IF codec = "pfor" THEN [p EXCEPT !.blocks = Without(@, DecodesNothing)]
                    ELSE [p EXCEPT !.laneBlocks = Without(@, BehindLanes)]

BuildChunk(fs) ==
  LET b == Build(codec, fs) IN
  IF b.failed THEN b ELSE [b EXCEPT !.plan = Trimmed(@)]

\* build_chunk
Outcomes(fs) == {BuildChunk(fs)} \cup Starved(codec, fs)

\* A worker is started; one that gets no thread runs here and now.
Start ==
  /\ phase = "start" /\ next < threads
  /\ first' = [first EXCEPT ![next] = Taken]
  /\ count' = [count EXCEPT ![next] =
                 Share(Len(frames) - Taken, threads - next)]
  /\ \/ /\ threads > 1
        /\ threaded' = threaded \cup {next}
        /\ UNCHANGED <<built, part>>
     \/ /\ built' = built \cup {next}
        /\ \E o \in Outcomes(SubSeq(frames, Taken + 1, Taken + count'[next])) :
             part' = [part EXCEPT ![next] = o]
        /\ UNCHANGED threaded
  /\ next' = next + 1
  /\ phase' = IF next + 1 = threads THEN "join" ELSE "start"
  /\ UNCHANGED <<frames, threads, result>>

\* A thread plans its range.
Work(w) ==
  /\ w \in threaded \ built
  /\ \E o \in Outcomes(Chunk(w)) : part' = [part EXCEPT ![w] = o]
  /\ built' = built \cup {w}
  /\ UNCHANGED <<frames, threads, next, first, count, threaded, phase, result>>

-----------------------------------------------------------------------------
(* merge_plans                                                             *)

\* Mutant: the blocks of a part keep the node base of the part.
ShiftedBlockNodes(b, p) ==
  [b EXCEPT !.treeBase = @ + Len(p.trees), !.symbolBase = @ + Len(p.symbols),
            !.outBase = @ + p.laneBytes]

\* What a task of a part becomes behind p.
ShiftedBlock(b, p) ==
  [b EXCEPT !.nodeBase = @ + Len(p.nodes), !.treeBase = @ + Len(p.trees),
            !.symbolBase = @ + Len(p.symbols), !.outBase = @ + p.laneBytes]

Rebased(seq, Op(_)) == [i \in DOMAIN seq |-> Op(seq[i])]

\* Mutant: the lane blocks of a part keep their place.
MergeUnmoved(p, q) ==
  LET Output(x) == [x EXCEPT !.output = @ + p.laneBytes]
      LaneBase(x) == [x EXCEPT !.laneBase = @ + p.laneBytes]
      BlockBases(x) == ShiftedBlock(x, p) IN
  [symbols |-> p.symbols \o q.symbols,
   trees |-> p.trees \o q.trees,
   nodes |-> p.nodes \o Rebased(q.nodes, Output),
   pivcoBlocks |-> p.pivcoBlocks \o Rebased(q.pivcoBlocks, BlockBases),
   laneBlocks |-> p.laneBlocks \o q.laneBlocks,
   joins |-> p.joins \o Rebased(q.joins, LaneBase),
   laneBytes |-> p.laneBytes + q.laneBytes]

MergePivco(p, q) ==
  LET Output(x) == [x EXCEPT !.output = @ + p.laneBytes]
      LaneBase(x) == [x EXCEPT !.laneBase = @ + p.laneBytes]
      BlockBases(x) == ShiftedBlock(x, p) IN
  [symbols |-> p.symbols \o q.symbols,
   trees |-> p.trees \o q.trees,
   nodes |-> p.nodes \o Rebased(q.nodes, Output),
   pivcoBlocks |-> p.pivcoBlocks \o Rebased(q.pivcoBlocks, BlockBases),
   laneBlocks |-> p.laneBlocks \o Rebased(q.laneBlocks, Output),
   joins |-> p.joins \o Rebased(q.joins, LaneBase),
   laneBytes |-> p.laneBytes + q.laneBytes]

MergePfor(p, q) == [blocks |-> p.blocks \o q.blocks]

MergeTwo(p, q) == IF codec = "pfor" THEN MergePfor(p, q) ELSE MergePivco(p, q)

\* The parts in order, padded anew.
Merged(plans) ==
  LET merged[n \in 0 .. Len(plans)] ==
        IF n = 0 THEN Empty(codec) ELSE MergeTwo(merged[n - 1], plans[n]) IN
  WithPadding(codec, merged[Len(plans)])

\* Mutant: the lanes of a merged plan are not limited.
MergeUnlimited(plans) == Planned(Merged(plans))

\* The merged plan, unless its lanes grow past the limit.
Merge(plans) ==
  IF codec = "pivco" /\ Merged(plans).laneBytes > MaxLaneBytes
    THEN Fail(NoFrame) ELSE Planned(Merged(plans))

\* A plan is allocated before it is filled.
MergeOutcomes(plans) ==
  {Merge(plans)}
    \cup (IF Merge(plans).failed THEN {} ELSE {OutOfMemory(NoFrame)})

\* Mutant: the frame is named within its range.
NamedInChunk(w) == part[w].errorFrame

\* The failed frame of a worker, in the batch.
Named(w) ==
  IF part[w].errorFrame = NoFrame THEN NoFrame
                                  ELSE part[w].errorFrame + first[w]

FailedWorkers == {w \in built : part[w].failed}

\* All threads are joined; the first failed range decides.
Join ==
  /\ phase = "join" /\ built = 0 .. threads - 1
  /\ IF FailedWorkers # {}
       THEN LET w == Min(FailedWorkers) IN
            result' = [part[w] EXCEPT !.errorFrame = Named(w)]
       ELSE \E o \in MergeOutcomes([i \in 1 .. threads |-> part[i - 1].plan]) :
              result' = o
  /\ phase' = "done"
  /\ UNCHANGED <<frames, threads, next, first, count, threaded, built, part>>

\* There is no memory for the workers themselves.
NoWorkers ==
  /\ phase = "start" /\ next = 0
  /\ result' = OutOfMemory(NoFrame)
  /\ phase' = "done"
  /\ UNCHANGED <<frames, threads, next, first, count, threaded, built, part>>

\* The plans were made frame by frame during the capture: pfor_gpu_plan_wrap of
\* the blocks the frame threads wrote, pivco_gpu_plan_merge of their parts.
MergeCaptured ==
  LET plans == [i \in DOMAIN frames |-> BuildChunk(<<frames[i]>>).plan] IN
  /\ phase = "start" /\ next = 0 /\ threads = 1
  /\ \A i \in DOMAIN frames : ~Build(codec, <<frames[i]>>).failed
  /\ \E o \in IF codec = "pfor" THEN {Planned(Merged(plans))}
                                 ELSE MergeOutcomes(plans) :
       result' = o
  /\ phase' = "done"
  /\ UNCHANGED <<frames, threads, next, first, count, threaded, built, part>>

PlanEnded == phase = "done" /\ UNCHANGED planVars

PlanNext ==
  /\ \/ Start \/ Join \/ NoWorkers \/ MergeCaptured \/ PlanEnded
     \/ \E w \in Workers : Work(w)
  /\ UNCHANGED codec

PlanSpec == PlanInit /\ [][PlanNext]_planVars

-----------------------------------------------------------------------------
(* Properties                                                              *)

\* Every variable stays in its range, ranges within the batch.
PlanTypeOK ==
  /\ codec \in Codecs
  /\ threads \in 1 .. Len(frames) /\ next \in 0 .. threads
  /\ first \in [Workers -> 0 .. Len(frames)]
  /\ count \in [Workers -> 0 .. Len(frames)]
  /\ threaded \subseteq Workers /\ built \subseteq Workers
  /\ \A w \in Workers : part[w].errorFrame \in {NoFrame} \cup Workers
  /\ phase \in {"start", "join", "done"}
  /\ result.failed \in BOOLEAN
  /\ result.errorFrame \in {NoFrame} \cup Workers

\* However many threads there are, whichever of them could be created, and
\* whether or not the frames were planned during the capture: the merged plan
\* is the one a single thread makes of the whole batch.
ParallelIsSequential ==
  phase = "done" /\ ~result.failed => result.plan = Build(codec, frames).plan

\* Where memory suffices, the batch fails with threads exactly when it fails
\* without.  The frame named in the error is one whose payload is bad, and with
\* PivCo, which goes frame by frame, the first such frame of the batch; no frame
\* is named only where the merged lanes are too large.
FailsAsOneThread ==
  phase = "done" /\ ~result.oom =>
    /\ result.failed <=> Build(codec, frames).failed
    /\ result.failed =>
         LET bad == {i \in DOMAIN frames : frames[i].bad # "no"} IN
         IF result.errorFrame = NoFrame THEN codec = "pivco" /\ bad = {}
         ELSE \/ /\ result.errorFrame + 1 \in bad
                 /\ codec = "pivco" => result.errorFrame + 1 = Min(bad)
              \/ /\ codec = "pivco"
                 /\ LaneBytes(frames, result.errorFrame + 1) > MaxLaneBytes
=============================================================================
