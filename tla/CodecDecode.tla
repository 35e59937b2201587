---------------------------- MODULE CodecDecode ----------------------------
(***************************************************************************)
(* A call of the standalone decoders geozl_pfor_gpu_decode and             *)
(* geozl_pivco_gpu_decode (core/src/gpu/pfor_decode.c, pivco_decode.c):    *)
(* the frames are inspected (frame_batch.c) and captured one after the     *)
(* other (pfor_capture.c, pivco_capture.c), the work is planned (GpuPlan,  *)
(* planar_scan.c) and the kernels run (gpu/kernels).  Dispatches run in    *)
(* order; the tasks of one dispatch run in any order.                      *)
(*                                                                         *)
(* Samples have a value of their own, so that the result shows where each  *)
(* of them went and which residuals were added up.  What a payload holds   *)
(* is abstract: a task that reads block k of a frame gets the samples of   *)
(* that block (Pfor checks the bits).  A task runs in one step: it shares  *)
(* what it writes with no other task of its dispatch, or the results would *)
(* differ with the order.                                                  *)
(***************************************************************************)
EXTENDS GpuPlan, SequencesExt

CONSTANTS
  FrameKinds,      \* codec -> the frames batches are made of, see IsEncoded
  MaxFrames,       \* bound: frames in a batch
  MaxElements,     \* bound: samples in a batch
  Limits,          \* values of maxOutputBytes, zero for none
  ElementBytes,    \* of the decoder, one or two
  Align,           \* 16: payloads are padded to multiples of this
  PayloadPadding,  \* GEOZL_GPU_PAYLOAD_PADDING
  Word,            \* UINT32_MAX
  MinBlock,        \* GEOZL_GPU_PIVCO_MIN_BLOCK
  Segment,         \* SEGMENT: samples that a wave scans at once
  ColumnsPerGroup  \* COLUMNS_PER_GROUP, the threads of a group

Modulus == 256 ^ ElementBytes

S == INSTANCE Samples

\* A frame as it arrives.  form is what it is made of: a codec that the decoder
\* captures, a raw frame, other codecs only, or bytes that OpenZL refuses.
\* size and output are the bytes of the frame and of what it decodes to.  The
\* codec header holds count, bytes, width and planes; the codec is the root
\* where no other codec uses its output; payload is the size of its input,
\* behind the codecs that came before it.  The rest is as in GpuPlan.
IsEncoded(f) ==
  /\ f.form \in {"codec", "raw", "other", "corrupt"}
  /\ {f.size, f.output, f.count, f.bytes, f.width, f.planes, f.payload}
       \subseteq Nat
  /\ {f.planar, f.root} \subseteq BOOLEAN
  /\ f.lanes \in Seq({"pfor", "pivco"})
  /\ f.block \in Nat /\ f.bad \in {"no", "header", "block"}
  /\ IsTree(f.tree) /\ \A k \in DOMAIN f.leaf : IsLeaf(f.tree, f.leaf[k])

ASSUME CodecAssumption ==
  /\ \A c \in Codecs : \A f \in FrameKinds[c] : IsEncoded(f)
  /\ ElementBytes \in {1, 2} /\ Stride % Block = 0
  /\ {MaxFrames, Align, Segment, ColumnsPerGroup} \subseteq Nat \ {0}
  /\ Limits \subseteq Nat
  /\ {MaxElements, PayloadPadding, Word, MinBlock} \subseteq Nat
  /\ MaxElements + 2 <= 8 * ElementBytes

VARIABLES
  codec, batch, maxOutput,  \* the call
  phase,     \* "inspect", "capture", "build", "run", "done" or "error"
  i,         \* the frame to look at
  error,     \* why the call failed and the frame it names
  info,      \* GeozlGpuFrameBatchInfo
  capture,   \* bytes of payload captured, elements passed
  gpu,       \* captured frames, as the planner sees them
  raw,       \* raw frames: values, copies and the capacity taken
  work,      \* the plan, the plane tasks and the bytes of the result
  running,   \* dispatches that have not ended, the first one running
  todo,      \* its tasks that are still to run
  lanes, output,  \* device memory, in bytes
  spilled    \* has a kernel written outside of its buffer?

call == <<codec, batch, maxOutput>>
host == <<info, capture, gpu, raw, work>>
device == <<running, todo, lanes, output, spilled>>
vars == <<call, phase, i, error, host, device>>

-----------------------------------------------------------------------------
(* Values                                                                  *)

\* What memory holds before a kernel has written it; no sample is odd.
Stale == 1

Elements(f) == f.output \div ElementBytes

\* Samples of the batch before frame id.
Before(id) == MapThenSumSet(LAMBDA k : Elements(batch[k]), 1 .. id - 1)

\* The coded value of sample k of frame id, counted from 0: another power of
\* two for every sample of the batch, whose unzigzagged value is half of it.
Coded(id, k) == 2 ^ (Before(id) + k + 2)

Byte(value, j) == (value \div 256 ^ j) % 256

\* Element e of the output.
Element(e) ==
  MapThenSumSet(LAMBDA j : output[e * ElementBytes + j] * 256 ^ j,
                0 .. ElementBytes - 1)

Total(at) == MapThenSumSet(Element, at) % Modulus

-----------------------------------------------------------------------------
(* Inspecting and capturing                                                *)

Refuse(cause, frame) ==
  /\ phase' = "error" /\ error' = [cause |-> cause, frame |-> frame]
  /\ UNCHANGED <<i, host, device>>

\* The next frame, or the next phase behind the last one.
Advance(next) ==
  /\ IF i < Len(batch) THEN i' = i + 1 /\ UNCHANGED phase
                       ELSE i' = 1 /\ phase' = next
  /\ UNCHANGED error

\* Mutant: no room for the padding of a payload.
SlotTight(f) == f.size + f.output

\* The bytes of payload that a frame adds to the capacity.
Slot(f) == f.size + f.output + Align - 1

\* A turn of the loop in geozl_gpu_frame_batch_inspect.
Inspect ==
  LET f == batch[i]
      total == info.total + f.output IN
  /\ phase = "inspect"
  /\ IF f.output = 0 \/ f.output % ElementBytes # 0 THEN Refuse("frame", i)
     ELSE IF (maxOutput # 0 /\ total > maxOutput) \/ total > Word
       THEN Refuse("limit", i)
     ELSE /\ info' = [total |-> total, capacity |-> info.capacity + Slot(f)]
          /\ Advance("capture")
          /\ UNCHANGED <<capture, gpu, raw, work, device>>

\* The header of the codec agrees with the frame and with itself.
HeaderFits(f) ==
  /\ f.count # 0 /\ f.bytes \in {1, 2, 4, 8}
  /\ f.count * f.bytes = f.output
  /\ f.planar =>
       /\ f.planes # 0 /\ f.width # 0 /\ f.count % f.planes = 0
       /\ f.width <= f.count \div f.planes
       /\ (f.count \div f.planes) % f.width = 0

\* What a payload takes.
Rounded(bytes) == CeilDiv(bytes, Align) * Align

\* Mutant: the padding of the last payload has no room.
RoomUnpadded(f) == f.payload <= info.capacity - capture.payload

\* Does the payload fit what is left?
Room(f) == Rounded(f.payload) <= info.capacity - capture.payload

\* Mutant: any codec that is met is taken for the root.
SeenAnywhere(f) ==
  IF ~HeaderFits(f) THEN -1 ELSE IF ~Room(f) THEN 2 ELSE 1

\* capture_decoder: frame->seen of a frame that reaches the codec.  The output
\* of a root codec is the caller's destination.
Seen(f) ==
  IF ~HeaderFits(f) THEN -1 ELSE IF ~Room(f) \/ ~f.root THEN 2 ELSE 1

\* pfor_capture_frame, pivco_capture_frame
CaptureFrame(f) ==
  IF f.form = "codec"
    THEN CASE Seen(f) = 1 -> "CODEC" [] Seen(f) = 2 -> "FALLBACK"
           [] OTHER -> "ERROR"
    ELSE IF f.form = "raw" THEN "RAW" ELSE "FALLBACK"

\* pfor_gpu_frame_init, pivco_gpu_frame_init: the checks.
Initable(f) ==
  /\ f.bytes = ElementBytes /\ f.count # 0 /\ f.count * f.bytes = f.output
  /\ codec = "pivco" => ~(f.block < MinBlock /\ f.block < f.count)

\* and the frame for the planner: without planes it is a single row.
GpuFrame(f) ==
  [id |-> i, count |-> f.count, lanes |-> f.lanes, block |-> f.block,
   tree |-> f.tree, leaf |-> f.leaf, out |-> capture.elements,
   planar |-> f.planar, bad |-> f.bad,
   width |-> IF f.planar THEN f.width ELSE f.count,
   planes |-> IF f.planar THEN f.planes ELSE 1]

\* Mutant: room for this raw frame only.
RawRoomOne(f) == f.output

\* Raw staging is taken at the first raw frame, for the output still to come.
RawRoom(f) == info.total - capture.elements * ElementBytes

WithRaw(f) ==
  [capacity |-> IF raw.values = <<>> THEN RawRoom(f) ELSE raw.capacity,
   values |-> raw.values \o [k \in 1 .. Elements(f) |-> Coded(i, k - 1)],
   copies |-> Append(raw.copies,
                [source |-> Len(raw.values), destination |-> capture.elements,
                 count |-> Elements(f)])]

\* A turn of the loop in capture_frames.
Capture ==
  LET f == batch[i]
      result == CaptureFrame(f)
      Passed(payload) == [payload |-> payload,
                          elements |-> capture.elements + Elements(f)] IN
  /\ phase = "capture"
  /\ CASE result = "RAW" /\ f.bytes = ElementBytes ->
            /\ raw' = WithRaw(f) /\ capture' = Passed(capture.payload)
            /\ Advance("build") /\ UNCHANGED <<info, gpu, work, device>>
       [] result = "CODEC" /\ Initable(f) ->
            /\ gpu' = Append(gpu, GpuFrame(f))
            /\ capture' = Passed(capture.payload + Rounded(f.payload))
            /\ Advance("build") /\ UNCHANGED <<info, raw, work, device>>
       [] OTHER -> Refuse("frame", i)

-----------------------------------------------------------------------------
(* pfor_gpu_work_build, pivco_gpu_work_build                               *)

\* Mutant: a plane as wide as a segment is scanned in pieces.
WideAlso(width) == width >= Segment

\* Planes wider than a segment are scanned by rows and by columns.
Wide(width) == width > Segment

\* The planes of a frame.
PlaneTasks(f) ==
  LET elements == f.count \div f.planes IN
  [p \in 1 .. f.planes |->
     [out |-> f.out + (p - 1) * elements, width |-> f.width,
      rows |-> elements \div f.width]]

NoPlane == [out |-> 0, width |-> 0, rows |-> 0]

\* Mutant: the last group of planes is only started when it is full.
PaddedPlanesNot(tasks) == tasks

PaddedPlanes(tasks) ==
  [p \in 1 .. CeilDiv(Len(tasks), WavesPerGroup) * WavesPerGroup |->
     IF p <= Len(tasks) THEN tasks[p] ELSE NoPlane]

\* Mutant: the rows of the last wide plane.
TallestLast(tasks) ==
  LET wide == SelectSeq(tasks, LAMBDA t : Wide(t.width)) IN
  IF wide = <<>> THEN 0 ELSE wide[Len(wide)].rows

\* The most rows of a wide plane.
Tallest(tasks) ==
  Max({0} \cup {tasks[p].rows : p \in {q \in DOMAIN tasks :
                                         Wide(tasks[q].width)}})

Widest(tasks) == Max({0} \cup {tasks[p].width : p \in DOMAIN tasks})

\* Mutant: all captured frames are scanned.
ScannedAll(fs) == fs

\* Frames without residuals are left as they are.
Scanned(fs) == SelectSeq(fs, LAMBDA f : f.planar)

\* geozl_gpu_plane_plan_build
PlanePlan(fs) ==
  LET tasks == FoldLeft(LAMBDA ts, f : ts \o PlaneTasks(f), <<>>, fs) IN
  [tasks |-> PaddedPlanes(tasks), maxWidth |-> Widest(tasks),
   maxRows |-> Tallest(tasks)]

When(condition, kernel, x, y) ==
  IF condition THEN <<[kernel |-> kernel, x |-> x, y |-> y]>> ELSE <<>>

\* The kernels that decode samples.
DecodeDispatches(plan) ==
  IF codec = "pfor"
    THEN When(plan.blocks # <<>>, "unpack_blocks",
              Len(plan.blocks) \div WavesPerGroup, 1)
    ELSE When(plan.pivcoBlocks # <<>>, "decode_symbols",
              Len(plan.pivcoBlocks), 1)
           \o When(plan.laneBlocks # <<>>, "unpack_lane_blocks",
                   Len(plan.laneBlocks) \div WavesPerGroup, 1)
           \o When(gpu # <<>>, "join_lanes", Len(plan.joins), 1)

\* The kernels that scan planes.
ScanDispatches(planes) ==
  LET count == Len(planes.tasks) IN
  When(count # 0, "scan_planes", count \div WavesPerGroup, 1)
    \o When(planes.maxWidth > Segment, "scan_rows", count,
            CeilDiv(planes.maxRows, WavesPerGroup))
    \o When(planes.maxWidth > Segment, "scan_columns", count,
            CeilDiv(planes.maxWidth, ColumnsPerGroup))

RawDispatch == When(raw.copies # <<>>, "copy_raw", Len(raw.copies), 1)

\* Mutant: raw frames are copied while the output is still scratch.
DispatchesRawFirst(plan, planes) ==
  RawDispatch \o DecodeDispatches(plan) \o ScanDispatches(planes)

\* build_dispatches
Dispatches(plan, planes) ==
  DecodeDispatches(plan) \o ScanDispatches(planes) \o RawDispatch

LaneBuffer(plan) == IF codec = "pfor" THEN 0 ELSE plan.laneBytes + Block

\* Mutant: no room for the lanes in the scratch of the PivCo kernels.
ResultBytesOutput(plan) == info.total

\* The result is also the scratch of the PivCo kernels.
ResultBytes(plan) == Max({info.total, LaneBuffer(plan)})

\* append_dispatch takes no empty grid.
Dispatchable(ds) == \A d \in Range(ds) : d.x # 0 /\ d.y # 0

\* Tasks of a dispatch: groups, or waves of a group, with their row, column or
\* node.
\* A task whose first test returns has nothing to do.
Tasks(d) ==
  LET planes == work.planes.tasks IN
  CASE d.kernel \in {"unpack_blocks", "unpack_lane_blocks"} ->
         {<<t, 0>> : t \in 1 .. d.x * WavesPerGroup}
    [] d.kernel = "decode_symbols" ->
         UNION {{<<b, n>> : n \in 1 .. work.plan.pivcoBlocks[b].nodeCount} :
                  b \in 1 .. d.x}
    [] d.kernel \in {"join_lanes", "copy_raw"} -> {<<t, 0>> : t \in 1 .. d.x}
    [] d.kernel = "scan_planes" ->
         {<<p, 0>> : p \in {q \in 1 .. d.x * WavesPerGroup :
                              ~Wide(planes[q].width) /\ planes[q].rows # 0}}
    [] d.kernel = "scan_rows" ->
         {t \in (1 .. d.x) \X (0 .. d.y * WavesPerGroup - 1) :
            Wide(planes[t[1]].width) /\ t[2] < planes[t[1]].rows}
    [] d.kernel = "scan_columns" ->
         {t \in (1 .. d.x) \X (0 .. d.y * ColumnsPerGroup - 1) :
            Wide(planes[t[1]].width) /\ t[2] < planes[t[1]].width}

\* The work is planned and its buffers are allocated.  frameIds is NULL, so an
\* error of the plan counts captured frames, from 0.
BuildWork ==
  LET built == IF gpu = <<>>
                 THEN Planned(Empty(codec))
                 ELSE Build(codec, gpu)
      planes == PlanePlan(Scanned(gpu)) IN
  /\ phase = "build"
  /\ IF capture.payload > Word - PayloadPadding THEN Refuse("limit", NoFrame)
     ELSE IF built.failed THEN Refuse("plan", built.errorFrame)
     ELSE IF ~Dispatchable(Dispatches(built.plan, planes))
       THEN Refuse("grid", NoFrame)
     ELSE /\ work' = [plan |-> built.plan, planes |-> planes,
                      resultBytes |-> ResultBytes(built.plan)]
          /\ running' = Dispatches(built.plan, planes)
          /\ todo' = {}
          /\ lanes' = [b \in 0 .. LaneBuffer(built.plan) - 1 |-> 0]
          /\ output' = [b \in 0 .. ResultBytes(built.plan) - 1 |-> Stale]
          /\ phase' = "run"
          /\ UNCHANGED <<i, error, info, capture, gpu, raw, spilled>>

-----------------------------------------------------------------------------
(* Kernels: what a task writes, as a function from places to values        *)

Joined(value, transform) == IF transform THEN S!Unzigzag(value) ELSE value

\* unpack_blocks
UnpackBlock(t) ==
  LET id == t.payload[1]
      first == (t.payload[3] - 1) * Block IN
  [e \in t.output .. t.output + t.count - 1 |->
     Joined(Coded(id, first + e - t.output), t.transform)]

\* A byte of a lane, zero behind the last sample.
LaneByte(id, lane, k) ==
  IF k < Elements(batch[id]) THEN Byte(Coded(id, k), lane - 1) ELSE 0

\* unpack_lane_blocks: always a whole block.
UnpackLaneBlock(t) ==
  LET first == (t.payload[3] - 1) * Block IN
  [b \in t.output .. t.output + Block - 1 |->
     LaneByte(t.payload[1], t.payload[2], first + b - t.output)]

\* The p-th of the numbers in a set, from 0.
Nth(set, p) == CHOOSE s \in set : Cardinality({r \in set : r < s}) = p

\* A node of a PivCo block: the three tables of the plan say where it is, what
\* its place in the tree is and which symbols it decodes to.
Node(t) ==
  LET blk == work.plan.pivcoBlocks[t[1]]
      tag == work.plan.trees[blk.treeBase + t[2]] IN
  [bits |-> work.plan.nodes[blk.nodeBase + t[2]],
   tree |-> batch[tag[1]].tree[tag[3]],
   symbols |-> work.plan.symbols[blk.symbolBase + 1],
   leftCount |-> IF t[2] = blk.nodeCount THEN 0
                 ELSE work.plan.nodes[blk.nodeBase + t[2] + 1].count]

\* decode_leaf: the symbols of the samples that reach the leaf.
DecodeLeaf(node) ==
  LET bits == node.bits
      samples == Passing(batch[bits.payload[1]], bits.payload[3],
                         bits.payload[4]) IN
  [b \in bits.output .. bits.output + bits.count - 1 |->
     LaneByte(node.symbols[1], node.symbols[2], Nth(samples, b - bits.output))]

\* Mutant: the samples of the right child are looked for behind the node.
SourceBehind(node, p, right, ones) == IF right THEN node.bits.count + ones
                                               ELSE p - ones

\* Where the sample at p of a node was before: its left child lies in front.
Source(node, p, right, ones) == IF right THEN node.leftCount + ones
                                         ELSE p - ones

\* merge_byte: the bits of the node say which child a sample comes from.
MergeNode(node, mem) ==
  LET bits == node.bits
      f == batch[bits.payload[1]]
      n == bits.payload[4]
      samples == Passing(f, bits.payload[3], n)
      Right(p) == f.leaf[Nth(samples, p) + 1] >= f.tree[n].right
      Ones(p) == Cardinality({q \in 0 .. p - 1 : Right(q)}) IN
  [b \in bits.output .. bits.output + bits.count - 1 |->
     LET p == b - bits.output IN
     mem[bits.output + Source(node, p, Right(p), Ones(p))]]

\* Even levels of a tree are in the lanes, odd ones in the output.
ToLanes(node) == node.tree.level % 2 = 0

\* decode_node: a level is made from the other buffer.
DecodeNode(t) ==
  LET node == Node(t) IN
  IF node.tree.right = 0 THEN DecodeLeaf(node)
  ELSE MergeNode(node, IF ToLanes(node) THEN output ELSE lanes)

\* Mutant: no barrier between the levels.
ReadyAlways(t) == TRUE

\* The levels of a tree are decoded bottom-up, with a barrier behind each.
Ready(t) ==
  Head(running).kernel = "decode_symbols" =>
    \A u \in todo : u[1] = t[1] => Node(u).tree.level <= Node(t).tree.level

\* join_lanes: lane 0 holds the low bytes.
JoinLanes(t) ==
  LET end == Min({t.count, t.start + JoinSamples})
      Sample(k) == MapThenSumSet(
                     LAMBDA l : lanes[t.laneBase + l * t.stride + k] * 256 ^ l,
                     0 .. ElementBytes - 1) IN
  [e \in t.output + t.start .. t.output + end - 1 |->
     Joined(Sample(e - t.output), t.transform)]

PlaneOf(t) == t.out .. t.out + t.width * t.rows - 1

\* scan_planes: a wave goes down the rows and keeps the sums of the columns.
ScanPlane(t) ==
  LET X(e) == (e - t.out) % t.width
      Above(e) == {a \in PlaneOf(t) : a <= e /\ X(a) <= X(e)} IN
  [e \in PlaneOf(t) |-> Total(Above(e))]

\* Mutant: the sum is not carried into the next segment.
CarriedNot(row, segment) == 0

\* rowCarry: the segments of the row before this one.
Carried(row, segment) == Total(row .. row + segment * Segment - 1)

\* scan_rows: a wave scans its row by segments.
ScanRow(t, y) ==
  LET row == t.out + y * t.width IN
  [e \in row .. row + t.width - 1 |->
     LET segment == (e - row) \div Segment IN
     (Carried(row, segment) + Total(row + segment * Segment .. e))
       % Modulus]

\* scan_columns: a thread goes down its column.
ScanColumn(t, x) ==
  [e \in {t.out + y * t.width + x : y \in 0 .. t.rows - 1} |->
     Total({a \in PlaneOf(t) : a <= e /\ (e - a) % t.width = 0})]

\* copy_raw
CopyRaw(t) ==
  [e \in t.destination .. t.destination + t.count - 1 |->
     raw.values[t.source + e - t.destination + 1]]

Nothing == [e \in {} |-> 0]

\* What task t of a kernel writes to the lanes.
LaneWrites(kernel, t) ==
  CASE kernel = "decode_symbols" ->
         IF ToLanes(Node(t)) THEN DecodeNode(t) ELSE Nothing
    [] kernel = "unpack_lane_blocks" ->
         UnpackLaneBlock(work.plan.laneBlocks[t[1]])
    [] OTHER -> Nothing

\* The samples it writes to the output.
SampleWrites(kernel, t) ==
  LET plane == work.planes.tasks[t[1]] IN
  CASE kernel = "unpack_blocks" -> UnpackBlock(work.plan.blocks[t[1]])
    [] kernel = "unpack_lane_blocks" -> Nothing
    [] kernel = "join_lanes" -> JoinLanes(work.plan.joins[t[1]])
    [] kernel = "scan_planes" -> ScanPlane(plane)
    [] kernel = "scan_rows" -> ScanRow(plane, t[2])
    [] kernel = "scan_columns" -> ScanColumn(plane, t[2])
    [] kernel = "copy_raw" -> CopyRaw(raw.copies[t[1]])

Bytes(samples) ==
  [b \in UNION {e * ElementBytes .. (e + 1) * ElementBytes - 1 :
                  e \in DOMAIN samples} |->
     Byte(samples[b \div ElementBytes], b % ElementBytes)]

\* The bytes it writes to the output.
OutputWrites(kernel, t) ==
  IF kernel # "decode_symbols" THEN Bytes(SampleWrites(kernel, t))
  ELSE IF ToLanes(Node(t)) THEN Nothing ELSE DecodeNode(t)

Written(mem, new) ==
  [a \in DOMAIN mem |-> IF a \in DOMAIN new THEN new[a] ELSE mem[a]]

\* The next dispatch starts when the one before has ended.
Dispatch ==
  /\ phase = "run" /\ todo = {} /\ running # <<>>
  /\ todo' = Tasks(Head(running))
  /\ phase' = "kernel"
  /\ UNCHANGED <<i, error, host, running, lanes, output, spilled>>

\* A task of the running dispatch runs.
RunTask ==
  LET kernel == Head(running).kernel IN
  /\ phase = "kernel"
  /\ \E t \in {u \in todo : Ready(u)} :
       LET toLanes == LaneWrites(kernel, t)
           toOutput == OutputWrites(kernel, t) IN
       /\ lanes' = Written(lanes, toLanes)
       /\ output' = Written(output, toOutput)
       /\ spilled' = (spilled \/ ~(/\ DOMAIN toLanes \subseteq DOMAIN lanes
                                   /\ DOMAIN toOutput \subseteq DOMAIN output))
       /\ todo' = todo \ {t}
  /\ UNCHANGED <<phase, i, error, host, running>>

EndDispatch ==
  /\ phase = "kernel" /\ todo = {}
  /\ running' = Tail(running) /\ phase' = "run"
  /\ UNCHANGED <<i, error, host, todo, lanes, output, spilled>>

\* All dispatches have ended and the result is taken.
Take ==
  /\ phase = "run" /\ running = <<>>
  /\ phase' = "done"
  /\ UNCHANGED <<i, error, host, device>>

\* The host or the device runs out of memory, or the device fails.
Starve ==
  /\ phase \in {"inspect", "capture", "build", "run"}
  /\ Refuse("memory", NoFrame)

Ended ==
  phase \in {"done", "error"} /\ UNCHANGED <<phase, i, error, host, device>>

-----------------------------------------------------------------------------

Batches(c) ==
  UNION {{fs \in [1 .. n -> FrameKinds[c]] :
            MapThenSumSet(LAMBDA k : Elements(fs[k]), 1 .. n) <= MaxElements}
           : n \in 1 .. MaxFrames}

Init ==
  /\ codec \in Codecs /\ batch \in Batches(codec) /\ maxOutput \in Limits
  /\ phase = "inspect" /\ i = 1 /\ error = [cause |-> "none", frame |-> NoFrame]
  /\ info = [total |-> 0, capacity |-> 0]
  /\ capture = [payload |-> 0, elements |-> 0]
  /\ gpu = <<>> /\ raw = [capacity |-> 0, values |-> <<>>, copies |-> <<>>]
  /\ work = [resultBytes |-> 0] /\ running = <<>> /\ todo = {}
  /\ lanes = Nothing /\ output = Nothing /\ spilled = FALSE

Next ==
  /\ \/ Inspect \/ Capture \/ BuildWork \/ Dispatch \/ RunTask \/ EndDispatch
     \/ Take \/ Starve \/ Ended
  /\ UNCHANGED call

Spec == Init /\ [][Next]_vars

-----------------------------------------------------------------------------
(* Properties                                                              *)

\* The sample that position k of frame id stands for: the coded value, or the
\* sum of the residuals of its plane above and to the left of it.
Sample(id, k) ==
  LET f == batch[id]
      elements == f.count \div f.planes
      base == (k \div elements) * elements
      X(e) == (e - base) % f.width IN
  IF f.form = "raw" \/ ~f.planar THEN Coded(id, k)
  ELSE MapThenSumSet(LAMBDA e : Coded(id, e) \div 2,
                     {e \in base .. k : X(e) <= X(k)}) % Modulus

\* "Decodes frames into one contiguous device allocation, in input order": a
\* call that returns has every sample of every frame at its place, whatever
\* codecs, shapes and raw frames the batch mixes, although the PivCo kernels use
\* the output as scratch and the scans rewrite it in place.
DecodedInOrder ==
  phase = "done" =>
    \A id \in DOMAIN batch : \A k \in 0 .. Elements(batch[id]) - 1 :
      Element(Before(id) + k) = Sample(id, k)

\* Staging is taken before it is known what goes in: captured payloads with
\* their padding, raw frames and the writes of every kernel stay within it.
StagingHolds ==
  /\ phase # "inspect" => capture.payload <= info.capacity
  /\ Len(raw.values) * ElementBytes <= raw.capacity
  /\ ~spilled

\* A frame this decoder can take.
Sound(f) ==
  /\ f.output # 0 /\ f.bytes = ElementBytes
  /\ \/ f.form = "raw" /\ f.output % ElementBytes = 0
     \/ /\ f.form = "codec" /\ f.root /\ HeaderFits(f) /\ f.bad = "no"
        /\ codec = "pivco" => f.block >= MinBlock \/ f.block >= f.count

\* "An earlier codec, such as zstd, can expand the payload past its slot."
Overgrown(f) == f.payload > f.size + f.output

\* A call that returns had only frames that the decoder can take, and one that
\* fails does so for a reason: for memory, for a limit of the caller or of 32
\* bits, never for a grid, or because of the frame it names, unless an overgrown
\* payload before that frame used up its slot.  An error of the plan counts
\* captured frames.
FailsForCause ==
  LET Output(k) == Before(k + 1) * ElementBytes IN
  /\ phase = "done" => \A k \in DOMAIN batch : Sound(batch[k])
  /\ phase = "error" =>
       CASE error.cause = "frame" ->
              \/ ~Sound(batch[error.frame])
              \/ \E k \in 1 .. error.frame : Overgrown(batch[k])
         [] error.cause = "plan" ->
              \/ batch[gpu[error.frame + 1].id].bad # "no"
              \/ codec = "pivco"
                   /\ LaneBytes(gpu, error.frame + 1) > MaxLaneBytes
         [] error.cause = "limit" ->
              \/ \E k \in DOMAIN batch :
                   Output(k) > Word \/ (maxOutput # 0 /\ Output(k) > maxOutput)
              \/ capture.payload + PayloadPadding > Word
         [] error.cause = "grid" -> FALSE
         [] error.cause = "memory" -> TRUE
=============================================================================
