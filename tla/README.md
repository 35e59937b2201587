# geozl: TLA+ models of the decoder and its codecs

geozl adds codecs for rasters to the OpenZL compression library and decodes
batches of compressed frames on a GPU. This directory holds TLA+ modules of the
parts of `core/src` whose correctness depends on orders, boundaries and failures
that a unit test hardly reaches, the TLC configurations that check small
instances, and TLAPS proofs of the results that matter most. `PROJECT.json`
lists the components, the runs, the mutants that each property is tested
against, the source lines of every definition, the hazards and the theorems.

    cd tla
    tlc -workers 2 -config MCGpuWaves.cfg MCGpuWaves
    tlapm GpuWavesProofs.tla

## The system

| Part | Source | State it keeps | What is hard about it |
|---|---|---|---|
| GPU decoder | `gpu/decode.c` | two waves of batches, two staging arenas, one device scratch, the last stream | work of an earlier call is still running while the next call reuses its memory; every failure path must leave nothing behind |
| Frame pass | `gpu/decode.c` (`Pass`) | shared counter, error record, routes, capture-time plans | threads take frames from a counter, may fail, may not exist; plans are made before the routes are final |
| Staging arena | `gpu/staging_arena.c` | chunks, what is used of each, a reserve | sizes near `SIZE_MAX`, a host that cannot pin the reserve |
| Runtime and backends | `gpu/runtime.c`, `runtime_cuda.c`, `runtime_metal.m` | batches (completed, detached, queued), spare device blocks, owned memories | ownership of a device block moves between spares, batches and results |
| Planners | `gpu/pfor_plan*.c`, `pivco_plan*.c`, `planar_scan.c` | per-frame blocks, nodes, leaves | threads plan ranges of frames and the parts are merged; the result must not depend on the number of threads |
| Captures | `gpu/pfor_capture.c`, `pivco_capture.c` | the payload of one frame | an OpenZL decode run only for its codec call |
| Standalone decoders, kernels | `gpu/frame_batch.c`, `pfor_decode.c`, `pivco_decode.c`, `planar_scan.c`, `gpu/kernels` | staging, task lists, device buffers | staging is sized before it is known what goes in; kernels use the result as scratch and rewrite it in place, their tasks in any order |
| Predictors | `delta_w`, `delta_n`, `planar`, `average`, `med`, `med_zigzag`, `planar_zigzag`, `wp_static` | none (a raster in, a raster out) | arithmetic modulo 2^w; decoders that work in another order than the encoder |
| PFOR, PivCo | `pfor`, `pivco_lanes`, `transpose_pivco`, `planar_zigzag_pfor`, `planar_zigzag_transpose_pivco` | none | block boundaries, exception lists, widths 0 and w |
| NoData, deinterleave, coeffs | `nodata`, `deinterleave`, `coeffs` | none | masks and sentinels; integer packing |
| Quantizers | `quant_linear`, `quant_log`, `quant_sqrt`, `lossy` | none | IEEE arithmetic |
| Graph API | `2d/2d.c`, `encoder_registry.c`, `decoder_registry.c` | a graph, a compressor | recipe strings |
| Bindings, tools, tests | `bindings`, `tools`, `fuzz`, `test` | | not core logic |

A decode call goes through most of it: `geozl_gpu_decode_ex` starts a wave
(`begin_wave`), resets its arena, lays out the frames, runs the frame pass over
worker threads, plans what was captured, grows the scratch if needed, wraps the
caller's target and queues up to five batches on the caller's stream. The
backend uploads the inputs of a batch, writes the parameters of its module and
launches the kernels, all on the stream; the host goes on. The next call, a
synchronize or a destroy waits for those batches.

## Modules

### GpuWaves: calls, waves and streams

`GpuWaves` models the asynchronous life of a `GeozlGpu`. The host runs one call
at a time (the API is not thread safe), the device runs beside it. A call is cut
at every point where the host can block on the device, since only there can the
device's progress be seen.

| Model | Code |
|---|---|
| `backend`, `wave`, `stream`, `batches`, `batchCount`, `target` | `GeozlGpu.backend`, `.wave`, `.stream`, `Wave.batches`, `.batchCount`, `.target` |
| `epoch[w]` | how often `geozl_gpu_arena_reset` was called on the arena of wave `w`: staging of an older epoch has been overwritten |
| `scratchGen`, `scratchBytes` | the device scratch and its size; the generation tells a freed scratch from the live one |
| `queued` | the batches whose `queued` flag is set, the only ones `batch_wait` and `batch_destroy` wait for |
| `inflight`, `running`, `bad` | submitted to a stream; started, so parameters uploaded; finished with an error |
| `params` | the module-wide parameters of each program, which an enqueue overwrites on the stream |
| `scratchOwner` | the call whose samples are in the scratch |
| `Decode`, `FinishBatch`, `FinishWave`, `Begun` | `begin_wave` with `finish_wave` and `finish_pending`, the loop taken turn by turn |
| `ReturnEarly`, `ResetStaging`, `BuildFails`, `Build`, `ReplaceScratch`, `WrapTarget`, `QueueBatch`, `StreamSync`, `MetalWait`, `DecodeReturns`, `DecodeFails` | the rest of `geozl_gpu_decode_ex`, every `goto done` included |
| `Synchronize`, `Destroy` | `geozl_gpu_synchronize`, `geozl_gpu_destroy` |
| `Start`, `Complete` | the device, external: each stream in order, kernels may fail |

A frame's content is abstract. A plan (`IsPlan`) says which of the five batches a
call queues, whether its frames are direct and how much scratch it needs.

### DecoderContract: what the caller sees

`DecoderContract` is the abstract specification of `include/geozl/gpu.h`: a
decode call runs or has returned, its work is pending until the device has done
it, and work that failed is broken until some call has found it. There are no
waves, batches, streams or scratch. `GpuWaves` implements it under the mapping
`Contract`: a call is pending while a batch of it is in flight and broken while a
failed batch of it has not been seen, and `CallState` reads the host's program
counter. `KeepsContract` states it for TLC and `ImplementsContract` is its proof.
It says at once that a failed call leaves no work behind, that no failure is
swallowed, that work ends in the order of the calls, that no more than two calls
are ever in flight, that Metal leaves nothing running, and that synchronize and
destroy leave nothing at all.

### StagingArena

`StagingArena` models `staging_arena.c` with its arithmetic at the width of
`SizeMax`, where rounding a request up wraps as in a `size_t`: chunks with their capacity and what is used of them, the reserve that
a reset leaves for the next first chunk, the retry at the request's own size and
a host whose `pinLimit` is smaller than what is asked of it. The chunks are blocks of
one address space, so their capacities together do not pass `SizeMax`: without that
the sum that a reset takes of what was used could wrap, and `LargestKept` would not
hold. `total`, `largest` and `strikes` are history variables of the properties.

### FramePass

`FramePass` models `run_frames`, `run_pass`, `capture_frame`, `fail_frame` and
the loops that collect their results. Workers whose thread could not be created
run on the calling thread when their turn to be joined comes, as in the code. A
worker's turn at a frame is one step, except that taking the index, looking at
`failed` and recording an error under the lock are steps of their own, because
they touch what the workers share.

### BatchLayout

`BatchLayout` models the arithmetic of `geozl_gpu_decode_ex`, from the checks of
its arguments to the copies it gives the place kernel, one loop iteration per
step. Sizes end at `SizeMax` and kernel indices at `Word`, so that both overflow
in a small instance; the other constants are the alignments and limits of
`decode.c`, scaled, under the relations `LayoutAssumption` states.

| Model | Code |
|---|---|
| `InputValid`, `CopyValid`, `SpanEnd`, `Validate` | the input checks, `copies_valid`, `span_end` |
| `LayFrame` with `RouteOf`, `Fits`, `SlotBytes` | the loop that chooses routes within the 32-bit budget and lays out slots |
| `ChooseDirect` with `DirectTargets` | `direct_targets` |
| `CollectFrame`, `ShiftPivco` | the loop after the pass, the share of the scratch, the bases |
| `CountPieces`, `AddPlaceCopies`, `Queue` | `piece_count`, `add_place_copies`, the dispatches |
| `WrittenAt`, `Moves`, `Delivered` | where the decoder kernels write, and `place.slang` over the pieces |

A frame is its size, its decoded size and the route `route_of` finds. Whether a
capture falls back is a choice, made in `FramePass` by threads. The properties
run the place kernel over what was laid out and compare the samples that arrive
in the target with those the copies ask for.

### BatchRuntime

`BatchRuntime` models who holds a device block: the runtime's spare lists, a
batch, a `GeozlGpuMemory` that owns or wraps one, or nobody. The loops of
`geozl_gpu_batch_create` and `geozl_gpu_batch_destroy` are cut buffer by buffer,
because each turn may fail and the error path then releases what earlier turns
acquired.

| Model | Code |
|---|---|
| `size`, `spares`, `spareBytes` | the device allocations, the backend's spare blocks and what the cache holds |
| `layout`, `offsets`, `pointers`, `capacities`, `inputBytes`, `deviceInput`, `inputCapacity` | the fields of a `GeozlGpuBatch` |
| `completed`, `detached`, `queued` | its flags |
| `memory` | the `GeozlGpuMemory` objects, owning or borrowed |
| `op`, `who`, `at` | the host call in progress, its batch and the turn of its loop |
| `Create`, `LayoutInput`, `LaidOut`, `AcquireInput`, `AcquireBuffer`, `Created` | `geozl_gpu_batch_create` and the backends' acquire functions |
| `Run`, `Enqueue`, `Wait`, `Take` | run and enqueue of a batch, wait, and the take of a result into a memory |
| `BeginDestroy`, `ReleaseBuffer`, `ReleaseInput`, `Forget` | `geozl_gpu_batch_destroy` and the error path of create |
| `DestroyUnwaited` | `geozl_gpu_batch_destroy` of a batch in flight whose `batch_wait` can push no context (`runtime_cuda.c:710`) and returns at once; its result is ignored (`runtime.c:145`) |
| `LoseBlocks` | `cuda_batch_destroy` can push no context itself (`runtime_cuda.c:439`): the batch is freed and its blocks are abandoned |
| `MemoryCreate`, `MemoryWrap`, `MemoryDestroy`, `ProgramDestroy` | the memory API and the release of the spares; without a context their blocks are abandoned too |
| `Complete` | the device, external |
| `Overwrite` | kernels that outlive their batch, external: they write to a block that another batch has by now |

`inflight`, `content`, `stray`, `lost` and `failures` are history variables: which
batches the device executes, what the output of a batch is worth, the blocks that
kernels may use although their batch is gone, the blocks abandoned without a context,
and how often a context could not be pushed.

### GpuPlan and PlanParallel

`GpuPlan` holds what one thread plans for the device (`pfor_gpu_plan_build`,
`pivco_gpu_plan_build`) as operators: block tasks, joins, lanes with their
stride, padding, and for a PivCo lane its symbols, its tree and a node task for
every node of every block. A tree is a sequence of nodes in pre-order, as
`topology_build` makes it, and a frame says to which leaf each of its samples
goes; `WalkNode` follows them to the count and the place of every node. What
the bits of a payload are is abstract: tasks are named by the frame, lane, block
and node they stand for, and a frame whose payload does not check out is marked.
All PivCo lanes of a frame share one tree.

`PlanParallel` adds the threads (`pfor_plan_parallel.c`,
`pivco_plan_parallel.c`): `Start`, `Work` and `Join` plan ranges of frames,
`Merge` shifts every base of a part, `NoWorkers` is the worker array that cannot
be allocated, and `MergeCaptured` merges what the frame pass planned. A wrong
base or a swapped merge shows up as a different plan.

### CodecDecode: the standalone decoders to the last sample

`CodecDecode` follows a call of `geozl_pfor_gpu_decode` or
`geozl_pivco_gpu_decode` from the frames to the samples in device memory.

| Model | Code |
|---|---|
| `Inspect`, `Slot` | `geozl_gpu_frame_batch_inspect` |
| `Capture` with `HeaderFits`, `Room`, `Seen`, `Initable`, `WithRaw` | the two `capture_decoder` functions, `*_gpu_frame_init`, `capture_frames` and the raw staging |
| `BuildWork` with `Build` of `GpuPlan`, `PlanePlan`, `Dispatches`, `ResultBytes` | `*_gpu_work_build`, `geozl_gpu_plane_plan_build`, `build_dispatches` |
| `Dispatch`, `RunTask`, `EndDispatch` | external: dispatches in order, the tasks of one in any order |
| `UnpackBlock`, `UnpackLaneBlock`, `JoinLanes`, `ScanPlane`, `ScanRow`, `ScanColumn`, `CopyRaw` | the kernels of `programs/pfor.slang`, `programs/pivco.slang` and `stages/planar_zigzag.slang` |
| `Node`, `DecodeLeaf`, `MergeNode`, `ToLanes`, `Ready` | `stages/pivco.slang`: a node task per step, even levels in the lanes, odd ones in the bytes of the output, a barrier behind each level |

The lanes and the output are device memory in bytes. Every sample of a batch is
coded as another power of two, so that a sum shows which residuals were added. A
write outside of a buffer sets `spilled`. Two things a caller may not expect and
the properties allow: a payload that an earlier codec expanded past its slot can
use up the slot of a later frame, which then fails in its place; and an error of
the plan counts captured frames, not frames of the batch, because the standalone
decoders pass no `frameIds`.

### Samples and Predictors

`Samples` holds the arithmetic of `common/raster.h` modulo `Modulus`, which stands
for 2^w at each sample width: sums and differences that wrap, zigzag, the
overflow-free average, the average split over two loops, the median predictor,
and how a header's plane count and a width cut a raster.

`Predictors` models the codecs that decode by sums (`delta_w`, `delta_n`, `planar`,
`average`, `planar_zigzag`, the raster part of `planar_zigzag_pfor`, and
`wp_static`). `Encode`
writes one sample per step in the order of the encode kernel, in place for
`delta_w` and `delta_n`. `Transmit` hands the stream over unchanged and `Corrupt`
with another header. `DecodeHeader` is the decode binding's checks. `Plane`
starts the kernel on one plane, and the remaining actions are the kernel's
loops: the start of a run (`Scan`, `ZScan`, `FRow`, `ZFRow`), the vector scan of
`vprefix.h` with its carry (`Vector`, `RunTail`), the row kernels (`NorthRow`,
`AverageRow`, `AverageSample`) and the boundary between runs (`EndRun`). A
build with more `lanes` than any row has samples is the scalar one; `halves` selects
the two-half scan of the AVX2 build. `wp_static` weighs four neighbours of the rows
above (`Fold`); the weights come from training, which is not modelled, so they are
any of a set. Its sum has four times the bits of a `narrow` sample, as 64 are to 16,
and the decoder's short sum twice as many (`FoldsShort`), as 32 are; a sample that is
not narrow has as many bits as the sum.

### MedWavefront

`MedWavefront` models `decode_med_wavefront.h`, the decoder that works on four
rows at once along an anti-diagonal. Each row is a register lane one column
behind the row above it. The west, north and north-west registers are shifted
rather than loaded, so a prologue fills the lanes and an epilogue drains them,
and what does not fill a group of rows falls to the scalar decoder.

### Pfor

`Pfor` is the codec to the byte, with the block of 256 samples, the groups and the
costs of the code: the choice of the width of a block, exceptions as a bitmap or
a list, packing, the bound the caller allocates for, and the decoder with its two
ways to move an exception (a wide word, or byte by byte at the end of the stream). A
session encodes block by block, may damage the stream in one place (a byte replaced,
the end lost, zeros appended, or another header), and decodes it.
`WideBytes` scales the wide word from 8 bytes to 2, which puts samples of two
bytes on both sides of its limit, where in the code those of eight bytes are.
`MaxWidth` is the widest sample a session may have, 8 bytes in the code and 2 in the
run. `PforAssumption` says what a source is, and that damage leaves bytes.

### NoData

`NoData` models the split of a raster into a mask and filled values, a stage between
encoder and decoder that is lossless, within its bound or broken, and the guards with
which the decoder keeps a rebuilt sample from reading as a hole. Samples are bit
patterns read as unsigned, signed or float; the float has the fields of IEEE 754,
with exponents up to `ExpMax` and `Fractions` fractions. The run has three and two, so
that every pattern is covered, with both zeros, infinities and several NaNs. The
radius is counted in half units. A hole takes the last measured sample at or above it;
`Filled` says which one that is, where the code fills row by row.

### Which modules use which

`Predictors` and `MedWavefront` extend `Samples`, which `CodecDecode` instantiates.
`PlanParallel` and `CodecDecode` extend `GpuPlan`, and `GpuWaves` instantiates
`DecoderContract`. `HostProofs` extends `StagingArena` and `FramePass`, and `BatchProofs`
`PlanParallel` and `BatchRuntime`: two modules that share neither state nor, for the
sake of their proofs, a name. Every other module in `*Proofs` extends the module in
its name. Each `MC` module extends one component and gives TLC its small
sets.

## Runs

| Run | Instance | Question |
|---|---|---|
| `waves` | 3 calls, 2 streams, 2 plans, both backends, fair | is memory ever reused while a stream may use it; do calls mix their parameters or samples; does the decoder keep its contract; what does a failed call leave running; does every call return |
| `waves_pop` | 2 calls, `cuCtxPopCurrent` may fail | finding, below |
| `arena` | `SizeMax` 511, hosts that pin 32 bytes or anything | do allocations overlap, also where sizes wrap; is the largest batch's staging kept; is a refused reserve asked for only once |
| `frame_pass` | 3 frames, 2 threads, fair | is each frame handled once, the lowest error reported, a stale plan never used; does the pass end |
| `layout` | 22023 calls, words of 5 bits, a `size_t` of 7 | is a copy refused exactly when it leaves its frame or the target; are slots, direct frames and scratch apart and within 32 bits; does the target get what the copies ask for; is a call too large only when it is |
| `runtime` | 2 batches, 1 memory, 3 blocks, 2 spares, both backends | does a block have one holder; do failures leak; is a reused block large enough; does running work keep its blocks; is a result the caller's own; all with two pushes of a context that fail |
| `plan` | both codecs, 4 frames, 4 threads, lanes of at most 40 bytes | is the parallel plan the sequential one, in success and in failure |
| `predictors` | `Modulus` 8, rasters of 1 to 16 samples, 4 planes, 4 lanes in two halves and a scalar build, 4 sets of weights | do the kernels restore the raster at every width; does a decoder fail on a bad header before it writes |
| `med_wavefront` | `Modulus` 16, widths 1, 3, 8, 9, heights 1, 4, 5, 7, 9 | is each register the neighbour it stands for; are the rows the scalar decoder's |
| `pfor` | one- and two-byte samples, 527 streams of 0 to 513 samples, three of them damaged in 84 ways | is a stream decoded to what was encoded; is it never longer than the bound; does a damaged one read as its bytes say, or is it refused |
| `nodata` | floats of 4 bits, all of them, pairs and blocks of two rows, five radii | do holes stay holes and samples samples; is the bound of the stage kept; does the mask alone decide |
| `codec_decode` | both codecs, 3 frames, 14 samples of two bytes, trees of 1, 3 and 5 nodes | is every sample at its place whatever the order of the tasks; do staging and buffers hold; does a call fail only for a reason |

What a decoder or a program was created for (the backend, the codec of a batch,
the build of a decoder, what the host can pin) is a variable that `Init` chooses
and no step changes, so one run covers every choice.

Why the bounds are enough to be interesting:

* Two waves alternate, so the third call is the first to reuse a wave; two
  streams are needed for a stream change. Three and two batches overflow a wave's
  array of five when a wave is not emptied. The plans differ in the scratch they
  need, so that it is replaced while the call before may use it.
* In the arena, requests stand on both sides of the alignment, the smallest chunk,
  what one address space holds twice and what can still be rounded up below `SizeMax`;
  three resets let the reserve of one batch meet a smaller and a larger one.
* Two workers over three frames give two errors in either order and a worker that
  comes back for a second frame; a worker without a thread runs on the caller's.
* The calls of `layout` have three frames on every mix of routes, below, at and past
  the budget; copies that are whole, cut into two and three pieces, strided,
  repeated, overlapping, one sample too long, wrapping in either direction and
  too wide; ends on both sides of 2^32 samples; numbers of pieces on both sides of it;
  and every other reason to refuse.
* Two batches and three blocks let a block go from one batch through the spares
  to the other while a memory holds the third; two spares make the list full, so
  that a release has to choose. One layout has two inputs behind each other, one has
  inputs that are too large together. Two failing pushes reach a batch destroyed
  without a wait and a release that abandons its blocks, in one behaviour. Batches and memories are interchangeable and are
  declared symmetric.
* Four frames over four threads include ranges that do not divide evenly, and
  frames with one and with several lanes and blocks.
* Rasters of 9, 12 and 16 samples have rows shorter than, equal to, longer than
  and not a multiple of the vector's lanes, and a block of 5 ends inside a row;
  rasters of one and two samples take every value. One raster of 12 samples meets
  252 headers, valid and not.
* The heights 4, 5, 7, 9 leave no, one and three rows after whole groups of
  four, and the widths are below, at and above the length of the prologue.

* The streams of `pfor` have every width of a block, no, one, 31 to 33 and all
  samples as exceptions, at the front, at the end or spread, which is on both
  sides of the choice between bitmap and list; 255, 256, 257 and 513 samples end
  before, at and behind a block.
* In `codec_decode` a segment, a wave group, a PFOR block and a lane stride hold two
  samples and a join four, so that rows of three samples are wider than a segment,
  three rows are more than a group takes, task lists need padding, and PivCo
  blocks of two and three samples end inside a frame. Offsets end at 26 and lanes at 24 bytes: three frames
  are below, at and past both. A batch holds raw frames next to planes wide and
  narrow, tall and low, and frames that do not fit their header, their decoder
  or their slot.
* Four sets of `wp_static` weights have shifts below, at and above the limit of the
  short sum, with sums that overflow it.

### What the properties replaced

`KeepsContract` replaced single statements about failures, Metal and synchronize.
That the array of a wave is never overrun is part of `TypeOK` of `GpuWaves`. That
tasks of a merged plan do not share what they write is not stated for the plan
any more: `DecodedInOrder` runs them in any order. `KernelOffsetsFit` includes the place
kernel's pieces, and `RefusedForCause` that a call is too large only when it is: for a sample
past 2^32 or for more pieces than a word counts.

### The finding

`waves_pop` is expected to be violated. `decode.c:1234` says that a failed call
still waits for the work it queued before returning. `runtime_cuda.c` lets
`cuCtxPopCurrent` turn an enqueue into an error after all of it was submitted,
and then the batch's `queued` flag is not set and nothing waits for it. The other
runs and the theorems have `PopMayFail = FALSE`: popping the context that the
same function pushed fails only when the driver is broken.

### A comment with an exception

`runtime.c:140` says that a queued batch finishes before it is destroyed.
`geozl_gpu_batch_destroy` ignores the result of `batch_wait`, and on CUDA `batch_wait`
returns without waiting when it can push no context (`runtime_cuda.c:710`). The push in
`cuda_batch_destroy` may succeed after that, and then blocks that the device still
uses go to the spares and to the next batch. `runtime` contains these behaviours
(`DestroyUnwaited`, `Overwrite`), so its properties are stated as they hold:
`WorkKeepsItsBlocks` says that a block is left to the kernels of a batch that is gone
only after a failed push, and `ResultsAreTheCallers` that only results in such a block
can be overwritten. Ownership, leaks and sizes hold in spite of it.

## Fairness

`GpuWaves` assumes weak fairness of the host's steps, a thread that runs its own
call and blocks only on the device, and of the device's steps, since a stream
executes what is submitted to it in order. `FramePass` assumes weak fairness of
each worker, an operating system thread that is never suspended forever, and of
the calling thread's join and collection. No fairness is assumed for a new call,
for a failure, or in any safety run.

## Proofs

The theorems hold for every value of the constants.

* **GpuWavesProofs**, under `PopMayFail = FALSE`. `NoUseAfterRelease` is not
  inductive: it needs to know why a wait on the batches of a wave is a wait on
  everything that used its memory. `IndInv` adds that every in-flight batch is in
  one of the wave arrays and flagged queued (`InflightInv`, `OwnedInv`), that no batch
  is in two places (`UniqueInv`), that work on a stream other than the last one
  has finished (`StreamInv`), what the host knows at each program point
  (`HostInv`), what running work has uploaded (`RunningInv`), that only the live
  scratch is in use (`ScratchInv`) and that unseen failures are still queued
  (`SeenInv`). One lemma per action shows that it is preserved. `waves` checks the
  consequences on its instance. `ImplementsContract` maps every step to a step of
  `DecoderContract` or a stutter; it needs one more invariant, that the batches of the
  wave a call is filling are that call's (`CallInv`).
* **HostProofs**, the frame pass. `IndInv` says that the counter bounds every frame taken
  (`TakenInv`), that a frame is in one hand (`HandInv`, `OnceInv`), what a joined
  worker left behind (`JoinInv`), that the recorded error is the minimum over
  the failures recorded (`BrokenInv`) and how a capture-time plan's bases relate
  to the routes seen so far (`PlanInv`).
* **BatchLayoutProofs**, for every call, size of a word and of a `size_t`, alignment
  and limit that `LayoutAssumption` relates. `IInv` says what each loop has done at
  each turn: the slots laid out so far (`SlotInv`), the checks a call that goes on has
  passed (`Checked`), the spans of the direct frames (`DirectInv`), what has been
  collected and where it starts (`CollectType`, `OutputInv`, `OutInv`) and the pieces
  queued (`PieceInv`). Four arguments carry it.
  `direct_targets` compares only neighbours of a sorted list; that all pairs are apart
  follows because a pair that overlaps, with nothing sorted between its ends, is a
  pair of neighbours.
  The sums of bytes and lanes that the budgets bound are carried as functions whose
  existence is the invariant, one value per turn (`Budgets`, `Counts`), so that no
  step has to unfold a recursion.
  For `RefusedForCause`, `SpanEnd` is shown to be the end of the last sample that a copy
  asks for, or `SizeMax` where that end does not fit, whichever sum wraps; and the last
  sample of a piece at which a call is refused is one that its copy asks for
  (`RefusedInv`, `RoomInv` and `LimitInv`, together `CauseInv`).
  That proof failed on the property as it first stood, which had no cause but
  samples past 2^32: a call of more than 2^32 pieces is refused too, however near its
  samples are. The property now names that cause, and `layout` has calls of that kind.
  For `PlacedAsAsked`, `LaidOut` adds where things lie. Every base, output and slot
  counts whole samples (`SamplesInv`); frames of a route lie behind each other, those of
  PivCo behind the scratch of PFOR once they are shifted (`BaseInv`, `Packed`); a call
  that is direct has the targets it was chosen for (`DirectPlaced`); and each source has
  the pieces of the copies that were cut so far, all that its dispatch reaches, and no
  others (`PlacedInv`). From these a source holds one sample of one frame where a copy
  looks for it (`HoldsOne`), a piece finds in 32 bits what its copy asks for in bytes
  (`PieceFinds`, `WordAddress`), and every row is in a piece (`InSomePiece`), so
  `Delivered` and `Asked` include each other. The proof asks that staging is aligned to
  an even number of bytes, the samples of PFOR and PivCo being of one or two:
  `GEOZL_GPU_STAGING_ALIGNMENT` is 256.
* **PredictorsProofs**, for every width of a sample, raster, number of planes, build,
  block, set of weights and header of `Corruptions`, under `PredictorAssumption`, which
  bounds a register at the 32 lanes that AVX2 has for bytes and says what a register, a weight and a sample is. `RoundTrip` is not inductive, as it
  says nothing of what is still to be read, and the parts of `IInv` do.
  The encoders of `delta_w` and `delta_n` start from the end of a row or a plane, so that
  in place no step overwrites a sample that a later residual needs (`EncodeInv`); the
  lemmas `OrderInverts` and `OrderKeeps` are about that order. A decoder has the raster
  in `dst` below `Reached` (`DecodedInv`) and the stream in `src` from `Unread` on
  (`StreamInv`), so that its neighbours are those of the encoder. For that both must
  cut the stream into the same rows and planes: what an encoder declares for whole rows
  is accepted (`AskedAccepted`), and what is accepted with whole rows is a tiling
  (`HeaderTiled`). `PlaceInv` says where the loops are, `HeaderInv` and `UnwrittenInv`
  what was checked before a sample is written, which gives `AllOrNothing`.
  Within a row, `CarryInv` says that the carry of the registers is the sample in the
  west, `FoldedInv` what a row of `wp_static` holds once it is folded, and `ScratchInv`
  what the scratch rows of `average` hold. A register holds differences of neighbours;
  after each `Rung` a lane has the sum of twice as many of them, which telescopes
  (`RungDoubles`, `LadderSums`), so that no induction over lanes is needed. The
  short and the long sum of `wp_static` agree because cutting a sum changes it by a multiple
  of a value whose bits the shift leaves above those of a sample (`CutUnseen`).
* **BatchProofs**, the planners, for every batch of frames of either codec, number of
  threads, block, stride, group and limit, under `GpuPlanAssumption` and
  `PlanAssumption`, which say what a frame and its tree are. Neither property is
  inductive, as both speak of the result only. `PlanInv` says what leads to it: the
  ranges given out so far lie in a row and the last one takes the rest (`RangesOk`), and
  what a worker built is the trimmed plan of its range, the first failing frame of it,
  or out of memory (`PartsOk`); `ResultOk` is about the end. That the parts make up the
  plan of one thread is a statement about plans. A task of a range, moved behind the
  plan of the frames before it, is the task one thread makes there: this is shown for
  a lane of either kind (`MergeLane`) and for a frame (`MergeFrame`). So the plan of a
  range takes the plan of the frames before it to the plan up to its end
  (`ChainMerges`), and the merged plan is that of all frames (`MergedComputed`). Padding
  is cut off where it starts (`PivcoTrims`, `PforTrims`): it is told from a task by
  where it writes, so the proof needs that every task writes within the lanes of its
  plan. The loops over frames, lanes and parts are recursive functions, unfolded by
  `Recursion` and the least number for which a claim fails (`LeastNumber`).
* **BatchProofs**, the runtime, under `RuntimeAssumption`:
  layouts that the work builders make and sizes of at least one byte. None of the five
  properties is inductive. `ControlInv` says what the loops of create and destroy have
  done at each turn, that a batch that does not exist has nothing, and what the
  flags say about the device and about the content of blocks; `BoundInv` that a buffer
  that is ready has its block, and that the blocks a batch can reach are its own or
  those of memories it binds. Who holds what is one function, `owner`, from buffers,
  inputs and memories to blocks, and `Sound` says that it and the spares are
  injective, that sizes are those recorded, and that an allocated block is held or
  lost. The ways a block changes hands are lemmas about any such function, so
  that the proof of an action only has to say which of them it is. `InputsInv` and
  `RecordedInv` are about sizes: a block that is reused from the spares is as large as
  was asked for, and keeps its size as long as it is held (`SizesKept`). `Leftovers`
  says that only a failed push leaves blocks to kernels whose batch is gone, and that
  the content of a completed batch changes through such a block only.
* **MedWavefrontProofs**, for every even modulus, width, height, codec and raster, in
  place or not. The registers are right because the rows above were decoded, and
  those are decoded because the registers were right, so the two properties need each
  other. `Done(k, c)` counts the columns that row `k` of a wave has reached at step
  `c`, ramps at both ends included; `Passed` says which samples of the plane have been
  decoded in each phase. `DecodeInv`: what has been passed is decoded in `dst`, and of
  the rest `src` still holds the residuals, which is what makes decoding in place
  safe. `RegistersInv` says which samples the registers of each row are; that the row
  above is exactly one column ahead makes them its neighbours. That a sample then
  comes back is `ResidualRestores` and `ZigzagInverts`, which hold for every even modulus.
* **HostProofs**, the arena, for every `SizeMax`, alignment, smallest chunk, array
  of chunks, host and sequence of requests. `ChunksInv` says that chunks are filled by
  aligned sizes up to their capacity. `FailInv` adds to `ReserveFailsOnce` that a
  reserve waits for a first chunk only and that a request that failed has used it up.
  `SumInv` bounds the capacities by the address space and makes `total` the sum that
  a reset will take, which `LargestKept` needs. The sums are a recursive function. What
  it computes is shown without an induction theorem: among the lengths for which a
  claim fails there is a least one (`LeastNumber`), and the sum up to the length
  before contradicts it.
* **NoDataProofs**, for floats of any fields and integers of that width, under
  `CallAssumption`: every finite float is below what stands for an infinity. That the
  number of a magnitude grows with its bits (`AbsoluteGrows`) goes
  by the least counterexample, since a step to the next exponent doubles what a
  fraction is worth. So nothing lies between a value and what `nodata_guard_values`
  puts next to it (`NeighboursNext`), and a code leads to another pattern
  (`CodeLeads`) that is no further from what was measured than the sentinel is
  (`CodeNearer`). `StreamInv` is about one sample at a time: what the mask says of it
  and what became of it.
* **PforProofs**, for samples of any width up to `MaxWidth`, every wide word, stream and
  damage, under `PforAssumption`. A lane of the packed body is one number, the samples
  of the lane one after another, and a group of bytes is a digit of every lane's
  number: packing keeps that from slot to slot (`PackSlotKeeps`), unpacking takes the
  digits off again (`UnpackSlotKeeps`), in one walk or by two halves (`UnpackHolds`),
  and the bits that `spec.md` names are bits of the same numbers (`LaneBitIs`).
  Positions are listed in ascending order (`OrderedLists`), and whichever way the high
  bits of an exception are moved, all of them are (`AllMoved`). `SelectSelects` says
  that there is a cheapest width, that its exceptions can be counted in a byte and
  that it costs no more than a body of all bits, which is the bound. So a block
  decodes to what was encoded, whatever follows it (`DecodeReturns`), and a block that is
  accepted has the samples that `spec.md` gives its bytes (`DecodedAsSpecified`).
  `PforInv` carries this through a session: what was sent are blocks at offsets
  (`Laid`), what arrives unchanged is decoded from one offset to the next
  (`Following`), and `Phases` says what each phase has left undone. Every recursion
  is unfolded by the least number for which a claim fails (`LeastNumber`).

Only model-checked:

* Liveness (`CallReturns`, `PassEnds`): fairness and `ENABLED` are out of the prover's
  reach.
* `CodecDecode` (`DecodedInOrder`, `StagingHolds`, `FailsForCause`): its steps are whole
  dispatches of kernels over plans, so a proof is one about the functions that a
  dispatch computes, the levels of a tree and the ladders of the scans, more than
  about steps. The lemmas that `BatchProofs` has about plans are where it would start.

Where a module's `TypeOK` is in no run, TLC would learn nothing from it that the listed
properties do not show; it is proved where a theorem names it.

## Not modelled

* A context that cannot be pushed when a wave waits for its batches or destroys them:
  `GpuWaves` takes it that this succeeds. `BatchRuntime` has the failure.
* CUDA errors that stick to a context and failures of two driver calls in a row:
  after them the driver promises nothing.
* OpenZL itself, which `core/src` calls, and the copy of it below
  `bindings/r/src/ext`: most lines of the repository are in that copy, vendored,
  so the share of all lines that the map covers is small whatever is modelled
  here.
* The bits of a payload on the device: `Pfor` checks them for the host codec, and
  the kernels are modelled by which samples they read and write. The weights of a
  PivCo lane and its Huffman code are OpenZL's.
* Inside a task of a kernel, the order of its lanes: a wave runs in lock step, and
  what a task writes no other task of its dispatch reads, except through the
  barriers of `decode_symbols`, which are modelled.
* CPU side of the PivCo lanes (`pivco_lanes`, `transpose_pivco`,
  `planar_zigzag_transpose_pivco`): a choice between two codecs per lane around
  OpenZL's coder, with headers that are checked once.
* `deinterleave`, a permutation of one line each way, and `coeffs`, which packs
  integers.
* The training of `wp_static`, the quantizers and the lossy search: IEEE arithmetic
  that TLC has no types for. The bindings of `med` and `med_zigzag` are those of
  `planar`.
* The graph API (`2d/2d.c`), the registries and the parser of recipes: they build
  OpenZL graphs and keep no state between calls.
* The modules generated from the kernels, program loading and parameter layout of
  the backends.
* Bindings, command line tools, tests and fuzzers.

## Plan

The modules above are what was planned, in this order: the asynchronous decoder and
its contract, its parts (arena, pass, layout, runtime, planners), the codecs, the
standalone decoders with their kernels. Proved are the decoder with its contract, the
pass, the runtime, the planners, the arena, NoData, the predictors, the median
wavefront, the layout of a batch with what its copies deliver, and the PFOR codec.
What is left is `CodecDecode`: `DecodedInOrder`, over the lemmas about plans in
`BatchProofs` and those about ladders in `PredictorsProofs`, and the two properties of
its staging.
