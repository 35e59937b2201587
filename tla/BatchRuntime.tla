---------------------------- MODULE BatchRuntime ----------------------------
(***************************************************************************)
(* The device memory of one program (core/src/gpu/runtime.c with its CUDA  *)
(* and Metal backends): a block of device memory moves between the         *)
(* program's spares, the batches that acquire it and the memories that a   *)
(* caller creates or takes out of a batch.                                 *)
(*                                                                         *)
(* The host makes one call at a time.  The loops of batch_create and       *)
(* batch_destroy go buffer by buffer, since each turn of them may fail.    *)
(* cuCtxPopCurrent does not fail after work was queued (GpuWaves shows     *)
(* what happens when it does).  cuCtxPushCurrent may fail in every call:   *)
(* then a block is not freed, and a batch is destroyed without a wait.     *)
(***************************************************************************)
EXTENDS Naturals, Sequences, FiniteSets

CONSTANTS
  Batches,      \* names of batches
  Memories,     \* names of GeozlGpuMemory objects
  Layouts,      \* backend -> the buffer lists callers create batches with
  Sizes,        \* the sizes of created memories
  SpareCount,   \* CUDA_SPARES, METAL_SPARES
  SmallSpare,   \* a spare of at most this size serves every request
  Pad,          \* inputs start at multiples of this; Metal pads to it
  SizeMax,      \* SIZE_MAX
  MaxBlocks,    \* bound: blocks of device memory at one time
  MaxFailures,  \* bound: how often a destroy can push no context
  Nobody        \* no batch

Backends == {"cuda", "metal"}
Blocks == 1 .. MaxBlocks
NoBlock == 0
Foreign == MaxBlocks + 1     \* memory the runtime did not allocate
Addresses == 0 .. MaxBlocks + 1
Spares == 1 .. SpareCount

\* kind says where a buffer's storage is: "input" is COPY_IN, "output" is
\* COPY_OUT, "own" has no host pointer, "external" binds a memory.
Buffer ==
  [kind : {"input", "output", "own", "alias", "external"},
   bytes : 1 .. SizeMax, result : BOOLEAN, alias : Nat, memory : Memories]

\* geozl_gpu_buffers_valid, but for the memory an external buffer binds.
BuffersValid(l) ==
  /\ l \in Seq(Buffer) /\ l # <<>>
  /\ \A i \in DOMAIN l :
       /\ l[i].kind = "external" => ~l[i].result
       /\ l[i].kind = "alias" =>
            ~l[i].result /\ l[i].alias \in 1 .. i - 1
              /\ l[i].bytes <= l[l[i].alias].bytes

ASSUME RuntimeAssumption ==
  /\ SpareCount \in Nat \ {0} /\ SmallSpare \in Nat /\ MaxBlocks \in Nat
  /\ Pad \in Nat \ {0} /\ SizeMax \in Nat
  /\ Sizes \subseteq 1 .. SizeMax
  /\ \A b \in Backends : \A l \in Layouts[b] : BuffersValid(l)

ASSUME NobodyAssumption == Nobody \notin Batches

VARIABLES
  backend,       \* what the program was loaded for
  size,          \* block -> its size, 0 while it is not allocated
  spares,        \* slot -> block
  spareBytes,    \* slot -> its size as the program recorded it
  layout,        \* batch -> its buffers, <<>> while it does not exist
  pointers,      \* batch -> address of each buffer
  capacities,    \* batch -> capacity recorded for each buffer
  offsets,       \* batch -> offset of each input in deviceInput
  inputBytes,    \* batch -> bytes of all inputs
  deviceInput,   \* batch -> block of the inputs
  inputCapacity, \* batch -> its capacity
  completed, detached, queued,    \* batches with these flags set
  memory,        \* memory -> [pointer, bytes, owned]
  op,            \* what the host is doing: "idle" or a loop
  who,           \* the batch it does it to
  at,            \* the loop's index
  inflight,      \* batches the device is executing
  content,       \* batch -> its output: "none", "fresh", "bad", "overwritten"
  stray,         \* blocks that kernels may use though their batch is gone
  lost,          \* blocks given up because no context could be pushed
  failures,      \* how often a destroy could push no context
  open           \* the program exists

poolVars == <<size, spares, spareBytes>>
batchVars == <<layout, pointers, capacities, offsets, inputBytes, deviceInput,
               inputCapacity>>
flagVars == <<completed, detached, queued>>
deviceVars == <<inflight, content, stray>>
opVars == <<op, who, at>>
lossVars == <<lost, failures>>
vars == <<backend, poolVars, batchVars, flagVars, memory, opVars, deviceVars,
          lossVars, open>>

NoOffset == SizeMax
NoMemory == [pointer |-> NoBlock, bytes |-> 0, owned |-> FALSE]

Init ==
  /\ backend \in Backends
  /\ size = [k \in Blocks |-> 0]
  /\ spares = [s \in Spares |-> NoBlock] /\ spareBytes = [s \in Spares |-> 0]
  /\ layout = [b \in Batches |-> <<>>]
  /\ pointers = [b \in Batches |-> <<>>]
  /\ capacities = [b \in Batches |-> <<>>]
  /\ offsets = [b \in Batches |-> <<>>]
  /\ inputBytes = [b \in Batches |-> 0]
  /\ deviceInput = [b \in Batches |-> NoBlock]
  /\ inputCapacity = [b \in Batches |-> 0]
  /\ completed = {} /\ detached = {} /\ queued = {}
  /\ memory = [m \in Memories |-> NoMemory]
  /\ op = "idle" /\ who = Nobody /\ at = 1
  /\ inflight = {} /\ content = [b \in Batches |-> "none"] /\ stray = {}
  /\ lost = {} /\ failures = 0 /\ open = TRUE

-----------------------------------------------------------------------------
(* acquire_device, acquire_private, release_device, release_private        *)

\* A spare serves a request at most four times smaller, or any if it is small.
Serves(s, bytes) ==
  /\ spares[s] # NoBlock
  /\ spareBytes[s] >= bytes
  /\ spareBytes[s] \div 4 <= bytes \/ spareBytes[s] <= SmallSpare

\* Mutant: a spare of any size serves.
BestAnySize(s, bytes) == spares[s] # NoBlock

\* The smallest spare that serves.
Best(s, bytes) ==
  /\ Serves(s, bytes)
  /\ \A t \in Spares : Serves(t, bytes) =>
       \/ spareBytes[s] < spareBytes[t]
       \/ spareBytes[s] = spareBytes[t] /\ s <= t

NoneServes(bytes) == \A s \in Spares : ~Serves(s, bytes)

\* cuMemAlloc: any free address.
NewBlock(k) == size[k] = 0 /\ \A j \in 1 .. k - 1 : size[j] # 0

Freed(k) == k \in {spares[s] : s \in Spares}

\* Mutant: the slot keeps naming the block.
EmptySlotNot(s) == UNCHANGED <<spares, spareBytes>>

EmptySlot(s) ==
  /\ spares' = [spares EXCEPT ![s] = NoBlock]
  /\ spareBytes' = [spareBytes EXCEPT ![s] = 0]

\* Every way to get k with the given capacity: a spare, a new block, or on CUDA
\* a new block after the spares were freed.
Acquire(bytes, k, capacity) ==
  \/ \E s \in Spares :
       /\ Best(s, bytes)
       /\ k = spares[s] /\ capacity = spareBytes[s]
       /\ EmptySlot(s)
       /\ UNCHANGED size
  \/ /\ NoneServes(bytes)
     /\ k \in Blocks /\ NewBlock(k) /\ capacity = bytes
     /\ size' = [size EXCEPT ![k] = bytes]
     /\ UNCHANGED <<spares, spareBytes>>
  \/ /\ NoneServes(bytes) /\ backend = "cuda"
     /\ k \in Blocks /\ (size[k] = 0 \/ Freed(k)) /\ capacity = bytes
     /\ \A j \in 1 .. k - 1 : size[j] # 0 /\ ~Freed(j)
     /\ size' = [j \in Blocks |-> IF j = k THEN bytes
                                  ELSE IF Freed(j) THEN 0 ELSE size[j]]
     /\ spares' = [s \in Spares |-> NoBlock]
     /\ spareBytes' = [s \in Spares |-> 0]

\* The capacities an acquired block may come with.
Capacities(bytes) == {bytes} \cup {spareBytes[s] : s \in Spares}

\* No block can be had; on CUDA the spares were freed on the way.
AcquireFails(bytes) ==
  /\ NoneServes(bytes)
  /\ IF backend = "cuda"
       THEN /\ size' = [j \in Blocks |-> IF Freed(j) THEN 0 ELSE size[j]]
            /\ spares' = [s \in Spares |-> NoBlock]
            /\ spareBytes' = [s \in Spares |-> 0]
       ELSE UNCHANGED poolVars

\* The slot a released block goes to: the first empty one, else the first of
\* the smallest.
Slot(s) ==
  IF \E t \in Spares : spares[t] = NoBlock
    THEN spares[s] = NoBlock /\ \A t \in 1 .. s - 1 : spares[t] # NoBlock
    ELSE /\ \A t \in Spares : spareBytes[s] <= spareBytes[t]
         /\ \A t \in 1 .. s - 1 : spareBytes[s] < spareBytes[t]

\* Is the spare in s kept and the released block freed?
Keeps(s, capacity) == spares[s] # NoBlock /\ spareBytes[s] >= capacity

Release(k, capacity) ==
  \E s \in Spares :
    /\ Slot(s)
    /\ IF Keeps(s, capacity)
         THEN /\ size' = [size EXCEPT ![k] = 0]
              /\ UNCHANGED <<spares, spareBytes>>
         ELSE /\ size' = [j \in Blocks |->
                           IF j = spares[s] THEN 0 ELSE size[j]]
              /\ spares' = [spares EXCEPT ![s] = k]
              /\ spareBytes' = [spareBytes EXCEPT ![s] = capacity]

-----------------------------------------------------------------------------
(* geozl_gpu_batch_create                                                  *)

Exists(b) == layout[b] # <<>>
BufferCount(b) == Len(layout[b])
Padded(bytes) == ((bytes + Pad - 1) \div Pad) * Pad

\* The memories external buffers bind must hold them.
MemoryValid(l) ==
  \A i \in DOMAIN l : l[i].kind = "external" =>
    memory[l[i].memory] # NoMemory /\ l[i].bytes <= memory[l[i].memory].bytes

\* Mutant: the offsets stay as calloc left them.
NoOffsetsZero(l) == [i \in DOMAIN l |-> 0]

\* No buffer is an input yet.
NoOffsets(l) == [i \in DOMAIN l |-> NoOffset]

\* Everything up to the first loop of cuda_batch_create; Metal has one loop.
Create(b, l) ==
  /\ op = "idle" /\ open /\ ~Exists(b) /\ MemoryValid(l)
  /\ layout' = [layout EXCEPT ![b] = l]
  /\ pointers' = [pointers EXCEPT ![b] = [i \in DOMAIN l |-> NoBlock]]
  /\ capacities' = [capacities EXCEPT ![b] = [i \in DOMAIN l |-> 0]]
  /\ offsets' = [offsets EXCEPT ![b] = NoOffsets(l)]
  /\ inputBytes' = [inputBytes EXCEPT ![b] = 0]
  /\ op' = IF backend = "cuda" THEN "layout" ELSE "acquire"
  /\ who' = b /\ at' = 1
  /\ content' = [content EXCEPT ![b] = "none"]
  /\ UNCHANGED <<poolVars, deviceInput, inputCapacity, flagVars, memory,
                 inflight, stray, lossVars, open>>

Goto(where) ==
  op' = where /\ at' = 1 /\ who' = IF where = "idle" THEN Nobody ELSE who

\* Mutant: the sum of the padded inputs may wrap.
TooLargeAlone(b, bytes) == bytes > SizeMax - (Pad - 1)

\* An input whose padded size does not fit a size_t behind those before it.
TooLarge(b, bytes) ==
  \/ bytes > SizeMax - (Pad - 1)
  \/ Padded(bytes) > SizeMax - inputBytes[b]

\* The loop that lays the inputs out behind each other.
LayoutInput ==
  /\ op = "layout" /\ at <= BufferCount(who)
  /\ LET buffer == layout[who][at] IN
     IF buffer.kind # "input"
       THEN at' = at + 1 /\ UNCHANGED <<offsets, inputBytes, op>>
       ELSE IF TooLarge(who, buffer.bytes)
       THEN op' = "release" /\ at' = 1 /\ UNCHANGED <<offsets, inputBytes>>
       ELSE /\ offsets' = [offsets EXCEPT ![who][at] = inputBytes[who]]
            /\ inputBytes' = [inputBytes EXCEPT ![who] =
                                (@ + Padded(buffer.bytes)) % (SizeMax + 1)]
            /\ at' = at + 1 /\ UNCHANGED op
  /\ UNCHANGED <<who, poolVars, layout, pointers, capacities, deviceInput,
                 inputCapacity, flagVars, memory, deviceVars, lossVars, open>>

\* cuMemHostAlloc of the pinned copy may fail; the device copy comes next.
LaidOut ==
  /\ op = "layout" /\ at > BufferCount(who)
  /\ \/ Goto("release")
     \/ Goto(IF inputBytes[who] # 0 THEN "input" ELSE "acquire")
  /\ UNCHANGED <<poolVars, batchVars, flagVars, memory, deviceVars, lossVars,
                 open>>

AcquireInput ==
  /\ op = "input"
  /\ \/ \E k \in Blocks, c \in Capacities(inputBytes[who]) :
          /\ Acquire(inputBytes[who], k, c)
          /\ deviceInput' = [deviceInput EXCEPT ![who] = k]
          /\ inputCapacity' = [inputCapacity EXCEPT ![who] = c]
          /\ Goto("acquire")
     \/ /\ AcquireFails(inputBytes[who])
        /\ Goto("release")
        /\ UNCHANGED <<deviceInput, inputCapacity>>
  /\ UNCHANGED <<layout, pointers, capacities, offsets, inputBytes, flagVars,
                 memory, deviceVars, lossVars, open>>

\* Does the buffer come from the program's spares?
Pooled(kind) ==
  kind \in IF backend = "cuda" THEN {"own", "output"} ELSE {"own"}

\* Where a buffer with storage elsewhere lies.
Bound(b, i) ==
  LET buffer == layout[b][i] IN
  IF buffer.kind = "alias" THEN pointers[b][buffer.alias]
  ELSE IF buffer.kind = "external" THEN memory[buffer.memory].pointer
  ELSE IF backend = "cuda" THEN deviceInput[b]
  ELSE Foreign

\* Metal's private buffers are whole words.
Request(bytes) == IF backend = "cuda" THEN bytes ELSE Padded(bytes)

\* One turn of the loop that binds or acquires the buffers.
AcquireBuffer ==
  /\ op = "acquire" /\ at <= BufferCount(who)
  /\ LET buffer == layout[who][at] IN
     \/ /\ ~Pooled(buffer.kind)
        /\ pointers' = [pointers EXCEPT ![who][at] = Bound(who, at)]
        /\ at' = at + 1 /\ UNCHANGED <<poolVars, capacities, op>>
     \/ /\ ~Pooled(buffer.kind) /\ Bound(who, at) = Foreign
        /\ buffer.kind \in {"input", "output"}
        /\ op' = "release" /\ at' = 1        \* no shared buffer on Metal
        /\ UNCHANGED <<poolVars, pointers, capacities>>
     \/ /\ Pooled(buffer.kind)
        /\ \E k \in Blocks, c \in Capacities(Request(buffer.bytes)) :
             /\ Acquire(Request(buffer.bytes), k, c)
             /\ pointers' = [pointers EXCEPT ![who][at] = k]
             /\ capacities' = [capacities EXCEPT ![who][at] = c]
        /\ at' = at + 1 /\ UNCHANGED op
     \/ /\ Pooled(buffer.kind)
        /\ AcquireFails(Request(buffer.bytes))
        /\ op' = "release" /\ at' = 1
        /\ UNCHANGED <<pointers, capacities>>
  /\ UNCHANGED <<who, layout, offsets, inputBytes, deviceInput, inputCapacity,
                 flagVars, memory, deviceVars, lossVars, open>>

\* The batch is handed out, unless the context cannot be popped.
Created ==
  /\ op = "acquire" /\ at > BufferCount(who)
  /\ Goto("idle") \/ (backend = "cuda" /\ Goto("release"))
  /\ UNCHANGED <<poolVars, batchVars, flagVars, memory, deviceVars, lossVars,
                 open>>

-----------------------------------------------------------------------------
(* geozl_gpu_batch_run, enqueue, wait, take, destroy                       *)

\* Mutant: a batch that gave its result away may run again.
RunnableDetached(b) == op = "idle" /\ Exists(b) /\ b \notin queued

Runnable(b) ==
  op = "idle" /\ Exists(b) /\ b \notin detached /\ b \notin queued

\* batch_run returns with the device idle, whether or not it succeeded.
Run(b) ==
  /\ Runnable(b)
  /\ \/ /\ content' = [content EXCEPT ![b] = "fresh"]
        /\ completed' = completed \cup {b}
     \/ /\ content' = [content EXCEPT ![b] = "none"]
        /\ completed' = completed \ {b}
  /\ UNCHANGED <<poolVars, batchVars, detached, queued, memory, opVars,
                 inflight, stray, lossVars, open>>

\* batch_enqueue: on CUDA the work is left to the stream; on Metal, and after a
\* failure on CUDA, the device is idle again when the call returns.
Enqueue(b) ==
  /\ Runnable(b)
  /\ completed' = completed \ {b}
  /\ \/ /\ backend = "cuda"
        /\ inflight' = inflight \cup {b} /\ queued' = queued \cup {b}
        /\ content' = [content EXCEPT ![b] = "none"]
     \/ /\ backend = "metal"
        /\ queued' = queued \cup {b}
        /\ content' = [content EXCEPT ![b] = "fresh"]
        /\ UNCHANGED inflight
     \/ /\ content' = [content EXCEPT ![b] = "none"]
        /\ UNCHANGED <<inflight, queued>>
  /\ UNCHANGED <<poolVars, batchVars, detached, memory, opVars, stray,
                 lossVars, open>>

\* The device finishes a queued batch, or its kernels fail.
Complete(b) ==
  /\ b \in inflight
  /\ inflight' = inflight \ {b}
  /\ \E c \in {"fresh", "bad"} : content' = [content EXCEPT ![b] = c]
  /\ UNCHANGED <<poolVars, batchVars, flagVars, memory, opVars, stray,
                 lossVars, open>>

\* The blocks a batch's kernels read and write.
Touches(b) == {pointers[b][i] : i \in DOMAIN layout[b]} \ {NoBlock, Foreign}

\* Kernels of a batch that is gone write to a block that b has by now.
Overwrite(b) ==
  /\ content[b] = "fresh" /\ Touches(b) \cap stray # {}
  /\ content' = [content EXCEPT ![b] = "overwritten"]
  /\ UNCHANGED <<poolVars, batchVars, flagVars, memory, opVars, inflight,
                 stray, lossVars, open>>

\* Mutant: a batch counts as completed whatever the wait reported.
WaitSucceedsAlways(b) == b \notin inflight

\* cuEventSynchronize returns without an error.
WaitSucceeds(b) == b \notin inflight /\ content[b] # "bad"

\* batch_wait; one that fails changes nothing.
Wait(b) ==
  /\ op = "idle" /\ b \in queued /\ WaitSucceeds(b)
  /\ queued' = queued \ {b} /\ completed' = completed \cup {b}
  /\ UNCHANGED <<poolVars, batchVars, detached, memory, opVars, deviceVars,
                 lossVars, open>>

\* A result without a host pointer, of a completed batch, once.
Takeable(b, i) ==
  /\ b \in completed \ detached
  /\ layout[b][i].kind \notin {"alias", "input", "output"}
  /\ layout[b][i].result

\* Mutant: the batch keeps the block it gave away.
MovedNot(b, i) == pointers

Moved(b, i) == [pointers EXCEPT ![b][i] = NoBlock]

Take(b, i, m) ==
  /\ op = "idle" /\ Exists(b) /\ memory[m] = NoMemory
  /\ Takeable(b, i)
  /\ memory' = [memory EXCEPT ![m] =
       [pointer |-> pointers[b][i], bytes |-> layout[b][i].bytes,
        owned |-> TRUE]]
  /\ pointers' = Moved(b, i)
  /\ detached' = detached \cup {b}
  /\ UNCHANGED <<poolVars, layout, capacities, offsets, inputBytes,
                 deviceInput, inputCapacity, completed, queued, opVars,
                 deviceVars, lossVars, open>>

\* The blocks a batch would release.
Releasable(b, i) ==
  /\ i <= BufferCount(b)
  /\ Pooled(layout[b][i].kind)
  /\ offsets[b][i] = NoOffset
  /\ pointers[b][i] # NoBlock

\* Mutant: a queued batch is not waited for.
DestroyableAlways(b) == op = "idle" /\ Exists(b)

\* A queued batch finishes first, whether or not its kernels failed.
Destroyable(b) ==
  op = "idle" /\ Exists(b) /\ (b \in queued => b \notin inflight)

BeginDestroy(b) ==
  /\ Destroyable(b)
  /\ op' = "release" /\ who' = b /\ at' = 1
  /\ UNCHANGED <<poolVars, batchVars, flagVars, memory, deviceVars, lossVars,
                 open>>

\* One more call finds that no context can be pushed.
PushFails ==
  backend = "cuda" /\ failures < MaxFailures /\ failures' = failures + 1

\* batch_wait can push no context and returns at once; batch_destroy goes on
\* and leaves the kernels of the batch behind.
DestroyUnwaited(b) ==
  /\ op = "idle" /\ Exists(b) /\ b \in queued \cap inflight
  /\ PushFails
  /\ inflight' = inflight \ {b}
  /\ stray' = stray \cup Touches(b)
  /\ op' = "release" /\ who' = b /\ at' = 1
  /\ UNCHANGED <<poolVars, batchVars, flagVars, memory, content, lost, open>>

\* The field f of the batch is freed.
Forgotten(f) == [f EXCEPT ![who] = <<>>]

\* The end of batch_destroy: the batch is freed.
Forget ==
  /\ op' = "idle" /\ at' = 1 /\ who' = Nobody
  /\ layout' = [layout EXCEPT ![who] = <<>>]
  /\ pointers' = Forgotten(pointers)
  /\ capacities' = Forgotten(capacities)
  /\ offsets' = Forgotten(offsets)
  /\ inputBytes' = [inputBytes EXCEPT ![who] = 0]
  /\ deviceInput' = [deviceInput EXCEPT ![who] = NoBlock]
  /\ inputCapacity' = [inputCapacity EXCEPT ![who] = 0]
  /\ completed' = completed \ {who}
  /\ detached' = detached \ {who}
  /\ queued' = queued \ {who}
  /\ UNCHANGED <<memory, deviceVars, open>>

\* The blocks are given up: without a context nothing can be freed.
GiveUp(blocks) == PushFails /\ lost' = (lost \cup blocks) \ {NoBlock}

\* cuda_batch_destroy can push no context.
LoseBlocks ==
  /\ op = "release" /\ at = 1
  /\ GiveUp({deviceInput[who]} \cup
       {pointers[who][i] :
          i \in {j \in DOMAIN layout[who] : Releasable(who, j)}})
  /\ Forget
  /\ UNCHANGED poolVars

ReleaseBuffer ==
  /\ op = "release" /\ at <= BufferCount(who)
  /\ IF Releasable(who, at)
       THEN Release(pointers[who][at], capacities[who][at])
       ELSE UNCHANGED poolVars
  /\ at' = at + 1
  /\ pointers' = [pointers EXCEPT ![who][at] = NoBlock]
  /\ UNCHANGED <<op, who, layout, capacities, offsets, inputBytes,
                 deviceInput, inputCapacity, flagVars, memory, deviceVars,
                 lossVars, open>>

ReleaseInput ==
  /\ op = "release" /\ at > BufferCount(who)
  /\ IF deviceInput[who] # NoBlock
       THEN Release(deviceInput[who], inputCapacity[who])
       ELSE UNCHANGED poolVars
  /\ Forget
  /\ UNCHANGED lossVars

-----------------------------------------------------------------------------
(* Memories and the program                                                *)

MemoryCreate(m, bytes) ==
  /\ op = "idle" /\ open /\ memory[m] = NoMemory
  /\ \E k \in Blocks :
       /\ NewBlock(k)
       /\ size' = [size EXCEPT ![k] = Request(bytes)]
       /\ memory' = [memory EXCEPT ![m] =
            [pointer |-> k, bytes |-> bytes, owned |-> TRUE]]
  /\ UNCHANGED <<spares, spareBytes, batchVars, flagVars, opVars, deviceVars,
                 lossVars, open>>

MemoryWrap(m, bytes) ==
  /\ op = "idle" /\ open /\ memory[m] = NoMemory
  /\ memory' = [memory EXCEPT ![m] =
       [pointer |-> Foreign, bytes |-> bytes, owned |-> FALSE]]
  /\ UNCHANGED <<poolVars, batchVars, flagVars, opVars, deviceVars, lossVars,
                 open>>

\* Is the memory bound by a batch?  The caller keeps it until then.
InUse(m) ==
  \E b \in Batches : \E i \in DOMAIN layout[b] :
    layout[b][i].kind = "external" /\ layout[b][i].memory = m

MemoryDestroy(m) ==
  /\ op = "idle" /\ memory[m] # NoMemory /\ ~InUse(m)
  /\ memory' = [memory EXCEPT ![m] = NoMemory]
  /\ \/ /\ memory[m].owned /\ GiveUp({memory[m].pointer})
        /\ UNCHANGED size
     \/ /\ size' = IF memory[m].owned
                    THEN [size EXCEPT ![memory[m].pointer] = 0] ELSE size
        /\ UNCHANGED lossVars
  /\ UNCHANGED <<spares, spareBytes, batchVars, flagVars, opVars, deviceVars,
                 open>>

\* Batches are destroyed before their program; memories may outlive it.
ProgramDestroy ==
  /\ op = "idle" /\ open /\ \A b \in Batches : ~Exists(b)
  /\ open' = FALSE
  /\ \/ GiveUp({spares[s] : s \in Spares}) /\ UNCHANGED size
     \/ /\ size' = [j \in Blocks |-> IF Freed(j) THEN 0 ELSE size[j]]
        /\ UNCHANGED lossVars
  /\ spares' = [s \in Spares |-> NoBlock]
  /\ spareBytes' = [s \in Spares |-> 0]
  /\ UNCHANGED <<batchVars, flagVars, memory, opVars, deviceVars>>

Gone == ~open /\ UNCHANGED vars

BatchStep ==
  \/ LayoutInput \/ LaidOut \/ AcquireInput \/ AcquireBuffer \/ Created
  \/ LoseBlocks \/ ReleaseBuffer \/ ReleaseInput

BatchCall ==
  \E b \in Batches :
    \/ \E l \in Layouts[backend] : Create(b, l)
    \/ Run(b) \/ Enqueue(b) \/ Wait(b)
    \/ BeginDestroy(b) \/ DestroyUnwaited(b)
    \/ \E i \in DOMAIN layout[b], m \in Memories : Take(b, i, m)

MemoryCall ==
  \E m \in Memories :
    \/ \E bytes \in Sizes : MemoryCreate(m, bytes) \/ MemoryWrap(m, bytes)
    \/ MemoryDestroy(m)

Device == \E b \in Batches : Complete(b) \/ Overwrite(b)

Next ==
  /\ BatchCall \/ BatchStep \/ MemoryCall \/ Device \/ ProgramDestroy \/ Gone
  /\ UNCHANGED backend

Spec == Init /\ [][Next]_vars

-----------------------------------------------------------------------------
(* Properties                                                              *)

\* Who can hold a block: a spare slot, a buffer a batch acquired, the inputs of
\* a batch, an owned memory, or nobody any more.
SpareBlock(s) == spares[s]
BufferBlock(b, i) ==
  IF Releasable(b, i) THEN pointers[b][i] ELSE NoBlock
MemoryBlock(m) == IF memory[m].owned THEN memory[m].pointer ELSE NoBlock

Holders ==
  ({"spare"} \X Spares)
  \cup (UNION {{"buffer"} \X {b} \X DOMAIN layout[b] : b \in Batches})
  \cup ({"input"} \X Batches) \cup ({"memory"} \X Memories)

Held(h) ==
  CASE h[1] = "spare"  -> SpareBlock(h[2])
    [] h[1] = "buffer" -> BufferBlock(h[2], h[3])
    [] h[1] = "input"  -> deviceInput[h[2]]
    [] h[1] = "memory" -> MemoryBlock(h[2])

\* Every variable stays in its range.
TypeOK ==
  /\ backend \in Backends
  /\ size \in [Blocks -> Nat]
  /\ spares \in [Spares -> Blocks \cup {NoBlock}]
  /\ spareBytes \in [Spares -> Nat]
  /\ layout \in [Batches -> Layouts[backend] \cup {<<>>}]
  /\ pointers \in [Batches -> Seq(Addresses)]
  /\ capacities \in [Batches -> Seq(Nat)]
  /\ offsets \in [Batches -> Seq(0 .. SizeMax)]
  /\ \A b \in Batches :
       /\ DOMAIN pointers[b] = DOMAIN layout[b]
       /\ DOMAIN capacities[b] = DOMAIN layout[b]
       /\ DOMAIN offsets[b] = DOMAIN layout[b]
  /\ inputBytes \in [Batches -> 0 .. SizeMax]
  /\ deviceInput \in [Batches -> Blocks \cup {NoBlock}]
  /\ inputCapacity \in [Batches -> Nat]
  /\ completed \subseteq Batches /\ detached \subseteq Batches
  /\ queued \subseteq Batches /\ inflight \subseteq Batches
  /\ memory \in [Memories ->
       [pointer : Addresses, bytes : Nat, owned : BOOLEAN]]
  /\ op \in {"idle", "layout", "input", "acquire", "release"}
  /\ who \in IF op = "idle" THEN {Nobody} ELSE Batches
  /\ at \in Nat \ {0}
  /\ content \in [Batches -> {"none", "fresh", "bad", "overwritten"}]
  /\ stray \subseteq Blocks
  /\ lost \subseteq Blocks /\ failures \in Nat /\ open \in BOOLEAN

\* A block has one holder: it is never released twice, and nobody names one
\* that was freed.
OneHolder ==
  \A g \in Holders : Held(g) # NoBlock =>
    /\ size[Held(g)] # 0
    /\ Held(g) \notin lost
    /\ \A h \in Holders : Held(h) = Held(g) => h = g

\* No block leaks: what is allocated is held, or was lost with its context, on
\* every path out of batch_create and batch_destroy.
NothingLeaks ==
  \A k \in Blocks : size[k] # 0 => k \in lost \/ \E h \in Holders : Held(h) = k

\* What is recorded of a block is its size, and it holds what it was acquired
\* for: buffers reused from a larger or smaller batch, inputs behind each other
\* in one block, results a caller downloads by their size.
BlocksLargeEnough ==
  /\ \A s \in Spares : spares[s] # NoBlock => spareBytes[s] = size[spares[s]]
  /\ \A b \in Batches : \A i \in DOMAIN layout[b] : Releasable(b, i) =>
       /\ capacities[b][i] = size[pointers[b][i]]
       /\ layout[b][i].bytes <= capacities[b][i]
  /\ \A b \in Batches : deviceInput[b] # NoBlock =>
       /\ inputCapacity[b] = size[deviceInput[b]]
       /\ \A i, j \in DOMAIN layout[b] : offsets[b][i] # NoOffset =>
            /\ offsets[b][i] + layout[b][i].bytes <= inputCapacity[b]
            /\ offsets[b][j] # NoOffset /\ i < j =>
                 offsets[b][i] + layout[b][i].bytes <= offsets[b][j]
  /\ \A m \in Memories : memory[m].owned =>
       memory[m].bytes <= size[memory[m].pointer]

\* While the device executes a batch, everything its kernels touch is its own
\* or a memory bound to it: nothing is spare or freed, or another batch's.  Only
\* after a failed push can a block be left to kernels whose batch is gone.
WorkKeepsItsBlocks ==
  /\ \A b \in inflight : Exists(b) /\
       \A k \in Touches(b) :
         \/ k = deviceInput[b]
         \/ \E i \in DOMAIN layout[b] : BufferBlock(b, i) = k
         \/ \E m \in Memories : MemoryBlock(m) = k /\ InUse(m)
  /\ failures = 0 => stray = {}

\* A batch that may be downloaded or taken from holds the output of its last
\* run, complete and without an error, and the device is done with it, unless
\* one of its blocks (it may have given the block away since) was left to the
\* kernels of a batch that is gone.  A result that was taken is the caller's
\* alone: no batch in flight reaches it but through a buffer that binds it.
ResultsAreTheCallers ==
  /\ \A b \in completed :
       /\ b \notin inflight
       /\ \/ content[b] = "fresh"
          \/ stray # {} /\ b \in detached \cup {who}
          \/ Touches(b) \cap stray # {}
  /\ \A m \in Memories, b \in inflight :
       MemoryBlock(m) \in Touches(b) => InUse(m)
=============================================================================
