------------------------------ MODULE GpuWaves ------------------------------
(***************************************************************************)
(* The asynchronous life of a GeozlGpu (core/src/gpu/decode.c): the two    *)
(* waves whose batches may be in flight at once, their staging arenas, the *)
(* shared device scratch and the caller's streams.  The host runs one call *)
(* at a time; the device runs beside it and executes each stream in order. *)
(* A call is split at every point where the host can block on the device.  *)
(*                                                                         *)
(* What a frame contains is abstract: a plan says which batches the call   *)
(* queues and how much scratch they need.                                  *)
(***************************************************************************)
EXTENDS Naturals

CONSTANTS
  Streams,      \* the stream handles a caller passes in target->stream
  Plans,        \* what the calls may have to queue, see IsPlan
  MaxCalls,     \* bound: number of decode calls
  PopMayFail    \* may cuCtxPopCurrent fail after work was queued?

Waves == {0, 1}

Backends == {"cuda", "metal"}

\* The batches of one decode call, queued in the order of Rank: the PFOR and
\* PivCo kernels, then one placement per source of samples.
Kinds == {"pfor", "pivco", "device", "host", "fallback"}

Rank(k) ==
  CASE k = "pfor"     -> 0
    [] k = "pivco"    -> 1
    [] k = "device"   -> 2
    [] k = "host"     -> 3
    [] k = "fallback" -> 4

MAX_WAVE_BATCHES == 5

\* The program a batch runs: its module holds the parameters of one batch.
Programs == {"pfor", "pivco", "place"}
Program(k) == IF k \in {"pfor", "pivco"} THEN k ELSE "place"

\* Direct frames leave the scratch alone, but for the temporary of PivCo.
UsesScratch(k, direct) ==
  \/ k = "pfor" /\ ~direct
  \/ k \in {"pivco", "device"}

WritesScratch(k, direct) == UsesScratch(k, direct) /\ k # "device"

\* deviceBytes is zero exactly when no batch touches the scratch; a copy
\* either is direct or belongs to a source.
IsPlan(p) ==
  /\ p \in [kinds : SUBSET Kinds, direct : BOOLEAN, bytes : Nat]
  /\ p.bytes # 0 <=> \E k \in p.kinds : UsesScratch(k, p.direct)
  /\ "device" \in p.kinds =>
       ~p.direct /\ p.kinds \cap {"pfor", "pivco"} # {}
  /\ p.kinds # {}

ASSUME PlansAssumption == \A p \in Plans : IsPlan(p)
ASSUME MaxCallsAssumption == MaxCalls \in Nat
ASSUME PopAssumption == PopMayFail \in BOOLEAN

VARIABLES
  \* The GeozlGpu
  backend,       \* what it was created for
  wave,          \* index of the current wave
  stream,        \* stream of the last call
  batches,       \* wave -> the batches it owns
  batchCount,    \* wave -> entries of its array in use
  target,        \* wave -> whether it holds the wrapped target
  epoch,         \* wave -> how often its staging arena was reset
  scratchGen,    \* which scratch allocation is alive
  scratchBytes,  \* its size, 0 when there is none
  queued,        \* batches whose queued flag is set
  \* The call in progress
  pc,            \* where the host is
  todo,          \* waves that finish_wave has still to finish
  failed,        \* result of the finishing so far
  plan,          \* what the call has still to queue
  calls,         \* number of decode calls so far, the name of the last one
  result,        \* what the last call returned
  seen,          \* did this call drop a batch whose kernels failed?
  \* The device
  inflight,      \* batches submitted to a stream and not finished
  running,       \* those whose parameters are uploaded
  bad,           \* finished batches whose kernels failed
  params,        \* program -> id of the batch its module parameters name
  scratchOwner   \* call whose batch last wrote the scratch

gpuVars == <<backend, wave, stream, batches, batchCount, target, epoch,
             scratchGen, scratchBytes, queued>>
callVars == <<pc, todo, failed, plan, calls, result, seen>>
deviceVars == <<inflight, running, bad, params, scratchOwner>>
vars == <<gpuVars, callVars, deviceVars>>

Other == 1 - wave

\* Places where the host runs finish_wave over the waves of todo.
Finishing ==
  {"begin", "beginAll", "beginFail", "scratch", "fail", "sync", "destroy"}

Pcs == Finishing \cup
  {"idle", "validate", "build", "wrap", "queue", "streamSync", "metalWait",
   "dead"}

Batch ==
  [id : Nat, call : Nat, wave : Waves, stream : Streams, kind : Kinds,
   direct : BOOLEAN, epoch : Nat, gen : Nat, bytes : Nat]

NoPlan == [kinds |-> {}, direct |-> FALSE, bytes |-> 0]

-----------------------------------------------------------------------------
Init ==
  /\ backend \in Backends
  /\ wave = 0
  /\ stream \in Streams
  /\ batches = [w \in Waves |-> {}]
  /\ batchCount = [w \in Waves |-> 0]
  /\ target = [w \in Waves |-> FALSE]
  /\ epoch = [w \in Waves |-> 0]
  /\ scratchGen = 0 /\ scratchBytes = 0
  /\ queued = {}
  /\ pc = "idle" /\ todo = {} /\ failed = FALSE /\ plan = NoPlan
  /\ calls = 0 /\ result = 0 /\ seen = FALSE
  /\ inflight = {} /\ running = {} /\ bad = {}
  /\ params = [p \in Programs |-> 0]
  /\ scratchOwner = 0

Return(r) ==
  /\ pc' = "idle"
  /\ result' = r

\* Mutant: only the current wave is finished.
FinishCurrent(where) ==
  /\ pc' = where
  /\ todo' = {wave}
  /\ failed' = FALSE

\* finish_pending: finish the other wave, then the current one.
FinishPending(where) ==
  /\ pc' = where
  /\ todo' = Waves
  /\ failed' = FALSE

-----------------------------------------------------------------------------
(* begin_wave, finish_wave, finish_pending                                 *)

\* Mutants: the stream is not compared; the wrong wave is looked at.
OverlapAnyStream(s) == backend = "cuda"
OverlapOtherWave(s) ==
  backend = "cuda" /\ (batchCount[Other] = 0 \/ s = stream)

\* A wave may stay in flight behind the new one only on the same stream.
Overlap(s) == backend = "cuda" /\ (batchCount[wave] = 0 \/ s = stream)

\* geozl_gpu_decode_ex up to the first wait of begin_wave.
Decode(s) ==
  /\ pc = "idle"
  /\ calls < MaxCalls
  /\ pc' = IF Overlap(s) THEN "begin" ELSE "beginAll"
  /\ todo' = IF Overlap(s) THEN {Other} ELSE Waves
  /\ stream' = s
  /\ failed' = FALSE /\ seen' = FALSE
  /\ calls' = calls + 1
  /\ UNCHANGED <<backend, wave, batches, batchCount, target, epoch, scratchGen,
                 scratchBytes, queued, plan, result, deviceVars>>

Synchronize ==
  /\ pc = "idle"
  /\ FinishPending("sync")
  /\ seen' = FALSE
  /\ UNCHANGED <<gpuVars, plan, calls, result, deviceVars>>

Destroy ==
  /\ pc = "idle"
  /\ FinishPending("destroy")
  /\ seen' = FALSE
  /\ UNCHANGED <<gpuVars, plan, calls, result, deviceVars>>

\* The wave finish_wave works on: the other one comes first.
Finished == IF Other \in todo THEN Other ELSE wave

\* Mutants: batches are destroyed without a wait; a batch that was never queued
\* is waited for.
SettledAlways(b) == b \in Batch
SettledQueued(b) == b \in queued /\ b \notin inflight

\* cuda_batch_wait blocks until the batch's done event, metal_batch_wait does
\* nothing; a batch that was never marked queued is not waited for, by
\* batch_wait nor by batch_destroy.
Settled(b) == backend = "cuda" /\ b \in queued => b \notin inflight

\* Mutant: the result of the done event is dropped.
WaitFailsUnqueued(b) == b \notin queued

\* batch_wait refuses a batch that is not queued; cuda_batch_wait reports
\* failed kernels, metal_batch_wait never fails.
WaitFails(b) == b \notin queued \/ (backend = "cuda" /\ b \in bad)

\* One turn of finish_wave's loop: wait, then destroy.  After a driver error in
\* the wait batch_destroy waits again.
FinishBatch ==
  /\ pc \in Finishing /\ todo # {}
  /\ \E b \in batches[Finished], driverError \in {FALSE, backend = "cuda"} :
       /\ \A c \in batches[Finished] : b.id <= c.id
       /\ Settled(b)
       /\ failed' = (failed \/ WaitFails(b) \/ driverError)
       /\ seen' = (seen \/ b \in bad)
       /\ batches' = [batches EXCEPT ![Finished] = @ \ {b}]
       /\ queued' = queued \ {b}
       /\ bad' = bad \ {b}
  /\ UNCHANGED <<backend, wave, stream, batchCount, target, epoch, scratchGen,
                 scratchBytes, pc, todo, plan, calls, result, inflight,
                 running, params, scratchOwner>>

\* Mutant: batchCount survives the wave.
FinishWaveKeepsCount ==
  /\ pc \in Finishing /\ todo # {}
  /\ batches[Finished] = {}
  /\ target' = [target EXCEPT ![Finished] = FALSE]
  /\ todo' = todo \ {Finished}
  /\ UNCHANGED <<backend, wave, stream, batches, batchCount, epoch, scratchGen,
                 scratchBytes, queued, pc, failed, plan, calls, result, seen,
                 deviceVars>>

\* The end of finish_wave.
FinishWave ==
  /\ pc \in Finishing /\ todo # {}
  /\ batches[Finished] = {}
  /\ batchCount' = [batchCount EXCEPT ![Finished] = 0]
  /\ target' = [target EXCEPT ![Finished] = FALSE]
  /\ todo' = todo \ {Finished}
  /\ UNCHANGED <<backend, wave, stream, batches, epoch, scratchGen,
                 scratchBytes, queued, pc, failed, plan, calls, result, seen,
                 deviceVars>>

\* The end of begin_wave.
Begun ==
  /\ pc \in {"begin", "beginAll", "beginFail"} /\ todo = {}
  /\ \/ /\ pc = "begin" /\ failed
        /\ FinishPending("beginFail")
        /\ UNCHANGED <<wave, result>>
     \/ /\ pc = "beginFail" \/ (pc = "beginAll" /\ failed)
        /\ Return(1)
        /\ UNCHANGED <<wave, todo, failed>>
     \/ /\ pc # "beginFail" /\ ~failed
        /\ wave' = IF pc = "begin" THEN Other ELSE wave
        /\ pc' = "validate"
        /\ UNCHANGED <<todo, failed, result>>
  /\ UNCHANGED <<backend, stream, batches, batchCount, target, epoch,
                 scratchGen, scratchBytes, queued, plan, calls, seen,
                 deviceVars>>

\* geozl_gpu_synchronize returns what finish_pending reported.
Synchronized ==
  /\ pc = "sync" /\ todo = {}
  /\ Return(IF failed THEN 1 ELSE 0)
  /\ UNCHANGED <<gpuVars, todo, failed, plan, calls, seen, deviceVars>>

\* geozl_gpu_destroy after finish_pending: scratch and arenas go.
Destroyed ==
  /\ pc = "destroy" /\ todo = {}
  /\ pc' = "dead"
  /\ scratchBytes' = 0 /\ scratchGen' = scratchGen + 1
  /\ epoch' = [w \in Waves |-> epoch[w] + 1]
  /\ UNCHANGED <<backend, wave, stream, batches, batchCount, target, queued,
                 todo, failed, plan, calls, result, seen, deviceVars>>

-----------------------------------------------------------------------------
(* geozl_gpu_decode_ex after begin_wave                                    *)

\* Invalid input and a missing program return without finishing anything;
\* so does a call that has nothing to copy.
ReturnEarly ==
  /\ pc = "validate"
  /\ \E r \in {0, 1} : Return(r)
  /\ UNCHANGED <<gpuVars, todo, failed, plan, calls, seen, deviceVars>>

\* geozl_gpu_arena_reset: the current wave's staging is written anew.
ResetStaging ==
  /\ pc = "validate"
  /\ epoch' = [epoch EXCEPT ![wave] = @ + 1]
  /\ pc' = "build"
  /\ UNCHANGED <<backend, wave, stream, batches, batchCount, target,
                 scratchGen, scratchBytes, queued, todo, failed, plan, calls,
                 result, seen, deviceVars>>

\* Any failure while frames are captured, decoded and planned.
BuildFails ==
  /\ pc = "build"
  /\ FinishPending("fail")
  /\ UNCHANGED <<gpuVars, plan, calls, result, seen, deviceVars>>

\* ensure_scratch waits for everything before it replaces the scratch; only
\* CUDA writes targets directly.
Build(p) ==
  /\ pc = "build"
  /\ p.direct => backend = "cuda"
  /\ plan' = p
  /\ IF p.bytes <= scratchBytes
       THEN pc' = "wrap" /\ UNCHANGED <<todo, failed>>
       ELSE FinishPending("scratch")
  /\ UNCHANGED <<gpuVars, calls, result, seen, deviceVars>>

Grown(bytes) == bytes + bytes \div 4

ReplaceScratch ==
  /\ pc = "scratch" /\ todo = {}
  /\ \/ /\ failed
        /\ FinishPending("fail")
        /\ UNCHANGED <<scratchGen, scratchBytes>>
     \/ /\ ~failed
        /\ scratchGen' = scratchGen + 1
        /\ \/ /\ scratchBytes' = Grown(plan.bytes)
              /\ pc' = "wrap"
              /\ UNCHANGED <<todo, failed>>
           \/ /\ scratchBytes' = 0      \* geozl_gpu_memory_create failed
              /\ FinishPending("fail")
  /\ UNCHANGED <<backend, wave, stream, batches, batchCount, target, epoch,
                 queued, plan, calls, result, seen, deviceVars>>

\* Layout of the placements, then geozl_gpu_memory_wrap.
WrapTarget ==
  /\ pc = "wrap"
  /\ \/ /\ target' = [target EXCEPT ![wave] = TRUE]
        /\ pc' = "queue"
        /\ UNCHANGED <<todo, failed>>
     \/ FinishPending("fail") /\ UNCHANGED target
  /\ UNCHANGED <<backend, wave, stream, batches, batchCount, epoch, scratchGen,
                 scratchBytes, queued, plan, calls, result, seen, deviceVars>>

NewBatch(k) ==
  [id |-> MAX_WAVE_BATCHES * calls + Rank(k), call |-> calls, wave |-> wave,
   stream |-> stream, kind |-> k, direct |-> plan.direct,
   epoch |-> epoch[wave], gen |-> scratchGen, bytes |-> plan.bytes]

NextKind(k) == k \in plan.kinds /\ \A l \in plan.kinds : Rank(k) <= Rank(l)

\* queue() with its geozl_gpu_batch_create: nothing is created; or the batch
\* joins the wave and nothing of it reaches the device; or all of it does, and
\* on CUDA the call goes on; or only a part of it does; or all of it does and
\* the context cannot be popped, so enqueue fails and the batch is not queued.
QueueBatch(k) ==
  /\ pc = "queue" /\ NextKind(k)
  /\ \/ /\ FinishPending("fail")                      \* batch is NULL
        /\ UNCHANGED <<batches, batchCount, queued, plan, inflight>>
     \/ /\ batches' = [batches EXCEPT ![wave] = @ \cup {NewBatch(k)}]
        /\ batchCount' = [batchCount EXCEPT ![wave] = @ + 1]
        /\ \/ /\ FinishPending("fail")
              /\ UNCHANGED <<queued, plan, inflight>>
           \/ /\ inflight' = inflight \cup {NewBatch(k)}
              /\ plan' = [plan EXCEPT !.kinds = @ \ {k}]
              /\ \/ /\ backend = "cuda"
                    /\ queued' = queued \cup {NewBatch(k)}
                    /\ UNCHANGED <<pc, todo, failed>>
                 \/ /\ backend = "metal"
                    /\ pc' = "metalWait"
                    /\ UNCHANGED <<queued, todo, failed>>
                 \/ /\ backend = "cuda"
                    /\ pc' = "streamSync"
                    /\ UNCHANGED <<queued, todo, failed>>
                 \/ /\ PopMayFail /\ backend = "cuda"
                    /\ FinishPending("fail")
                    /\ UNCHANGED queued
  /\ UNCHANGED <<backend, wave, stream, target, epoch, scratchGen,
                 scratchBytes, calls, result, seen, running, bad, params,
                 scratchOwner>>

\* Mutant: a partial enqueue returns at once.
StreamSyncSkipped ==
  /\ pc = "streamSync"
  /\ FinishPending("fail")
  /\ UNCHANGED <<gpuVars, plan, calls, result, seen, deviceVars>>

\* A partial enqueue synchronizes the stream before it fails.
StreamSync ==
  /\ pc = "streamSync"
  /\ \A b \in inflight : b.stream # stream
  /\ FinishPending("fail")
  /\ UNCHANGED <<gpuVars, plan, calls, result, seen, deviceVars>>

\* Mutants: the command buffer is committed and not waited for; its status is
\* not looked at.
MetalCommitOnly ==
  /\ pc = "metalWait"
  /\ queued' = queued \cup batches[wave]
  /\ pc' = "queue"
  /\ UNCHANGED <<backend, wave, stream, batches, batchCount, target, epoch,
                 scratchGen, scratchBytes, todo, failed, plan, calls, result,
                 seen, deviceVars>>
MetalIgnoresStatus ==
  (batches[wave] \ queued) \cap inflight = {} /\ MetalCommitOnly

\* metal_batch_enqueue waits for its command buffer.
MetalWait ==
  /\ pc = "metalWait"
  /\ \E b \in batches[wave] \ queued :
       /\ b \notin inflight
       /\ IF b \in bad
            THEN FinishPending("fail") /\ UNCHANGED queued
            ELSE /\ queued' = queued \cup {b}
                 /\ pc' = "queue"
                 /\ UNCHANGED <<todo, failed>>
  /\ UNCHANGED <<backend, wave, stream, batches, batchCount, target, epoch,
                 scratchGen, scratchBytes, plan, calls, result, seen,
                 deviceVars>>

DecodeReturns ==
  /\ pc = "queue" /\ plan.kinds = {}
  /\ Return(0)
  /\ UNCHANGED <<gpuVars, todo, failed, plan, calls, seen, deviceVars>>

\* The done label: a failed call finishes everything, then returns 1.
DecodeFails ==
  /\ pc = "fail" /\ todo = {}
  /\ Return(1)
  /\ UNCHANGED <<gpuVars, todo, failed, plan, calls, seen, deviceVars>>

-----------------------------------------------------------------------------
(* The device: a stream starts its batches one after the other.            *)

\* upload_inputs on the stream, then the kernels begin.
Start(b) ==
  /\ b \in inflight \ running
  /\ \A c \in inflight : c.stream = b.stream => b.id <= c.id
  /\ running' = running \cup {b}
  /\ params' = [params EXCEPT ![Program(b.kind)] = b.id]
  /\ scratchOwner' = IF WritesScratch(b.kind, b.direct) THEN b.call
                                                        ELSE scratchOwner
  /\ UNCHANGED <<gpuVars, callVars, inflight, bad>>

\* The kernels end, or fail: batch_wait will tell.
Complete(b) ==
  /\ b \in running
  /\ inflight' = inflight \ {b}
  /\ running' = running \ {b}
  /\ bad' = bad \/ bad' = bad \cup {b}
  /\ UNCHANGED <<gpuVars, callVars, params, scratchOwner>>

-----------------------------------------------------------------------------
HostStep ==
  \/ FinishBatch \/ FinishWave \/ Begun \/ Synchronized \/ Destroyed
  \/ ReturnEarly \/ ResetStaging \/ BuildFails \/ (\E p \in Plans : Build(p))
  \/ ReplaceScratch \/ WrapTarget \/ (\E k \in Kinds : QueueBatch(k))
  \/ StreamSync \/ MetalWait \/ DecodeReturns \/ DecodeFails

Call == (\E s \in Streams : Decode(s)) \/ Synchronize \/ Destroy

DeviceStep == \E b \in inflight : Start(b) \/ Complete(b)

\* A destroyed decoder accepts no further call.
Gone == pc = "dead" /\ UNCHANGED vars

Next == Call \/ HostStep \/ DeviceStep \/ Gone

Spec == Init /\ [][Next]_vars

\* The host keeps running its call and the device its streams; the caller
\* owes no further call.
FairSpec == Spec /\ WF_vars(HostStep) /\ WF_vars(DeviceStep)

-----------------------------------------------------------------------------
(* Properties                                                              *)

\* Every variable stays in its range; queue() appends without a check, and yet
\* the array of a wave never overflows.
TypeOK ==
  /\ backend \in Backends /\ wave \in Waves /\ stream \in Streams
  /\ batches \in [Waves -> SUBSET Batch]
  /\ batchCount \in [Waves -> 0 .. MAX_WAVE_BATCHES]
  /\ target \in [Waves -> BOOLEAN]
  /\ epoch \in [Waves -> Nat]
  /\ scratchGen \in Nat /\ scratchBytes \in Nat
  /\ queued \subseteq Batch
  /\ pc \in Pcs /\ todo \subseteq Waves /\ failed \in BOOLEAN
  /\ plan \in [kinds : SUBSET Kinds, direct : BOOLEAN, bytes : Nat]
  /\ calls \in Nat /\ result \in {0, 1} /\ seen \in BOOLEAN
  /\ inflight \subseteq Batch /\ running \subseteq inflight
  /\ bad \subseteq Batch
  /\ params \in [Programs -> Nat] /\ scratchOwner \in Nat

\* What a batch in flight reads or writes is still there: its wave has not
\* destroyed it (its device buffers would go to the spares), the wave's staging
\* was not reset, the wrapped target is held, and the scratch it names is the
\* live one and large enough.
NoUseAfterRelease ==
  \A b \in inflight :
    /\ b \in batches[b.wave]
    /\ b.epoch = epoch[b.wave]
    /\ target[b.wave]
    /\ UsesScratch(b.kind, b.direct) =>
         b.gen = scratchGen /\ b.bytes <= scratchBytes

\* Kernels read their buffers from the module-wide parameters of their program,
\* so the parameters of a running batch must not be another batch's.
OwnParameters ==
  \A b \in running : params[Program(b.kind)] = b.id

\* The scratch is shared by every call: while a batch runs on it, the samples
\* in it are those of the batch's own call.
OwnScratch ==
  \A b \in running : UsesScratch(b.kind, b.direct) => scratchOwner = b.call

\* "A failed call still waits for the work it queued before returning."
FailedCallWaits ==
  pc = "idle" /\ result = 1 => \A b \in inflight : b.call # calls

\* The call the caller sees in progress.
CallState ==
  CASE pc = "idle"    -> "idle"
    [] pc = "dead"    -> "gone"
    [] pc = "sync"    -> "synchronize"
    [] pc = "destroy" -> "destroy"
    [] OTHER          -> "decode"

Contract == INSTANCE DecoderContract WITH
  state <- CallState,
  pending <- {b.call : b \in inflight},
  broken <- {b.call : b \in bad},
  found <- seen

\* The decoder does what its header promises, whatever its waves do: a failed
\* call leaves no work behind, no failure is swallowed, outputs are finished in
\* the order of the calls, no more than two calls are ever in flight, Metal
\* finishes before it returns, and synchronize and destroy leave nothing.
KeepsContract == Contract!Spec

\* Every call returns, and the work of every call ends although nobody waits.
CallReturns ==
  /\ pc # "idle" ~> pc \in {"idle", "dead"}
  /\ \A n \in 1 .. MaxCalls :
       n \in {b.call : b \in inflight} ~> n \notin {b.call : b \in inflight}
-----------------------------------------------------------------------------
(* The inductive invariant behind the safety properties; PopMayFail = FALSE. *)

\* All batches of the decoder.
Owned == batches[0] \cup batches[1]

\* A batch is in the set of its wave, its staging is the wave's present one,
\* the wave holds the target, and ids grow with the calls.
OwnedInv ==
  \A w \in Waves :
    /\ \A b \in batches[w] :
         /\ b.wave = w /\ b.epoch = epoch[w]
         /\ b.id = MAX_WAVE_BATCHES * b.call + Rank(b.kind)
         /\ b.call <= calls /\ b.call # 0
         /\ UsesScratch(b.kind, b.direct) =>
              b.gen = scratchGen /\ b.bytes <= scratchBytes
    /\ batches[w] # {} => target[w] /\ batchCount[w] # 0
    /\ batchCount[w] <= MAX_WAVE_BATCHES

\* No two batches have the same id.
UniqueInv == \A b, c \in Owned : b.id = c.id => b = c

\* Work in flight belongs to the decoder and, but for the batch an enqueue is
\* still working on, will be waited for.
InflightInv ==
  /\ inflight \subseteq Owned
  /\ pc \notin {"streamSync", "metalWait"} => inflight \subseteq queued
  /\ pc \notin {"streamSync", "metalWait", "fail"} => Owned \subseteq queued
  /\ pc = "metalWait" => \A b, c \in Owned \ queued : b = c
  /\ backend = "metal" => inflight \cap queued = {}
  /\ \A b \in inflight : b \in queued \/ b.stream = stream
  /\ queued \subseteq Owned
  /\ bad \subseteq Owned
  /\ backend = "metal" => bad \cap queued = {}

\* One stream holds all the work; it is the decoder's unless begin_wave has
\* just taken another and is waiting for the old work.
StreamInv ==
  /\ \A b, c \in Owned : b.stream = c.stream
  /\ pc \notin {"begin", "beginAll", "beginFail"} =>
       \A b \in Owned : b.stream = stream
  /\ pc = "begin" => \A b \in batches[wave] : b.stream = stream

\* What the host has established where it stands.
HostInv ==
  /\ pc \in Finishing =>
       \A w \in Waves \ todo :
         (pc = "begin" /\ w = wave) \/ (batches[w] = {} /\ batchCount[w] = 0)
  /\ pc = "begin" => todo \subseteq {Other}
  /\ pc \in {"validate", "build", "wrap", "scratch"} =>
       batches[wave] = {} /\ batchCount[wave] = 0
  /\ pc \in {"begin", "beginAll", "beginFail", "validate", "build", "wrap",
            "scratch"} => \A b \in Owned : b.call < calls
  /\ pc \in {"scratch", "wrap"} => plan \in Plans
  /\ pc = "wrap" => plan.bytes <= scratchBytes
  /\ pc \in {"queue", "streamSync", "metalWait"} =>
       /\ target[wave]
       /\ plan.bytes <= scratchBytes
       /\ \A k \in plan.kinds : batchCount[wave] <= Rank(k)
       /\ \A k \in plan.kinds, b \in Owned :
            b.id < MAX_WAVE_BATCHES * calls + Rank(k)
  /\ pc \notin {"idle", "sync", "destroy", "dead"} => calls # 0

\* Only the oldest batch in flight runs.
RunningInv ==
  \A b \in running :
    /\ \A c \in inflight : b.id <= c.id
    /\ params[Program(b.kind)] = b.id

\* The scratch belongs to the batch's own call, or a writer of that call is
\* still ahead of it.
WriterAhead(call, id) ==
  \/ scratchOwner = call
  \/ \E c \in inflight \ running :
       c.call = call /\ c.id <= id /\ WritesScratch(c.kind, c.direct)

ScratchInv ==
  /\ scratchOwner <= calls
  /\ \A b \in inflight : scratchOwner <= b.call
  /\ \A b \in inflight :
       UsesScratch(b.kind, b.direct) => WriterAhead(b.call, b.id)
  /\ \A b \in running :
       UsesScratch(b.kind, b.direct) => scratchOwner = b.call
  /\ pc \in {"queue", "metalWait"} /\ "device" \in plan.kinds
       /\ plan.kinds \cap {"pfor", "pivco"} = {} =>
       WriterAhead(calls, MAX_WAVE_BATCHES * calls + 1)
  /\ pc \in {"queue", "metalWait"} /\ "device" \in plan.kinds => ~plan.direct

\* A call that has dropped a failed batch is on its way to return 1.
SeenInv ==
  /\ pc \in {"validate", "build", "wrap", "queue", "streamSync", "metalWait"}
       => ~seen
  /\ pc \in {"begin", "beginAll", "scratch", "sync"} /\ seen => failed
  /\ pc = "idle" /\ seen => result = 1

\* The batches of a wave are those of one call; once the call in progress
\* queues, the current wave is its own.
CallInv ==
  /\ \A w \in Waves : \A b, c \in batches[w] : b.call = c.call
  /\ pc \in {"queue", "streamSync", "metalWait"} =>
       \A b \in batches[wave] : b.call = calls

IndInv ==
  /\ TypeOK /\ OwnedInv /\ UniqueInv /\ InflightInv /\ StreamInv /\ HostInv
  /\ RunningInv /\ ScratchInv /\ SeenInv /\ FailedCallWaits
=============================================================================
