--------------------------- MODULE GpuWavesProofs ---------------------------
(***************************************************************************)
(* The safety properties of GpuWaves hold for any streams, plans, number   *)
(* of calls and either backend, as long as a context can be popped         *)
(* (PopMayFail = FALSE).  They follow from IndInv, which every action      *)
(* preserves: one lemma per action below, then the theorems.               *)
(***************************************************************************)
EXTENDS GpuWaves, TLAPS

USE PlansAssumption, MaxCallsAssumption, PopAssumption
USE DEF Waves, Backends, Finishing, Pcs, Kinds, Rank, MAX_WAVE_BATCHES, Programs,
        Program, UsesScratch, WritesScratch, gpuVars, callVars, deviceVars,
        Batch, Owned, WriterAhead

\* A decode call takes its stream. A wave that is not finished first is on it.
LEMMA DecodeStep ==
  ASSUME PopMayFail = FALSE, IndInv, NEW s \in Streams, Decode(s)
  PROVE  IndInv'
<1> USE DEF IndInv
<1>1. TypeOK'
  <2>1. failed' \in BOOLEAN /\ seen' \in BOOLEAN
    BY Zenon DEF Decode
  <2>2. /\ pc' \in Pcs /\ todo' \subseteq Waves
        /\ stream' \in Streams /\ calls' \in Nat
    BY DEF Decode, TypeOK, Other
  <2> QED
    BY <2>1, <2>2 DEF Decode, TypeOK
<1>2. UniqueInv' /\ InflightInv' /\ RunningInv' /\ SeenInv' /\
       FailedCallWaits'
  BY DEF Decode, UniqueInv, InflightInv, RunningInv, SeenInv,
     FailedCallWaits, Overlap, Other
<1>3. OwnedInv'
  BY DEF Decode, OwnedInv, TypeOK, Overlap, Other
<1>4. StreamInv'
  BY DEF Decode, StreamInv, TypeOK, OwnedInv, Overlap, Other
<1>5. HostInv'
  BY DEF Decode, HostInv, TypeOK, OwnedInv, Overlap, Other
<1>6. ScratchInv'
  BY DEF Decode, ScratchInv, TypeOK, Overlap, Other
<1> QED
  BY <1>1, <1>2, <1>3, <1>4, <1>5, <1>6

\* geozl_gpu_synchronize and geozl_gpu_destroy only choose what to finish.
LEMMA SynchronizeStep ==
  ASSUME PopMayFail = FALSE, IndInv, Synchronize
  PROVE  IndInv'
<1> USE DEF IndInv
<1>1. TypeOK'
  <2>1. failed' \in BOOLEAN
    BY Zenon DEF Synchronize, TypeOK, FinishPending
  <2> QED
    BY <2>1 DEF Synchronize, TypeOK, FinishPending
<1>2. UniqueInv' /\ InflightInv' /\ StreamInv' /\ HostInv' /\
       RunningInv' /\ ScratchInv' /\ SeenInv' /\ FailedCallWaits'
  BY DEF Synchronize, UniqueInv, InflightInv, StreamInv, HostInv,
     RunningInv, ScratchInv, SeenInv, FailedCallWaits, FinishPending, Other
<1>3. OwnedInv'
  BY DEF Synchronize, OwnedInv, TypeOK, FinishPending
<1> QED
  BY <1>1, <1>2, <1>3

LEMMA DestroyStep ==
  ASSUME PopMayFail = FALSE, IndInv, Destroy
  PROVE  IndInv'
<1> USE DEF IndInv
<1>1. TypeOK'
  <2>1. failed' \in BOOLEAN
    BY Zenon DEF Destroy, TypeOK, FinishPending
  <2> QED
    BY <2>1 DEF Destroy, TypeOK, FinishPending
<1>2. UniqueInv' /\ InflightInv' /\ StreamInv' /\ HostInv' /\
       RunningInv' /\ ScratchInv' /\ SeenInv' /\ FailedCallWaits'
  BY DEF Destroy, UniqueInv, InflightInv, StreamInv, HostInv, RunningInv,
     ScratchInv, SeenInv, FailedCallWaits, FinishPending, Other
<1>3. OwnedInv'
  BY DEF Destroy, OwnedInv, TypeOK, FinishPending
<1> QED
  BY <1>1, <1>2, <1>3

\* finish_wave destroys one batch: it was waited for, or never reached the
\* device.
LEMMA FinishBatchStep ==
  ASSUME PopMayFail = FALSE, IndInv, FinishBatch
  PROVE  IndInv'
<1> USE DEF IndInv
<1>1. TypeOK'
  <2>1. failed' \in BOOLEAN
    BY Zenon DEF FinishBatch, TypeOK, Finished, Other, Settled, WaitFails
  <2> QED
    BY <2>1 DEF FinishBatch, TypeOK, Finished, Other, Settled, WaitFails
<1>2. UniqueInv' /\ StreamInv' /\ HostInv' /\ RunningInv' /\ ScratchInv'
       /\ FailedCallWaits'
  BY DEF FinishBatch, UniqueInv, StreamInv, HostInv, RunningInv, ScratchInv,
     FailedCallWaits, Finished, Settled, WaitFails, Other
<1>3. OwnedInv'
  BY DEF FinishBatch, OwnedInv, TypeOK, Finished, Other, Settled, WaitFails
<1>4. InflightInv'
  <2>1. PICK b \in batches[Finished] :
          /\ Settled(b)
          /\ batches' = [batches EXCEPT ![Finished] = @ \ {b}]
          /\ queued' = queued \ {b} /\ bad' = bad \ {b}
    BY DEF FinishBatch
  <2>2. Owned' = Owned \ {b}
    <3>1. Finished \in Waves
      BY DEF Finished, Other, TypeOK
    <3>2. \A w \in Waves \ {Finished} : b \notin batches[w]
      BY <2>1, <3>1 DEF OwnedInv
    <3> QED
      BY <2>1, <3>1, <3>2 DEF TypeOK
  <2>3. b \notin inflight
    BY <2>1 DEF FinishBatch, Settled, InflightInv, TypeOK
  <2> QED
    BY <2>1, <2>2, <2>3 DEF FinishBatch, InflightInv
<1>5. SeenInv'
  BY DEF FinishBatch, SeenInv, TypeOK, OwnedInv, InflightInv, Finished,
     Other, Settled, WaitFails
<1> QED
  BY <1>1, <1>2, <1>3, <1>4, <1>5

\* finish_wave leaves an empty wave.
LEMMA FinishWaveStep ==
  ASSUME PopMayFail = FALSE, IndInv, FinishWave
  PROVE  IndInv'
<1> USE DEF IndInv
<1>1. TypeOK'
  BY DEF FinishWave, TypeOK, Finished, Other
<1>2. UniqueInv' /\ InflightInv' /\ StreamInv' /\ RunningInv' /\
       ScratchInv' /\ SeenInv' /\ FailedCallWaits'
  BY DEF FinishWave, UniqueInv, InflightInv, StreamInv, RunningInv,
     ScratchInv, SeenInv, FailedCallWaits, Finished, Other
<1>3. OwnedInv'
  BY DEF FinishWave, OwnedInv, TypeOK, Finished, Other
<1>4. HostInv'
  BY DEF FinishWave, HostInv, TypeOK, Finished, Other
<1> QED
  BY <1>1, <1>2, <1>3, <1>4

\* begin_wave ends with nothing on another stream, or fails with nothing left.
LEMMA BegunStep ==
  ASSUME PopMayFail = FALSE, IndInv, Begun
  PROVE  IndInv'
<1> USE DEF IndInv
<1>1. TypeOK'
  <2>1. failed' \in BOOLEAN
    BY Zenon DEF Begun, TypeOK, FinishPending, Return, Other
  <2> QED
    BY <2>1 DEF Begun, TypeOK, FinishPending, Return, Other
<1>2. UniqueInv' /\ InflightInv' /\ RunningInv' /\ ScratchInv' /\
       SeenInv'
  BY DEF Begun, UniqueInv, InflightInv, RunningInv, ScratchInv, SeenInv,
     FinishPending, Return, Other
<1>3. OwnedInv'
  BY DEF Begun, OwnedInv, TypeOK, FinishPending, Return, Other
<1>4. StreamInv'
  BY DEF Begun, StreamInv, TypeOK, HostInv, FinishPending, Return, Other
<1>5. HostInv'
  BY DEF Begun, HostInv, TypeOK, FinishPending, Return, Other
<1>6. FailedCallWaits'
  BY DEF Begun, FailedCallWaits, TypeOK, OwnedInv, InflightInv, HostInv,
     FinishPending, Return, Other
<1> QED
  BY <1>1, <1>2, <1>3, <1>4, <1>5, <1>6

\* The calls that only finish return with both waves empty.
LEMMA SynchronizedStep ==
  ASSUME PopMayFail = FALSE, IndInv, Synchronized
  PROVE  IndInv'
<1> USE DEF IndInv
<1>1. TypeOK'
  BY DEF Synchronized, TypeOK, Return
<1>2. UniqueInv' /\ InflightInv' /\ StreamInv' /\ HostInv' /\
       RunningInv' /\ ScratchInv' /\ SeenInv'
  BY DEF Synchronized, UniqueInv, InflightInv, StreamInv, HostInv,
     RunningInv, ScratchInv, SeenInv, Return, Other
<1>3. OwnedInv'
  BY DEF Synchronized, OwnedInv, TypeOK, Return
<1>4. FailedCallWaits'
  BY DEF Synchronized, FailedCallWaits, TypeOK, OwnedInv, InflightInv,
     HostInv, Return
<1> QED
  BY <1>1, <1>2, <1>3, <1>4

LEMMA DestroyedStep ==
  ASSUME PopMayFail = FALSE, IndInv, Destroyed
  PROVE  IndInv'
<1> USE DEF IndInv
<1>1. TypeOK'
  BY DEF Destroyed, TypeOK
<1>2. UniqueInv' /\ InflightInv' /\ StreamInv' /\ HostInv' /\
       RunningInv' /\ ScratchInv' /\ SeenInv' /\ FailedCallWaits'
  BY DEF Destroyed, UniqueInv, InflightInv, StreamInv, HostInv, RunningInv,
     ScratchInv, SeenInv, FailedCallWaits, Other
<1>3. OwnedInv'
  BY DEF Destroyed, OwnedInv, TypeOK, HostInv
<1> QED
  BY <1>1, <1>2, <1>3

\* A call that returns early has queued nothing.
LEMMA ReturnEarlyStep ==
  ASSUME PopMayFail = FALSE, IndInv, ReturnEarly
  PROVE  IndInv'
<1> USE DEF IndInv
<1>1. TypeOK'
  BY DEF ReturnEarly, TypeOK, Return
<1>2. UniqueInv' /\ InflightInv' /\ StreamInv' /\ HostInv' /\
       RunningInv' /\ ScratchInv' /\ SeenInv'
  BY DEF ReturnEarly, UniqueInv, InflightInv, StreamInv, HostInv,
     RunningInv, ScratchInv, SeenInv, Return, Other
<1>3. OwnedInv'
  BY DEF ReturnEarly, OwnedInv, TypeOK, Return
<1>4. FailedCallWaits'
  BY DEF ReturnEarly, FailedCallWaits, TypeOK, OwnedInv, InflightInv,
     HostInv, Return
<1> QED
  BY <1>1, <1>2, <1>3, <1>4

\* The staging that is reset belongs to an empty wave.
LEMMA ResetStagingStep ==
  ASSUME PopMayFail = FALSE, IndInv, ResetStaging
  PROVE  IndInv'
<1> USE DEF IndInv
<1>1. TypeOK'
  BY DEF ResetStaging, TypeOK
<1>2. UniqueInv' /\ InflightInv' /\ StreamInv' /\ HostInv' /\
       RunningInv' /\ ScratchInv' /\ SeenInv' /\ FailedCallWaits'
  BY DEF ResetStaging, UniqueInv, InflightInv, StreamInv, HostInv,
     RunningInv, ScratchInv, SeenInv, FailedCallWaits, Other
<1>3. OwnedInv'
  BY DEF ResetStaging, OwnedInv, TypeOK, HostInv
<1> QED
  BY <1>1, <1>2, <1>3

\* Capture and planning touch neither wave.
LEMMA BuildFailsStep ==
  ASSUME PopMayFail = FALSE, IndInv, BuildFails
  PROVE  IndInv'
<1> USE DEF IndInv
<1>1. TypeOK'
  <2>1. failed' \in BOOLEAN
    BY Zenon DEF BuildFails, TypeOK, FinishPending
  <2> QED
    BY <2>1 DEF BuildFails, TypeOK, FinishPending
<1>2. UniqueInv' /\ InflightInv' /\ StreamInv' /\ HostInv' /\
       RunningInv' /\ ScratchInv' /\ SeenInv' /\ FailedCallWaits'
  BY DEF BuildFails, UniqueInv, InflightInv, StreamInv, HostInv, RunningInv,
     ScratchInv, SeenInv, FailedCallWaits, FinishPending, Other
<1>3. OwnedInv'
  BY DEF BuildFails, OwnedInv, TypeOK, FinishPending
<1> QED
  BY <1>1, <1>2, <1>3

LEMMA BuildStep ==
  ASSUME PopMayFail = FALSE, IndInv, NEW p \in Plans, Build(p)
  PROVE  IndInv'
<1> USE DEF IndInv
<1>1. TypeOK'
  <2>1. failed' \in BOOLEAN
    BY Zenon DEF Build, TypeOK, FinishPending, IsPlan
  <2> QED
    BY <2>1 DEF Build, TypeOK, FinishPending, IsPlan
<1>2. UniqueInv' /\ InflightInv' /\ StreamInv' /\ HostInv' /\
       RunningInv' /\ ScratchInv' /\ SeenInv' /\ FailedCallWaits'
  BY DEF Build, UniqueInv, InflightInv, StreamInv, HostInv, RunningInv,
     ScratchInv, SeenInv, FailedCallWaits, FinishPending, IsPlan, Other
<1>3. OwnedInv'
  BY DEF Build, OwnedInv, TypeOK, FinishPending, IsPlan
<1> QED
  BY <1>1, <1>2, <1>3

\* The scratch is replaced when no batch is left that could use it.
LEMMA ReplaceScratchStep ==
  ASSUME PopMayFail = FALSE, IndInv, ReplaceScratch
  PROVE  IndInv'
<1> USE DEF IndInv
<1>1. TypeOK'
  <2>1. failed' \in BOOLEAN
    BY Zenon DEF ReplaceScratch, TypeOK, FinishPending, Grown
  <2> QED
    BY <2>1 DEF ReplaceScratch, TypeOK, FinishPending, Grown
<1>2. UniqueInv' /\ InflightInv' /\ StreamInv' /\ RunningInv' /\
       ScratchInv' /\ SeenInv' /\ FailedCallWaits'
  BY DEF ReplaceScratch, UniqueInv, InflightInv, StreamInv, RunningInv,
     ScratchInv, SeenInv, FailedCallWaits, FinishPending, Grown
<1>3. OwnedInv'
  BY DEF ReplaceScratch, OwnedInv, TypeOK, HostInv, FinishPending, Grown
<1>4. HostInv'
  BY DEF ReplaceScratch, HostInv, TypeOK, FinishPending, Grown, Other
<1> QED
  BY <1>1, <1>2, <1>3, <1>4

\* The wave takes hold of the target before any batch is queued.
LEMMA WrapTargetStep ==
  ASSUME PopMayFail = FALSE, IndInv, WrapTarget
  PROVE  IndInv'
<1> USE DEF IndInv
<1>1. TypeOK'
  <2>1. failed' \in BOOLEAN
    BY Zenon DEF WrapTarget, TypeOK, FinishPending
  <2>2. target' \in [Waves -> BOOLEAN]
    <3>1. CASE target' = [target EXCEPT ![wave] = TRUE]
      BY <3>1, Zenon DEF TypeOK
    <3>2. CASE UNCHANGED target
      BY <3>2 DEF TypeOK
    <3> QED
      BY <3>1, <3>2 DEF WrapTarget
  <2>3. pc' \in Pcs /\ todo' \subseteq Waves
    BY DEF WrapTarget, TypeOK, FinishPending
  <2> QED
    BY <2>1, <2>2, <2>3 DEF WrapTarget, TypeOK
<1>2. UniqueInv' /\ InflightInv' /\ StreamInv' /\ RunningInv' /\
       SeenInv' /\ FailedCallWaits'
  BY DEF WrapTarget, UniqueInv, InflightInv, StreamInv, RunningInv, SeenInv,
     FailedCallWaits, FinishPending, IsPlan
<1>3. OwnedInv'
  BY DEF WrapTarget, OwnedInv, TypeOK, FinishPending, IsPlan
<1>4. HostInv'
  BY DEF WrapTarget, HostInv, TypeOK, OwnedInv, FinishPending, IsPlan, Other
<1>5. ScratchInv'
  BY DEF WrapTarget, ScratchInv, TypeOK, HostInv, FinishPending, IsPlan
<1> QED
  BY <1>1, <1>2, <1>3, <1>4, <1>5

\* A new batch is younger than every other, on the stream of all of them, and the
\* writers of the scratch it reads are ahead of it.
LEMMA QueueBatchStep ==
  ASSUME PopMayFail = FALSE, IndInv, NEW k \in Kinds, QueueBatch(k)
  PROVE  IndInv'
<1> USE DEF IndInv
<1>1. TypeOK'
  <2>1. failed' \in BOOLEAN
    BY Zenon DEF QueueBatch, TypeOK, FinishPending, NextKind, NewBatch
  <2>2. batchCount' \in [Waves -> 0 .. MAX_WAVE_BATCHES]
    BY DEF QueueBatch, TypeOK, OwnedInv, HostInv, FinishPending, NextKind
  <2> QED
    BY <2>1, <2>2 DEF QueueBatch, TypeOK, FinishPending, NextKind, NewBatch
<1>2. SeenInv' /\ FailedCallWaits'
  BY DEF QueueBatch, SeenInv, FailedCallWaits, FinishPending, NextKind,
     NewBatch
<1>3. OwnedInv'
  BY DEF QueueBatch, OwnedInv, TypeOK, HostInv, FinishPending, NextKind,
     NewBatch
<1>4. UniqueInv'
  BY DEF QueueBatch, UniqueInv, TypeOK, HostInv, FinishPending, NextKind,
     NewBatch
<1>5. InflightInv'
  BY DEF QueueBatch, InflightInv, TypeOK, HostInv, FinishPending, NextKind,
     NewBatch
<1>6. StreamInv'
  BY DEF QueueBatch, StreamInv, TypeOK, FinishPending, NextKind, NewBatch
<1>7. HostInv'
  BY DEF QueueBatch, HostInv, TypeOK, FinishPending, NextKind, NewBatch,
     Other
<1>8. RunningInv'
  BY DEF QueueBatch, RunningInv, TypeOK, OwnedInv, InflightInv, HostInv,
     FinishPending, NextKind, NewBatch
<1>9. ScratchInv'
  <2>0. PICK nb : nb = NewBatch(k)
    OBVIOUS
  <2>1. nb \in Batch /\ nb.call = calls /\ nb.kind = k /\ nb.direct = plan.direct
        /\ nb.id = MAX_WAVE_BATCHES * calls + Rank(k)
    BY <2>0 DEF NewBatch, TypeOK
  <2>2. CASE pc' = "fail" /\ UNCHANGED <<inflight, running, scratchOwner, calls>>
    BY <2>2 DEF ScratchInv
  <2>3. CASE /\ inflight' = inflight \cup {nb}
             /\ plan' = [plan EXCEPT !.kinds = @ \ {k}]
             /\ UNCHANGED <<running, scratchOwner, calls>>
    <3>1. nb \notin running
      BY <2>1 DEF QueueBatch, NextKind, HostInv, InflightInv, TypeOK
    <3>2. \A call, id : WriterAhead(call, id) => WriterAhead(call, id)'
      BY <2>3
    <3>3. UsesScratch(nb.kind, nb.direct) => WriterAhead(nb.call, nb.id)'
      <4>1. CASE WritesScratch(nb.kind, nb.direct)
        BY <2>1, <2>3, <3>1, <4>1 DEF TypeOK
      <4>2. CASE k = "device"
        <5>1. plan.kinds \cap {"pfor", "pivco"} = {}
          BY <4>2 DEF QueueBatch, NextKind
        <5>2. WriterAhead(calls, MAX_WAVE_BATCHES * calls + 1)
          BY <4>2, <5>1 DEF QueueBatch, NextKind, ScratchInv
        <5>3. \A c \in inflight : c.id \in Nat
          BY DEF TypeOK
        <5> QED
          BY <2>1, <2>3, <4>2, <5>2, <5>3 DEF TypeOK
      <4> QED
        BY <2>1, <4>1, <4>2
    <3>4. ASSUME "device" \in plan'.kinds, plan'.kinds \cap {"pfor", "pivco"} = {}
          PROVE  WriterAhead(calls, MAX_WAVE_BATCHES * calls + 1)'
      <4>1. "device" \in plan.kinds /\ ~plan.direct /\ k # "device"
        BY <2>3, <3>4 DEF QueueBatch, ScratchInv, TypeOK
      <4>2. CASE k \in {"pfor", "pivco"}
        BY <2>1, <2>3, <3>1, <4>1, <4>2 DEF TypeOK
      <4>3. CASE k \notin {"pfor", "pivco"}
        <5>1. plan.kinds \cap {"pfor", "pivco"} = {}
          BY <2>3, <3>4, <4>3 DEF TypeOK
        <5>2. WriterAhead(calls, MAX_WAVE_BATCHES * calls + 1)
          BY <4>1, <5>1 DEF QueueBatch, ScratchInv
        <5> QED
          BY <2>3, <3>2, <5>2
      <4> QED
        BY <4>2, <4>3
    <3>5. pc' \in {"queue", "metalWait"} /\ "device" \in plan'.kinds
            => ~plan'.direct
      BY <2>3 DEF QueueBatch, ScratchInv, TypeOK
    <3>6. \A b \in inflight' : scratchOwner' <= b.call
      BY <2>1, <2>3 DEF ScratchInv
    <3>7. \A b \in inflight' :
            UsesScratch(b.kind, b.direct) => WriterAhead(b.call, b.id)'
      BY <2>3, <3>2, <3>3 DEF ScratchInv
    <3> QED
      BY <2>3, <3>4, <3>5, <3>6, <3>7 DEF ScratchInv
  <2> QED
    BY <2>0, <2>2, <2>3 DEF QueueBatch, FinishPending
<1> QED
  BY <1>1, <1>2, <1>3, <1>4, <1>5, <1>6, <1>7, <1>8, <1>9

\* A partial enqueue fails with its stream drained.
LEMMA StreamSyncStep ==
  ASSUME PopMayFail = FALSE, IndInv, StreamSync
  PROVE  IndInv'
<1> USE DEF IndInv
<1>1. TypeOK'
  <2>1. failed' \in BOOLEAN
    BY Zenon DEF StreamSync, TypeOK, FinishPending
  <2> QED
    BY <2>1 DEF StreamSync, TypeOK, FinishPending
<1>2. UniqueInv' /\ InflightInv' /\ StreamInv' /\ HostInv' /\
       RunningInv' /\ ScratchInv' /\ SeenInv' /\ FailedCallWaits'
  BY DEF StreamSync, UniqueInv, InflightInv, StreamInv, HostInv, RunningInv,
     ScratchInv, SeenInv, FailedCallWaits, FinishPending, Other
<1>3. OwnedInv'
  BY DEF StreamSync, OwnedInv, TypeOK, FinishPending
<1> QED
  BY <1>1, <1>2, <1>3

\* Metal's enqueue ends with its batch finished.
LEMMA MetalWaitStep ==
  ASSUME PopMayFail = FALSE, IndInv, MetalWait
  PROVE  IndInv'
<1> USE DEF IndInv
<1>1. TypeOK'
  <2>1. failed' \in BOOLEAN
    BY Zenon DEF MetalWait, TypeOK, FinishPending
  <2>2. PICK b \in batches[wave] :
          IF b \in bad
            THEN FinishPending("fail") /\ UNCHANGED queued
            ELSE /\ queued' = queued \cup {b}
                 /\ pc' = "queue"
                 /\ UNCHANGED todo
    BY DEF MetalWait
  <2>3. b \in Batch
    BY DEF TypeOK
  <2>4. queued' \subseteq Batch
    BY <2>2, <2>3 DEF TypeOK
  <2>5. pc' \in Pcs /\ todo' \subseteq Waves
    BY <2>2 DEF TypeOK, FinishPending, Pcs, Finishing
  <2> QED
    BY <2>1, <2>4, <2>5 DEF MetalWait, TypeOK
<1>2. UniqueInv' /\ StreamInv' /\ RunningInv' /\ ScratchInv' /\ SeenInv'
       /\ FailedCallWaits'
  BY DEF MetalWait, UniqueInv, StreamInv, RunningInv, ScratchInv, SeenInv,
     FailedCallWaits, FinishPending
<1>3. OwnedInv'
  BY DEF MetalWait, OwnedInv, TypeOK, FinishPending
<1>4. InflightInv'
  <2>1. PICK b \in batches[wave] \ queued :
           /\ b \notin inflight
           /\ IF b \in bad
                THEN FinishPending("fail") /\ UNCHANGED queued
                ELSE /\ queued' = queued \cup {b}
                     /\ pc' = "queue"
    BY DEF MetalWait
  <2>2. b \in Owned /\ \A c \in Owned : c \in queued \/ c = b
    BY DEF TypeOK, InflightInv, Owned, MetalWait, Waves
  <2>3. CASE b \in bad
    BY <2>1, <2>2, <2>3 DEF MetalWait, InflightInv, FinishPending, Owned
  <2>4. CASE b \notin bad
    BY <2>1, <2>2, <2>4 DEF MetalWait, InflightInv, Owned
  <2> QED
    BY <2>3, <2>4
<1>5. HostInv'
  BY DEF MetalWait, HostInv, TypeOK, FinishPending, Other
<1> QED
  BY <1>1, <1>2, <1>3, <1>4, <1>5

\* A decode call returns.
LEMMA DecodeReturnsStep ==
  ASSUME PopMayFail = FALSE, IndInv, DecodeReturns
  PROVE  IndInv'
<1> USE DEF IndInv
<1>1. TypeOK'
  BY DEF DecodeReturns, TypeOK, Return
<1>2. UniqueInv' /\ InflightInv' /\ StreamInv' /\ HostInv' /\
       RunningInv' /\ ScratchInv' /\ SeenInv' /\ FailedCallWaits'
  BY DEF DecodeReturns, UniqueInv, InflightInv, StreamInv, HostInv,
     RunningInv, ScratchInv, SeenInv, FailedCallWaits, Return, Other
<1>3. OwnedInv'
  BY DEF DecodeReturns, OwnedInv, TypeOK, Return
<1> QED
  BY <1>1, <1>2, <1>3

LEMMA DecodeFailsStep ==
  ASSUME PopMayFail = FALSE, IndInv, DecodeFails
  PROVE  IndInv'
<1> USE DEF IndInv
<1>1. TypeOK'
  BY DEF DecodeFails, TypeOK, Return
<1>2. UniqueInv' /\ StreamInv' /\ HostInv' /\ RunningInv' /\ ScratchInv'
       /\ SeenInv'
  BY DEF DecodeFails, UniqueInv, StreamInv, HostInv, RunningInv, ScratchInv,
     SeenInv, Return, Other
<1>3. OwnedInv'
  BY DEF DecodeFails, OwnedInv, TypeOK, Return
<1>4. InflightInv'
  BY DEF DecodeFails, InflightInv, HostInv, TypeOK, Return
<1>5. FailedCallWaits'
  BY DEF DecodeFails, FailedCallWaits, TypeOK, OwnedInv, InflightInv,
     HostInv, Return
<1> QED
  BY <1>1, <1>2, <1>3, <1>4, <1>5

\* The device starts the oldest batch of the only stream in use.
LEMMA StartStep ==
  ASSUME PopMayFail = FALSE, IndInv, NEW b0 \in inflight, Start(b0)
  PROVE  IndInv'
<1> USE DEF IndInv
<1>1. TypeOK'
  BY DEF Start, TypeOK
<1>2. UniqueInv' /\ InflightInv' /\ StreamInv' /\ SeenInv' /\
       FailedCallWaits'
  BY DEF Start, UniqueInv, InflightInv, StreamInv, SeenInv, FailedCallWaits
<1>3. OwnedInv'
  BY DEF Start, OwnedInv, TypeOK
<1>4. HostInv'
  BY DEF Start, HostInv, Other
<1>5. RunningInv'
  BY DEF Start, RunningInv, TypeOK, OwnedInv, UniqueInv, InflightInv,
     StreamInv, HostInv
<1>6. ScratchInv'
  BY DEF Start, ScratchInv, TypeOK, OwnedInv, UniqueInv, InflightInv,
     StreamInv, HostInv
<1> QED
  BY <1>1, <1>2, <1>3, <1>4, <1>5, <1>6

\* The device finishes a batch.
LEMMA CompleteStep ==
  ASSUME PopMayFail = FALSE, IndInv, NEW b0 \in inflight, Complete(b0)
  PROVE  IndInv'
<1> USE DEF IndInv
<1>1. TypeOK'
  BY DEF Complete, TypeOK
<1>2. UniqueInv' /\ InflightInv' /\ StreamInv' /\ RunningInv' /\
       ScratchInv' /\ SeenInv' /\ FailedCallWaits'
  BY DEF Complete, UniqueInv, InflightInv, StreamInv, RunningInv,
     ScratchInv, SeenInv, FailedCallWaits
<1>3. OwnedInv'
  BY DEF Complete, OwnedInv, TypeOK
<1>4. HostInv'
  BY DEF Complete, HostInv, Other
<1> QED
  BY <1>1, <1>2, <1>3, <1>4
-----------------------------------------------------------------------------
\* Every state the decoder reaches satisfies IndInv.
LEMMA Invariance ==
  ASSUME PopMayFail = FALSE
  PROVE  Spec => []IndInv
<1>1. Init => IndInv
  <2> SUFFICES ASSUME Init PROVE IndInv
    OBVIOUS
  <2>1. TypeOK
    <3>1. failed \in BOOLEAN /\ seen \in BOOLEAN
      BY Zenon DEF Init
    <3>2. target \in [Waves -> BOOLEAN]
      BY Zenon DEF Init
    <3>3. plan \in [kinds : SUBSET Kinds, direct : BOOLEAN, bytes : Nat]
      BY DEF Init, NoPlan
    <3> QED
      BY <3>1, <3>2, <3>3 DEF Init, TypeOK
  <2>2. OwnedInv /\ UniqueInv /\ InflightInv /\ StreamInv
    BY DEF Init, OwnedInv, UniqueInv, InflightInv, StreamInv
  <2>3. HostInv /\ RunningInv /\ ScratchInv /\ FailedCallWaits
    BY DEF Init, HostInv, RunningInv, ScratchInv, FailedCallWaits
  <2>4. SeenInv
    BY DEF Init, SeenInv
  <2> QED
    BY <2>1, <2>2, <2>3, <2>4 DEF IndInv
<1>2. IndInv /\ [Next]_vars => IndInv'
  <2> SUFFICES ASSUME IndInv, [Next]_vars PROVE IndInv'
    OBVIOUS
  <2>1. CASE Call
    BY <2>1, DecodeStep, SynchronizeStep, DestroyStep DEF Call
  <2>2. CASE HostStep
    BY <2>2, FinishBatchStep, FinishWaveStep, BegunStep, SynchronizedStep,
       DestroyedStep, ReturnEarlyStep, ResetStagingStep, BuildFailsStep,
       BuildStep, ReplaceScratchStep, WrapTargetStep, QueueBatchStep,
       StreamSyncStep, MetalWaitStep, DecodeReturnsStep, DecodeFailsStep
       DEF HostStep
  <2>3. CASE DeviceStep
    BY <2>3, StartStep, CompleteStep DEF DeviceStep
  <2>4. CASE UNCHANGED vars
    BY <2>4 DEF vars, IndInv, TypeOK, OwnedInv, UniqueInv, InflightInv,
       StreamInv, HostInv, RunningInv, ScratchInv, SeenInv, FailedCallWaits,
       Other
  <2> QED
    BY <2>1, <2>2, <2>3, <2>4 DEF Next, Gone
<1> QED
  BY <1>1, <1>2, PTL DEF Spec

\* The decoder's variables keep their types.
THEOREM TypeCorrect ==
  ASSUME PopMayFail = FALSE
  PROVE  Spec => []TypeOK
<1>1. IndInv => TypeOK
  BY DEF IndInv
<1> QED
  BY <1>1, Invariance, PTL

\* Staging, scratch, target and device buffers outlive the work that uses them.
THEOREM MemoryOutlivesWork ==
  ASSUME PopMayFail = FALSE
  PROVE  Spec => []NoUseAfterRelease
<1>1. IndInv => NoUseAfterRelease
  BY DEF IndInv, NoUseAfterRelease, InflightInv, OwnedInv, TypeOK
<1> QED
  BY <1>1, Invariance, PTL

\* Batches of one program never mix their parameters, whichever streams the
\* caller names.
THEOREM CallsDoNotMix ==
  ASSUME PopMayFail = FALSE
  PROVE  Spec => []OwnParameters
<1>1. IndInv => OwnParameters
  BY DEF IndInv, OwnParameters, RunningInv
<1> QED
  BY <1>1, Invariance, PTL

\* Calls never mix their samples in the scratch that they share.
THEOREM ScratchIsOwn ==
  ASSUME PopMayFail = FALSE
  PROVE  Spec => []OwnScratch
<1>1. IndInv => OwnScratch
  BY DEF IndInv, OwnScratch, RunningInv, ScratchInv
<1> QED
  BY <1>1, Invariance, PTL

\* A failed decode call leaves none of its work on the device.
THEOREM FailedCallLeavesNothing ==
  ASSUME PopMayFail = FALSE
  PROVE  Spec => []FailedCallWaits
<1>1. IndInv => FailedCallWaits
  BY DEF IndInv
<1> QED
  BY <1>1, Invariance, PTL

-----------------------------------------------------------------------------
\* The batches of a wave stay those of one call.
LEMMA CallInvariance ==
  ASSUME PopMayFail = FALSE
  PROVE  Spec => []CallInv
<1>1. Init => CallInv
  BY DEF Init, CallInv
<1>2. IndInv /\ CallInv /\ [Next]_vars => CallInv'
  <2> SUFFICES ASSUME IndInv, CallInv, [Next]_vars PROVE CallInv'
    OBVIOUS
  <2> USE DEF CallInv
  <2>1. ASSUME UNCHANGED <<batches, wave>>,
               pc' \in {"queue", "streamSync", "metalWait"}
                 => calls' = calls /\ pc \in {"queue", "streamSync", "metalWait"}
        PROVE  CallInv'
    BY <2>1
  <2>2. CASE Call
    BY <2>1, <2>2 DEF Call, Decode, Synchronize, Destroy, FinishPending
  <2>3. CASE FinishBatch
    <3>1. Finished \in Waves
      BY DEF IndInv, TypeOK, Finished, Other
    <3>2. \A w \in Waves : batches'[w] \subseteq batches[w]
      BY <2>3, <3>1 DEF FinishBatch, IndInv, TypeOK
    <3>3. pc' \notin {"queue", "streamSync", "metalWait"}
      BY <2>3 DEF FinishBatch
    <3> QED
      BY <3>2, <3>3
  <2>4. CASE FinishWave \/ Synchronized \/ Destroyed
    BY <2>1, <2>4 DEF FinishWave, Synchronized, Destroyed, Return
  <2>5. CASE Begun
    <3>1. batches' = batches /\ pc' \notin {"queue", "streamSync", "metalWait"}
      BY <2>5 DEF Begun, FinishPending, Return
    <3> QED
      BY <3>1
  <2>6. CASE ReturnEarly \/ ResetStaging \/ BuildFails \/ ReplaceScratch
    BY <2>1, <2>6 DEF ReturnEarly, ResetStaging, BuildFails, ReplaceScratch,
       Return, FinishPending
  <2>7. ASSUME NEW p \in Plans, Build(p) PROVE CallInv'
    BY <2>1, <2>7 DEF Build, FinishPending
  <2>8. CASE WrapTarget
    <3>1. batches[wave] = {} /\ wave' = wave /\ batches' = batches
      BY <2>8 DEF WrapTarget, IndInv, HostInv
    <3> QED
      BY <3>1
  <2>9. ASSUME NEW k \in Kinds, QueueBatch(k) PROVE CallInv'
    <3>1. PICK nb : nb = NewBatch(k)
      OBVIOUS
    <3>2. nb.call = calls
      BY <3>1 DEF NewBatch
    <3>3. batches' = [batches EXCEPT ![wave] = @ \cup {nb}] \/ batches' = batches
      BY <2>9, <3>1 DEF QueueBatch
    <3>4. wave' = wave /\ calls' = calls /\ pc = "queue" /\ wave \in Waves
      BY <2>9 DEF QueueBatch, IndInv, TypeOK
    <3>5. /\ \A b \in batches'[wave] : b.call = calls
          /\ \A w \in Waves \ {wave} : batches'[w] = batches[w]
      BY <3>2, <3>3, <3>4 DEF IndInv, TypeOK
    <3> QED
      BY <3>4, <3>5
  <2>10. CASE StreamSync \/ MetalWait \/ DecodeReturns \/ DecodeFails
    BY <2>1, <2>10 DEF StreamSync, MetalWait, DecodeReturns, DecodeFails,
       FinishPending, Return
  <2>11. CASE DeviceStep
    BY <2>1, <2>11 DEF DeviceStep, Start, Complete, callVars, gpuVars
  <2>12. CASE UNCHANGED vars
    BY <2>1, <2>12 DEF vars
  <2> QED
    BY <2>2, <2>3, <2>4, <2>5, <2>6, <2>7, <2>8, <2>9, <2>10, <2>11, <2>12
       DEF Next, HostStep, Gone
<1> QED
  BY <1>1, <1>2, Invariance, PTL DEF Spec

\* When every wave is finished nothing is pending and nothing is broken.
LEMMA NothingLeft ==
  ASSUME IndInv, pc \in Finishing \ {"begin"}, todo = {}
  PROVE  inflight = {} /\ bad = {}
<1>1. Owned = {}
  BY DEF IndInv, HostInv
<1> QED
  BY <1>1 DEF IndInv, InflightInv

\* Steps that no caller can see.
LEMMA Unseen ==
  ASSUME UNCHANGED <<backend, calls, inflight, bad, seen, result>>,
         CallState' = CallState
  PROVE  UNCHANGED Contract!vars
BY DEF Contract!vars

\* A step of the device is one of the contract.
LEMMA DeviceKeepsContract ==
  ASSUME IndInv, NEW b \in inflight, Start(b) \/ Complete(b)
  PROVE  Contract!Work \/ UNCHANGED Contract!vars
<1> DEFINE Pending == {c.call : c \in inflight}
           Broken == {c.call : c \in bad}
<1>1. CASE Start(b)
  BY <1>1, Unseen DEF Start, CallState
<1>2. CASE Complete(b)
  <2>1. \A c \in inflight : b.id <= c.id
    BY <1>2 DEF Complete, IndInv, RunningInv
  <2>2. \A c \in inflight : c \in Batch /\ c.id = 5 * c.call + Rank(c.kind)
    BY DEF IndInv, TypeOK, InflightInv, OwnedInv
  <2>3. \A c \in inflight : Rank(c.kind) \in 0 .. 4 /\ c.call \in Nat
    BY <2>2
  <2>4. \A c \in inflight : b.call <= c.call
    BY <2>1, <2>2, <2>3
  <2>5. b.call \in Pending /\ \A n \in Pending : b.call <= n
    BY <2>4
  <2>6. Pending' \in {Pending, Pending \ {b.call}}
    BY <1>2 DEF Complete
  <2>7. Broken' \in {Broken, Broken \cup {b.call}}
    BY <1>2 DEF Complete
  <2>8. UNCHANGED <<backend, CallState, calls, seen, result>>
    BY <1>2 DEF Complete, CallState
  <2> QED
    BY <2>5, <2>6, <2>7, <2>8 DEF Contract!Work
<1> QED
  BY <1>1, <1>2

\* finish_wave waits for the batch it destroys, so the caller sees at most that
\* a failure was found.
LEMMA FinishBatchKeepsContract ==
  ASSUME IndInv, FinishBatch
  PROVE  Contract!Find \/ UNCHANGED Contract!vars
<1>1. PICK b \in batches[Finished] :
        /\ seen' = (seen \/ b \in bad)
        /\ bad' = bad \ {b}
  BY DEF FinishBatch
<1>2. UNCHANGED <<backend, calls, inflight, result, pc>> /\ pc \in Finishing
  BY DEF FinishBatch
<1>3. CallState' = CallState /\ CallState \in {"decode", "synchronize", "destroy"}
  BY <1>2 DEF CallState
<1>4. CASE b \in bad
  <2>1. seen' = TRUE
    BY <1>1, <1>4
  <2> QED
    BY <1>1, <1>2, <1>3, <1>4, <2>1 DEF Contract!Find
<1>5. CASE b \notin bad
  <2>1. bad' = bad
    BY <1>1, <1>5
  <2>2. seen' = seen
    <3>1. seen \in BOOLEAN
      BY DEF IndInv, TypeOK
    <3> QED
      BY <1>1, <1>5, <3>1, Zenon
  <2> QED
    BY <1>2, <1>3, <2>1, <2>2, Unseen
<1> QED
  BY <1>4, <1>5

\* A batch that reaches the device is the call's work; the only other call with
\* work there is the one of the other wave.
LEMMA QueueKeepsContract ==
  ASSUME IndInv, CallInv, NEW k \in Kinds, QueueBatch(k)
  PROVE  Contract!Submit \/ UNCHANGED Contract!vars
<1>0. PICK nb : nb = NewBatch(k)
  OBVIOUS
<1>1. nb.call = calls
  BY <1>0 DEF NewBatch
<1>2. /\ UNCHANGED <<backend, calls, seen, result, bad>>
      /\ pc = "queue" /\ pc' \in {"fail", "queue", "metalWait", "streamSync"}
  BY DEF QueueBatch, FinishPending
<1>3. CallState' = CallState /\ CallState = "decode"
  BY <1>2 DEF CallState
<1>4. CASE inflight' = inflight
  BY <1>2, <1>3, <1>4, Unseen
<1>5. CASE inflight' = inflight \cup {nb}
  <2>1. \A b \in inflight : b \in batches[wave] \/ b \in batches[Other]
    BY DEF IndInv, InflightInv, TypeOK, Other
  <2>2. \A b \in batches[wave] : b.call = calls
    BY <1>2 DEF CallInv
  <2>3. PICK earlier \in 0 .. calls : \A b \in batches[Other] : b.call = earlier
    <3>1. Other \in Waves
      BY DEF IndInv, TypeOK, Other
    <3>2. CASE batches[Other] = {}
      BY <3>2 DEF IndInv, TypeOK
    <3>3. CASE batches[Other] # {}
      <4>1. PICK b0 \in batches[Other] : TRUE
        BY <3>3
      <4>2. b0.call \in 0 .. calls
        BY <3>1, <4>1 DEF IndInv, TypeOK, OwnedInv
      <4>3. \A b \in batches[Other] : b.call = b0.call
        BY <3>1, <4>1 DEF CallInv
      <4> QED
        BY <4>2, <4>3
    <3> QED
      BY <3>2, <3>3
  <2>4. {b.call : b \in inflight} \subseteq {earlier, calls}
    BY <2>1, <2>2, <2>3
  <2>5. {b.call : b \in inflight}' = {b.call : b \in inflight} \cup {calls}
    BY <1>1, <1>5
  <2> QED
    BY <1>2, <1>3, <2>4, <2>5 DEF Contract!Submit
<1> QED
  BY <1>0, <1>4, <1>5 DEF QueueBatch

\* A decode call that returns does so as the contract allows.
LEMMA ReturnKeepsContract ==
  ASSUME IndInv, PopMayFail = FALSE,
         ReturnEarly \/ DecodeReturns \/ DecodeFails
           \/ (Begun /\ pc' = "idle")
  PROVE  Contract!DecodeReturns
<1>1. /\ UNCHANGED <<backend, calls, inflight, bad, seen>>
      /\ pc' = "idle" /\ result' \in {0, 1}
      /\ pc \in {"validate", "queue", "fail", "beginAll", "beginFail"}
  BY DEF ReturnEarly, DecodeReturns, DecodeFails, Begun, Return, FinishPending
<1>2. CallState = "decode" /\ CallState' = "idle"
  BY <1>1 DEF CallState
<1>3. seen => result' = 1
  BY DEF IndInv, SeenInv, ReturnEarly, DecodeReturns, DecodeFails, Begun,
     Return, FinishPending
<1>4. CASE pc \in {"validate", "queue"}
  <2>1. result' = 1 => \A b \in inflight : b.call # calls
    BY <1>4 DEF IndInv, HostInv, InflightInv, TypeOK, OwnedInv, ReturnEarly,
       DecodeReturns, DecodeFails, Begun, Return
  <2>2. backend = "metal" => inflight = {} /\ bad = {}
    BY <1>4 DEF IndInv, InflightInv
  <2> QED
    BY <1>1, <1>2, <1>3, <2>1, <2>2 DEF Contract!DecodeReturns
<1>5. CASE pc \in {"fail", "beginAll", "beginFail"}
  <2>1. todo = {}
    BY <1>5 DEF ReturnEarly, DecodeReturns, DecodeFails, Begun
  <2>2. inflight = {} /\ bad = {}
    BY <1>5, <2>1, NothingLeft
  <2> QED
    BY <1>1, <1>2, <1>3, <2>2 DEF Contract!DecodeReturns
<1> QED
  BY <1>1, <1>4, <1>5

\* geozl_gpu_synchronize and geozl_gpu_destroy return with the device idle and
\* every failure reported.
LEMMA DrainKeepsContract ==
  ASSUME IndInv, Synchronized \/ Destroyed
  PROVE  Contract!SynchronizeReturns \/ Contract!DestroyReturns
<1>1. inflight = {} /\ bad = {}
  BY NothingLeft DEF Synchronized, Destroyed
<1>2. CASE Synchronized
  <2>1. seen => result' = 1
    BY <1>2 DEF Synchronized, Return, IndInv, SeenInv
  <2>2. /\ CallState = "synchronize" /\ CallState' = "idle"
        /\ result' \in {0, 1}
        /\ UNCHANGED <<backend, calls, inflight, bad, seen>>
    BY <1>2 DEF Synchronized, Return, CallState
  <2> QED
    BY <1>1, <2>1, <2>2 DEF Contract!SynchronizeReturns
<1>3. CASE Destroyed
  <2>1. /\ CallState = "destroy" /\ CallState' = "gone"
        /\ UNCHANGED <<backend, calls, inflight, bad, seen, result>>
    BY <1>3 DEF Destroyed, CallState
  <2> QED
    BY <1>1, <2>1 DEF Contract!DestroyReturns
<1> QED
  BY <1>2, <1>3

\* A call begins.
LEMMA CallKeepsContract ==
  ASSUME IndInv, Call
  PROVE  Contract!Decode \/ Contract!Synchronize
<1>1. CASE \E s \in Streams : Decode(s)
  <2>1. /\ CallState = "idle" /\ CallState' = "decode" /\ calls' = calls + 1
        /\ UNCHANGED <<backend, inflight, bad, result>>
    BY <1>1 DEF Decode, CallState
  <2>2. seen' = FALSE
    BY <1>1 DEF Decode
  <2> QED
    BY <2>1, <2>2 DEF Contract!Decode
<1>2. CASE Synchronize \/ Destroy
  <2>1. /\ CallState = "idle" /\ CallState' \in {"synchronize", "destroy"}
        /\ UNCHANGED <<backend, calls, inflight, bad, result>>
    BY <1>2 DEF Synchronize, Destroy, FinishPending, CallState
  <2>2. seen' = FALSE
    BY <1>2 DEF Synchronize, Destroy
  <2> QED
    BY <2>1, <2>2 DEF Contract!Synchronize
<1> QED
  BY <1>1, <1>2 DEF Call

\* The other steps of a decode call move waves, staging and scratch only.
LEMMA HostUnseen ==
  ASSUME IndInv,
         FinishWave \/ (Begun /\ pc' # "idle") \/ ResetStaging \/ BuildFails
           \/ (\E p \in Plans : Build(p)) \/ ReplaceScratch \/ WrapTarget
           \/ StreamSync \/ MetalWait
  PROVE  UNCHANGED Contract!vars
<1>1. UNCHANGED <<backend, calls, inflight, bad, seen>>
  BY DEF FinishWave, Begun, ResetStaging, BuildFails, Build, ReplaceScratch,
     WrapTarget, StreamSync, MetalWait
<1>2. UNCHANGED result
  BY DEF FinishWave, Begun, ResetStaging, BuildFails, Build, ReplaceScratch,
     WrapTarget, StreamSync, MetalWait, Return
<1>3. CallState' = CallState
  BY DEF FinishWave, Begun, ResetStaging, BuildFails, Build, ReplaceScratch,
     WrapTarget, StreamSync, MetalWait, Return, FinishPending, CallState
<1> QED
  BY <1>1, <1>2, <1>3, Unseen

\* The decoder implements its contract: whatever its waves, arenas and scratch
\* do, a caller sees only the calls, the pending work and the failures that
\* DecoderContract allows.
THEOREM ImplementsContract ==
  ASSUME PopMayFail = FALSE
  PROVE  Spec => KeepsContract
<1>1. Init => Contract!Init
  BY DEF Init, Contract!Init, CallState
<1>2. IndInv /\ CallInv /\ [Next]_vars => [Contract!Next]_(Contract!vars)
  <2> SUFFICES ASSUME IndInv, CallInv, [Next]_vars
               PROVE  Contract!Next \/ UNCHANGED Contract!vars
    OBVIOUS
  <2>1. CASE Call
    BY <2>1, CallKeepsContract DEF Contract!Next
  <2>2. CASE HostStep
    <3>1. CASE FinishBatch
      BY <3>1, FinishBatchKeepsContract DEF Contract!Next
    <3>2. CASE \E k \in Kinds : QueueBatch(k)
      BY <3>2, QueueKeepsContract DEF Contract!Next
    <3>3. CASE ReturnEarly \/ DecodeReturns \/ DecodeFails
                 \/ (Begun /\ pc' = "idle")
      BY <3>3, ReturnKeepsContract DEF Contract!Next
    <3>4. CASE Synchronized \/ Destroyed
      BY <3>4, DrainKeepsContract DEF Contract!Next
    <3>5. CASE FinishWave \/ (Begun /\ pc' # "idle") \/ ResetStaging
                 \/ BuildFails \/ (\E p \in Plans : Build(p))
                 \/ ReplaceScratch \/ WrapTarget \/ StreamSync \/ MetalWait
      BY <3>5, HostUnseen
    <3> QED
      BY <2>2, <3>1, <3>2, <3>3, <3>4, <3>5 DEF HostStep
  <2>3. CASE DeviceStep
    BY <2>3, DeviceKeepsContract DEF DeviceStep, Contract!Next
  <2>4. CASE UNCHANGED vars
    BY <2>4, Unseen DEF vars, CallState
  <2> QED
    BY <2>1, <2>2, <2>3, <2>4 DEF Next, Gone
<1> QED
  BY <1>1, <1>2, Invariance, CallInvariance, PTL
     DEF Spec, KeepsContract, Contract!Spec
=============================================================================
