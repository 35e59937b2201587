-------------------------- MODULE DecoderContract --------------------------
(***************************************************************************)
(* What a caller of geozl_gpu_decode, geozl_gpu_synchronize and            *)
(* geozl_gpu_destroy may rely on (core/include/geozl/gpu.h).  Waves,       *)
(* batches, streams and the scratch do not appear: a call either runs or   *)
(* has returned, its work is pending until the device has done all of it,  *)
(* and work that failed is broken until some call has found it.  GpuWaves  *)
(* implements this specification.                                          *)
(***************************************************************************)
EXTENDS Naturals

VARIABLES
  backend,   \* "cuda" or "metal"
  state,     \* "idle", "decode", "synchronize", "destroy" or "gone"
  calls,     \* number of decode calls so far, the name of the last one
  pending,   \* calls with work on the device
  broken,    \* calls with work that failed and that no call has found yet
  found,     \* has the call in progress found work that failed?
  result     \* what the last call returned, 0 for success

vars == <<backend, state, calls, pending, broken, found, result>>

Init ==
  /\ backend \in {"cuda", "metal"}
  /\ state = "idle" /\ calls = 0 /\ result = 0
  /\ pending = {} /\ broken = {} /\ found = FALSE

-----------------------------------------------------------------------------
Decode ==
  /\ state = "idle"
  /\ state' = "decode"
  /\ calls' = calls + 1
  /\ found' = FALSE
  /\ UNCHANGED <<backend, pending, broken, result>>

Synchronize ==
  /\ state = "idle"
  /\ state' \in {"synchronize", "destroy"}
  /\ found' = FALSE
  /\ UNCHANGED <<backend, calls, pending, broken, result>>

\* A decode call hands work to the device: at most one earlier call still has
\* work there.
Submit ==
  /\ state = "decode"
  /\ \E earlier \in 0 .. calls : pending \subseteq {earlier, calls}
  /\ pending' = pending \cup {calls}
  /\ UNCHANGED <<backend, state, calls, broken, found, result>>

\* The device works in the order of the calls: only the oldest call with
\* pending work can end, or break.
Work ==
  /\ \E n \in pending :
       /\ \A m \in pending : n <= m
       /\ pending' \in {pending, pending \ {n}}
       /\ broken' \in {broken, broken \cup {n}}
  /\ UNCHANGED <<backend, state, calls, found, result>>

\* A call comes across work that failed; it need not be its own.
Find ==
  /\ state \in {"decode", "synchronize", "destroy"}
  /\ broken # {} /\ broken' \subseteq broken
  /\ found' = TRUE
  /\ UNCHANGED <<backend, state, calls, pending, result>>

\* A decode call that fails leaves none of its own work behind, one that found
\* failed work fails, and Metal leaves nothing behind at all.
DecodeReturns ==
  /\ state = "decode"
  /\ state' = "idle" /\ result' \in {0, 1}
  /\ found => result' = 1
  /\ result' = 1 => calls \notin pending
  /\ backend = "metal" => pending = {} /\ broken = {}
  /\ UNCHANGED <<backend, calls, pending, broken, found>>

\* After synchronize nothing is pending, and nothing that failed is unreported.
SynchronizeReturns ==
  /\ state = "synchronize"
  /\ state' = "idle" /\ result' \in {0, 1}
  /\ found => result' = 1
  /\ pending = {} /\ broken = {}
  /\ UNCHANGED <<backend, calls, pending, broken, found>>

\* A decoder goes only when the device is done with it.
DestroyReturns ==
  /\ state = "destroy"
  /\ state' = "gone"
  /\ pending = {} /\ broken = {}
  /\ UNCHANGED <<backend, calls, pending, broken, found, result>>

Next ==
  \/ Decode \/ Synchronize \/ Submit \/ Work \/ Find
  \/ DecodeReturns \/ SynchronizeReturns \/ DestroyReturns

Spec == Init /\ [][Next]_vars
=============================================================================
