------------------------------ MODULE FramePass ------------------------------
(***************************************************************************)
(* The frame pass of geozl_gpu_decode_ex (core/src/gpu/decode.c): worker   *)
(* threads take frames from a shared counter, decode them on the host or   *)
(* capture them for the device, plan the captured ones at once, and the    *)
(* calling thread then collects what they did in frame order and decides   *)
(* whether the plans made during the capture can be used.                  *)
(*                                                                         *)
(* What a frame's bytes do is a choice: decoding may fail, a capture may   *)
(* succeed, fall back or fail, and a captured header may turn out not to   *)
(* fit.  A worker's turn at a frame is one step but for the error, which   *)
(* it records later under the lock.                                        *)
(***************************************************************************)
EXTENDS Integers, FiniteSets, Folds

CONSTANTS
  FrameCount,
  Samples,       \* frame -> number of samples
  Block,         \* GEOZL_PFOR_BLOCK
  Destination,   \* frame -> its place in the target, when written directly
  MaxThreads     \* gpu->threads, at most one per frame

Frames == 0 .. FrameCount - 1

ASSUME PassAssumption ==
  /\ FrameCount \in Nat \ {0}
  /\ Samples \in [Frames -> Nat \ {0}]
  /\ Block \in Nat \ {0}
  /\ Destination \in [Frames -> Nat]
  /\ MaxThreads \in 1 .. FrameCount

Workers == 0 .. MaxThreads - 1
DeviceRoutes == {"pfor", "pivco"}
Routes == DeviceRoutes \cup {"host", "fallback"}

VARIABLES
  threads,      \* how many workers could be initialised
  threaded,     \* those that run on a thread of their own
  turn,         \* the worker the calling thread runs or joins
  pc,           \* worker -> where it is in run_pass
  hand,         \* worker -> the frame it took
  next,         \* pass->next
  failed,       \* pass->failed
  errorFrame,   \* pass->errorFrame
  planFailed,   \* pass->planFailed
  direct,       \* are device frames decoded straight into the target?
  storage,      \* were pforBlocks and pivcoParts allocated?
  route,        \* frame -> route
  routed,       \* frame -> route before the pass
  planBase,     \* frame -> output base its capture-time plan used
  handled,      \* frame -> how often a worker decoded or captured it
  broken,       \* frames whose decoding or capture failed
  phase         \* of the call: "pass", "collect", "done", "error"

\* What the call decides before the pass.
setup == <<threads, threaded, direct, storage, routed>>

vars == <<setup, turn, pc, hand, next, failed, errorFrame, planFailed, route,
          planBase, handled, broken, phase>>

-----------------------------------------------------------------------------
\* A frame without a capture-time plan.
NoBase == -1

\* Frames before f that `routes` sends to r.
Before(routes, r, f) == {g \in Frames : g < f /\ routes[g] = r}

Blocks(f) == (Samples[f] + Block - 1) \div Block

AnyOf(S) == CHOOSE x \in S : TRUE
SampleTotal(S) == MapThenFoldSet(+, 0, LAMBDA g : Samples[g], AnyOf, S)
BlockTotal(S) == MapThenFoldSet(+, 0, Blocks, AnyOf, S)

\* Where the output of f starts, in samples: at its place in the target, or
\* behind the frames before it on its route.
OutputBase(routes, f) ==
  IF direct THEN Destination[f]
  ELSE SampleTotal(Before(routes, routes[f], f))

\* Where the plan of f starts among the PFOR blocks.
BlockBase(routes, f) == BlockTotal(Before(routes, "pfor", f))

Init ==
  /\ threads \in 0 .. MaxThreads
  /\ threaded \in SUBSET {t \in Workers : t # 0 /\ t < threads}
  /\ turn = 0
  /\ pc = [t \in Workers |-> "take"]
  /\ hand = [t \in Workers |-> 0]
  /\ next = 0 /\ failed = FALSE /\ errorFrame = 0 /\ planFailed = FALSE
  /\ direct \in BOOLEAN /\ storage \in [DeviceRoutes -> BOOLEAN]
  /\ route \in [Frames -> DeviceRoutes \cup {"host"}]
  /\ routed = route
  /\ planBase = [f \in Frames |-> NoBase]
  /\ handled = [f \in Frames |-> 0]
  /\ broken = {}
  /\ phase = IF threads = 0 THEN "error" ELSE "pass"

\* Mutant: only the first worker runs on the calling thread.
RunsFirst(t) == phase = "pass" /\ t < threads /\ (t \in threaded \/ t = 0)

\* A worker without a thread runs on the calling one when its turn comes.
Runs(t) == phase = "pass" /\ t < threads /\ (t \in threaded \/ turn = t)

\* atomic_fetch_add(&pass->next, 1)
Take(t) ==
  /\ Runs(t) /\ pc[t] = "take"
  /\ hand' = [hand EXCEPT ![t] = next]
  /\ next' = next + 1
  /\ pc' = [pc EXCEPT ![t] = "check"]
  /\ UNCHANGED <<setup, turn, failed, errorFrame, planFailed, route, planBase,
                 handled, broken, phase>>

\* Mutant: the last index is taken for a frame.
StopsLate(t) == hand[t] > FrameCount \/ failed

Stops(t) == hand[t] >= FrameCount \/ failed

Check(t) ==
  /\ Runs(t) /\ pc[t] = "check"
  /\ pc' = [pc EXCEPT ![t] = IF Stops(t) THEN "done" ELSE "work"]
  /\ UNCHANGED <<setup, turn, hand, next, failed, errorFrame, planFailed,
                 route, planBase, handled, broken, phase>>

\* The frame's decoder or capture reports an error.
Break(t) ==
  /\ Runs(t) /\ pc[t] = "work"
  /\ handled' = [handled EXCEPT ![hand[t]] = @ + 1]
  /\ broken' = broken \cup {hand[t]}
  /\ pc' = [pc EXCEPT ![t] = "fail"]
  /\ UNCHANGED <<setup, turn, hand, next, failed, errorFrame, planFailed,
                 route, planBase, phase>>

Handle(t) ==
  /\ handled' = [handled EXCEPT ![hand[t]] = @ + 1]
  /\ pc' = [pc EXCEPT ![t] = "take"]
  /\ UNCHANGED <<setup, turn, hand, next, failed, errorFrame, broken, phase>>

\* host_decode into the frame's staging slot.
HostDecode(t) ==
  /\ Runs(t) /\ pc[t] = "work" /\ route[hand[t]] = "host"
  /\ Handle(t)
  /\ UNCHANGED <<planFailed, route, planBase>>

\* capture_frame: the frame falls back, or it is captured and, given storage,
\* planned with the base its route had before the pass.
Capture(t) ==
  LET f == hand[t] IN
  /\ Runs(t) /\ pc[t] = "work" /\ route[f] \in DeviceRoutes
  /\ \/ /\ route' = [route EXCEPT ![f] = "fallback"]
        /\ UNCHANGED <<planFailed, planBase>>
     \/ /\ storage[route[f]]
        /\ planBase' = [planBase EXCEPT ![f] = OutputBase(routed, f)]
        /\ UNCHANGED <<planFailed, route>>
     \/ /\ storage[route[f]]
        /\ planFailed' = TRUE
        /\ UNCHANGED <<planBase, route>>
     \/ /\ ~storage[route[f]]
        /\ UNCHANGED <<planFailed, planBase, route>>
  /\ Handle(t)

\* Mutant: the first error to arrive is kept.
IsErrorFirst(f) == ~failed

IsError(f) == ~failed \/ f < errorFrame

\* fail_frame, under the lock.
FailFrame(t) ==
  /\ Runs(t) /\ pc[t] = "fail"
  /\ errorFrame' = IF IsError(hand[t]) THEN hand[t] ELSE errorFrame
  /\ failed' = TRUE
  /\ pc' = [pc EXCEPT ![t] = "take"]
  /\ UNCHANGED <<setup, turn, hand, next, planFailed, route, planBase, handled,
                 broken, phase>>

\* Mutant: the calling thread joins nobody.
JoinNobody ==
  /\ phase = "pass" /\ pc[0] = "done"
  /\ phase' = IF failed THEN "error" ELSE "collect"
  /\ UNCHANGED <<setup, turn, pc, hand, next, failed, errorFrame, planFailed,
                 route, planBase, handled, broken>>

\* The calling thread joins worker `turn`, or has run it, and goes on.
Join ==
  /\ phase = "pass" /\ pc[turn] = "done"
  /\ turn' = turn + 1
  /\ phase' = IF turn + 1 < threads THEN "pass"
              ELSE IF failed THEN "error" ELSE "collect"
  /\ UNCHANGED <<setup, pc, hand, next, failed, errorFrame, planFailed, route,
                 planBase, handled, broken>>

\* The loops after run_frames: captured frames whose header does not fit fall
\* back too, and every fallback is decoded on this thread.  A fallback that
\* does not decode, or memory that runs out, fails the call.
Collect ==
  /\ phase = "collect"
  /\ \E misfits \in SUBSET {f \in Frames : route[f] \in DeviceRoutes} :
       route' = [f \in Frames |->
                   IF f \in misfits THEN "fallback" ELSE route[f]]
  /\ phase' \in {"done", "error"}
  /\ UNCHANGED <<setup, turn, pc, hand, next, failed, errorFrame, planFailed,
                 planBase, handled, broken>>

Count(routes, r) == Cardinality({f \in Frames : routes[f] = r})

\* Mutant: frames that fell back do not matter.
PlanReadyAlways(r) == ~planFailed /\ storage[r]

\* pforPlanReady, pivcoPlanReady
PlanReady(r) ==
  /\ ~planFailed /\ storage[r]
  /\ Count(route, r) = Count(routed, r)

Ended == phase \in {"done", "error"} /\ UNCHANGED vars

Worker(t) ==
  \/ Take(t) \/ Check(t) \/ Break(t)
  \/ HostDecode(t) \/ Capture(t) \/ FailFrame(t)

Next == (\E t \in Workers : Worker(t)) \/ Join \/ Collect \/ Ended

Spec == Init /\ [][Next]_vars

\* Every thread keeps running.
FairSpec ==
  /\ Spec
  /\ \A t \in Workers : WF_vars(Worker(t))
  /\ WF_vars(Join \/ Collect)

-----------------------------------------------------------------------------
\* The progress of the pass.
ProgressType ==
  /\ threads \in 0 .. MaxThreads /\ threaded \subseteq Workers
  /\ turn \in 0 .. MaxThreads
  /\ pc \in [Workers -> {"take", "check", "work", "fail", "done"}]
  /\ hand \in [Workers -> Nat]
  /\ next \in Nat /\ errorFrame \in Nat
  /\ handled \in [Frames -> Nat] /\ broken \subseteq Frames
  /\ phase \in {"pass", "collect", "done", "error"}

FlagType ==
  /\ failed \in BOOLEAN /\ planFailed \in BOOLEAN /\ direct \in BOOLEAN
  /\ storage \in [DeviceRoutes -> BOOLEAN]

\* The bases a capture-time plan may have used.
Bases == {OutputBase(routed, f) : f \in Frames}

RouteType ==
  /\ route \in [Frames -> Routes] /\ routed \in [Frames -> Routes]
  /\ planBase \in [Frames -> {NoBase} \cup Bases]

\* Every variable stays in its range.
TypeOK == ProgressType /\ FlagType /\ RouteType

\* No frame is decoded or captured twice, and a pass that reports no failure
\* has handled every frame by the time the calling thread collects.
EachFrameOnce ==
  /\ \A f \in Frames : handled[f] <= 1
  /\ phase \in {"collect", "done"} => \A f \in Frames : handled[f] = 1

\* The frame named in the error is the lowest of those that failed, whichever
\* thread reported first; a failed frame is never forgotten.
ErrorIsLowest ==
  phase # "pass" /\ threads # 0 =>
    /\ failed <=> broken # {}
    /\ failed => errorFrame \in broken /\ \A f \in broken : errorFrame <= f

\* Plans made during the capture are used only where they agree with the
\* layout of the collected frames: each frame's plan writes where its frame is
\* placed, and its blocks lie where the device will look for them.
PlansAgree ==
  phase = "done" =>
    \A r \in DeviceRoutes : PlanReady(r) =>
      \A f \in Frames : route[f] = r =>
        /\ planBase[f] = OutputBase(route, f)
        /\ r = "pfor" => BlockBase(routed, f) = BlockBase(route, f)

\* The pass ends, also when threads cannot be created or frames fail.
PassEnds == <>(phase \in {"done", "error"})

-----------------------------------------------------------------------------
(* The inductive invariant behind the safety properties.                   *)

\* A worker that took the frame in its hand and has not handled it.
Holding(t) == pc[t] \in {"check", "work"}

\* A frame in a worker's hand was taken from the counter, by it alone.
HandInv ==
  /\ \A t \in Workers : pc[t] \in {"check", "work", "fail"} => hand[t] < next
  /\ \A t \in Workers : pc[t] = "work" => hand[t] \in Frames
  /\ \A s, t \in Workers :
       Holding(s) /\ Holding(t) /\ hand[s] = hand[t] => s = t

\* A frame in hand, or not yet taken, was not handled.
OnceInv ==
  /\ \A f \in Frames : handled[f] <= 1 /\ (f >= next => handled[f] = 0)
  /\ \A t \in Workers :
       Holding(t) /\ hand[t] \in Frames => handled[hand[t]] = 0

\* Every frame taken is handled, or in a worker's hand, or dropped because the
\* pass failed.
TakenInv ==
  \A f \in Frames :
    \/ f >= next \/ failed \/ handled[f] = 1
    \/ \E t \in Workers : Holding(t) /\ hand[t] = f

\* What the calling thread knows of the workers it has joined.
JoinInv ==
  /\ \A t \in Workers : pc[t] = "done" => failed \/ next >= FrameCount
  /\ \A t \in Workers : t < turn => pc[t] = "done"
  /\ \A t \in Workers : t >= threads => pc[t] = "take"
  /\ IF phase = "pass" THEN turn < threads ELSE turn = threads
  /\ phase \in {"collect", "done"} => ~failed /\ threads # 0

\* A broken frame is on record, or its worker is about to record it.
BrokenInv ==
  /\ \A f \in broken :
       \/ failed /\ errorFrame <= f
       \/ \E t \in Workers : pc[t] = "fail" /\ hand[t] = f
  /\ \A t \in Workers : pc[t] = "fail" => hand[t] \in broken
  /\ failed => errorFrame \in broken

\* Routes only fall back, and what was captured was planned.
PlanInv ==
  /\ \A f \in Frames :
       routed[f] # "fallback" /\ route[f] \in {routed[f], "fallback"}
  /\ \A f \in Frames :
       handled[f] # 0 /\ f \notin broken /\ route[f] \in DeviceRoutes
         /\ storage[route[f]] /\ ~planFailed =>
           planBase[f] = OutputBase(routed, f)

IndInv ==
  /\ TypeOK /\ HandInv /\ OnceInv /\ TakenInv /\ JoinInv /\ BrokenInv
  /\ PlanInv
=============================================================================
