---------------------------- MODULE StagingArena ----------------------------
(***************************************************************************)
(* The bump allocator over pinned staging that a wave keeps between decode *)
(* calls (core/src/gpu/staging_arena.c).  A batch is what one call         *)
(* allocates between two resets.  An address is a chunk and an offset in   *)
(* it; the host can pin a chunk up to a size, and the chunks share one     *)
(* address space.                                                          *)
(***************************************************************************)
EXTENDS Naturals, Sequences, FiniteSets

CONSTANTS
  SizeMax,        \* SIZE_MAX
  Alignment,      \* GEOZL_GPU_STAGING_ALIGNMENT
  MinChunk,       \* MIN_CHUNK
  MaxChunks,      \* GEOZL_GPU_ARENA_CHUNKS
  PinLimits,      \* hosts, by the largest chunk they can pin
  Requests,       \* sizes callers ask for
  MaxBatches,     \* bound: number of resets
  MaxAllocs       \* bound: allocations in a batch

ASSUME ArenaAssumption ==
  /\ SizeMax \in Nat /\ Alignment \in Nat \ {0}
  /\ MinChunk \in 1 .. SizeMax
  /\ MaxChunks \in Nat \ {0} /\ PinLimits \subseteq Nat
  /\ Requests \subseteq Nat /\ MaxBatches \in Nat
  /\ MaxAllocs \in Nat

VARIABLES
  pinLimit,  \* largest chunk this host can pin
  chunks,    \* sequence of [capacity, used]
  reserve,   \* capacity the next chunk should have
  allocs,    \* what this batch was handed: [chunk, from, bytes]
  total,     \* staging this batch uses
  largest,   \* staging of the largest batch so far
  strikes,   \* consecutive failures of requests the host could have pinned
  resets,
  alive      \* not yet destroyed

arenaVars ==
  <<pinLimit, chunks, reserve, allocs, total, largest, strikes, resets, alive>>

ArenaInit ==
  /\ pinLimit \in PinLimits
  /\ chunks = <<>> /\ reserve = 0
  /\ allocs = {} /\ total = 0 /\ largest = 0 /\ strikes = 0 /\ resets = 0
  /\ alive = TRUE

-----------------------------------------------------------------------------
Larger(a, b) == IF a >= b THEN a ELSE b

\* (bytes + mask) & ~mask in a size_t.
RoundUp(bytes) ==
  (((bytes + Alignment - 1) % (SizeMax + 1)) \div Alignment) * Alignment

\* Mutant: a size that wraps when it is rounded up is let through.
ValidAnySize(bytes) == bytes # 0

Valid(bytes) == bytes # 0 /\ bytes <= SizeMax - (Alignment - 1)

\* v + v / n, or v where that would wrap.
Headroom(v, n) == IF v <= SizeMax - v \div n THEN v + v \div n ELSE v

Tip == chunks[Len(chunks)]

\* Mutant: the whole chunk is compared, not what is left of it.
FitsIgnoringUsed(size) == chunks # <<>> /\ size <= Tip.capacity

Fits(size) == chunks # <<>> /\ size <= Tip.capacity - Tip.used

\* Capacity asked of a new chunk.
Wanted(size) == Larger(Larger(Headroom(size, 4), reserve), MinChunk)

\* The sum of a sequence of sizes.
Total(s) ==
  LET upTo[i \in 0 .. Len(s)] == IF i = 0 THEN 0 ELSE upTo[i - 1] + s[i] IN
  upTo[Len(s)]

Capacities == [i \in DOMAIN chunks |-> chunks[i].capacity]

Pins(capacity) ==
  capacity <= pinLimit /\ Total(Capacities) + capacity <= SizeMax

\* Capacity the new chunk gets, 0 when no staging can be created: a large
\* request is tried again at its own size.
Created(size) ==
  IF Pins(Wanted(size)) THEN Wanted(size)
  ELSE IF Wanted(size) > size /\ size >= MinChunk /\ Pins(size) THEN size
  ELSE 0

\* Mutant: one chunk more than the array holds.
FullLate == Len(chunks) > MaxChunks

\* The arena has no further chunk.
Full == Len(chunks) = MaxChunks

Hand(chunk, from, bytes, size) ==
  /\ allocs' = allocs \cup {[chunk |-> chunk, from |-> from, bytes |-> bytes]}
  /\ total' = total + size
  /\ strikes' = 0

\* geozl_gpu_arena_alloc from the last chunk.
Bump(bytes) ==
  LET size == RoundUp(bytes) IN
  /\ Valid(bytes) /\ Fits(size)
  /\ Hand(Len(chunks), Tip.used, bytes, size)
  /\ chunks' = [chunks EXCEPT ![Len(chunks)].used = @ + size]
  /\ UNCHANGED <<reserve, largest, resets, alive>>

\* geozl_gpu_arena_alloc with a chunk of its own.
Grow(bytes) ==
  LET size == RoundUp(bytes) IN
  /\ Valid(bytes) /\ ~Fits(size) /\ ~Full
  /\ Created(size) # 0
  /\ Hand(Len(chunks) + 1, 0, bytes, size)
  /\ chunks' = Append(chunks, [capacity |-> Created(size), used |-> size])
  /\ reserve' = 0
  /\ UNCHANGED <<largest, resets, alive>>

\* A request the host could pin a chunk for, headroom included.
Pinnable(size) == Pins(Headroom(size, 4)) /\ Pins(MinChunk)

\* Mutant: a reserve that cannot be pinned stays for the next request.
GrowFailsKeepingReserve(bytes) ==
  LET size == RoundUp(bytes) IN
  /\ Valid(bytes) /\ ~Fits(size) /\ ~Full
  /\ Created(size) = 0
  /\ strikes' = IF Pinnable(size) THEN strikes + 1 ELSE strikes
  /\ UNCHANGED <<chunks, reserve, allocs, total, largest, resets, alive>>

\* geozl_gpu_arena_alloc without staging for a new chunk.
GrowFails(bytes) ==
  LET size == RoundUp(bytes) IN
  /\ Valid(bytes) /\ ~Fits(size) /\ ~Full
  /\ Created(size) = 0
  /\ reserve' = 0
  /\ strikes' = IF Pinnable(size) THEN strikes + 1 ELSE strikes
  /\ UNCHANGED <<chunks, allocs, total, largest, resets, alive>>

\* An invalid size, or a seventeenth chunk.
Refuse(bytes) ==
  /\ \/ ~Valid(bytes)
     \/ ~Fits(RoundUp(bytes)) /\ Full
  /\ UNCHANGED arenaVars

UsedSizes == [i \in DOMAIN chunks |-> chunks[i].used]

Used == Total(UsedSizes)

\* Mutant: the chunks are merged without the last one.
ResetForgettingLast ==
  /\ alive /\ resets < MaxBatches
  /\ resets' = resets + 1
  /\ IF Len(chunks) < 2
       THEN /\ chunks' = [i \in DOMAIN chunks |->
                            [chunks[i] EXCEPT !.used = 0]]
            /\ UNCHANGED reserve
       ELSE /\ chunks' = <<>>
            /\ reserve' = Headroom(Used - Tip.used, 8)
  /\ allocs' = {} /\ total' = 0
  /\ largest' = Larger(largest, total)
  /\ UNCHANGED <<strikes, alive>>

\* geozl_gpu_arena_reset: one chunk is kept, more are merged into a reserve.
Reset ==
  /\ alive /\ resets < MaxBatches
  /\ resets' = resets + 1
  /\ IF Len(chunks) < 2
       THEN /\ chunks' = [i \in DOMAIN chunks |->
                            [chunks[i] EXCEPT !.used = 0]]
            /\ UNCHANGED reserve
       ELSE /\ chunks' = <<>>
            /\ reserve' = Headroom(Used, 8)
  /\ allocs' = {} /\ total' = 0
  /\ largest' = Larger(largest, total)
  /\ UNCHANGED <<strikes, alive>>

Alloc(bytes) ==
  /\ alive /\ Cardinality(allocs) < MaxAllocs
  /\ Bump(bytes) \/ Grow(bytes) \/ GrowFails(bytes) \/ Refuse(bytes)

\* geozl_gpu_arena_destroy.
Destroy ==
  /\ alive /\ alive' = FALSE
  /\ chunks' = <<>> /\ allocs' = {}
  /\ UNCHANGED <<reserve, total, largest, strikes, resets>>

Gone == ~alive /\ UNCHANGED arenaVars

ArenaNext ==
  /\ Reset \/ (\E bytes \in Requests : Alloc(bytes)) \/ Destroy \/ Gone
  /\ UNCHANGED pinLimit

ArenaSpec == ArenaInit /\ [][ArenaNext]_arenaVars

-----------------------------------------------------------------------------
Chunk == [capacity : Nat, used : Nat]
Allocation == [chunk : Nat, from : Nat, bytes : Nat]

\* Every variable stays in its range, the chunks in their array.
ArenaTypeOK ==
  /\ pinLimit \in PinLimits
  /\ chunks \in Seq(Chunk)
  /\ Len(chunks) <= MaxChunks
  /\ reserve \in Nat
  /\ allocs \subseteq Allocation
  /\ total \in Nat /\ largest \in Nat /\ strikes \in Nat /\ resets \in Nat
  /\ alive \in BOOLEAN

\* A multiple of the alignment.
Aligned(n) == \E k \in 0 .. n : n = k * Alignment

\* Everything handed to one batch is aligned, inside the used part of a chunk of
\* the arena's array and disjoint from everything else the batch was handed, so
\* the frame threads may fill their staging at the same time.
AllocsSeparate ==
  /\ \A a \in allocs :
       /\ a.chunk \in 1 .. Len(chunks) /\ a.chunk <= MaxChunks
       /\ Aligned(a.from)
       /\ a.from + a.bytes <= chunks[a.chunk].used
       /\ chunks[a.chunk].used <= chunks[a.chunk].capacity
  /\ \A a, b \in allocs :
       \/ a = b
       \/ a.chunk # b.chunk
       \/ a.from + a.bytes <= b.from
       \/ b.from + b.bytes <= a.from

\* "The arena keeps its largest batch's staging until it is destroyed": while
\* the host can pin everything, the first chunk (or the reserve for it) holds
\* the largest batch, so only a batch larger than all before needs a second
\* chunk.
LargestKept ==
  pinLimit >= SizeMax /\ alive =>
    /\ chunks = <<>> => reserve >= largest
    /\ chunks # <<>> => chunks[1].capacity >= largest
    /\ Len(chunks) > 1 => total > largest

\* "A reserve the host cannot pin must not fail every later call": of two
\* consecutive requests that fit the host, at most one fails.
ReserveFailsOnce == strikes <= 1
=============================================================================
