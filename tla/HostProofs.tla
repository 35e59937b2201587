------------------------------ MODULE HostProofs ------------------------------
(***************************************************************************)
(* Proofs about what the host does for a batch: the arena its staging      *)
(* comes from and the pass of the frame threads that fills it.  The two    *)
(* modules share no state and each part cites its own module alone.        *)
(*                                                                         *)
(* StagingArena, for every SIZE_MAX, alignment, minimum chunk, number of   *)
(* chunks, host and sequence of requests.  The invariant says what the     *)
(* three properties leave out: chunks are filled up to their capacity by   *)
(* aligned sizes, whether a request lies in them or not; a reserve waits   *)
(* for a first chunk only, and a request that failed has used it up; what  *)
(* a batch was handed adds up to what its chunks have used, which the      *)
(* address space bounds.  The sums are those of a recursive function, so   *)
(* the first part shows what it computes, by the least length for which a  *)
(* claim would fail.                                                       *)
(*                                                                         *)
(* FramePass, for any number of frames and threads and frames of any size. *)
(* Its properties follow from IndInv: no frame is lost between the counter *)
(* and the workers, no error between a worker and the lock, and a route    *)
(* that changed is seen in the counts.                                     *)
(***************************************************************************)
EXTENDS StagingArena, FramePass, FiniteSetTheorems, TLAPS

-----------------------------------------------------------------------------
(* Sums                                                                    *)

\* A set of numbers has a least one.  Taken of the lengths for which a claim
\* fails, it stands for induction over the length of a sequence.
LEMMA LeastNumber ==
  ASSUME NEW T, T \subseteq Nat, T # {}
  PROVE  \E x \in T : \A y \in T : x <= y
<1> DEFINE Below(n) == 0 .. n
           F == {Below(n) : n \in T}
<1>1. F \subseteq FiniteSubsetsOf(Nat) /\ F # {}
  <2>1. ASSUME NEW n \in T
        PROVE  Below(n) \in SUBSET Nat /\ IsFiniteSet(Below(n))
    BY FS_Interval
  <2> QED
    BY <2>1 DEF FiniteSubsetsOf
<1>2. PICK U \in F : \A V \in F : <<V, U>> \notin StrictSubsetOrdering(Nat)
  BY <1>1, FS_StrictSubsetOrderingWellFounded, WFMin
<1>3. PICK x \in T : U = Below(x)
  OBVIOUS
<1>4. ASSUME NEW y \in T PROVE x <= y
  <2> SUFFICES ASSUME y < x PROVE FALSE
    OBVIOUS
  <2>1. Below(y) \in SUBSET Nat /\ U \in SUBSET Nat /\ Below(y) \subseteq U
    BY <1>3
  <2>2. x \in U /\ x \notin Below(y)
    BY <1>3
  <2> HIDE DEF Below
  <2>3. <<Below(y), U>> \in StrictSubsetOrdering(Nat)
    BY <2>1, <2>2 DEF StrictSubsetOrdering
  <2> QED
    BY <1>2, <2>3
<1> QED
  BY <1>4

\* The running sums of a sequence, which Total takes the last of.
Sums(u, s) == u = [i \in 0 .. Len(s) |-> IF i = 0 THEN 0 ELSE u[i - 1] + s[i]]

\* The sequences of so many sizes.
Sequence(n) == [1 .. n -> Nat]

\* Running sums begin at zero and grow by the next size.
LEMMA SumsFacts ==
  ASSUME NEW n \in Nat, NEW s \in Sequence(n), NEW u
  PROVE  /\ Len(s) = n
         /\ Sums(u, s) <=>
              /\ u = [i \in 0 .. n |-> u[i]]
              /\ u[0] = 0 /\ \A i \in 1 .. n : u[i] = u[i - 1] + s[i]
<1>1. Len(s) = n
  BY DEF Sequence
<1>2. ASSUME Sums(u, s)
      PROVE  /\ u = [i \in 0 .. n |-> u[i]]
             /\ u[0] = 0 /\ \A i \in 1 .. n : u[i] = u[i - 1] + s[i]
  <2>1. u = [i \in 0 .. n |-> IF i = 0 THEN 0 ELSE u[i - 1] + s[i]]
    BY <1>1, <1>2 DEF Sums
  <2>2. \A i \in 0 .. n : u[i] = IF i = 0 THEN 0 ELSE u[i - 1] + s[i]
    BY <2>1
  <2> QED
    BY <2>1, <2>2
<1>3. ASSUME u = [i \in 0 .. n |-> u[i]], u[0] = 0,
             \A i \in 1 .. n : u[i] = u[i - 1] + s[i]
      PROVE  Sums(u, s)
  <2>1. ASSUME NEW i \in 0 .. n
        PROVE  u[i] = IF i = 0 THEN 0 ELSE u[i - 1] + s[i]
    <3>1. i = 0 \/ i \in 1 .. n
      OBVIOUS
    <3>2. u[0] = 0 /\ \A j \in 1 .. n : u[j] = u[j - 1] + s[j]
      BY <1>3
    <3> QED
      BY <3>1, <3>2
  <2>2. u = [i \in 0 .. n |-> IF i = 0 THEN 0 ELSE u[i - 1] + s[i]]
    BY <1>3, <2>1
  <2> QED
    BY <1>1, <2>2 DEF Sums
<1> QED
  BY <1>1, <1>2, <1>3

\* Every sequence of sizes has running sums.
LEMMA SumsExist ==
  ASSUME NEW n \in Nat, NEW s \in Sequence(n)
  PROVE  \E u \in [0 .. n -> Nat] : Sums(u, s)
<1> DEFINE Has(k) ==
             \A t \in Sequence(k) : \E u \in [0 .. k -> Nat] : Sums(u, t)
           T == {k \in Nat : ~Has(k)}
<1>1. Has(0)
  <2> SUFFICES ASSUME NEW t \in Sequence(0)
               PROVE  \E u \in [0 .. 0 -> Nat] : Sums(u, t)
    OBVIOUS
  <2>1. PICK u : u = [i \in 0 .. 0 |-> 0]
    OBVIOUS
  <2>2. u \in [0 .. 0 -> Nat] /\ u = [i \in 0 .. 0 |-> u[i]] /\ u[0] = 0
    BY <2>1
  <2>3. 0 \in Nat /\ \A i \in 1 .. 0 : u[i] = u[i - 1] + t[i]
    OBVIOUS
  <2>4. Sums(u, t)
    BY <2>2, <2>3, SumsFacts
  <2> QED
    BY <2>2, <2>4
<1>2. ASSUME NEW k \in Nat, Has(k) PROVE Has(k + 1)
  <2> SUFFICES ASSUME NEW t \in Sequence(k + 1)
               PROVE  \E u \in [0 .. k + 1 -> Nat] : Sums(u, t)
    OBVIOUS
  <2> DEFINE front == [i \in 1 .. k |-> t[i]]
  <2>1. front \in Sequence(k) /\ t[k + 1] \in Nat
    BY DEF Sequence
  <2>2. PICK u \in [0 .. k -> Nat] : Sums(u, front)
    BY <1>2, <2>1
  <2>3. u[0] = 0 /\ \A i \in 1 .. k : u[i] = u[i - 1] + t[i]
    <3>1. \A i \in 1 .. k : front[i] = t[i]
      OBVIOUS
    <3> HIDE DEF front
    <3>2. u[0] = 0 /\ \A i \in 1 .. k : u[i] = u[i - 1] + front[i]
      BY <2>1, <2>2, SumsFacts
    <3> QED
      BY <3>1, <3>2
  <2> DEFINE v == [i \in 0 .. k + 1 |->
                     IF i <= k THEN u[i] ELSE u[k] + t[k + 1]]
  <2>4. v \in [0 .. k + 1 -> Nat]
    BY <2>1
  <2>5. v[0] = 0 /\ \A i \in 1 .. k + 1 : v[i] = v[i - 1] + t[i]
    <3>1. v[0] = 0
      BY <2>3
    <3>2. ASSUME NEW i \in 1 .. k PROVE v[i] = v[i - 1] + t[i]
      BY <2>3
    <3>3. v[k + 1] = v[k] + t[k + 1]
      OBVIOUS
    <3>4. \A i \in 1 .. k + 1 : i \in 1 .. k \/ (i = k + 1 /\ i - 1 = k)
      OBVIOUS
    <3> HIDE DEF v
    <3> QED
      BY <3>1, <3>2, <3>3, <3>4
  <2> HIDE DEF v
  <2>6. Sums(v, t)
    BY <2>4, <2>5, SumsFacts
  <2> QED
    BY <2>4, <2>6
<1> HIDE DEF Has
<1>3. T = {}
  <2> SUFFICES ASSUME T # {} PROVE FALSE
    OBVIOUS
  <2>1. PICK k \in T : \A j \in T : k <= j
    BY LeastNumber
  <2>2. k # 0 /\ k \in Nat
    BY <1>1
  <2>3. k - 1 \in Nat /\ k - 1 \notin T
    BY <2>1, <2>2
  <2>4. Has(k - 1 + 1)
    BY <1>2, <2>3
  <2> QED
    BY <2>2, <2>4
<1> QED
  BY <1>3 DEF Has

\* And no others.
LEMMA SumsUnique ==
  ASSUME NEW n \in Nat, NEW s \in Sequence(n), NEW u, NEW v,
         Sums(u, s), Sums(v, s)
  PROVE  u = v
<1> DEFINE T == {i \in 0 .. n : u[i] # v[i]}
<1>1. T = {}
  <2> SUFFICES ASSUME T # {} PROVE FALSE
    OBVIOUS
  <2>1. PICK i \in T : \A j \in T : i <= j
    BY T \subseteq Nat, LeastNumber
  <2>2. u[0] = 0 /\ v[0] = 0
    BY SumsFacts
  <2>3. i \in 1 .. n /\ i - 1 \in 0 .. n /\ i - 1 \notin T
    BY <2>1, <2>2
  <2>4. u[i] = u[i - 1] + s[i] /\ v[i] = v[i - 1] + s[i]
    BY <2>3, SumsFacts
  <2> QED
    BY <2>3, <2>4
<1> QED
  BY <1>1, SumsFacts

\* Total is the last of the running sums.
LEMMA TotalIs ==
  ASSUME NEW n \in Nat, NEW s \in Sequence(n), NEW u, Sums(u, s)
  PROVE  Total(s) = u[n] /\ Total(s) \in Nat
<1> DEFINE f == CHOOSE x : Sums(x, s)
<1>1. Sums(f, s)
  OBVIOUS
<1>2. Total(s) = f[Len(s)]
  BY DEF Total, Sums
<1>3. PICK v \in [0 .. n -> Nat] : Sums(v, s)
  BY SumsExist
<1> HIDE DEF f
<1>4. f = u /\ u = v
  BY <1>1, <1>3, SumsUnique
<1> QED
  BY <1>2, <1>3, <1>4, SumsFacts

\* It is a number.
LEMMA TotalType ==
  ASSUME NEW n \in Nat, NEW s \in Sequence(n)
  PROVE  Total(s) \in Nat
BY SumsExist, TotalIs

\* The sum of no size, and of one.
LEMMA TotalFew ==
  ASSUME NEW n \in Nat, NEW s \in Sequence(n)
  PROVE  (n = 0 => Total(s) = 0) /\ (n = 1 => Total(s) = s[1])
<1>1. PICK u \in [0 .. n -> Nat] : Sums(u, s)
  BY SumsExist
<1>2. u[0] = 0 /\ \A i \in 1 .. n : u[i] = u[i - 1] + s[i]
  BY <1>1, SumsFacts
<1>3. Total(s) = u[n]
  BY <1>1, TotalIs
<1>4. n = 1 => u[1] = s[1]
  BY <1>2 DEF Sequence
<1> QED
  BY <1>2, <1>3, <1>4

\* Sequences that agree but for the last size have sums that differ by it.
LEMMA TotalLast ==
  ASSUME NEW n \in Nat, NEW s \in Sequence(n),
         NEW k \in Nat, NEW t \in Sequence(k),
         \A i \in 1 .. k - 1 : i <= n /\ t[i] = s[i],
         k \in {n, n + 1}, k > 0
  PROVE  Total(t) = IF k = n THEN Total(s) - s[n] + t[n]
                    ELSE Total(s) + t[k]
<1>1. PICK u \in [0 .. n -> Nat] : Sums(u, s)
  BY SumsExist
<1>2. u[0] = 0 /\ (\A i \in 1 .. n : u[i] = u[i - 1] + s[i]) /\ Total(s) = u[n]
  BY <1>1, SumsFacts, TotalIs
<1> DEFINE v == [i \in 0 .. k |-> IF i < k THEN u[i] ELSE u[k - 1] + t[k]]
<1>3. v = [i \in 0 .. k |-> v[i]] /\ v[0] = 0 /\ v[k] = u[k - 1] + t[k]
  BY <1>2
<1>4. ASSUME NEW i \in 1 .. k PROVE v[i] = v[i - 1] + t[i]
  <2>1. CASE i < k
    <3>1. u[i] = u[i - 1] + s[i] /\ t[i] = s[i]
      BY <1>2, <2>1
    <3> QED
      BY <2>1, <3>1
  <2>2. CASE i = k
    BY <2>2
  <2> QED
    BY <2>1, <2>2
<1> HIDE DEF v
<1>5. Total(t) = u[k - 1] + t[k]
  <2>1. Sums(v, t)
    BY <1>3, <1>4, SumsFacts
  <2> QED
    BY <1>3, <2>1, TotalIs
<1>6. CASE k = n
  <2>1. /\ u[n] = u[n - 1] + s[n]
        /\ u[n - 1] \in Nat /\ s[n] \in Nat /\ t[n] \in Nat
    BY <1>2, <1>6 DEF Sequence
  <2> QED
    BY <1>2, <1>5, <1>6, <2>1
<1>7. CASE k = n + 1
  BY <1>2, <1>5, <1>7
<1> QED
  BY <1>6, <1>7

\* What is used is not more than what there is.
LEMMA TotalMonotone ==
  ASSUME NEW n \in Nat, NEW s \in Sequence(n), NEW t \in Sequence(n),
         \A i \in 1 .. n : s[i] <= t[i]
  PROVE  Total(s) <= Total(t)
<1>1. PICK u \in [0 .. n -> Nat], v \in [0 .. n -> Nat] :
        Sums(u, s) /\ Sums(v, t)
  BY SumsExist
<1>2. /\ u[0] = 0 /\ v[0] = 0
      /\ \A i \in 1 .. n : u[i] = u[i - 1] + s[i] /\ v[i] = v[i - 1] + t[i]
      /\ Total(s) = u[n] /\ Total(t) = v[n]
  BY <1>1, SumsFacts, TotalIs
<1> DEFINE T == {i \in 0 .. n : ~(u[i] <= v[i])}
<1>3. T = {}
  <2> SUFFICES ASSUME T # {} PROVE FALSE
    OBVIOUS
  <2>1. PICK i \in T : \A j \in T : i <= j
    BY T \subseteq Nat, LeastNumber
  <2>2. i \in 1 .. n /\ i - 1 \in 0 .. n /\ i - 1 \notin T
    BY <1>2, <2>1
  <2>3. /\ u[i - 1] <= v[i - 1] /\ s[i] <= t[i]
        /\ u[i - 1] \in Nat /\ v[i - 1] \in Nat /\ s[i] \in Nat /\ t[i] \in Nat
    BY <2>2 DEF Sequence
  <2>4. u[i] = u[i - 1] + s[i] /\ v[i] = v[i - 1] + t[i]
    BY <1>2, <2>2
  <2>5. PICK a \in Nat, b \in Nat, c \in Nat, d \in Nat :
          a = u[i - 1] /\ b = v[i - 1] /\ c = s[i] /\ d = t[i]
    BY <2>3
  <2>6. a <= b /\ c <= d /\ u[i] = a + c /\ v[i] = b + d
    BY <2>3, <2>4, <2>5
  <2>7. u[i] <= v[i]
    BY <2>6
  <2> QED
    BY <2>1, <2>7
<1>4. n \in 0 .. n /\ n \notin T
  BY <1>3
<1>5. u[n] <= v[n]
  BY <1>4
<1> QED
  BY <1>2, <1>5

-----------------------------------------------------------------------------
(* Sizes                                                                   *)

\* (bytes + mask) & ~mask of a valid size does not wrap: no less than asked, and
\* within SIZE_MAX.
LEMMA RoundedUp ==
  ASSUME NEW bytes \in Nat, Valid(bytes)
  PROVE  /\ RoundUp(bytes) \in Nat /\ bytes <= RoundUp(bytes)
         /\ Aligned(RoundUp(bytes)) /\ RoundUp(bytes) <= SizeMax
<1>1. Alignment \in Nat \ {0} /\ SizeMax \in Nat
  BY ArenaAssumption
<1>2. PICK p \in Nat : p = bytes + Alignment - 1 /\ p <= SizeMax
  BY <1>1 DEF Valid
<1>3. /\ p \div Alignment \in Int /\ p \div Alignment >= 0
      /\ p % Alignment \in 0 .. Alignment - 1
  BY <1>1
<1>4. PICK q \in Int, m \in Int : q = p \div Alignment /\ m = p % Alignment
  BY <1>3
<1>5. p = Alignment * q + m
  BY <1>1, <1>4
<1>6. q * Alignment = Alignment * q /\ q * Alignment \in Nat
  BY <1>1, <1>3, <1>4
<1>7. RoundUp(bytes) = q * Alignment
  <2>1. p % (SizeMax + 1) = p
    BY <1>1, <1>2
  <2> QED
    BY <1>2, <1>4, <2>1 DEF RoundUp
<1>8. bytes <= q * Alignment /\ q * Alignment <= p
  BY <1>1, <1>2, <1>3, <1>4, <1>5, <1>6
<1>9. q \in 0 .. q * Alignment
  BY <1>1, <1>3, <1>4
<1> QED
  BY <1>1, <1>2, <1>6, <1>7, <1>8, <1>9 DEF Aligned

\* Aligned sizes behind each other begin at aligned offsets.
LEMMA AlignedSums ==
  ASSUME NEW a \in Nat, NEW b \in Nat, Aligned(a), Aligned(b)
  PROVE  Aligned(a + b) /\ Aligned(0)
<1>1. Alignment \in Nat \ {0}
  BY ArenaAssumption
<1>2. PICK j \in 0 .. a, k \in 0 .. b : a = j * Alignment /\ b = k * Alignment
  BY DEF Aligned
<1>3. (j + k) * Alignment = j * Alignment + k * Alignment
  BY <1>1
<1>4. j + k \in 0 .. a + b /\ 0 \in 0 .. 0 /\ 0 * Alignment = 0
  BY <1>1
<1> QED
  BY <1>2, <1>3, <1>4 DEF Aligned

\* Headroom never takes away, and never passes SIZE_MAX.
LEMMA HeadroomFacts ==
  ASSUME NEW v \in Nat, NEW n \in {4, 8}
  PROVE  /\ Headroom(v, n) \in Nat /\ v <= Headroom(v, n)
         /\ v <= SizeMax => Headroom(v, n) <= SizeMax
<1>1. SizeMax \in Nat /\ v \div n \in Nat
  BY ArenaAssumption
<1> QED
  BY <1>1 DEF Headroom

\* The elements of a sequence.
LEMMA Elements ==
  ASSUME NEW S, NEW s \in Seq(S)
  PROVE  /\ Len(s) \in Nat /\ DOMAIN s = 1 .. Len(s)
         /\ s = <<>> <=> Len(s) = 0
         /\ \A i \in 1 .. Len(s) : s[i] \in S
OBVIOUS

\* The chunks, and the sequences of their sizes.
LEMMA ChunkFacts ==
  ASSUME ArenaTypeOK
  PROVE  /\ Len(chunks) \in Nat /\ DOMAIN chunks = 1 .. Len(chunks)
         /\ chunks = <<>> <=> Len(chunks) = 0
         /\ UsedSizes \in Sequence(Len(chunks))
         /\ Capacities \in Sequence(Len(chunks))
         /\ Total(UsedSizes) \in Nat /\ Total(Capacities) \in Nat
         /\ \A i \in 1 .. Len(chunks) :
              /\ UsedSizes[i] = chunks[i].used /\ chunks[i].used \in Nat
              /\ Capacities[i] = chunks[i].capacity
              /\ chunks[i].capacity \in Nat
<1>1. chunks \in Seq(Chunk)
  BY DEF ArenaTypeOK
<1>2. /\ Len(chunks) \in Nat /\ DOMAIN chunks = 1 .. Len(chunks)
      /\ chunks = <<>> <=> Len(chunks) = 0
      /\ \A i \in 1 .. Len(chunks) :
           chunks[i].used \in Nat /\ chunks[i].capacity \in Nat
  <2>1. /\ Len(chunks) \in Nat /\ DOMAIN chunks = 1 .. Len(chunks)
        /\ chunks = <<>> <=> Len(chunks) = 0
        /\ \A i \in 1 .. Len(chunks) : chunks[i] \in Chunk
    BY <1>1, Elements
  <2> QED
    BY <2>1 DEF Chunk
<1>3. /\ UsedSizes \in Sequence(Len(chunks))
      /\ Capacities \in Sequence(Len(chunks))
  BY <1>2 DEF UsedSizes, Capacities, Sequence
<1> QED
  BY <1>2, <1>3, TotalType DEF UsedSizes, Capacities

\* A new chunk holds the request, and the host has room for it; the first one
\* of a host that can pin anything holds the reserve too.
LEMMA CreatedFacts ==
  ASSUME ArenaTypeOK, NEW size \in Nat
  PROVE  /\ Created(size) \in Nat
         /\ Created(size) # 0 =>
              /\ size <= Created(size)
              /\ Total(Capacities) + Created(size) <= SizeMax
         /\ pinLimit >= SizeMax /\ chunks = <<>> /\ reserve <= SizeMax
              /\ size <= SizeMax =>
              Created(size) # 0 /\ reserve <= Created(size)
<1>1. /\ SizeMax \in Nat /\ MinChunk \in Nat /\ 0 < MinChunk
      /\ MinChunk <= SizeMax
      /\ reserve \in Nat /\ pinLimit \in Nat
  BY ArenaAssumption DEF ArenaTypeOK
<1>2. Headroom(size, 4) \in Nat /\ size <= Headroom(size, 4)
      /\ (size <= SizeMax => Headroom(size, 4) <= SizeMax)
  BY HeadroomFacts
<1>3. /\ Wanted(size) \in Nat /\ size <= Wanted(size) /\ reserve <= Wanted(size)
      /\ 0 < Wanted(size)
      /\ reserve <= SizeMax /\ size <= SizeMax => Wanted(size) <= SizeMax
  BY <1>1, <1>2 DEF Wanted, Larger
<1>4. chunks = <<>> => Total(Capacities) = 0
  BY ChunkFacts, TotalFew
<1>5. Total(Capacities) \in Nat
  BY ChunkFacts
<1> QED
  BY <1>1, <1>3, <1>4, <1>5 DEF Created, Pins

-----------------------------------------------------------------------------
(* The invariant                                                           *)

\* Chunks are filled by aligned sizes, up to their capacity.
ChunksInv ==
  \A i \in 1 .. Len(chunks) :
    chunks[i].used <= chunks[i].capacity /\ Aligned(chunks[i].used)

\* A reserve waits for the first chunk; a request that failed has used it up.
FailInv ==
  /\ strikes <= 1
  /\ chunks # <<>> => reserve = 0
  /\ strikes = 1 => chunks = <<>> /\ reserve = 0

\* The chunks share an address space, so the staging of a batch has a size.
SumInv ==
  /\ Total(Capacities) <= SizeMax /\ reserve <= SizeMax
  /\ alive => total = Used

\* The inductive invariant.
IInv ==
  ArenaTypeOK /\ ChunksInv /\ AllocsSeparate /\ FailInv /\ SumInv /\ LargestKept

\* An arena begins without chunks.
LEMMA InitInv == ArenaInit => IInv
<1> SUFFICES ASSUME ArenaInit PROVE IInv
  OBVIOUS
<1>1. ArenaTypeOK
  BY ArenaAssumption DEF ArenaInit, ArenaTypeOK
<1>2. chunks = <<>> /\ Len(chunks) = 0
  BY DEF ArenaInit
<1>3. Total(Capacities) = 0 /\ Total(UsedSizes) = 0
  BY <1>1, <1>2, ChunkFacts, TotalFew
<1> QED
  BY <1>1, <1>2, <1>3, ArenaAssumption
     DEF ArenaInit, IInv, ChunksInv, AllocsSeparate, FailInv, SumInv,
         LargestKept, Used

\* What a request is handed lies behind everything in its chunk.
LEMMA HandSound ==
  ASSUME IInv, NEW k \in 1 .. Len(chunks'), NEW from \in Nat, NEW bytes \in Nat,
         chunks' \in Seq(Chunk), ChunksInv',
         Len(chunks') <= MaxChunks, Len(chunks) <= Len(chunks'),
         \A i \in 1 .. Len(chunks) : chunks'[i].used >= chunks[i].used,
         allocs' = allocs \cup {[chunk |-> k, from |-> from, bytes |-> bytes]},
         Aligned(from), from + bytes <= chunks'[k].used,
         k \in 1 .. Len(chunks) => chunks[k].used <= from
  PROVE  AllocsSeparate' /\ allocs' \subseteq Allocation
<1> DEFINE new == [chunk |-> k, from |-> from, bytes |-> bytes]
<1>1. /\ Len(chunks) \in Nat /\ Len(chunks') \in Nat /\ MaxChunks \in Nat
      /\ \A i \in 1 .. Len(chunks) : chunks[i].used \in Nat
      /\ \A i \in 1 .. Len(chunks') : chunks'[i].used \in Nat
      /\ allocs \subseteq Allocation
  <2>1. /\ Len(chunks') \in Nat
        /\ \A i \in 1 .. Len(chunks') : chunks'[i] \in Chunk
    BY Elements
  <2>2. \A i \in 1 .. Len(chunks') : chunks'[i].used \in Nat
    BY <2>1 DEF Chunk
  <2> QED
    BY <2>1, <2>2, ChunkFacts, ArenaAssumption DEF IInv, ArenaTypeOK
<1>2. new \in Allocation /\ new.chunk = k /\ new.from = from
      /\ new.bytes = bytes
  BY <1>1 DEF Allocation
<1>3. ASSUME NEW a \in allocs
      PROVE  /\ a.chunk \in 1 .. Len(chunks) /\ Aligned(a.from)
             /\ a.from \in Nat /\ a.bytes \in Nat
             /\ a.from + a.bytes <= chunks[a.chunk].used
             /\ a.chunk \in 1 .. Len(chunks')
             /\ a.from + a.bytes <= chunks'[a.chunk].used
             /\ a.chunk # k \/ a.from + a.bytes <= from
  <2>1. /\ a.chunk \in 1 .. Len(chunks) /\ Aligned(a.from)
        /\ a.from + a.bytes <= chunks[a.chunk].used
    BY DEF IInv, AllocsSeparate
  <2>2. a.from \in Nat /\ a.bytes \in Nat
    BY <1>1 DEF Allocation
  <2>3. PICK i \in 1 .. Len(chunks) : i = a.chunk
    BY <2>1
  <2>4. /\ i \in 1 .. Len(chunks') /\ chunks[i].used <= chunks'[i].used
        /\ chunks[i].used \in Nat /\ chunks'[i].used \in Nat
    BY <1>1
  <2>5. PICK e \in Nat : e = a.from + a.bytes /\ e <= chunks[i].used
    BY <2>1, <2>2, <2>3
  <2>7. e <= chunks'[i].used
    BY <2>4, <2>5
  <2>6. a.chunk # k \/ a.from + a.bytes <= from
    <3> SUFFICES ASSUME i = k PROVE a.from + a.bytes <= from
      BY <2>3
    <3>1. chunks[i].used <= from
      OBVIOUS
    <3> QED
      BY <2>4, <2>5, <3>1
  <2> QED
    BY <2>1, <2>2, <2>3, <2>4, <2>5, <2>6, <2>7
<1> HIDE DEF new
<1>4. allocs' = allocs \cup {new}
  BY DEF new
<1>5. ASSUME NEW a \in allocs'
      PROVE  /\ a.chunk \in 1 .. Len(chunks') /\ a.chunk <= MaxChunks
             /\ Aligned(a.from)
             /\ a.from + a.bytes <= chunks'[a.chunk].used
             /\ chunks'[a.chunk].used <= chunks'[a.chunk].capacity
  <2>1. /\ a.chunk \in 1 .. Len(chunks')
        /\ Aligned(a.from)
        /\ a.from + a.bytes <= chunks'[a.chunk].used
    BY <1>2, <1>3, <1>4
  <2>2. a.chunk <= MaxChunks
    BY <1>1, <2>1
  <2>3. chunks'[a.chunk].used <= chunks'[a.chunk].capacity
    BY <2>1 DEF ChunksInv
  <2> QED
    BY <2>1, <2>2, <2>3
<1>6. ASSUME NEW a \in allocs', NEW b \in allocs'
      PROVE  a = b \/ a.chunk # b.chunk \/ a.from + a.bytes <= b.from
               \/ b.from + b.bytes <= a.from
  <2>1. CASE a \in allocs /\ b \in allocs
    BY <2>1 DEF IInv, AllocsSeparate
  <2>2. CASE a = new \/ b = new
    BY <1>2, <1>3, <1>4, <2>2
  <2> QED
    BY <1>4, <2>1, <2>2
<1> QED
  BY <1>1, <1>2, <1>4, <1>5, <1>6 DEF AllocsSeparate, Aligned

\* used[last] += size leaves the capacity alone.
LEMMA Filled ==
  ASSUME NEW ch \in Chunk, NEW size \in Nat
  PROVE  \E last \in Chunk :
           /\ last = [ch EXCEPT !.used = @ + size]
           /\ last.used = ch.used + size /\ last.capacity = ch.capacity
<1> DEFINE last == [ch EXCEPT !.used = @ + size]
<1>1. ch.used \in Nat /\ ch.capacity \in Nat
      /\ ch = [capacity |-> ch.capacity, used |-> ch.used]
  BY DEF Chunk
<1>2. last = [capacity |-> ch.capacity, used |-> ch.used + size]
  BY <1>1
<1>3. last \in Chunk /\ last.used = ch.used + size
      /\ last.capacity = ch.capacity
  BY <1>1, <1>2 DEF Chunk
<1> HIDE DEF last
<1>4. last = [ch EXCEPT !.used = @ + size]
  BY DEF last
<1> QED
  BY <1>3, <1>4

\* The last chunk has room.
LEMMA BumpInv ==
  ASSUME IInv, alive, NEW bytes \in Nat, Bump(bytes), UNCHANGED pinLimit
  PROVE  IInv'
<1>1. PICK size \in Nat : /\ size = RoundUp(bytes) /\ bytes <= size
                          /\ Aligned(size) /\ size <= SizeMax
  BY RoundedUp DEF Bump
<1>2. PICK n \in Nat \ {0} :
        /\ n = Len(chunks) /\ chunks[n].used + size <= chunks[n].capacity
        /\ chunks[n].used \in Nat /\ chunks[n].capacity \in Nat
        /\ Aligned(chunks[n].used) /\ chunks # <<>> /\ n <= MaxChunks
        /\ chunks \in Seq(Chunk) /\ chunks[n] \in Chunk
        /\ n \in 1 .. n
  <2>1. chunks # <<>> /\ Len(chunks) \in Nat \ {0}
    BY <1>1, ChunkFacts DEF Bump, Fits, IInv
  <2>2. /\ chunks[Len(chunks)].used \in Nat
        /\ chunks[Len(chunks)].capacity \in Nat
        /\ chunks[Len(chunks)].used <= chunks[Len(chunks)].capacity
        /\ Aligned(chunks[Len(chunks)].used)
    BY <2>1, ChunkFacts DEF IInv, ChunksInv
  <2>3. size <= chunks[Len(chunks)].capacity - chunks[Len(chunks)].used
    BY <1>1 DEF Bump, Fits, Tip
  <2>4. chunks \in Seq(Chunk) /\ Len(chunks) <= MaxChunks
        /\ chunks[Len(chunks)] \in Chunk
    BY <2>1, Elements DEF IInv, ArenaTypeOK
  <2> QED
    BY <1>1, <2>1, <2>2, <2>3, <2>4
<1>3. PICK last \in Chunk : /\ last = [chunks[n] EXCEPT !.used = @ + size]
                            /\ last.used = chunks[n].used + size
                            /\ last.capacity = chunks[n].capacity
  BY <1>2, Filled
<1>4. /\ chunks' = [chunks EXCEPT ![n] = last]
      /\ allocs' = allocs \cup
           {[chunk |-> n, from |-> chunks[n].used, bytes |-> bytes]}
      /\ total' = total + size /\ strikes' = 0
      /\ UNCHANGED <<reserve, largest, resets, alive, pinLimit>>
  BY <1>1, <1>2, <1>3 DEF Bump, Hand, Tip
<1>5. /\ chunks' \in Seq(Chunk) /\ Len(chunks') = n /\ chunks' # <<>>
      /\ chunks'[n] = last
      /\ \A i \in 1 .. n : i # n => chunks'[i] = chunks[i]
      /\ DOMAIN chunks' = 1 .. n
  BY <1>2, <1>4
<1>6. ASSUME NEW i \in 1 .. n
      PROVE  /\ chunks[i].used \in Nat
             /\ chunks'[i].used >= chunks[i].used
             /\ chunks'[i].capacity = chunks[i].capacity
             /\ chunks'[i].used <= chunks'[i].capacity
             /\ Aligned(chunks'[i].used)
  <2>1. chunks[i].used \in Nat /\ chunks[i].used <= chunks[i].capacity
        /\ Aligned(chunks[i].used)
    BY <1>2, ChunkFacts DEF IInv, ChunksInv
  <2>2. Aligned(chunks[n].used + size)
    BY <1>1, <1>2, AlignedSums
  <2>3. CASE i = n
    <3>1. Aligned(last.used)
      BY <1>3, <2>2
    <3>2. last.used >= chunks[n].used /\ last.used <= last.capacity
      BY <1>1, <1>2, <1>3
    <3> QED
      BY <1>3, <1>5, <2>1, <2>3, <3>1, <3>2
  <2>4. CASE i # n
    BY <1>5, <2>1, <2>4
  <2> QED
    BY <2>3, <2>4
<1>7. ChunksInv'
  BY <1>5, <1>6 DEF ChunksInv, Aligned
<1>8. AllocsSeparate' /\ allocs' \subseteq Allocation
  <2>1. chunks[n].used + bytes <= chunks'[n].used
    BY <1>1, <1>2, <1>3, <1>5
  <2>2. n \in 1 .. Len(chunks') /\ Len(chunks') <= MaxChunks
        /\ Len(chunks) <= Len(chunks')
    BY <1>2, <1>5
  <2>3. \A i \in 1 .. Len(chunks) : chunks'[i].used >= chunks[i].used
    BY <1>2, <1>6
  <2>4. n \in 1 .. Len(chunks) => chunks[n].used <= chunks[n].used
    BY <1>2
  <2> QED
    BY <1>2, <1>4, <1>5, <1>7, <2>1, <2>2, <2>3, <2>4, HandSound
<1>9. ArenaTypeOK'
  BY <1>1, <1>2, <1>4, <1>5, <1>8 DEF IInv, ArenaTypeOK
<1>10. Capacities' = Capacities
  BY <1>2, <1>5, <1>6, ChunkFacts DEF Capacities, IInv
<1>11. Total(UsedSizes)' = Total(UsedSizes) + size
  <2>1. UsedSizes \in Sequence(n) /\ UsedSizes' \in Sequence(n)
    BY <1>2, <1>5, <1>9, ChunkFacts DEF IInv, UsedSizes, Sequence, Chunk
  <2>2. /\ UsedSizes[n] = chunks[n].used
        /\ UsedSizes'[n] = chunks[n].used + size
        /\ \A i \in 1 .. n - 1 : i <= n /\ UsedSizes'[i] = UsedSizes[i]
    <3>1. DOMAIN chunks = 1 .. n /\ DOMAIN chunks' = 1 .. n
      BY <1>2, <1>5, ChunkFacts DEF IInv
    <3>2. \A i \in 1 .. n : /\ UsedSizes[i] = chunks[i].used
                            /\ UsedSizes'[i] = chunks'[i].used
      BY <3>1 DEF UsedSizes
    <3>3. UsedSizes'[n] = chunks[n].used + size
      BY <1>2, <1>3, <1>5, <3>2
    <3> QED
      BY <1>2, <1>5, <3>2, <3>3
  <2>3. Total(UsedSizes') =
          Total(UsedSizes) - UsedSizes[n] + UsedSizes'[n]
    BY <2>1, <2>2, TotalLast
  <2>4. Total(UsedSizes) \in Nat
    BY <2>1, TotalType
  <2> QED
    BY <1>2, <2>2, <2>3, <2>4
<1>12. FailInv' /\ SumInv'
  BY <1>1, <1>2, <1>4, <1>5, <1>10, <1>11 DEF IInv, FailInv, SumInv, Used
<1>13. LargestKept'
  <2> SUFFICES ASSUME pinLimit >= SizeMax
               PROVE  /\ chunks'[1].capacity >= largest
                      /\ n > 1 => total' > largest
    BY <1>2, <1>4, <1>5 DEF LargestKept
  <2>1. chunks[1].capacity >= largest /\ (n > 1 => total > largest)
    BY <1>2 DEF IInv, LargestKept
  <2>2. chunks'[1].capacity = chunks[1].capacity
    BY <1>2, <1>6
  <2> QED
    BY <1>1, <1>4, <2>1, <2>2 DEF IInv, ArenaTypeOK
<1> QED
  BY <1>7, <1>8, <1>9, <1>12, <1>13 DEF IInv

\* The request gets a chunk of its own.
LEMMA GrowInv ==
  ASSUME IInv, alive, NEW bytes \in Nat, Grow(bytes), UNCHANGED pinLimit
  PROVE  IInv'
<1>1. PICK size \in Nat : /\ size = RoundUp(bytes) /\ bytes <= size
                          /\ Aligned(size) /\ size <= SizeMax /\ ~Fits(size)
  BY RoundedUp DEF Grow
<1>2. PICK n \in Nat : /\ n = Len(chunks) /\ n + 1 <= MaxChunks
                       /\ chunks \in Seq(Chunk) /\ DOMAIN chunks = 1 .. n
                       /\ chunks = <<>> <=> n = 0
  BY ChunkFacts, ArenaAssumption DEF IInv, ArenaTypeOK, Grow, Full
<1>3. PICK capacity \in Nat :
        /\ capacity = Created(size) /\ capacity # 0 /\ size <= capacity
        /\ Total(Capacities) + capacity <= SizeMax
        /\ pinLimit >= SizeMax /\ n = 0 => reserve <= capacity
  BY <1>1, <1>2, CreatedFacts DEF Grow, IInv, SumInv
<1>4. PICK ch \in Chunk : /\ ch = [capacity |-> capacity, used |-> size]
                          /\ ch.capacity = capacity /\ ch.used = size
  <2>1. PICK ch : ch = [capacity |-> capacity, used |-> size]
    OBVIOUS
  <2>2. ch \in Chunk /\ ch.capacity = capacity /\ ch.used = size
    BY <2>1 DEF Chunk
  <2> QED
    BY <2>1, <2>2
<1>5. /\ chunks' = Append(chunks, ch)
      /\ allocs' = allocs \cup
           {[chunk |-> n + 1, from |-> 0, bytes |-> bytes]}
      /\ total' = total + size /\ strikes' = 0 /\ reserve' = 0
      /\ UNCHANGED <<largest, resets, alive, pinLimit>>
  BY <1>1, <1>2, <1>3, <1>4 DEF Grow, Hand
<1>6. /\ chunks' \in Seq(Chunk) /\ Len(chunks') = n + 1
      /\ DOMAIN chunks' = 1 .. n + 1 /\ chunks' # <<>>
      /\ chunks'[n + 1] = ch
      /\ \A i \in 1 .. n : chunks'[i] = chunks[i]
  BY <1>2, <1>5
<1>7. ChunksInv'
  <2> SUFFICES ASSUME NEW i \in 1 .. n + 1
               PROVE  /\ chunks'[i].used <= chunks'[i].capacity
                      /\ Aligned(chunks'[i].used)
    BY <1>6 DEF ChunksInv, Aligned
  <2>1. CASE i = n + 1
    <3>1. Aligned(ch.used) /\ ch.used <= ch.capacity
      BY <1>1, <1>3, <1>4
    <3> QED
      BY <1>6, <2>1, <3>1
  <2>2. CASE i \in 1 .. n
    BY <1>2, <1>6, <2>2 DEF IInv, ChunksInv
  <2> QED
    BY <2>1, <2>2
<1>8. AllocsSeparate' /\ allocs' \subseteq Allocation
  <2>1. PICK k \in 1 .. Len(chunks') : k = n + 1 /\ k \notin 1 .. Len(chunks)
    BY <1>2, <1>6
  <2>2. Aligned(0) /\ 0 + bytes <= chunks'[k].used
    BY <1>1, <1>4, <1>6, <2>1, AlignedSums
  <2>3. Len(chunks') <= MaxChunks /\ Len(chunks) <= Len(chunks')
    BY <1>2, <1>6
  <2>4. \A i \in 1 .. Len(chunks) : chunks'[i].used >= chunks[i].used
    BY <1>2, <1>6, ChunkFacts DEF IInv
  <2>5. allocs' = allocs \cup {[chunk |-> k, from |-> 0, bytes |-> bytes]}
    BY <1>5, <2>1
  <2> QED
    BY <1>6, <1>7, <2>1, <2>2, <2>3, <2>4, <2>5, HandSound
<1>9. ArenaTypeOK'
  BY <1>1, <1>2, <1>5, <1>6, <1>8 DEF IInv, ArenaTypeOK
<1>10. /\ Total(UsedSizes)' = Total(UsedSizes) + size
       /\ Total(Capacities)' = Total(Capacities) + capacity
  <2>1. /\ UsedSizes \in Sequence(n) /\ Capacities \in Sequence(n)
        /\ \A i \in 1 .. n : /\ UsedSizes[i] = chunks[i].used
                             /\ Capacities[i] = chunks[i].capacity
    BY <1>2, ChunkFacts DEF IInv
  <2>2. /\ UsedSizes' \in Sequence(n + 1) /\ Capacities' \in Sequence(n + 1)
    <3>1. \A i \in 1 .. n + 1 : chunks'[i] \in Chunk
      BY <1>6, Elements
    <3>2. \A i \in 1 .. n + 1 : /\ chunks'[i].used \in Nat
                                /\ chunks'[i].capacity \in Nat
      BY <3>1 DEF Chunk
    <3> QED
      BY <1>6, <3>2 DEF UsedSizes, Capacities, Sequence
  <2>3. \A i \in 1 .. n + 1 : /\ UsedSizes'[i] = chunks'[i].used
                              /\ Capacities'[i] = chunks'[i].capacity
    BY <1>6 DEF UsedSizes, Capacities
  <2>4. /\ \A i \in 1 .. n + 1 - 1 : i <= n /\ UsedSizes'[i] = UsedSizes[i]
        /\ \A i \in 1 .. n + 1 - 1 : i <= n /\ Capacities'[i] = Capacities[i]
    BY <1>6, <2>1, <2>3
  <2>5. n + 1 \in Nat /\ n + 1 \in {n, n + 1} /\ n + 1 > 0 /\ n + 1 # n
    BY <1>2
  <2>6. Total(UsedSizes') = Total(UsedSizes) + UsedSizes'[n + 1]
    BY <2>1, <2>2, <2>4, <2>5, TotalLast
  <2>7. Total(Capacities') = Total(Capacities) + Capacities'[n + 1]
    BY <2>1, <2>2, <2>4, <2>5, TotalLast
  <2>8. UsedSizes'[n + 1] = size /\ Capacities'[n + 1] = capacity
    BY <1>4, <1>6, <2>3
  <2> QED
    BY <2>6, <2>7, <2>8
<1>11. FailInv' /\ SumInv'
  BY <1>1, <1>3, <1>5, <1>6, <1>10, ArenaAssumption
     DEF IInv, FailInv, SumInv, Used
<1>12. LargestKept'
  <2> SUFFICES ASSUME pinLimit >= SizeMax
               PROVE  /\ chunks'[1].capacity >= largest
                      /\ n + 1 > 1 => total' > largest
    BY <1>5, <1>6 DEF LargestKept
  <2>1. largest \in Nat /\ total \in Nat /\ total = Total(UsedSizes)
    BY DEF IInv, ArenaTypeOK, SumInv, Used
  <2>2. CASE n = 0
    <3>1. reserve >= largest /\ reserve <= capacity /\ reserve \in Nat
      BY <1>2, <1>3, <2>2 DEF IInv, LargestKept, ArenaTypeOK
    <3>2. chunks'[1].capacity = capacity
      BY <1>4, <1>6, <2>2
    <3> QED
      BY <2>1, <2>2, <3>1, <3>2
  <2>3. CASE n > 0
    <3>1. chunks[1].capacity >= largest /\ chunks'[1].capacity >= largest
      BY <1>2, <1>6, <2>3 DEF IInv, LargestKept
    <3>2. CASE n > 1
      BY <1>1, <1>2, <1>5, <2>1, <3>1, <3>2 DEF IInv, LargestKept
    <3>3. CASE n = 1
      <4>1. total = chunks[1].used
        BY <1>2, <2>1, <3>3, ChunkFacts, TotalFew DEF IInv
      <4>2. ~(size <= chunks[1].capacity - chunks[1].used)
        BY <1>1, <1>2, <3>3 DEF Fits, Tip
      <4>3. chunks[1].capacity \in Nat
        BY <1>2, <3>3, ChunkFacts DEF IInv
      <4> QED
        BY <1>5, <2>1, <3>1, <4>1, <4>2, <4>3
    <3> QED
      BY <2>3, <3>2, <3>3
  <2> QED
    BY <2>2, <2>3
<1> QED
  BY <1>7, <1>8, <1>9, <1>11, <1>12 DEF IInv

\* Chunks that did not change have the same sums.
LEMMA SumsKept ==
  ASSUME UNCHANGED chunks
  PROVE  UsedSizes' = UsedSizes /\ Capacities' = Capacities
BY DEF UsedSizes, Capacities

\* A request the host could have pinned fails for a reserve only, and takes it.
LEMMA GrowFailsInv ==
  ASSUME IInv, alive, NEW bytes \in Nat, GrowFails(bytes), UNCHANGED pinLimit
  PROVE  IInv'
<1>1. PICK size \in Nat : size = RoundUp(bytes) /\ size <= SizeMax
                          /\ Created(size) = 0
  BY RoundedUp DEF GrowFails
<1>2. /\ UNCHANGED <<chunks, allocs, total, largest, resets, alive, pinLimit>>
      /\ reserve' = 0
      /\ strikes' = IF Pinnable(size) THEN strikes + 1 ELSE strikes
  BY <1>1 DEF GrowFails
<1>3. Pinnable(size) => reserve # 0
  <2> SUFFICES ASSUME Pinnable(size), reserve = 0 PROVE FALSE
    OBVIOUS
  <2>1. /\ Headroom(size, 4) \in Nat /\ MinChunk \in Nat /\ MinChunk > 0
        /\ Pins(Headroom(size, 4)) /\ Pins(MinChunk)
    BY HeadroomFacts, ArenaAssumption DEF Pinnable
  <2>2. Wanted(size) \in {Headroom(size, 4), MinChunk} /\ Wanted(size) > 0
    BY <2>1 DEF Wanted, Larger
  <2>3. Pins(Wanted(size))
    BY <2>1, <2>2
  <2> QED
    BY <1>1, <2>2, <2>3 DEF Created
<1>4. pinLimit >= SizeMax => chunks # <<>>
  BY <1>1, CreatedFacts DEF IInv, SumInv
<1>5. ArenaTypeOK'
  BY <1>2 DEF IInv, ArenaTypeOK
<1>6. FailInv'
  BY <1>2, <1>3 DEF IInv, FailInv, ArenaTypeOK
<1>7. SumInv'
  BY <1>2, SumsKept, ArenaAssumption DEF IInv, SumInv, Used
<1>8. LargestKept'
  BY <1>2, <1>4 DEF IInv, LargestKept
<1>9. ChunksInv' /\ AllocsSeparate'
  BY <1>2 DEF IInv, ChunksInv, AllocsSeparate, Aligned
<1> QED
  BY <1>5, <1>6, <1>7, <1>8, <1>9 DEF IInv

\* One chunk is kept, and the reserve for more holds all that was used.
LEMMA ResetInv ==
  ASSUME IInv, Reset, UNCHANGED pinLimit PROVE IInv'
<1>1. /\ alive /\ alive' /\ allocs' = {} /\ total' = 0
      /\ largest' = Larger(largest, total) /\ resets' = resets + 1
      /\ UNCHANGED <<strikes, pinLimit>>
  BY DEF Reset, IInv, ArenaTypeOK
<1>2. PICK n \in Nat : /\ n = Len(chunks) /\ n <= MaxChunks
                       /\ chunks \in Seq(Chunk) /\ DOMAIN chunks = 1 .. n
                       /\ chunks = <<>> <=> n = 0
  BY ChunkFacts DEF IInv, ArenaTypeOK
<1>3. /\ total = Total(UsedSizes) /\ total \in Nat /\ largest \in Nat
      /\ total <= Total(Capacities) /\ total <= SizeMax
      /\ SizeMax \in Nat /\ MaxChunks \in Nat
  <2>1. \A i \in 1 .. Len(chunks) : UsedSizes[i] <= Capacities[i]
    BY ChunkFacts DEF IInv, ChunksInv
  <2>2. Total(UsedSizes) <= Total(Capacities)
    BY <2>1, ChunkFacts, TotalMonotone DEF IInv
  <2> QED
    BY <1>1, <2>2, ChunkFacts, ArenaAssumption
       DEF IInv, SumInv, ArenaTypeOK, Used
<1>4. CASE n < 2
  <2>1. /\ chunks' = [i \in DOMAIN chunks |-> [chunks[i] EXCEPT !.used = 0]]
        /\ reserve' = reserve
    BY <1>2, <1>4 DEF Reset
  <2>2. \A i \in 1 .. n : chunks[i] \in Chunk
    BY <1>2, Elements
  <2>3. ASSUME NEW i \in 1 .. n
        PROVE  /\ chunks'[i] \in Chunk /\ chunks'[i].used = 0
               /\ chunks'[i].capacity = chunks[i].capacity
               /\ chunks[i].capacity \in Nat
    <3>1. PICK ch \in Chunk : ch = chunks[i]
      BY <2>2
    <3>2. /\ [ch EXCEPT !.used = 0] = [capacity |-> ch.capacity, used |-> 0]
          /\ ch.capacity \in Nat
      BY DEF Chunk
    <3>3. chunks'[i] = [ch EXCEPT !.used = 0]
      BY <1>2, <2>1, <3>1
    <3> QED
      BY <3>1, <3>2, <3>3 DEF Chunk
  <2>4. /\ chunks' \in Seq(Chunk) /\ Len(chunks') = n /\ DOMAIN chunks' = 1 .. n
        /\ chunks' = <<>> <=> n = 0
    <3>1. chunks' = [i \in 1 .. n |-> chunks'[i]]
      BY <1>2, <2>1
    <3> QED
      BY <2>3, <3>1
  <2>5. ArenaTypeOK'
    <3>1. reserve' \in Nat /\ resets' \in Nat /\ largest' \in Nat
      BY <1>1, <1>3, <2>1 DEF IInv, ArenaTypeOK, Larger
    <3> QED
      BY <1>1, <1>2, <2>4, <3>1 DEF IInv, ArenaTypeOK
  <2>6. ChunksInv' /\ AllocsSeparate'
    <3>1. Aligned(0)
      BY ArenaAssumption DEF Aligned
    <3>2. \A i \in 1 .. n : chunks'[i].used <= chunks'[i].capacity
                            /\ Aligned(chunks'[i].used)
      BY <2>3, <3>1
    <3> QED
      BY <1>1, <2>4, <3>2 DEF ChunksInv, AllocsSeparate, Aligned
  <2>7. Capacities' = Capacities
    BY <1>2, <2>3, <2>4 DEF Capacities
  <2>8. Total(UsedSizes') = 0
    <3>1. UsedSizes' \in Sequence(n) /\ \A i \in 1 .. n : UsedSizes'[i] = 0
      BY <2>3, <2>4 DEF UsedSizes, Sequence
    <3> QED
      BY <1>2, <1>4, <3>1, TotalFew
  <2>9. FailInv' /\ SumInv'
    BY <1>1, <1>2, <2>1, <2>4, <2>7, <2>8 DEF IInv, FailInv, SumInv, Used
  <2>10. LargestKept'
    <3> SUFFICES ASSUME pinLimit >= SizeMax
                 PROVE  /\ n = 0 => reserve >= largest'
                        /\ n # 0 => chunks'[1].capacity >= largest'
      BY <1>1, <1>2, <1>4, <2>1, <2>4 DEF LargestKept
    <3>1. CASE n = 0
      <4>1. total = 0 /\ reserve >= largest
        BY <1>1, <1>2, <1>3, <3>1, ChunkFacts, TotalFew DEF IInv, LargestKept
      <4> QED
        BY <1>1, <1>3, <3>1, <4>1 DEF Larger
    <3>2. CASE n # 0
      <4>1. n = 1 /\ total = chunks[1].used /\ chunks[1].capacity >= largest
            /\ chunks[1].used <= chunks[1].capacity
        BY <1>1, <1>2, <1>3, <1>4, <3>2, ChunkFacts, TotalFew
           DEF IInv, LargestKept, ChunksInv
      <4>2. chunks'[1].capacity = chunks[1].capacity
        BY <2>3, <4>1
      <4> QED
        BY <1>1, <1>3, <3>2, <4>1, <4>2 DEF Larger
    <3> QED
      BY <3>1, <3>2
  <2> QED
    BY <2>5, <2>6, <2>9, <2>10 DEF IInv
<1>5. CASE ~(n < 2)
  <2>1. chunks' = <<>> /\ reserve' = Headroom(total, 8)
    BY <1>1, <1>2, <1>5 DEF Reset, IInv, SumInv
  <2>2. Headroom(total, 8) \in Nat /\ total <= Headroom(total, 8)
        /\ Headroom(total, 8) <= SizeMax
    BY <1>3, HeadroomFacts
  <2>3. chunks' \in Seq(Chunk) /\ Len(chunks') = 0
    BY <2>1
  <2>4. ArenaTypeOK'
    <3>1. resets' \in Nat /\ largest' \in Nat /\ reserve' \in Nat
      BY <1>1, <1>3, <2>1, <2>2 DEF IInv, ArenaTypeOK, Larger
    <3> QED
      BY <1>1, <1>3, <2>3, <3>1 DEF IInv, ArenaTypeOK
  <2>5. Total(UsedSizes') = 0 /\ Total(Capacities') = 0
    <3>1. UsedSizes' \in Sequence(0) /\ Capacities' \in Sequence(0)
      BY <2>1 DEF UsedSizes, Capacities, Sequence
    <3> QED
      BY <3>1, TotalFew
  <2>6. FailInv'
    BY <1>1, <1>2, <1>5, <2>1 DEF IInv, FailInv, ArenaTypeOK
  <2>7. SumInv' /\ ChunksInv' /\ AllocsSeparate'
    BY <1>1, <1>3, <2>1, <2>2, <2>3, <2>5
       DEF SumInv, ChunksInv, AllocsSeparate, Used, Aligned
  <2>8. LargestKept'
    <3> SUFFICES ASSUME pinLimit >= SizeMax PROVE reserve' >= largest'
      BY <1>1, <2>1, <2>3 DEF LargestKept
    <3>1. total > largest
      BY <1>1, <1>2, <1>5 DEF IInv, LargestKept
    <3> QED
      BY <1>1, <1>3, <2>1, <2>2, <3>1 DEF Larger
  <2> QED
    BY <2>4, <2>6, <2>7, <2>8 DEF IInv
<1> QED
  BY <1>4, <1>5

\* Nothing is left of an arena that was destroyed.
LEMMA DestroyInv ==
  ASSUME IInv, Destroy, UNCHANGED pinLimit PROVE IInv'
<1>1. /\ chunks' = <<>> /\ allocs' = {} /\ ~alive' /\ alive' \in BOOLEAN
      /\ UNCHANGED <<reserve, total, largest, strikes, resets, pinLimit>>
  BY DEF Destroy
<1>2. chunks' \in Seq(Chunk) /\ Len(chunks') = 0 /\ MaxChunks \in Nat
      /\ SizeMax \in Nat
  BY <1>1, ArenaAssumption
<1>3. ArenaTypeOK'
  BY <1>1, <1>2 DEF IInv, ArenaTypeOK
<1>4. Total(Capacities') = 0
  <2>1. Capacities' \in Sequence(0)
    BY <1>1 DEF Capacities, Sequence
  <2> QED
    BY <2>1, TotalFew
<1>5. FailInv' /\ SumInv' /\ ChunksInv' /\ AllocsSeparate' /\ LargestKept'
  BY <1>1, <1>2, <1>4
     DEF IInv, FailInv, SumInv, ChunksInv, AllocsSeparate, LargestKept, Aligned
<1> QED
  BY <1>3, <1>5 DEF IInv

\* Every step keeps the invariant.
LEMMA NextInv == IInv /\ [ArenaNext]_arenaVars => IInv'
<1> SUFFICES ASSUME IInv, [ArenaNext]_arenaVars PROVE IInv'
  OBVIOUS
<1>1. CASE UNCHANGED arenaVars
  <2>1. UNCHANGED <<pinLimit, chunks, reserve, allocs, total, largest, strikes,
                    resets, alive>>
    BY <1>1 DEF arenaVars
  <2>2. /\ ArenaTypeOK' /\ ChunksInv' /\ AllocsSeparate' /\ FailInv'
        /\ LargestKept'
    BY <2>1
       DEF IInv, ArenaTypeOK, ChunksInv, AllocsSeparate, FailInv, LargestKept,
           Aligned
  <2>3. SumInv'
    BY <2>1, SumsKept DEF IInv, SumInv, Used
  <2> QED
    BY <2>2, <2>3 DEF IInv
<1>2. CASE ArenaNext
  <2>0. UNCHANGED pinLimit
    BY <1>2 DEF ArenaNext
  <2>1. CASE Reset
    BY <2>0, <2>1, ResetInv
  <2>2. ASSUME NEW bytes \in Requests, Alloc(bytes) PROVE IInv'
    <3>1. bytes \in Nat /\ alive
      BY <2>2, ArenaAssumption DEF Alloc
    <3>2. CASE Refuse(bytes)
      BY <1>1, <2>0, <3>2 DEF Refuse
    <3> QED
      BY <2>0, <2>2, <3>1, <3>2, BumpInv, GrowInv, GrowFailsInv DEF Alloc
  <2>3. CASE Destroy
    BY <2>0, <2>3, DestroyInv
  <2>4. CASE Gone
    BY <1>1, <2>4 DEF Gone
  <2> QED
    BY <1>2, <2>1, <2>2, <2>3, <2>4 DEF ArenaNext
<1> QED
  BY <1>1, <1>2

\* So it holds always.
LEMMA Invariant == ArenaSpec => []IInv
BY InitInv, NextInv, PTL DEF ArenaSpec

\* Every variable stays in its range, the chunks in their array.
THEOREM ArenaTypeCorrect == ArenaSpec => []ArenaTypeOK
<1>1. IInv => ArenaTypeOK
  BY DEF IInv
<1> QED
  BY <1>1, Invariant, PTL

\* geozl_gpu_arena_alloc: what a batch was handed is aligned, within the used
\* part of a chunk and apart from everything else it was handed.
THEOREM AllocationsAreSeparate == ArenaSpec => []AllocsSeparate
<1>1. IInv => AllocsSeparate
  BY DEF IInv
<1> QED
  BY <1>1, Invariant, PTL

\* geozl_gpu_arena_reset: on a host that can pin anything the first chunk, or
\* the reserve for it, holds the largest batch so far.
THEOREM LargestBatchIsKept == ArenaSpec => []LargestKept
<1>1. IInv => LargestKept
  BY DEF IInv
<1> QED
  BY <1>1, Invariant, PTL

\* A reserve that cannot be pinned fails one request that could have been, never
\* two in a row.
THEOREM ReserveFailsOneRequest == ArenaSpec => []ReserveFailsOnce
<1>1. IInv => ReserveFailsOnce
  BY DEF IInv, FailInv, ReserveFailsOnce
<1> QED
  BY <1>1, Invariant, PTL

-----------------------------------------------------------------------------
(* The frame pass                                                          *)

USE PassAssumption
USE DEF Frames, Workers, DeviceRoutes, Routes, setup, Holding

\* The bases of the capture-time plans were fixed before the pass.
LEMMA BasesStay ==
  ASSUME UNCHANGED <<direct, routed>>
  PROVE  /\ Bases' = Bases
         /\ \A f \in Frames : OutputBase(routed, f)' = OutputBase(routed, f)
BY DEF Bases, OutputBase, Before

\* A step that changes no route and no plan keeps their types.
LEMMA RouteTypeStay ==
  ASSUME RouteType, UNCHANGED <<direct, routed, route, planBase>>
  PROVE RouteType'
  BY BasesStay DEF RouteType

\* The counter never gives a frame twice.
LEMMA TakeHand ==
  ASSUME IndInv, NEW t \in Workers, Take(t)
  PROVE  HandInv'
<1> USE DEF IndInv, TypeOK, ProgressType
<1>1. hand'[t] = next /\ next' = next + 1 /\ pc'[t] = "check"
  BY DEF Take
<1>2. \A s \in Workers \ {t} : hand'[s] = hand[s] /\ pc'[s] = pc[s]
  BY DEF Take
<1>3. \A s \in Workers : hand[s] \in Nat /\ next \in Nat
  OBVIOUS
<1>4. HandInv
  OBVIOUS
<1> HIDE DEF IndInv, TypeOK, ProgressType
<1>5. ASSUME NEW s \in Workers, pc'[s] \in {"check", "work", "fail"}
      PROVE  hand'[s] < next'
  <2>1. CASE s = t
    BY <1>1, <1>3, <2>1
  <2>2. CASE s # t
    <3>1. hand'[s] = hand[s] /\ pc[s] \in {"check", "work", "fail"}
      BY <1>2, <1>5, <2>2
    <3>2. hand[s] < next
      BY <1>4, <3>1 DEF HandInv
    <3> QED
      BY <1>1, <1>3, <3>1, <3>2
  <2> QED
    BY <2>1, <2>2
<1>6. ASSUME NEW s \in Workers, pc'[s] = "work"
      PROVE  hand'[s] \in Frames
  BY <1>1, <1>2, <1>4, <1>6 DEF HandInv
<1>7. ASSUME NEW s \in Workers, s # t, Holding(s)'
      PROVE  Holding(s) /\ hand'[s] = hand[s] /\ hand[s] # next
  BY <1>2, <1>3, <1>4, <1>7 DEF HandInv
<1>8. ASSUME NEW r \in Workers, NEW s \in Workers, Holding(r)', Holding(s)',
             hand'[r] = hand'[s]
      PROVE  r = s
  <2>1. CASE r # t /\ s # t
    <3>1. Holding(r) /\ Holding(s) /\ hand[r] = hand[s]
      BY <1>7, <1>8, <2>1
    <3> QED
      BY <1>4, <3>1 DEF HandInv
  <2>2. CASE r = t /\ s # t
    BY <1>1, <1>7, <1>8, <2>2
  <2>3. CASE r # t /\ s = t
    BY <1>1, <1>7, <1>8, <2>3
  <2> QED
    BY <2>1, <2>2, <2>3
<1> QED
  BY <1>5, <1>6, <1>8 DEF HandInv

\* A worker goes on with a frame of the call only.
LEMMA CheckHand ==
  ASSUME IndInv, NEW t \in Workers, Check(t)
  PROVE  HandInv'
<1> USE DEF IndInv, TypeOK, ProgressType
<1>1. pc'[t] = "work" => hand[t] \in Frames
  BY DEF Check, Stops
<1>2. \A s \in Workers \ {t} : pc'[s] = pc[s]
  BY DEF Check
<1>3. hand' = hand /\ next' = next /\ pc[t] = "check"
  BY DEF Check
<1> QED
  BY <1>1, <1>2, <1>3 DEF HandInv

\* A worker stops when the frames are out or the pass has failed.
LEMMA CheckJoin ==
  ASSUME IndInv, NEW t \in Workers, Check(t)
  PROVE  JoinInv'
<1> USE DEF IndInv, TypeOK, ProgressType
<1>1. pc'[t] = "done" => failed \/ next >= FrameCount
  <2>1. hand[t] < next /\ hand[t] \in Nat /\ next \in Nat
    BY DEF Check, HandInv
  <2>2. pc'[t] = "done" => failed \/ hand[t] >= FrameCount
    BY DEF Check, Stops
  <2> HIDE DEF IndInv, TypeOK, ProgressType
  <2> QED
    BY <2>1, <2>2
<1>2. t < threads /\ turn <= t
  BY DEF Check, Runs, JoinInv
<1>3. \A s \in Workers \ {t} : pc'[s] = pc[s]
  BY DEF Check
<1>4. UNCHANGED <<turn, threads, phase, failed, next>>
  BY DEF Check
<1>5. \A s \in Workers : pc'[s] = "done" => failed \/ next >= FrameCount
  BY <1>1, <1>3 DEF JoinInv
<1>6. ASSUME NEW s \in Workers
      PROVE  (s < turn => pc'[s] = "done") /\ (s >= threads => pc'[s] = "take")
  <2>1. CASE s = t
    BY <1>2, <2>1
  <2>2. CASE s # t
    BY <1>3, <2>2 DEF JoinInv
  <2> QED
    BY <2>1, <2>2
<1> QED
  BY <1>4, <1>5, <1>6 DEF JoinInv

\* A worker that works on a frame holds it alone, and nobody handled it.
LEMMA InOneHand ==
  ASSUME IndInv, NEW t \in Workers, pc[t] = "work"
  PROVE  /\ hand[t] \in Frames /\ hand[t] < next /\ next \in Nat
         /\ handled[hand[t]] = 0 /\ handled \in [Frames -> Nat]
         /\ \A s \in Workers \ {t} : Holding(s) => hand[s] # hand[t]
<1>1. hand[t] \in Frames /\ hand[t] < next
  BY DEF IndInv, HandInv
<1>2. \A s \in Workers \ {t} : Holding(s) => hand[s] # hand[t]
  BY DEF IndInv, HandInv
<1>3. handled[hand[t]] = 0
  BY <1>1 DEF IndInv, OnceInv
<1>4. next \in Nat /\ handled \in [Frames -> Nat]
  BY DEF IndInv, TypeOK, ProgressType
<1> QED
  BY <1>1, <1>2, <1>3, <1>4

\* When the worker is done with its frame, that frame was handled once, and no
\* other worker's frame was.
LEMMA HandledOnce ==
  ASSUME IndInv, NEW t \in Workers, pc[t] = "work",
         handled' = [handled EXCEPT ![hand[t]] = @ + 1],
         UNCHANGED <<hand, next, failed>>, ~Holding(t)',
         \A s \in Workers \ {t} : pc'[s] = pc[s]
  PROVE  handled' \in [Frames -> Nat] /\ OnceInv' /\ TakenInv'
<1>1. /\ hand[t] \in Frames /\ hand[t] < next /\ next \in Nat
      /\ handled[hand[t]] = 0 /\ handled \in [Frames -> Nat]
      /\ \A s \in Workers \ {t} : Holding(s) => hand[s] # hand[t]
  BY InOneHand
<1>2. handled'[hand[t]] = 1 /\ handled' \in [Frames -> Nat]
  BY <1>1
<1>3. \A f \in Frames \ {hand[t]} : handled'[f] = handled[f]
  BY <1>1
<1>4. OnceInv /\ TakenInv
  BY DEF IndInv
<1>5. ASSUME NEW f \in Frames
      PROVE  handled'[f] <= 1 /\ (f >= next' => handled'[f] = 0)
  <2>1. CASE f = hand[t]
    BY <1>1, <1>2, <2>1
  <2>2. CASE f # hand[t]
    BY <1>3, <1>4, <2>2 DEF OnceInv
  <2> QED
    BY <2>1, <2>2
<1>6. ASSUME NEW s \in Workers, Holding(s)', hand'[s] \in Frames
      PROVE  handled'[hand'[s]] = 0
  <2>1. s # t
    BY <1>6
  <2>2. Holding(s) /\ hand'[s] = hand[s] /\ hand[s] # hand[t]
    BY <1>1, <1>6, <2>1
  <2>3. handled[hand[s]] = 0
    BY <1>4, <1>6, <2>2 DEF OnceInv
  <2> QED
    BY <1>3, <1>6, <2>2, <2>3
<1>7. OnceInv'
  BY <1>5, <1>6 DEF OnceInv
<1>8. ASSUME NEW f \in Frames, f < next, ~failed
      PROVE  \/ handled'[f] = 1
             \/ \E s \in Workers : Holding(s)' /\ hand'[s] = f
  <2>1. CASE f = hand[t]
    BY <1>2, <2>1
  <2>2. CASE f # hand[t] /\ handled[f] = 1
    BY <1>3, <2>2
  <2>3. CASE f # hand[t] /\ \E s \in Workers : Holding(s) /\ hand[s] = f
    <3>1. PICK s \in Workers : Holding(s) /\ hand[s] = f
      BY <2>3
    <3> QED
      BY <2>3, <3>1
  <2> QED
    BY <1>1, <1>4, <1>8, <2>1, <2>2, <2>3 DEF TakenInv
<1>9. TakenInv'
  BY <1>1, <1>8 DEF TakenInv
<1> QED
  BY <1>2, <1>7, <1>9

\* A frame that breaks was in one hand, and not handled before.
LEMMA BreakHandled ==
  ASSUME IndInv, NEW t \in Workers, Break(t)
  PROVE  /\ handled' \in [Frames -> Nat] /\ broken' \subseteq Frames
         /\ OnceInv' /\ TakenInv'
<1>1. /\ pc[t] = "work" /\ pc'[t] = "fail"
      /\ \A s \in Workers \ {t} : pc'[s] = pc[s]
  BY DEF Break, IndInv, TypeOK, ProgressType
<1>2. /\ handled' = [handled EXCEPT ![hand[t]] = @ + 1]
      /\ UNCHANGED <<hand, next, failed>>
  BY DEF Break
<1>3. handled' \in [Frames -> Nat] /\ OnceInv' /\ TakenInv'
  BY <1>1, <1>2, HandledOnce
<1>4. broken' \subseteq Frames
  <2>1. hand[t] \in Frames /\ broken \subseteq Frames
    BY <1>1, InOneHand DEF IndInv, TypeOK, ProgressType
  <2> QED
    BY <2>1 DEF Break
<1> QED
  BY <1>3, <1>4

\* So was a frame that is decoded or captured.
LEMMA HandleHandled ==
  ASSUME IndInv, NEW t \in Workers, Handle(t), pc[t] = "work"
  PROVE  handled' \in [Frames -> Nat] /\ OnceInv' /\ TakenInv'
<1>1. pc'[t] = "take" /\ \A s \in Workers \ {t} : pc'[s] = pc[s]
  BY DEF Handle, IndInv, TypeOK, ProgressType
<1>2. /\ handled' = [handled EXCEPT ![hand[t]] = @ + 1]
      /\ UNCHANGED <<hand, next, failed>>
  BY DEF Handle
<1> QED
  BY <1>1, <1>2, HandledOnce

\* The frame a worker takes is one nobody took, and it is not lost.
LEMMA TakeTaken ==
  ASSUME IndInv, NEW t \in Workers, Take(t)
  PROVE  OnceInv' /\ TakenInv' /\ JoinInv'
<1>1. /\ hand'[t] = next /\ next' = next + 1 /\ pc'[t] = "check"
      /\ pc[t] = "take" /\ t < threads
      /\ \A s \in Workers \ {t} : hand'[s] = hand[s] /\ pc'[s] = pc[s]
  BY DEF Take, Runs, IndInv, TypeOK, ProgressType
<1>2. UNCHANGED <<handled, failed, phase, turn, threads>>
  BY DEF Take
<1>3. /\ next \in Nat /\ handled \in [Frames -> Nat] /\ turn \in Nat
      /\ threads \in Nat
  BY DEF IndInv, TypeOK, ProgressType
<1>4. OnceInv /\ TakenInv /\ JoinInv
  BY DEF IndInv
<1>5. \A s \in Workers \ {t} : Holding(s) <=> Holding(s)'
  BY <1>1
<1>6. OnceInv'
  <2>1. \A f \in Frames : handled[f] <= 1 /\ (f >= next + 1 => handled[f] = 0)
    BY <1>3, <1>4 DEF OnceInv
  <2>2. ASSUME NEW s \in Workers, Holding(s)', hand'[s] \in Frames
        PROVE  handled[hand'[s]] = 0
    <3>1. CASE s = t
      BY <1>1, <1>3, <1>4, <2>2, <3>1 DEF OnceInv
    <3>2. CASE s # t
      BY <1>1, <1>4, <1>5, <2>2, <3>2 DEF OnceInv
    <3> QED
      BY <3>1, <3>2
  <2> QED
    BY <1>1, <1>2, <2>1, <2>2 DEF OnceInv
<1>7. TakenInv'
  <2>1. ASSUME NEW f \in Frames, f < next + 1, ~failed, handled[f] # 1
        PROVE  \E s \in Workers : Holding(s)' /\ hand'[s] = f
    <3>1. CASE f = next
      BY <1>1, <3>1
    <3>2. CASE f # next
      <4>1. ~(f >= next)
        BY <1>3, <2>1, <3>2
      <4>2. PICK s \in Workers : Holding(s) /\ hand[s] = f
        BY <1>4, <2>1, <4>1 DEF TakenInv
      <4>3. s # t
        BY <1>1, <4>2
      <4> QED
        BY <1>1, <1>5, <4>2, <4>3
    <3> QED
      BY <3>1, <3>2
  <2>2. \A f \in Frames : f >= next + 1 \/ f < next + 1
    BY <1>3
  <2> QED
    BY <1>1, <1>2, <2>1, <2>2 DEF TakenInv
<1>8. JoinInv'
  <2>1. ASSUME NEW s \in Workers
        PROVE  /\ pc'[s] = "done" => failed \/ next + 1 >= FrameCount
               /\ s < turn => pc'[s] = "done"
               /\ s >= threads => pc'[s] = "take"
    <3>1. CASE s = t
      <4>1. ~(t < turn) /\ ~(t >= threads)
        BY <1>1, <1>3, <1>4 DEF JoinInv
      <4> QED
        BY <1>1, <3>1, <4>1
    <3>2. CASE s # t
      <4>1. pc'[s] = pc[s]
        BY <1>1, <3>2
      <4>2. next >= FrameCount => next + 1 >= FrameCount
        BY <1>3
      <4> QED
        BY <1>4, <4>1, <4>2 DEF JoinInv
    <3> QED
      BY <3>1, <3>2
  <2> QED
    BY <1>1, <1>2, <1>4, <2>1 DEF JoinInv
<1> QED
  BY <1>6, <1>7, <1>8

\* A frame decoded on the host needs no plan.
LEMMA HostPlan ==
  ASSUME IndInv, NEW t \in Workers, HostDecode(t)
  PROVE  PlanInv'
<1> USE DEF IndInv, TypeOK, ProgressType, RouteType
<1>1. hand[t] \in Frames /\ route[hand[t]] = "host"
  BY DEF HostDecode, HandInv
<1>2. \A f \in Frames \ {hand[t]} : handled'[f] = handled[f]
  BY <1>1 DEF HostDecode, Handle
<1>3. UNCHANGED <<direct, routed, storage, broken, route, planBase,
                  planFailed>>
  BY DEF HostDecode, Handle
<1>4. route[hand[t]] \notin DeviceRoutes
  BY <1>1
<1> HIDE DEF IndInv, TypeOK, ProgressType, RouteType
<1>5. PlanInv
  BY DEF IndInv
<1>6. \A g \in Frames : OutputBase(routed, g)' = OutputBase(routed, g)
  BY <1>3, BasesStay
<1>7. ASSUME NEW g \in Frames, handled'[g] # 0, g \notin broken',
             route'[g] \in DeviceRoutes, storage'[route'[g]], ~planFailed'
      PROVE  planBase'[g] = OutputBase(routed, g)
  <2>1. g # hand[t] /\ route' = route
    BY <1>3, <1>4, <1>7
  <2>2. handled[g] # 0
    BY <1>2, <1>7, <2>1
  <2> QED
    BY <1>3, <1>5, <1>7, <2>2 DEF PlanInv
<1>8. \A g \in Frames :
         routed'[g] # "fallback" /\ route'[g] \in {routed'[g], "fallback"}
  BY <1>3, <1>5 DEF PlanInv
<1> QED
  BY <1>6, <1>7, <1>8 DEF PlanInv

\* A captured frame is planned with the base its route had before the pass.
LEMMA CapturePlan ==
  ASSUME IndInv, NEW t \in Workers, Capture(t)
  PROVE  PlanInv'
<1> USE DEF IndInv, TypeOK, ProgressType, RouteType
<1> DEFINE f == hand[t]
<1>1. f \in Frames /\ route[f] \in DeviceRoutes
  BY DEF Capture, HandInv
<1>2. \A g \in Frames \ {f} :
         handled'[g] = handled[g] /\ route'[g] = route[g]
           /\ planBase'[g] = planBase[g]
  BY <1>1 DEF Capture, Handle
<1>3. /\ UNCHANGED <<direct, routed, storage, broken>>
      /\ planFailed => planFailed'
  BY DEF Capture, Handle
<1>4. route'[f] \in {route[f], "fallback"}
  BY <1>1 DEF Capture
<1>5. storage[route[f]] /\ route'[f] # "fallback" /\ ~planFailed' =>
        planBase'[f] = OutputBase(routed, f)
  BY <1>1 DEF Capture
<1>6. PlanInv
  OBVIOUS
<1> HIDE DEF IndInv, TypeOK, ProgressType, RouteType, f
<1>7. \A g \in Frames :
         routed'[g] # "fallback" /\ route'[g] \in {routed'[g], "fallback"}
  BY <1>1, <1>2, <1>3, <1>4, <1>6 DEF PlanInv
<1>8. \A g \in Frames : OutputBase(routed, g)' = OutputBase(routed, g)
  BY <1>3, BasesStay
<1>9. ASSUME NEW g \in Frames, handled'[g] # 0, g \notin broken',
             route'[g] \in DeviceRoutes, storage'[route'[g]], ~planFailed'
      PROVE  planBase'[g] = OutputBase(routed, g)
  <2>1. CASE g = f
    BY <1>3, <1>4, <1>5, <1>9, <2>1
  <2>2. CASE g # f
    BY <1>2, <1>3, <1>6, <1>9, <2>2 DEF PlanInv
  <2> QED
    BY <2>1, <2>2
<1> QED
  BY <1>7, <1>8, <1>9 DEF PlanInv

\* The base a capture-time plan used is one of the bases.
LEMMA CaptureBase ==
  ASSUME IndInv, NEW t \in Workers, Capture(t)
  PROVE planBase' \in [Frames -> {NoBase} \cup Bases]
<1> USE DEF IndInv, TypeOK, RouteType
<1>1. hand[t] \in Frames
  BY DEF Capture, HandInv
<1>2. OutputBase(routed, hand[t]) \in Bases
  BY <1>1 DEF Bases
<1> QED
  BY <1>1, <1>2 DEF Capture

\* fail_frame keeps the lowest frame, whichever worker comes first.
LEMMA FailBroken ==
  ASSUME IndInv, NEW t \in Workers, FailFrame(t)
  PROVE  BrokenInv'
<1> USE DEF IndInv, TypeOK, ProgressType
<1>1. failed' = TRUE /\ broken' = broken /\ hand' = hand /\ pc[t] = "fail"
  BY DEF FailFrame
<1>2. hand[t] \in broken
  BY <1>1 DEF BrokenInv
<1>3. errorFrame' <= hand[t] /\ (failed => errorFrame' <= errorFrame)
  <2>1. hand[t] \in Nat /\ errorFrame \in Nat
    OBVIOUS
  <2>2. errorFrame' = IF ~failed \/ hand[t] < errorFrame
                      THEN hand[t] ELSE errorFrame
    BY DEF FailFrame, IsError
  <2> HIDE DEF IndInv, TypeOK, ProgressType
  <2> QED
    BY <2>1, <2>2
<1>4. errorFrame' \in broken
  BY <1>2 DEF FailFrame, IsError, BrokenInv
<1>5. \A s \in Workers : s # t => pc'[s] = pc[s]
  BY DEF FailFrame
<1>6. pc'[t] = "take" /\ errorFrame' \in Nat
  BY DEF FailFrame
<1>7. ASSUME NEW f \in broken
      PROVE  \/ errorFrame' <= f
             \/ \E s \in Workers : pc'[s] = "fail" /\ hand'[s] = f
  <2>1. CASE failed /\ errorFrame <= f
    BY <1>3, <1>6, <2>1
  <2>2. CASE \E s \in Workers : pc[s] = "fail" /\ hand[s] = f
    <3>1. PICK s \in Workers : pc[s] = "fail" /\ hand[s] = f
      BY <2>2
    <3> QED
      BY <1>1, <1>3, <1>5, <3>1
  <2> QED
    BY <1>7, <2>1, <2>2 DEF BrokenInv
<1> QED
  BY <1>1, <1>2, <1>4, <1>5, <1>6, <1>7 DEF BrokenInv

\* A worker takes the next frame.
LEMMA TakeStep ==
  ASSUME IndInv, NEW t \in Workers, Take(t)
  PROVE  IndInv'
<1> USE DEF IndInv, TypeOK
<1>1. ProgressType'
  <2>1. /\ pc' \in [Workers -> {"take", "check", "work", "fail", "done"}]
        /\ hand' \in [Workers -> Nat] /\ next' \in Nat
    BY DEF ProgressType, Take
  <2>2. /\ threads' \in 0 .. MaxThreads /\ threaded' \subseteq Workers
        /\ turn' \in 0 .. MaxThreads /\ errorFrame' \in Nat
        /\ phase' \in {"pass", "collect", "done", "error"}
    BY DEF ProgressType, Take
  <2>3. handled' \in [Frames -> Nat] /\ broken' \subseteq Frames
    BY DEF ProgressType, Take
  <2> QED
    BY <2>1, <2>2, <2>3 DEF ProgressType
<1>2. FlagType'
  BY Zenon DEF FlagType, Take, setup
<1>3. RouteType'
  BY RouteTypeStay DEF Take
<1>4. HandInv'
  BY TakeHand
<1>5. OnceInv' /\ TakenInv' /\ JoinInv'
  BY TakeTaken
<1>8. BrokenInv'
  BY DEF ProgressType, BrokenInv, Take, Runs
<1>9. PlanInv'
  BY BasesStay DEF PlanInv, Take
<1> QED
  BY <1>1, <1>2, <1>3, <1>4, <1>5, <1>8, <1>9

\* It stops or goes on.
LEMMA CheckStep ==
  ASSUME IndInv, NEW t \in Workers, Check(t)
  PROVE  IndInv'
<1> USE DEF IndInv, TypeOK
<1>1. ProgressType'
  <2>1. /\ pc' \in [Workers -> {"take", "check", "work", "fail", "done"}]
        /\ hand' \in [Workers -> Nat] /\ next' \in Nat
    BY DEF ProgressType, Check, Stops
  <2>2. /\ threads' \in 0 .. MaxThreads /\ threaded' \subseteq Workers
        /\ turn' \in 0 .. MaxThreads /\ errorFrame' \in Nat
        /\ phase' \in {"pass", "collect", "done", "error"}
    BY DEF ProgressType, Check, Stops
  <2>3. handled' \in [Frames -> Nat] /\ broken' \subseteq Frames
    BY DEF ProgressType, Check, Stops
  <2> QED
    BY <2>1, <2>2, <2>3 DEF ProgressType
<1>2. FlagType'
  BY Zenon DEF FlagType, Check, Stops, setup
<1>3. RouteType'
  BY RouteTypeStay DEF Check, Stops
<1>4. HandInv'
  BY CheckHand
<1>5. OnceInv'
  BY DEF ProgressType, OnceInv, HandInv, Check, Runs, Stops
<1>6. TakenInv'
  BY DEF ProgressType, TakenInv, HandInv, OnceInv, Check, Runs, Stops
<1>7. JoinInv'
  BY CheckJoin
<1>8. BrokenInv'
  BY DEF ProgressType, BrokenInv, Check, Runs, Stops
<1>9. PlanInv'
  BY BasesStay DEF PlanInv, Check, Stops
<1> QED
  BY <1>1, <1>2, <1>3, <1>4, <1>5, <1>6, <1>7, <1>8, <1>9

\* Its frame breaks.
LEMMA BreakStep ==
  ASSUME IndInv, NEW t \in Workers, Break(t)
  PROVE  IndInv'
<1> USE DEF IndInv, TypeOK
<1>1. ProgressType'
  <2>1. /\ pc' \in [Workers -> {"take", "check", "work", "fail", "done"}]
        /\ hand' \in [Workers -> Nat] /\ next' \in Nat
    BY DEF ProgressType, Break
  <2>2. /\ threads' \in 0 .. MaxThreads /\ threaded' \subseteq Workers
        /\ turn' \in 0 .. MaxThreads /\ errorFrame' \in Nat
        /\ phase' \in {"pass", "collect", "done", "error"}
    BY DEF ProgressType, Break
  <2>3. handled' \in [Frames -> Nat] /\ broken' \subseteq Frames
    BY BreakHandled
  <2> QED
    BY <2>1, <2>2, <2>3 DEF ProgressType
<1>2. FlagType'
  BY Zenon DEF FlagType, Break, setup
<1>3. RouteType'
  BY RouteTypeStay DEF Break
<1>4. HandInv'
  BY DEF ProgressType, HandInv, Break, Runs
<1>5. OnceInv'
  BY BreakHandled
<1>6. TakenInv'
  BY BreakHandled
<1>7. JoinInv'
  BY DEF ProgressType, JoinInv, HandInv, Break, Runs
<1>8. BrokenInv'
  BY DEF ProgressType, BrokenInv, Break, Runs
<1>9. PlanInv'
  BY BasesStay DEF ProgressType, PlanInv, HandInv, Break
<1> QED
  BY <1>1, <1>2, <1>3, <1>4, <1>5, <1>6, <1>7, <1>8, <1>9

\* Its frame is decoded on the host.
LEMMA HostDecodeStep ==
  ASSUME IndInv, NEW t \in Workers, HostDecode(t)
  PROVE  IndInv'
<1> USE DEF IndInv, TypeOK
<1>1. ProgressType'
  <2>1. /\ pc' \in [Workers -> {"take", "check", "work", "fail", "done"}]
        /\ hand' \in [Workers -> Nat] /\ next' \in Nat
    BY DEF ProgressType, HostDecode, Handle
  <2>2. /\ threads' \in 0 .. MaxThreads /\ threaded' \subseteq Workers
        /\ turn' \in 0 .. MaxThreads /\ errorFrame' \in Nat
        /\ phase' \in {"pass", "collect", "done", "error"}
    BY DEF ProgressType, HostDecode, Handle
  <2>3. handled' \in [Frames -> Nat] /\ broken' \subseteq Frames
    BY HandleHandled DEF ProgressType, HostDecode, Handle
  <2> QED
    BY <2>1, <2>2, <2>3 DEF ProgressType
<1>2. FlagType'
  BY Zenon DEF FlagType, HostDecode, Handle, setup
<1>3. RouteType'
  BY RouteTypeStay DEF HostDecode, Handle
<1>4. HandInv'
  BY DEF ProgressType, HandInv, HostDecode, Runs, Handle
<1>5. OnceInv'
  BY HandleHandled DEF HostDecode
<1>6. TakenInv'
  BY HandleHandled DEF HostDecode
<1>7. JoinInv'
  BY DEF ProgressType, JoinInv, HandInv, HostDecode, Runs, Handle
<1>8. BrokenInv'
  BY DEF ProgressType, BrokenInv, HostDecode, Runs, Handle
<1>9. PlanInv'
  BY HostPlan
<1> QED
  BY <1>1, <1>2, <1>3, <1>4, <1>5, <1>6, <1>7, <1>8, <1>9

\* Its frame is captured, or falls back.
LEMMA CaptureStep ==
  ASSUME IndInv, NEW t \in Workers, Capture(t)
  PROVE  IndInv'
<1> USE DEF IndInv, TypeOK
<1>1. ProgressType'
  <2>1. /\ pc' \in [Workers -> {"take", "check", "work", "fail", "done"}]
        /\ hand' \in [Workers -> Nat] /\ next' \in Nat
    BY DEF ProgressType, Capture, Handle
  <2>2. /\ threads' \in 0 .. MaxThreads /\ threaded' \subseteq Workers
        /\ turn' \in 0 .. MaxThreads /\ errorFrame' \in Nat
        /\ phase' \in {"pass", "collect", "done", "error"}
    BY DEF ProgressType, Capture, Handle
  <2>3. handled' \in [Frames -> Nat] /\ broken' \subseteq Frames
    BY HandleHandled DEF ProgressType, Capture, Handle
  <2> QED
    BY <2>1, <2>2, <2>3 DEF ProgressType
<1>2. FlagType'
  BY Zenon DEF FlagType, Capture, Handle, setup
<1>3. RouteType'
  <2>1. hand[t] \in Frames
    BY DEF Capture, HandInv
  <2>2. route' \in [Frames -> Routes] /\ routed' = routed /\ direct' = direct
    BY <2>1 DEF RouteType, Capture, Handle
  <2> QED
    BY <2>2, CaptureBase, BasesStay DEF RouteType
<1>4. HandInv'
  BY DEF ProgressType, HandInv, Capture, Runs, Handle
<1>5. OnceInv'
  BY HandleHandled DEF Capture
<1>6. TakenInv'
  BY HandleHandled DEF Capture
<1>7. JoinInv'
  BY DEF ProgressType, JoinInv, HandInv, Capture, Runs, Handle
<1>8. BrokenInv'
  BY DEF ProgressType, BrokenInv, Capture, Runs, Handle
<1>9. PlanInv'
  BY CapturePlan
<1> QED
  BY <1>1, <1>2, <1>3, <1>4, <1>5, <1>6, <1>7, <1>8, <1>9

\* It records its error.
LEMMA FailFrameStep ==
  ASSUME IndInv, NEW t \in Workers, FailFrame(t)
  PROVE  IndInv'
<1> USE DEF IndInv, TypeOK
<1>1. ProgressType'
  <2>1. /\ pc' \in [Workers -> {"take", "check", "work", "fail", "done"}]
        /\ hand' \in [Workers -> Nat] /\ next' \in Nat
    BY DEF ProgressType, FailFrame, IsError
  <2>2. /\ threads' \in 0 .. MaxThreads /\ threaded' \subseteq Workers
        /\ turn' \in 0 .. MaxThreads /\ errorFrame' \in Nat
        /\ phase' \in {"pass", "collect", "done", "error"}
    BY DEF ProgressType, FailFrame, IsError
  <2>3. handled' \in [Frames -> Nat] /\ broken' \subseteq Frames
    BY DEF ProgressType, FailFrame, IsError
  <2> QED
    BY <2>1, <2>2, <2>3 DEF ProgressType
<1>2. FlagType'
  BY Zenon DEF FlagType, FailFrame, IsError, setup
<1>3. RouteType'
  BY RouteTypeStay DEF FailFrame, IsError
<1>4. HandInv'
  BY DEF ProgressType, HandInv, FailFrame, Runs, IsError
<1>5. OnceInv'
  BY DEF ProgressType, OnceInv, HandInv, FailFrame, Runs, IsError
<1>6. TakenInv'
  BY DEF ProgressType, TakenInv, HandInv, OnceInv, FailFrame, Runs, IsError
<1>7. JoinInv'
  BY DEF ProgressType, JoinInv, HandInv, FailFrame, Runs, IsError
<1>8. BrokenInv'
  BY FailBroken
<1>9. PlanInv'
  BY BasesStay DEF PlanInv, FailFrame, IsError
<1> QED
  BY <1>1, <1>2, <1>3, <1>4, <1>5, <1>6, <1>7, <1>8, <1>9

\* The calling thread joins a worker.
LEMMA JoinStep ==
  ASSUME IndInv, Join
  PROVE  IndInv'
<1> USE DEF IndInv, TypeOK
<1>1. ProgressType'
  <2>1. /\ pc' \in [Workers -> {"take", "check", "work", "fail", "done"}]
        /\ hand' \in [Workers -> Nat] /\ next' \in Nat
    BY DEF ProgressType, Join
  <2>2. /\ threads' \in 0 .. MaxThreads /\ threaded' \subseteq Workers
        /\ turn' \in 0 .. MaxThreads /\ errorFrame' \in Nat
        /\ phase' \in {"pass", "collect", "done", "error"}
    BY DEF ProgressType, Join, JoinInv
  <2>3. handled' \in [Frames -> Nat] /\ broken' \subseteq Frames
    BY DEF ProgressType, Join
  <2> QED
    BY <2>1, <2>2, <2>3 DEF ProgressType
<1>2. FlagType'
  BY Zenon DEF FlagType, Join, setup
<1>3. RouteType'
  BY RouteTypeStay DEF Join
<1>4. HandInv'
  BY DEF ProgressType, HandInv, Join, Runs
<1>5. OnceInv'
  BY DEF ProgressType, OnceInv, HandInv, Join, Runs
<1>6. TakenInv'
  BY DEF ProgressType, TakenInv, HandInv, OnceInv, Join, Runs
<1>7. JoinInv'
  BY DEF ProgressType, JoinInv, HandInv, Join, Runs
<1>8. BrokenInv'
  BY DEF ProgressType, BrokenInv, Join, Runs
<1>9. PlanInv'
  BY BasesStay DEF PlanInv, Join
<1> QED
  BY <1>1, <1>2, <1>3, <1>4, <1>5, <1>6, <1>7, <1>8, <1>9

\* The calling thread collects the frames.
LEMMA CollectStep ==
  ASSUME IndInv, Collect
  PROVE  IndInv'
<1> USE DEF IndInv, TypeOK
<1>1. ProgressType'
  <2>1. /\ pc' \in [Workers -> {"take", "check", "work", "fail", "done"}]
        /\ hand' \in [Workers -> Nat] /\ next' \in Nat
    BY DEF ProgressType, Collect
  <2>2. /\ threads' \in 0 .. MaxThreads /\ threaded' \subseteq Workers
        /\ turn' \in 0 .. MaxThreads /\ errorFrame' \in Nat
        /\ phase' \in {"pass", "collect", "done", "error"}
    BY DEF ProgressType, Collect
  <2>3. handled' \in [Frames -> Nat] /\ broken' \subseteq Frames
    BY DEF ProgressType, Collect
  <2> QED
    BY <2>1, <2>2, <2>3 DEF ProgressType
<1>2. FlagType'
  BY Zenon DEF FlagType, Collect, setup
<1>3. RouteType'
  <2>1. route' \in [Frames -> Routes] /\ UNCHANGED <<routed, direct, planBase>>
    BY DEF RouteType, Collect
  <2> QED
    BY <2>1, BasesStay DEF RouteType
<1>4. HandInv'
  BY DEF ProgressType, HandInv, Collect, Runs
<1>5. OnceInv'
  BY DEF ProgressType, OnceInv, HandInv, Collect, Runs
<1>6. TakenInv'
  BY DEF ProgressType, TakenInv, HandInv, OnceInv, Collect, Runs
<1>7. JoinInv'
  BY DEF ProgressType, JoinInv, HandInv, Collect, Runs
<1>8. BrokenInv'
  BY DEF ProgressType, BrokenInv, Collect, Runs
<1>9. PlanInv'
  BY BasesStay DEF RouteType, PlanInv, Collect
<1> QED
  BY <1>1, <1>2, <1>3, <1>4, <1>5, <1>6, <1>7, <1>8, <1>9

\* IndInv is an invariant.
THEOREM Invariance == Spec => []IndInv
<1>1. Init => IndInv
  <2> SUFFICES ASSUME Init PROVE IndInv
    OBVIOUS
  <2>1. TypeOK
    <3>1. ProgressType
      BY DEF Init, ProgressType
    <3>2. FlagType
      BY Zenon DEF Init, FlagType
    <3>3. RouteType
      BY DEF Init, RouteType
    <3> QED
      BY <3>1, <3>2, <3>3 DEF TypeOK
  <2>2. HandInv /\ OnceInv /\ TakenInv /\ JoinInv
    BY DEF Init, HandInv, OnceInv, TakenInv, JoinInv
  <2>3. BrokenInv /\ PlanInv
    BY DEF Init, BrokenInv, PlanInv
  <2> QED
    BY <2>1, <2>2, <2>3 DEF IndInv
<1>2. IndInv /\ [Next]_vars => IndInv'
  <2> SUFFICES ASSUME IndInv, [Next]_vars PROVE IndInv'
    OBVIOUS
  <2>1. ASSUME NEW t \in Workers, Worker(t) PROVE IndInv'
    BY <2>1, TakeStep, CheckStep, BreakStep, HostDecodeStep, CaptureStep,
       FailFrameStep DEF Worker
  <2>2. CASE UNCHANGED vars
    <3> USE <2>2 DEF vars, IndInv
    <3>1. TypeOK'
      BY RouteTypeStay DEF TypeOK, ProgressType, FlagType
    <3>2. HandInv' /\ OnceInv' /\ TakenInv' /\ JoinInv' /\ BrokenInv'
      BY DEF HandInv, OnceInv, TakenInv, JoinInv, BrokenInv
    <3>3. PlanInv'
      BY BasesStay DEF PlanInv
    <3> QED
      BY <3>1, <3>2, <3>3
  <2> QED
    BY <2>1, <2>2, JoinStep, CollectStep DEF Next, Ended
<1> QED
  BY <1>1, <1>2, PTL DEF Spec

\* The variables of the pass keep their types.
THEOREM TypeCorrect == Spec => []TypeOK
<1>1. IndInv => TypeOK
  BY DEF IndInv
<1> QED
  BY <1>1, Invariance, PTL

\* After the pass no worker holds a frame or an error.
LEMMA WorkersStopped ==
  ASSUME IndInv, phase # "pass", threads # 0
  PROVE  pc[0] = "done" /\ \A t \in Workers : pc[t] \in {"done", "take"}
<1>1. turn = threads /\ threads \in 0 .. MaxThreads
  BY DEF IndInv, TypeOK, ProgressType, JoinInv
<1>2. ASSUME NEW t \in Workers
      PROVE  (t < turn => pc[t] = "done") /\ (t >= turn => pc[t] = "take")
  BY <1>1 DEF IndInv, JoinInv
<1>3. 0 \in Workers /\ 0 < turn /\ \A t \in Workers : t < turn \/ t >= turn
  BY <1>1
<1> QED
  BY <1>2, <1>3

\* After a pass that did not fail every frame was handled and none broke.
LEMMA AllHandled ==
  ASSUME IndInv, phase \in {"collect", "done"}
  PROVE  broken = {} /\ \A f \in Frames : handled[f] = 1
<1>1. ~failed /\ threads # 0
  BY DEF IndInv, JoinInv
<1>2. pc[0] = "done" /\ \A t \in Workers : pc[t] \in {"done", "take"}
  BY <1>1, WorkersStopped
<1>3. broken = {}
  BY <1>1, <1>2 DEF IndInv, BrokenInv
<1>4. next >= FrameCount /\ next \in Nat
  BY <1>1, <1>2 DEF IndInv, JoinInv, TypeOK, ProgressType
<1>5. ASSUME NEW f \in Frames PROVE handled[f] = 1
  <2>1. ~(f >= next)
    BY <1>4
  <2> QED
    BY <1>1, <1>2, <2>1 DEF IndInv, TakenInv
<1> QED
  BY <1>3, <1>5

\* Whatever the threads do, a pass that succeeds has handled every frame once.
THEOREM FramesHandledOnce == Spec => []EachFrameOnce
<1>1. IndInv => EachFrameOnce
  BY AllHandled DEF IndInv, OnceInv, EachFrameOnce
<1> QED
  BY <1>1, Invariance, PTL

\* The frame the error names is the lowest that failed.
THEOREM LowestErrorReported == Spec => []ErrorIsLowest
<1>1. IndInv => ErrorIsLowest
  BY WorkersStopped DEF IndInv, BrokenInv, ErrorIsLowest
<1> QED
  BY <1>1, Invariance, PTL

\* As many frames on a route as before the pass means the same frames.
LEMMA SameRoute ==
  ASSUME IndInv, NEW r \in DeviceRoutes, Count(route, r) = Count(routed, r)
  PROVE  {f \in Frames : route[f] = r} = {f \in Frames : routed[f] = r}
<1> DEFINE now == {f \in Frames : route[f] = r}
           then == {f \in Frames : routed[f] = r}
<1>1. now \subseteq then
  BY DEF IndInv, PlanInv
<1>2. IsFiniteSet(then)
  <2>1. IsFiniteSet(Frames)
    BY FS_Interval
  <2> QED
    BY <2>1, FS_Subset
<1> QED
  BY <1>1, <1>2, FS_Subset DEF Count

\* Capture-time plans are used only where they agree with the final layout.
THEOREM PlansFitTheLayout == Spec => []PlansAgree
<1>1. IndInv => PlansAgree
  <2> SUFFICES ASSUME IndInv, phase = "done", NEW r \in DeviceRoutes,
                      PlanReady(r), NEW f \in Frames, route[f] = r
               PROVE  /\ planBase[f] = OutputBase(route, f)
                      /\ r = "pfor" =>
                           BlockBase(routed, f) = BlockBase(route, f)
    BY DEF PlansAgree
  <2>1. {g \in Frames : route[g] = r} = {g \in Frames : routed[g] = r}
    BY SameRoute DEF PlanReady
  <2>2. routed[f] = r
    BY <2>1
  <2>3. Before(route, r, f) = Before(routed, r, f)
    BY <2>1 DEF Before
  <2>4. planBase[f] = OutputBase(routed, f)
    <3>1. handled[f] = 1 /\ broken = {}
      BY AllHandled
    <3>2. PlanInv /\ storage[r] /\ ~planFailed
      BY DEF IndInv, PlanReady
    <3> QED
      BY <3>1, <3>2 DEF PlanInv
  <2>5. OutputBase(routed, f) = OutputBase(route, f)
    BY <2>2, <2>3 DEF OutputBase
  <2> QED
    BY <2>3, <2>4, <2>5 DEF BlockBase
<1> QED
  BY <1>1, Invariance, PTL
===============================================================================
