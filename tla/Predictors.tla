----------------------------- MODULE Predictors -----------------------------
(***************************************************************************)
(* The lossless predictors delta_w, delta_n, planar, planar_zigzag,        *)
(* planar_zigzag_pfor, average and wp_static, from the parameters of the   *)
(* graph builder to the decoded samples.  An encoder replaces each sample  *)
(* by its difference to a prediction; a decoder sums up again, in runs of  *)
(* a row, Lanes samples at a time and one by one at the end of a run.      *)
(*                                                                         *)
(* Kernels that allow dst to be src are run that way too, so the order in  *)
(* which samples are read and overwritten matters.  Every element width is *)
(* the same code with another Modulus and another number of lanes; a       *)
(* number of lanes above every row is the scalar build.  The coding of     *)
(* PFOR blocks is left out: a block holds the values it was made of.  A    *)
(* stream without samples takes no kernel and is left out.                 *)
(***************************************************************************)
EXTENDS Samples, FiniteSets

CONSTANTS
  Codecs,       \* the codecs to look at
  Rasters,      \* the streams to encode, functions on 0 .. n - 1
  MaxPlanes,    \* bound: planes asked for
  Builds,       \* the builds of a decoder, see IsBuild
  Block,        \* GEOZL_PFOR_BLOCK
  Weights,      \* what wp_static may be trained to, see IsWeights
  SampleBits,   \* bits of a sample
  Corruptions   \* stream -> headers found instead of the one written

\* 2 to the power of k, as far as a sum has bits: a shift by k divides by it.
Power[k \in 0 .. 4 * SampleBits] == IF k = 0 THEN 1 ELSE 2 * Power[k - 1]

Headers == [size : {4, 8, 13, 17}, width : Nat, planes : Nat]

\* lanes samples fit a SIMD register; halves says that the halves of a register
\* are summed on their own (AVX2); narrow samples have 16 bits, others 64.
IsBuild(b) ==
  b.lanes \in {2, 4, 8, 16, 32} /\ {b.halves, b.narrow} \subseteq BOOLEAN

\* The weights of the four neighbours and the shift of their sum.
IsWeights(w) == {w.n, w.nw, w.ne, w.nn} \subseteq Int /\ w.shift \in Nat

ASSUME PredictorAssumption ==
  /\ Codecs \subseteq {"delta_w", "delta_n", "planar", "planar_zigzag",
                       "planar_zigzag_pfor", "average", "wp_static"}
  /\ \A w \in Weights : IsWeights(w)
  /\ SampleBits \in Nat /\ Modulus = Power[SampleBits]
  /\ \A s \in Rasters : \E n \in 1 .. Cardinality(DOMAIN s) :
       s \in [0 .. n - 1 -> Sample]
  /\ MaxPlanes \in Nat /\ Block \in Nat \ {0}
  /\ \A b \in Builds : IsBuild(b)
  /\ \A s \in Rasters : Corruptions[s] \subseteq Headers

VARIABLES
  build,      \* of the decoder
  codec,
  original,   \* what was encoded
  header,     \* size, width and planes
  weights,    \* of wp_static, also in its header
  corrupt,    \* the header is not the one that was written
  inPlace,    \* dst is src
  src, dst,   \* the two streams of a kernel
  phase,      \* "encode", "header", "plane", "run", "row", "done", "error"
  at,         \* samples encoded, or the sample where the run starts
  i, n,       \* the next sample of the run, and its length
  carry,      \* the sum so far
  scratch     \* B and L of average, when they could be allocated

vars == <<build, codec, original, header, weights, corrupt, inPlace, src, dst,
          phase, at, i, n, carry, scratch>>

Lanes == build.lanes

NoSample == -1
NoScratch == <<>>
Positions == DOMAIN original
nbElts == Cardinality(Positions)
Untouched == [p \in Positions |-> NoSample]

Zigzags == {"planar_zigzag", "planar_zigzag_pfor"}

\* wp_static sums in 64 bits: four times the bits of a narrow sample, or as many
\* as a wide one has.
FoldBits == IF build.narrow THEN 4 * SampleBits ELSE SampleBits

-----------------------------------------------------------------------------
(* The bindings of the encoders: the header for what is asked for          *)

\* An encoder that knows planes declares them only when there are several.
DeclaresPlanes(asked, planesAsked, elts) ==
  LET width == RowWidthDeclared(asked, elts)
      planes == PlanesDeclared(planesAsked, width, elts) IN
  [size |-> IF planes > 1 THEN 8 ELSE 4, width |-> width, planes |-> planes]

EI_delta_w(asked, planesAsked, elts) ==
  [size |-> 4, width |-> RowWidthDeclared(asked, elts), planes |-> 1]

EI_delta_n(asked, planesAsked, elts) == DeclaresPlanes(asked, planesAsked, elts)
EI_planar(asked, planesAsked, elts) == DeclaresPlanes(asked, planesAsked, elts)
EI_average(asked, planesAsked, elts) == DeclaresPlanes(asked, planesAsked, elts)
EI_planar_zigzag(asked, planesAsked, elts) ==
  DeclaresPlanes(asked, planesAsked, elts)

EI_planar_zigzag_pfor(asked, planesAsked, elts) ==
  [DeclaresPlanes(asked, planesAsked, elts) EXCEPT !.size = 17]

EI_wp_static(asked, planesAsked, elts) ==
  LET d == DeclaresPlanes(asked, planesAsked, elts) IN
  [d EXCEPT !.size = IF d.planes > 1 THEN 17 ELSE 13]

Declared(c, asked, planesAsked, elts) ==
  CASE c = "delta_w" -> EI_delta_w(asked, planesAsked, elts)
    [] c = "delta_n" -> EI_delta_n(asked, planesAsked, elts)
    [] c = "planar" -> EI_planar(asked, planesAsked, elts)
    [] c = "average" -> EI_average(asked, planesAsked, elts)
    [] c = "planar_zigzag" -> EI_planar_zigzag(asked, planesAsked, elts)
    [] c = "wp_static" -> EI_wp_static(asked, planesAsked, elts)
    [] OTHER -> EI_planar_zigzag_pfor(asked, planesAsked, elts)

-----------------------------------------------------------------------------
(* The bindings of the decoders: the headers they accept                   *)

width == header.width
planes == IF header.size \in {4, 13} THEN 1 ELSE header.planes
planeElts == nbElts \div planes

\* Mutant: whole rows are asked for, whole planes are not.
AcceptsRows ==
  /\ planes # 0 /\ width # 0
  /\ planes > 1 => planeElts % width = 0

AcceptsPlanes ==
  /\ planes # 0 /\ width # 0
  /\ planes > 1 => nbElts % planes = 0 /\ planeElts % width = 0

DI_delta_w == header.size = 4
DI_delta_n == header.size \in {4, 8} /\ AcceptsPlanes
DI_planar == header.size \in {4, 8} /\ AcceptsPlanes
DI_average == header.size \in {4, 8} /\ AcceptsPlanes
DI_planar_zigzag == header.size \in {4, 8} /\ AcceptsPlanes

DI_wp_static ==
  header.size \in {13, 17} /\ AcceptsPlanes /\ weights.shift < FoldBits

DI_planar_zigzag_pfor ==
  /\ header.size = 17
  /\ planes # 0 /\ width # 0
  /\ nbElts % planes = 0 /\ width <= planeElts /\ planeElts % width = 0

Accepted ==
  CASE codec = "delta_w" -> DI_delta_w
    [] codec = "delta_n" -> DI_delta_n
    [] codec = "planar" -> DI_planar
    [] codec = "average" -> DI_average
    [] codec = "planar_zigzag" -> DI_planar_zigzag
    [] codec = "wp_static" -> DI_wp_static
    [] OTHER -> DI_planar_zigzag_pfor

-----------------------------------------------------------------------------
(* Encoding                                                                *)

EncodesInPlace(c) == c \in {"delta_w", "delta_n"}
DecodesInPlace(c) == c \in {"delta_w", "planar", "planar_zigzag", "wp_static"}

Init ==
  /\ build \in Builds
  /\ codec \in Codecs
  /\ original \in Rasters
  /\ header \in {Declared(codec, asked, planesAsked, nbElts) :
                   asked \in 0 .. nbElts + 1, planesAsked \in 0 .. MaxPlanes}
  /\ weights \in IF codec = "wp_static"
                   THEN {w \in Weights : w.shift < FoldBits} ELSE {<<>>}
  /\ corrupt = FALSE
  /\ inPlace \in IF EncodesInPlace(codec) THEN BOOLEAN ELSE {FALSE}
  /\ src = original
  /\ dst = IF inPlace THEN original ELSE Untouched
  /\ phase = "encode" /\ at = 0 /\ i = 0 /\ n = 0 /\ carry = 0
  /\ scratch = NoScratch

Column(p) == (p % planeElts) % width
Row(p) == (p % planeElts) \div width

\* The neighbours of a sample in its plane, zero outside of it.
West(s, p) == IF Column(p) > 0 THEN s[p - 1] ELSE 0
North(s, p) == IF Row(p) > 0 THEN s[p - width] ELSE 0
NorthWest(s, p) == IF Column(p) > 0 /\ Row(p) > 0 THEN s[p - width - 1] ELSE 0

NorthEast(s, p) ==
  IF Column(p) + 1 < width /\ Row(p) > 0 THEN s[p - width + 1] ELSE 0
NorthNorth(s, p) == IF Row(p) > 1 THEN s[p - 2 * width] ELSE 0

\* acc >> shift, rounded, with the sum in so many bits and the shift of a signed number.
Fold(s, p, bits) ==
  LET scale == Power[weights.shift]
      acc == (weights.n * North(s, p) + weights.nw * NorthWest(s, p)
                + weights.ne * NorthEast(s, p) + weights.nn * NorthNorth(s, p)
                + scale \div 2) % Power[bits]
      signed == IF acc < Power[bits] \div 2 THEN acc ELSE acc - Power[bits] IN
  (signed \div scale) % Modulus

\* What the kernels store for the sample s[p].
EncodeDeltaW(s, p) == Minus(s[p], West(s, p))
EncodeDeltaN(s, p) == Minus(s[p], North(s, p))
EncodePlanar(s, p) == Minus(s[p], Planar(West(s, p), North(s, p), NorthWest(s, p)))
EncodeAverage(s, p) == Minus(s[p], Average(West(s, p), North(s, p)))
EncodePlanarZigzag(s, p) == Zigzag(EncodePlanar(s, p))
EncodePlanarZigzagPfor(s, p) == Zigzag(EncodePlanar(s, p))
EncodeWpStatic(s, p) == Minus(s[p], Plus(West(s, p), Fold(s, p, FoldBits)))

Encoded(s, p) ==
  CASE codec = "delta_w" -> EncodeDeltaW(s, p)
    [] codec = "delta_n" -> EncodeDeltaN(s, p)
    [] codec = "planar" -> EncodePlanar(s, p)
    [] codec = "average" -> EncodeAverage(s, p)
    [] codec = "planar_zigzag" -> EncodePlanarZigzag(s, p)
    [] codec = "wp_static" -> EncodeWpStatic(s, p)
    [] OTHER -> EncodePlanarZigzagPfor(s, p)

Store(p, v) ==
  /\ dst' = [dst EXCEPT ![p] = v]
  /\ src' = IF inPlace THEN [src EXCEPT ![p] = v] ELSE src

\* Mutant: always from the first sample to the last.
EncodeForward(k) == k

\* The sample that is encoded as number k: delta_w goes from right to left in a
\* row and delta_n from the last row of a plane to the first, so that what they
\* overwrite is not needed any more.
EncodeOrder(k) ==
  CASE codec = "delta_w" -> k - Column(k) + (width - 1 - Column(k))
    [] codec = "delta_n" ->
         k + ((planeElts \div width) - 1 - 2 * Row(k)) * width
    [] OTHER -> k

\* A kernel looks at the geometry before it writes.
EncodeReject ==
  /\ phase = "encode" /\ at = 0 /\ RowWidth(width, planeElts) = 0
  /\ phase' = "error"
  /\ UNCHANGED <<codec, original, header, corrupt, inPlace, src, dst, at, i, n,
                 carry, scratch>>

\* One sample is encoded.
Encode ==
  LET p == EncodeOrder(at) IN
  /\ phase = "encode" /\ at < nbElts /\ RowWidth(width, planeElts) # 0
  /\ Store(p, Encoded(src, p))
  /\ at' = at + 1
  /\ UNCHANGED <<codec, original, header, corrupt, inPlace, phase, i, n, carry,
                 scratch>>

-----------------------------------------------------------------------------
(* Decoding                                                                *)

\* The stream reaches a decoder, which may work in place.
Transmit ==
  /\ phase = "encode" /\ at = nbElts
  /\ phase' = "header" /\ at' = 0
  /\ inPlace' \in IF DecodesInPlace(codec) THEN BOOLEAN ELSE {FALSE}
  /\ src' = dst
  /\ dst' = IF inPlace' THEN dst ELSE Untouched
  /\ UNCHANGED <<codec, original, header, corrupt, i, n, carry, scratch>>

\* The header does not arrive as it was written.
Corrupt ==
  /\ phase = "header" /\ ~corrupt
  /\ header' \in Corruptions[original] \ {header}
  /\ corrupt' = TRUE
  /\ UNCHANGED <<codec, original, inPlace, src, dst, phase, at, i, n, carry,
                 scratch>>

DecodeHeader ==
  /\ phase = "header"
  /\ phase' = IF Accepted THEN "plane" ELSE "error"
  /\ UNCHANGED <<codec, original, header, corrupt, inPlace, src, dst, at, i, n,
                 carry, scratch>>

\* The two rows of scratch, as malloc returns them.
Allocated == [c \in 0 .. width - 1 |-> [b |-> NoSample, l |-> NoSample]]

\* The kernel is called for the plane that starts here.
Plane ==
  /\ phase = "plane"
  /\ IF RowWidth(width, planeElts) = 0
       THEN phase' = "error" /\ UNCHANGED scratch
       ELSE /\ phase' = "run"
            /\ scratch' \in IF codec = "average" THEN {NoScratch, Allocated}
                            ELSE {NoScratch}
  /\ UNCHANGED <<codec, original, header, corrupt, inPlace, src, dst, at, i, n,
                 carry>>

Interior == Row(at) > 0

Least(a, b) == IF a < b THEN a ELSE b

\* A run ends with its row, and with its block in planar_zigzag_pfor, whose
\* blocks do not care about rows.
RunLength ==
  LET rowLeft == width - Column(at) IN
  IF codec = "planar_zigzag_pfor"
    THEN Least(rowLeft, Least(Block - (at % Block), nbElts - at))
    ELSE rowLeft

Begin(first, sum) ==
  /\ n' = RunLength /\ i' = first /\ carry' = sum
  /\ phase' = "row"
  /\ UNCHANGED <<codec, original, header, corrupt, inPlace, at, scratch>>

\* geozl_scan: the rows of delta_w and the first row of planar and wp_static.
Scan ==
  /\ phase = "run"
  /\ codec = "delta_w" \/ (codec \in {"planar", "wp_static"} /\ ~Interior)
  /\ Begin(0, 0)
  /\ UNCHANGED <<src, dst>>

\* frow: no sample is northwest of the first one, which is summed on its own.
FRow ==
  LET first == Plus(src[at], dst[at - width]) IN
  /\ phase = "run" /\ codec = "planar" /\ Interior
  /\ Store(at, first)
  /\ Begin(1, first)

\* Mutant: 32 bits for every shift.
FoldsShortAlways(c) == build.narrow /\ c > 0 /\ c + 1 < width

\* Between the two ends of a row, narrow samples are summed in 32 bits, which
\* are enough for a small shift.
FoldsShort(c) ==
  build.narrow /\ weights.shift <= SampleBits /\ c > 0 /\ c + 1 < width

\* krow: what the rows above say is added to the residuals, and the row is
\* scanned where it lies.
KRow ==
  LET Folded(q) ==
        Plus(src[q], Fold(dst, q, IF FoldsShort(Column(q)) THEN 2 * SampleBits
                                  ELSE FoldBits))
      Out(s) == [q \in Positions |->
                   IF q \in at .. at + width - 1 THEN Folded(q) ELSE s[q]] IN
  /\ phase = "run" /\ codec = "wp_static" /\ Interior
  /\ dst' = Out(dst) /\ src' = IF inPlace THEN Out(src) ELSE src
  /\ Begin(0, 0)

\* A run in the middle of a row goes on where the last one ended.
Initial == IF Column(at) = 0 THEN 0 ELSE dst[at - 1]

ZScan ==
  /\ phase = "run" /\ codec \in Zigzags /\ ~Interior
  /\ Begin(0, Initial)
  /\ UNCHANGED <<src, dst>>

ZFRow ==
  LET residual == Unzigzag(src[at])
      first == IF Column(at) = 0 THEN Plus(residual, dst[at - width])
               ELSE Minus(Plus(Plus(Initial, residual), dst[at - width]),
                          dst[at - width - 1]) IN
  /\ phase = "run" /\ codec \in Zigzags /\ Interior
  /\ Store(at, first)
  /\ Begin(1, first)

\* What the sample at p adds to the sum: the residual in the first row of a
\* plane, and below it the slope of the row above as well.
FTerm(p) == Minus(Plus(src[p], dst[p - width]), dst[p - width - 1])
ZTerm(p) == Unzigzag(src[p])
ZFTerm(p) == Minus(Plus(ZTerm(p), dst[p - width]), dst[p - width - 1])

Term(p) ==
  CASE codec = "planar" /\ Interior -> FTerm(p)
    [] codec \in Zigzags /\ ~Interior -> ZTerm(p)
    [] codec \in Zigzags /\ Interior -> ZFTerm(p)
    [] codec = "wp_static" /\ Interior -> dst[p]
    [] OTHER -> src[p]

\* Mutant: a ladder that misses its last shift.
RungShort(x, shift, part) ==
  IF 2 * shift >= part THEN x
  ELSE [l \in DOMAIN x |->
          IF l % part >= shift THEN Plus(x[l], x[l - shift]) ELSE x[l]]

\* A register is added to itself, shifted within its parts; a part that is as
\* short as the shift has been summed already.
Rung(x, shift, part) ==
  IF shift >= part THEN x
  ELSE [l \in DOMAIN x |->
          IF l % part >= shift THEN Plus(x[l], x[l - shift]) ELSE x[l]]

\* After the shift by k every sample holds the sum of the 2 * k samples up to
\* it, within its part of the register.
Ladder(x, part) ==
  LET x2 == Rung(x, 1, part)
      x4 == Rung(x2, 2, part)
      x8 == Rung(x4, 4, part)
      x16 == Rung(x8, 8, part) IN
  Rung(x16, 16, part)

\* geozl_vprefix: shifts stay within the halves of a wide register, so the sum
\* of the low half is added to the high half at the end.
VPrefix(x) ==
  IF ~build.halves THEN Ladder(x, Lanes)
  ELSE LET half == Lanes \div 2
           y == Ladder(x, half) IN
       [l \in DOMAIN y |-> IF l < half THEN y[l] ELSE Plus(y[l], y[half - 1])]

\* geozl_vscan: Lanes samples are read before one of them is written, and the
\* carry grows by the sum of the block.
Vector ==
  LET x == VPrefix([l \in 0 .. Lanes - 1 |-> Term(at + i + l)])
      Out(s) == [q \in Positions |->
                   IF q \in at + i .. at + i + Lanes - 1
                     THEN Plus(x[q - at - i], carry) ELSE s[q]] IN
  /\ phase = "row" /\ codec \notin {"average", "delta_n"} /\ i + Lanes <= n
  /\ dst' = Out(dst) /\ src' = IF inPlace THEN Out(src) ELSE src
  /\ carry' = Plus(carry, x[Lanes - 1])
  /\ i' = i + Lanes
  /\ UNCHANGED <<codec, original, header, corrupt, inPlace, phase, at, n,
                 scratch>>

\* The rest of a run, from the sample before it.
RunTail ==
  LET acc == IF i > 0 THEN dst[at + i - 1] ELSE Initial IN
  /\ phase = "row" /\ codec \notin {"average", "delta_n"}
  /\ i < n /\ i + Lanes > n
  /\ Store(at + i, Plus(acc, Term(at + i)))
  /\ i' = i + 1
  /\ UNCHANGED <<codec, original, header, corrupt, inPlace, phase, at, n, carry,
                 scratch>>

\* delta_n adds the row above, sample by sample.
NorthRow ==
  /\ phase = "run" /\ codec = "delta_n"
  /\ dst' = [q \in Positions |->
               IF q \in at .. at + width - 1
                 THEN Plus(src[q], North(dst, q)) ELSE dst[q]]
  /\ UNCHANGED src
  /\ Begin(width, 0)

\* average: the part of the sum that does not depend on the row itself is
\* computed ahead, if there was memory for it.
AverageRow ==
  /\ phase = "run" /\ codec = "average"
  /\ n' = width /\ i' = 0 /\ phase' = "row"
  /\ scratch' =
       IF scratch = NoScratch \/ ~Interior THEN scratch
       ELSE [c \in 0 .. width - 1 |->
               LET up == dst[at + c - width] IN
               [b |-> Plus(src[at + c], up \div 2), l |-> up % 2]]
  /\ UNCHANGED <<codec, original, header, corrupt, inPlace, src, dst, at, carry>>

\* Mutant: the low bit of the row above is dropped.
ChainedNoBit(c, west) == Plus(scratch[c].b, west \div 2)

\* The chain through the samples to the west.
Chained(c, west) ==
  Plus(Plus(scratch[c].b, west \div 2), IF west % 2 = 1 THEN scratch[c].l ELSE 0)

AverageSample ==
  LET p == at + i
      west == IF i = 0 THEN 0 ELSE dst[p - 1] IN
  /\ phase = "row" /\ codec = "average" /\ i < n
  /\ Store(p, IF scratch # NoScratch /\ Interior THEN Chained(i, west)
              ELSE Plus(src[p], Average(west, North(dst, p))))
  /\ i' = i + 1
  /\ UNCHANGED <<codec, original, header, corrupt, inPlace, phase, at, n, carry,
                 scratch>>

\* The run is decoded; the next one starts behind it.  The kernel is called for
\* as many planes as the header says.
EndRun ==
  LET last == (at + n) % planeElts = 0 IN
  /\ phase = "row" /\ i = n
  /\ at' = at + n
  /\ phase' = IF at + n = planes * planeElts THEN "done"
              ELSE IF last /\ codec # "planar_zigzag_pfor" THEN "plane"
              ELSE "run"
  /\ scratch' = IF last THEN NoScratch ELSE scratch
  /\ UNCHANGED <<codec, original, header, corrupt, inPlace, src, dst, i, n,
                 carry>>

Ended == phase \in {"done", "error"} /\ UNCHANGED vars

Next ==
  /\ \/ EncodeReject \/ Encode \/ Transmit \/ Corrupt \/ DecodeHeader \/ Plane
     \/ Scan \/ FRow \/ KRow \/ ZScan \/ ZFRow \/ Vector \/ RunTail \/ NorthRow
     \/ AverageRow \/ AverageSample \/ EndRun \/ Ended
  /\ UNCHANGED <<build, weights>>

Spec == Init /\ [][Next]_vars

-----------------------------------------------------------------------------
(* Properties                                                              *)

TypeOK ==
  /\ build \in Builds
  /\ codec \in Codecs /\ original \in Rasters /\ header \in Headers
  /\ corrupt \in BOOLEAN /\ inPlace \in BOOLEAN
  /\ weights \in Weights \cup {<<>>}
  /\ src \in [Positions -> Sample \cup {NoSample}]
  /\ dst \in [Positions -> Sample \cup {NoSample}]
  /\ phase \in {"encode", "header", "plane", "run", "row", "done", "error"}
  /\ at \in 0 .. nbElts /\ i \in 0 .. n /\ n \in 0 .. nbElts
  /\ carry \in Sample
  /\ scratch = NoScratch \/ DOMAIN scratch = 0 .. width - 1

\* What every kernel has decoded so far is what was encoded, whatever the width,
\* the planes, the lanes, the block size and the place it decodes to; at the end
\* that is the whole stream.  Planes that cannot be had never fail it: an encoder
\* fails only for a width that does not divide the stream, and no decoder refuses
\* what an encoder wrote.
RoundTrip ==
  ~corrupt =>
    /\ phase \in {"plane", "run", "row", "done"} =>
         \A p \in 0 .. at + (IF phase = "row" THEN i ELSE 0) - 1 :
           dst[p] = original[p]
    /\ phase = "error" => RowWidth(width, nbElts) = 0 /\ at = 0

\* DI_*: whatever the header says, a stream that is accepted is decoded to its
\* last sample, and one that is refused has not been written to.
AllOrNothing ==
  /\ phase = "done" => \A p \in Positions : dst[p] \in Sample
  /\ phase = "error" => IF inPlace THEN dst = src ELSE dst = Untouched
=============================================================================
