---------------------------- MODULE BatchLayout ----------------------------
(***************************************************************************)
(* The layout of one call of geozl_gpu_decode_ex (core/src/gpu/decode.c):  *)
(* the copies the caller asks for are checked, frames get their slots in   *)
(* staging and their place in the decoded output, device frames may be     *)
(* decoded straight into the target, and every other copy is cut into      *)
(* pieces of 32-bit samples for the place kernel.                          *)
(*                                                                         *)
(* Sizes are bytes of a size_t that ends at SizeMax; the kernels count     *)
(* samples and bytes in words that end at Word.  Queues, waves and the     *)
(* threads that capture frames are in GpuWaves and FramePass; here a frame *)
(* is what the layout knows of it, and captures may fall back.             *)
(***************************************************************************)
EXTENDS Integers, Sequences, FiniteSets

CONSTANTS
  Calls,           \* what the caller may ask for, see IsCall
  SizeMax,         \* SIZE_MAX
  Word,            \* UINT32_MAX
  MaxDecoded,      \* gpu->maxDecodedBytes
  Margin,          \* UINT32_MAX - DEVICE_BUDGET
  LanePad,         \* lanes of PivCo start at multiples of this
  SlotAlign,       \* slots of captured frames do
  StagingAlign,    \* GEOZL_GPU_STAGING_ALIGNMENT
  PayloadPadding,  \* GEOZL_GPU_PAYLOAD_PADDING
  TargetAlign,     \* of direct stores
  Threads,         \* of a group of the place kernel
  GroupRows,       \* rows of such a group
  GridY            \* groups of a dispatch along Y

\* A frame has the bytes of its data, the bytes it decodes to and the route its
\* last codec allows, "host" when the caller forces that.
IsFrame(f) ==
  /\ f.size \in 1 .. SizeMax /\ f.decoded \in 0 .. SizeMax - 1
  /\ f.kind \in {"host", "pfor", "pivco"}

\* GeozlGpuCopy; frames count from 1.
IsCopy(c) ==
  /\ {c.source, c.sourceRow, c.sourceStep} \subseteq 0 .. SizeMax
  /\ {c.destination, c.destinationRow, c.destinationStep} \subseteq 0 .. SizeMax
  /\ c.frame \in Nat \ {0} /\ c.width \in 0 .. Word /\ c.rows \in 0 .. Word

IsCall(c) ==
  /\ c.backend \in {"cuda", "metal"}
  /\ c.sample \in Nat /\ c.element \in Nat
  /\ c.memory \in 0 .. SizeMax /\ c.offset \in 0 .. SizeMax
  /\ c.bytes \in 0 .. SizeMax - 1
  /\ c.frames \in Seq([size : Nat, decoded : Nat,
                       kind : {"host", "pfor", "pivco"}])
  /\ \A k \in 1 .. Len(c.frames) : IsFrame(c.frames[k])
  /\ c.copies \in Seq([frame : Nat, source : Nat, sourceRow : Nat,
                       sourceStep : Nat, destination : Nat,
                       destinationRow : Nat, destinationStep : Nat,
                       width : Nat, rows : Nat])
  /\ \A k \in 1 .. Len(c.copies) : IsCopy(c.copies[k])

\* The margin below 2^32 holds the roundings of a batch; staging is aligned to
\* whole samples of the sizes that the device decodes.
ASSUME LayoutAssumption ==
  /\ {SizeMax, Word, MaxDecoded, PayloadPadding} \subseteq Nat
  /\ {Margin, LanePad, SlotAlign, StagingAlign, TargetAlign, Threads,
      GroupRows, GridY} \subseteq Nat \ {0}
  /\ Threads < Word /\ Margin < Word /\ Word <= SizeMax
  /\ LanePad + StagingAlign <= Margin /\ PayloadPadding <= Margin
  /\ StagingAlign % 2 = 0
  /\ \A c \in Calls : IsCall(c)

VARIABLES
  call,          \* the arguments of the call
  phase,         \* the loop it is in, or how it ended
  i,             \* index of that loop
  routed,        \* frame -> its route before the pass, frames laid out so far
  slot,          \* frame -> its slot in the staging of that route
  total,         \* route -> pforBytes, pivcoBytes, hostBytes
  deviceOutput,  \* output of device frames, with their padding
  direct,        \* are device frames decoded straight into the target?
  fell,          \* frames that went back to the host
  out,           \* frame -> where its kernel writes, in samples
  base,          \* frame -> where its copies read, frames collected so far
  output,        \* route -> pforOutput, pivcoOutput, fallbackBytes
  lanes,         \* laneBytes of the PivCo plan
  pieces,        \* source -> place copies there is room for
  placed,        \* source -> its place copies
  maxRows        \* source -> rows of the tallest of them

layout == <<routed, slot, total, deviceOutput>>
decoded == <<fell, base, output, lanes>>
copied == <<placed, maxRows>>
vars == <<call, phase, i, layout, direct, out, decoded, pieces, copied>>

Budget == Word - Margin
PlaceMaxRows == GridY * GroupRows
PlaceMaxWidth == Word - Threads

DeviceRoutes == {"pfor", "pivco"}
Sources == {"device", "host", "fallback"}

Frames == 1 .. Len(call.frames)
Copies == 1 .. Len(call.copies)
Frame(f) == call.frames[f]
Sample == call.sample
\* The multiple of `of` at or below n.
Multiple(n, of) == (n \div of) * of

TargetBytes == Multiple(call.bytes, Sample)

Init ==
  /\ call \in Calls
  /\ phase = "validate" /\ i = 1
  /\ routed = <<>> /\ slot = <<>> /\ base = <<>>
  /\ total = [r \in DeviceRoutes \cup {"host"} |-> 0]
  /\ output = [r \in DeviceRoutes \cup {"fallback"} |-> 0]
  /\ deviceOutput = 0 /\ lanes = 0 /\ direct = FALSE /\ fell = {}
  /\ out = [f \in Frames |-> 0]
  /\ pieces = [s \in Sources |-> 0] /\ maxRows = [s \in Sources |-> 0]
  /\ placed = [s \in Sources |-> <<>>]

-----------------------------------------------------------------------------
RoundUp(n, to) ==
  IF n > SizeMax - (to - 1) THEN SizeMax ELSE Multiple(n + to - 1, to)

\* Mutant: the sums wrap.
SpanEndWraps(offset, rows, rowBytes, width, stepBytes) ==
  (offset + (rows - 1) * rowBytes + (width - 1) * stepBytes + Sample)
    % (SizeMax + 1)

\* span_end: the byte past a rectangle of at least one sample, or SizeMax.
SpanEnd(offset, rows, rowBytes, width, stepBytes) ==
  LET down == offset + (rows - 1) * rowBytes
      end == down + (width - 1) * stepBytes
  IN IF \/ rows > 1 /\ rowBytes > (SizeMax - offset) \div (rows - 1)
        \/ width > 1 /\ stepBytes > (SizeMax - down) \div (width - 1)
        \/ end > SizeMax - Sample
     THEN SizeMax ELSE end + Sample

\* What a list of frames decodes to.
DecodedBytes(frames) ==
  LET sum[n \in 0 .. Len(frames)] ==
        IF n = 0 THEN 0 ELSE sum[n - 1] + frames[n].decoded
  IN sum[Len(frames)]

\* The conditions on the call and its frames, but not on its copies.
InputValid ==
  LET start == IF call.backend = "cuda" THEN call.memory + call.offset
               ELSE call.offset
  IN /\ Frames # {} /\ Len(call.frames) <= Word
     /\ Sample \in {1, 2, 4, 8, 16}
     /\ call.element # 0 /\ Sample % call.element = 0
     /\ call.bytes # 0
     /\ start <= SizeMax /\ start % Sample = 0
     /\ \A f \in Frames :
          Frame(f).decoded # 0 /\ Frame(f).decoded % Sample = 0
     /\ DecodedBytes(call.frames) <= MaxDecoded

\* Mutant: any width.
CopyShapedWide(c) ==
  /\ c.frame \in Frames /\ c.width # 0 /\ c.rows # 0
  /\ \A n \in {c.source, c.sourceRow, c.sourceStep, c.destination,
               c.destinationRow, c.destinationStep} : n % Sample = 0

\* The shape of a copy: not empty, no destination twice, whole samples.
CopyShaped(c) ==
  /\ c.frame \in Frames
  /\ c.width # 0 /\ c.rows # 0 /\ c.width <= PlaceMaxWidth
  /\ c.rows > 1 => c.destinationRow # 0
  /\ c.width > 1 => c.destinationStep # 0
  /\ \A n \in {c.source, c.sourceRow, c.sourceStep, c.destination,
               c.destinationRow, c.destinationStep} : n % Sample = 0

\* copies_valid
CopyValid(c) ==
  /\ CopyShaped(c)
  /\ SpanEnd(c.source, c.rows, c.sourceRow, c.width, c.sourceStep)
       <= Frame(c.frame).decoded
  /\ SpanEnd(c.destination, c.rows, c.destinationRow, c.width,
             c.destinationStep) <= TargetBytes

Validate ==
  /\ phase = "validate"
  /\ phase' = IF ~InputValid \/ \E k \in Copies : ~CopyValid(call.copies[k])
              THEN "refused"
              ELSE IF Copies = {} THEN "empty" ELSE "slots"
  /\ UNCHANGED <<call, i, layout, direct, out, decoded, pieces, copied>>

-----------------------------------------------------------------------------
(* Slots in staging, before any frame is touched.                          *)

Device == call.element = Sample /\ Sample <= 2

\* Mutant: the output is not counted.
FitsPayload(f, r) == RoundUp(Frame(f).size, SlotAlign) <= Budget - total[r]

\* What a device frame takes of the budget.
PaddedOutput(f) ==
  IF Frame(f).decoded <= Budget THEN Frame(f).decoded + LanePad * Sample
  ELSE SizeMax

\* A device frame fits next to those before it.
Fits(f, r) ==
  /\ RoundUp(Frame(f).size, SlotAlign) <= Budget - total[r]
  /\ PaddedOutput(f) <= Budget - deviceOutput

RouteOf(f) ==
  LET r == Frame(f).kind IN
  IF Device /\ r # "host" /\ Fits(f, r) THEN r ELSE "host"

\* Mutant: a slot ends at the multiple before its end.
SlotBytesShort(f, r) ==
  IF r = "host" THEN Frame(f).decoded
  ELSE Multiple(Frame(f).size, SlotAlign)

SlotBytes(f, r) ==
  IF r = "host" THEN Frame(f).decoded ELSE RoundUp(Frame(f).size, SlotAlign)

\* The loop goes on with the next frame or the call with the next phase.
Step(last, next) ==
  /\ i' = IF i = last THEN 1 ELSE i + 1
  /\ phase' = IF i = last THEN next ELSE phase

LayFrame ==
  LET r == RouteOf(i) IN
  /\ phase = "slots"
  /\ IF SlotBytes(i, r) > SizeMax - total[r]
     THEN phase' = "failed" /\ UNCHANGED <<i, layout>>
     ELSE /\ routed' = Append(routed, r)
          /\ slot' = Append(slot, total[r])
          /\ total' = [total EXCEPT ![r] = @ + SlotBytes(i, r)]
          /\ deviceOutput' = IF r = "host" THEN deviceOutput
                             ELSE deviceOutput + PaddedOutput(i)
          /\ Step(Len(call.frames), "direct")
  /\ UNCHANGED <<call, direct, out, decoded, pieces, copied>>

-----------------------------------------------------------------------------
(* Direct output.                                                          *)

\* Copies of device frames.
DeviceCopies ==
  {k \in Copies : routed[call.copies[k].frame] \in DeviceRoutes}

\* The copy reads and writes samples one after the other.
Contiguous(c) ==
  /\ c.width = 1 \/ {c.sourceStep, c.destinationStep} = {Sample}
  /\ c.rows = 1 \/ {c.sourceRow, c.destinationRow} = {c.width * Sample}

\* Mutant: the first rows are enough.
WholeRows(c) ==
  LET bytes == Frame(c.frame).decoded IN
  /\ c.source = 0 /\ Contiguous(c)
  /\ bytes <= Budget /\ c.destination <= Budget - bytes

\* Mutant: the target has no budget.
WholeAnywhere(c) ==
  /\ c.source = 0 /\ Contiguous(c)
  /\ c.width * Sample * c.rows = Frame(c.frame).decoded

\* The copy is the whole frame in order, within the budget of the target.
Whole(c) ==
  LET bytes == Frame(c.frame).decoded IN
  /\ c.source = 0 /\ Contiguous(c)
  /\ c.rows <= bytes \div (c.width * Sample)
  /\ c.width * Sample * c.rows = bytes
  /\ bytes <= Budget /\ c.destination <= Budget - bytes

\* direct_span_order, ties in the order of the copies.
Precedes(k, l) ==
  LET a == call.copies[k].destination
      b == call.copies[l].destination
  IN a < b \/ (a = b /\ k < l)

\* Mutant: two spans may share their start.
ApartLoosely(k, l) ==
  call.copies[l].destination >= call.copies[k].destination

\* Spans k and l, neighbours once sorted, do not meet.
Apart(k, l) ==
  call.copies[l].destination >=
    call.copies[k].destination + Frame(call.copies[k].frame).decoded

\* Mutant: a device frame may have several copies.
CoveredAtLeastOnce(f) == \E k \in Copies : call.copies[k].frame = f

CoveredOnce(f) == Cardinality({k \in Copies : call.copies[k].frame = f}) = 1

\* direct_targets
DirectTargets ==
  /\ \A k \in DeviceCopies : Whole(call.copies[k])
  /\ \A f \in Frames : routed[f] \in DeviceRoutes => CoveredOnce(f)
  /\ \A k, l \in DeviceCopies :
       Precedes(k, l)
         /\ ~(\E m \in DeviceCopies : Precedes(k, m) /\ Precedes(m, l)) =>
           Apart(k, l)

Destination(f) ==
  call.copies[CHOOSE k \in Copies : call.copies[k].frame = f].destination

\* Without memory for the spans nothing is direct.
ChooseDirect ==
  /\ phase = "direct"
  /\ \E spans \in BOOLEAN :
       direct' = /\ call.backend = "cuda"
                 /\ (call.memory + call.offset) % TargetAlign = 0
                 /\ spans /\ DirectTargets
  /\ out' = [f \in Frames |->
               IF direct' /\ routed[f] \in DeviceRoutes
               THEN Destination(f) \div Sample ELSE 0]
  /\ phase' = "collect"
  /\ UNCHANGED <<call, i, layout, decoded, pieces, copied>>

-----------------------------------------------------------------------------
(* Collecting the frames after the pass.                                   *)

\* The stride of a lane, times the lanes of a frame.
LaneBytes(f) ==
  Sample * Multiple(Frame(f).decoded \div Sample + LanePad - 1, LanePad)

\* The frame was captured and its header and planes fit: it is next in the
\* output of its route.
Keep ==
  LET r == routed[i] IN
  /\ r \in DeviceRoutes
  /\ out' = IF direct THEN out ELSE [out EXCEPT ![i] = output[r] \div Sample]
  /\ base' = Append(base, output[r])
  /\ output' = [output EXCEPT ![r] = @ + Frame(i).decoded]
  /\ lanes' = IF r = "pivco" THEN lanes + LaneBytes(i) ELSE lanes
  /\ UNCHANGED fell

\* It goes back to the host.
FallBack ==
  /\ routed[i] \in DeviceRoutes
  /\ fell' = fell \cup {i}
  /\ base' = Append(base, output["fallback"])
  /\ output' = [output EXCEPT !["fallback"] = @ + Frame(i).decoded]
  /\ UNCHANGED <<out, lanes>>

OnHost ==
  /\ routed[i] = "host"
  /\ base' = Append(base, slot[i])
  /\ UNCHANGED <<out, fell, output, lanes>>

CollectFrame ==
  /\ phase = "collect"
  /\ Keep \/ FallBack \/ OnHost
  /\ Step(Len(call.frames), "scratch")
  /\ UNCHANGED <<call, layout, direct, pieces, copied>>

Route(f) == IF f \in fell THEN "fallback" ELSE routed[f]
Used(r) == {f \in Frames : Route(f) = r}

\* Mutant: PFOR and PivCo start at the same place.
PivcoOffsetZero == 0

\* Device frames share one scratch, PFOR first.
PivcoOffset == IF direct THEN 0 ELSE RoundUp(output["pfor"], StagingAlign)

\* work->resultBytes
ResultBytes ==
  IF output["pivco"] > lanes + LanePad THEN output["pivco"] ELSE lanes + LanePad

DeviceBytes ==
  IF Used("pivco") # {} THEN PivcoOffset + ResultBytes
  ELSE IF direct THEN 0 ELSE output["pfor"]

\* Mutant: the bases of PivCo frames stay where they are.
ShiftNone ==
  /\ phase = "scratch"
  /\ phase' = IF lanes > Word - LanePad THEN "limit" ELSE "count"
  /\ UNCHANGED <<call, i, layout, direct, out, decoded, pieces, copied>>

\* The plan of PivCo is limited to 32 bits; its frames lie behind those of
\* PFOR in the scratch.
ShiftPivco ==
  /\ phase = "scratch"
  /\ phase' = IF lanes > Word - LanePad THEN "limit" ELSE "count"
  /\ base' = [f \in Frames |->
                IF Route(f) = "pivco" THEN base[f] + PivcoOffset ELSE base[f]]
  /\ UNCHANGED <<call, i, layout, direct, out, fell, output, lanes, pieces,
                 copied>>

-----------------------------------------------------------------------------
(* Place copies.                                                           *)

SourceOf(c) ==
  LET r == Route(c.frame) IN IF r \in DeviceRoutes THEN "device" ELSE r

\* Direct frames need no copy.
Skipped(c) == direct /\ SourceOf(c) = "device"

\* Mutant: the last rows get no piece.
PieceCountShort(c) ==
  IF c.rows < PlaceMaxRows THEN 1 ELSE c.rows \div PlaceMaxRows

PieceCount(c) == (c.rows + PlaceMaxRows - 1) \div PlaceMaxRows

CountPieces ==
  LET c == call.copies[i] IN
  /\ phase = "count"
  /\ pieces' = IF Skipped(c) THEN pieces
               ELSE [pieces EXCEPT ![SourceOf(c)] = @ + PieceCount(c)]
  /\ Step(Len(call.copies), "place")
  /\ UNCHANGED <<call, layout, direct, out, decoded, copied>>

\* The rows of the piece that starts at `row`.
PieceRows(c, row) ==
  IF c.rows - row < PlaceMaxRows THEN c.rows - row ELSE PlaceMaxRows

\* Mutant: every piece starts at the first row of the target.
ToFirst(c, row) == c.destination

From(c, row) == (base[c.frame] + c.source + row * c.sourceRow) % (SizeMax + 1)
To(c, row) == (c.destination + row * c.destinationRow) % (SizeMax + 1)

\* Mutant: the end of the copy, from the start of the piece.
TooLongAll(c, row) ==
  \/ SpanEnd(From(c, row), c.rows, c.sourceRow, c.width, c.sourceStep)
       \div Sample > Word
  \/ SpanEnd(To(c, row), c.rows, c.destinationRow, c.width, c.destinationStep)
       \div Sample > Word

\* A piece the kernel cannot address.
TooLong(c, row) ==
  LET rows == PieceRows(c, row) IN
  \/ SpanEnd(From(c, row), rows, c.sourceRow, c.width, c.sourceStep)
       \div Sample > Word
  \/ SpanEnd(To(c, row), rows, c.destinationRow, c.width, c.destinationStep)
       \div Sample > Word

\* PlaceCopy: samples in words.
Piece(c, row) ==
  LET Samples(bytes) == (bytes \div Sample) % (Word + 1)
      rows == PieceRows(c, row)
      Row(n) == IF rows > 1 THEN Samples(n) ELSE 0
      Col(n) == IF c.width > 1 THEN Samples(n) ELSE 0
  IN [source |-> Samples(From(c, row)), sourceRow |-> Row(c.sourceRow),
      sourceStep |-> Col(c.sourceStep), destination |-> Samples(To(c, row)),
      destinationRow |-> Row(c.destinationRow),
      destinationStep |-> Col(c.destinationStep),
      width |-> c.width, rows |-> rows]

\* Mutant: the rows of the last piece.
TallestLast(n, c) == PieceRows(c, Multiple(c.rows - 1, PlaceMaxRows))

\* The tallest piece of c, or n when that is taller.
Tallest(n, c) == IF PieceRows(c, 0) > n THEN PieceRows(c, 0) ELSE n

\* add_place_copies
AddPlaceCopies ==
  LET c == call.copies[i]
      s == SourceOf(c)
      starts == [k \in 1 .. (c.rows - 1) \div PlaceMaxRows + 1 |->
                   (k - 1) * PlaceMaxRows]
  IN /\ phase = "place"
     /\ IF Skipped(c)
        THEN Step(Len(call.copies), "queue") /\ UNCHANGED copied
        ELSE IF \E k \in DOMAIN starts : TooLong(c, starts[k])
        THEN phase' = "limit" /\ UNCHANGED <<i, copied>>
        ELSE /\ placed' = [placed EXCEPT ![s] =
                             @ \o [k \in DOMAIN starts |-> Piece(c, starts[k])]]
             /\ maxRows' = [maxRows EXCEPT ![s] = Tallest(@, c)]
             /\ Step(Len(call.copies), "queue")
     /\ UNCHANGED <<call, layout, direct, out, decoded, pieces>>

\* The batches of the place kernel.
Queue ==
  /\ phase = "queue"
  /\ phase' = IF \E s \in Sources : Len(placed[s]) > Word THEN "limit"
              ELSE "done"
  /\ UNCHANGED <<call, i, layout, direct, out, decoded, pieces, copied>>

\* Memory runs out, a frame does not decode or a batch cannot be queued.
Fail ==
  /\ phase \in {"slots", "direct", "collect", "scratch", "count", "queue"}
  /\ phase' = "failed"
  /\ UNCHANGED <<call, i, layout, direct, out, decoded, pieces, copied>>

Ended ==
  /\ phase \in {"refused", "empty", "failed", "limit", "done"}
  /\ UNCHANGED vars

Next ==
  \/ Validate \/ LayFrame \/ ChooseDirect \/ CollectFrame \/ ShiftPivco
  \/ CountPieces \/ AddPlaceCopies \/ Queue \/ Fail \/ Ended

Spec == Init /\ [][Next]_vars

-----------------------------------------------------------------------------
(* What the kernels make of it.                                            *)

\* The bytes of a source that hold frames, and what the place kernel may read.
SourceBytes(s) ==
  CASE s = "device" -> DeviceBytes
    [] s = "host" -> total["host"]
    [] s = "fallback" -> output["fallback"]

\* Where the samples of a frame are written, in the bytes of its source.
WrittenAt(f) ==
  CASE Route(f) = "host" -> slot[f]
    [] Route(f) = "fallback" -> base[f]
    [] Route(f) = "pfor" -> out[f] * Sample
    [] Route(f) = "pivco" -> PivcoOffset + out[f] * Sample

\* PivCo runs after PFOR and uses its part of the scratch as temporary space.
Clobbered(f, at) ==
  /\ Route(f) = "pfor" /\ Used("pivco") # {}
  /\ PivcoOffset < at + Sample /\ at < PivcoOffset + ResultBytes

Samples(f) == 0 .. Frame(f).decoded \div Sample - 1

\* Samples <<frame, index>> that sample n of source s holds once decoded.
Holds(s, n) ==
  {h \in UNION {{f} \X Samples(f) : f \in {g \in Frames :
                  Route(g) = s \/ (s = "device" /\ Route(g) \in DeviceRoutes)}} :
     /\ WrittenAt(h[1]) = (n - h[2]) * Sample
     /\ ~Clobbered(h[1], n * Sample)
     /\ (n + 1) * Sample <= SourceBytes(s)}

\* The place kernel over the copies of a source: from one sample to another.
Moves(s) ==
  LET groups == (maxRows[s] + GroupRows - 1) \div GroupRows
      At(start, r, row, x, step) == (start + r * row + x * step) % (Word + 1)
  IN UNION {
       LET p == placed[s][k] IN
       {<<At(p.source, r, p.sourceRow, x, p.sourceStep),
          At(p.destination, r, p.destinationRow, x, p.destinationStep)>> :
          r \in {r \in 0 .. p.rows - 1 : r < groups * GroupRows},
          x \in 0 .. p.width - 1} : k \in DOMAIN placed[s]}

\* <<frame, sample, target sample>>: what arrives in the target.  A read of
\* anything but one frame's sample arrives as frame 0.
Delivered ==
  (UNION {{<<IF Holds(s, m[1]) = {} THEN <<0, 0>>
             ELSE IF Cardinality(Holds(s, m[1])) > 1 THEN <<0, 1>>
             ELSE CHOOSE h \in Holds(s, m[1]) : TRUE, m[2]>> : m \in Moves(s)} :
          s \in Sources})
  \cup (UNION {{<<<<f, k>>, out[f] + k>> : k \in Samples(f)} :
               f \in {f \in Frames : direct /\ Route(f) \in DeviceRoutes}})

\* The bytes <<frame byte, target byte>> of the samples a copy asks for.
AskedOf(c) ==
  {<<c.source + r * c.sourceRow + x * c.sourceStep,
     c.destination + r * c.destinationRow + x * c.destinationStep>> :
     r \in 0 .. c.rows - 1, x \in 0 .. c.width - 1}

Asked ==
  UNION {{<<<<call.copies[k].frame, a[1] \div Sample>>, a[2] \div Sample>> :
            a \in AskedOf(call.copies[k])} : k \in Copies}

-----------------------------------------------------------------------------
\* Every variable stays in its range.
TypeOK ==
  /\ IsCall(call)
  /\ phase \in {"validate", "slots", "direct", "collect", "scratch", "count",
                "place", "queue", "refused", "empty", "failed", "limit", "done"}
  /\ i \in Nat \ {0}
  /\ routed \in Seq(DeviceRoutes \cup {"host"})
  /\ slot \in Seq(0 .. SizeMax) /\ base \in Seq(0 .. SizeMax)
  /\ total \in [DeviceRoutes \cup {"host"} -> 0 .. SizeMax]
  /\ output \in [DeviceRoutes \cup {"fallback"} -> 0 .. SizeMax]
  /\ deviceOutput \in 0 .. Budget /\ lanes \in 0 .. SizeMax
  /\ direct \in BOOLEAN /\ fell \subseteq Frames
  /\ out \in [Frames -> 0 .. SizeMax]
  /\ pieces \in [Sources -> Nat] /\ maxRows \in [Sources -> 0 .. PlaceMaxRows]
  /\ DOMAIN placed = Sources

\* copies_valid refuses exactly the copies that have a sample outside their
\* frame or the target, also where the end of a copy does not fit a size_t.  A
\* later refusal for size comes only where a copy really reads or writes past
\* 2^32 samples, or where there are more pieces than that: never for frames the
\* device decoded, or for lanes.
RefusedForCause ==
  /\ phase # "validate" /\ InputValid
       /\ (\A k \in Copies : CopyShaped(call.copies[k])) =>
         (phase = "refused" <=>
           \E k \in Copies : \E a \in AskedOf(call.copies[k]) :
             \/ a[1] + Sample > Frame(call.copies[k].frame).decoded
             \/ a[2] + Sample > TargetBytes)
  /\ phase = "limit" =>
       \/ \E s \in Sources : Len(placed[s]) > Word
       \/ \E k \in Copies :
            LET c == call.copies[k] IN
            \E a \in AskedOf(c) :
              \/ a[2] \div Sample >= Word
              \/ /\ Route(c.frame) \notin DeviceRoutes
                 /\ (base[c.frame] + a[1]) \div Sample >= Word

\* The bytes a frame writes to its slot.
Needs(f) == IF routed[f] = "host" THEN Frame(f).decoded ELSE Frame(f).size

\* Threads capture and decode into staging side by side: the slots of a route
\* are apart, inside what is allocated, and aligned for captured payloads.
SlotsApart ==
  \A f \in DOMAIN slot :
    /\ slot[f] + Needs(f) <= total[routed[f]]
    /\ routed[f] # "host" => slot[f] % SlotAlign = 0
    /\ \A g \in DOMAIN slot :
         f < g /\ routed[f] = routed[g] => slot[f] + Needs(f) <= slot[g]

\* Frames decoded straight into the target share no byte of it, whatever the
\* caller's copies are: kernels read back what they wrote.
DirectApart ==
  direct =>
    \A f, g \in Frames :
      f # g /\ {routed[f], routed[g]} \subseteq DeviceRoutes =>
        (out[f] .. out[f] + Frame(f).decoded \div Sample - 1)
          \cap (out[g] .. out[g] + Frame(g).decoded \div Sample - 1) = {}

\* The budget of the routes keeps every offset of the decoder kernels within
\* 32 bits: payloads with their padding, outputs, and the scratch with the
\* padding of the lanes.  The arrays of place copies are allocated before they
\* are filled: no source gets more pieces than were counted for it; a dispatch
\* of them stays within the grid, and the loop of a place thread across its row
\* ends before its index wraps.
KernelOffsetsFit ==
  /\ phase \in {"count", "place", "queue", "done"} =>
       /\ \A r \in DeviceRoutes : total[r] + PayloadPadding <= Word
       /\ DeviceBytes <= Word
       /\ \A f \in Frames : Route(f) \in DeviceRoutes =>
            out[f] * Sample + Frame(f).decoded <= Word
  /\ \A s \in Sources :
       /\ Len(placed[s]) <= pieces[s]
       /\ (maxRows[s] + GroupRows - 1) \div GroupRows <= GridY
       /\ \A k \in DOMAIN placed[s] : placed[s][k].width - 1 + Threads <= Word

\* A call that queued its work puts exactly the samples in the target that the
\* copies ask for, whichever frames fell back, were direct or were cut.
PlacedAsAsked == phase = "done" => Delivered = Asked

-----------------------------------------------------------------------------
(* The inductive invariant behind SlotsApart.                              *)

\* What the slots are made of.
SlotType ==
  /\ IsCall(call) /\ i \in Nat \ {0}
  /\ routed \in Seq(DeviceRoutes \cup {"host"}) /\ slot \in Seq(Nat)
  /\ total \in [DeviceRoutes \cup {"host"} -> Nat]

\* The loop has laid out the frames before i, and the slots of captured frames
\* fill whole units.
SlotProgress ==
  /\ Len(routed) = Len(slot) /\ Len(slot) <= Len(call.frames)
  /\ \A r \in DeviceRoutes : \E n \in Nat : total[r] = n * SlotAlign
  /\ phase = "validate" => slot = <<>> /\ i = 1
  /\ phase = "slots" => i = Len(slot) + 1 /\ i <= Len(call.frames)

SlotInv == SlotType /\ SlotProgress /\ SlotsApart

=============================================================================
