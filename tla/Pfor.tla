-------------------------------- MODULE Pfor --------------------------------
(***************************************************************************)
(* The PFOR codec (core/src/pfor).  A stream of samples is cut into blocks *)
(* of 256; a block packs the low bits of every sample at one width and     *)
(* carries the high bits of the samples that do not fit, the exceptions.   *)
(* Streams are sequences of bytes with the block size, group and costs of  *)
(* the code; samples have one or two bytes, and the wide word of 64 bits   *)
(* through which exceptions are read and written is scaled to WideBytes,   *)
(* so that samples of 16 bits are on both sides of its limit.              *)
(*                                                                         *)
(* A session encodes samples block by block, may lose or change bytes of   *)
(* what was written, and decodes the rest.                                 *)
(***************************************************************************)
EXTENDS Naturals, Sequences, FiniteSets, FiniteSetsExt, SequencesExt

CONSTANTS
  Sources,      \* what may be encoded: records [width, elts] of samples
  Damage(_),    \* source -> the alterations its stream may meet, see Altered
  WideBytes,    \* bytes of the wide word, 8 in the code
  MaxWidth      \* bytes of the widest samples, 8 in the code

Block == 256
Group == 16
BitmapBytes == Block \div 8
MaxEltsPerByte == Block \div 2
ExcCostBits == 4
BITMAP == 0
LIST == 1

\* Mutant: two bits too many.
WideMaxLoose == 8 * WideBytes - 5

\* PFOR_WIDE_MAX: a value of so many bits fits a word at any bit of a byte.
WideMax == 8 * WideBytes - 7

\* geozl_pfor_width_ok, up to the widest samples.
Widths == {w \in {1, 2, 4, 8} : w <= MaxWidth}

\* 2 to the power of k, as far as a sample has bits.
Power[k \in 0 .. 8 * MaxWidth] == IF k = 0 THEN 1 ELSE 2 * Power[k - 1]

\* A stream of samples of width bytes each.
IsSource(s) ==
  s.width \in Widths /\ s.elts \in Seq(0 .. Power[8 * s.width] - 1)

\* What may happen to a stream: value takes the place of the byte at a.at, that
\* many bytes are cut off or appended, or the header holds other numbers.
IsDamage(a) ==
  /\ a.at \in Nat /\ a.value \in Nat
  /\ a.kind \in {"byte", "cut", "more", "header"}
  /\ a.kind = "byte" => a.value < 256

ASSUME PforAssumption ==
  /\ WideBytes \in Nat \ {0} /\ MaxWidth \in {1, 2, 4, 8}
  /\ \A s \in Sources : IsSource(s) /\ \A a \in Damage(s) : IsDamage(a)

VARIABLES
  pc,         \* "encode", "sent", "decode", "done" or "corrupt"
  source,     \* the samples of this session
  header,     \* the codec header: count and element width
  sent,       \* the bytes written
  wire,       \* the bytes the decoder is given
  begin, at,  \* where in them the last block and the next one begin
  halves,     \* does this build unpack a block as two halves (AVX2)?
  blocks,     \* blocks encoded
  decoded     \* samples decoded

vars == <<pc, source, header, sent, wire, begin, at, halves, blocks, decoded>>

-----------------------------------------------------------------------------
(* Words and bits                                                          *)

Bits(width) == 8 * width
Lanes(width) == Group \div width
Slots(width) == Block \div Lanes(width)

Bit(v, j) == (v \div Power[j]) % 2

\* The number that n digits stand for, the lowest first, each of so many bits.
Value(digit, n, bits) ==
  LET sum[k \in 0 .. n] ==
        IF k = 0 THEN 0 ELSE sum[k - 1] + digit[k - 1] * Power[bits * (k - 1)]
  IN  sum[n]

\* The members of a set of places of a block, in ascending order.
Ordered(places) ==
  LET below == [i \in places |-> Cardinality({j \in places : j < i})]
  IN  [e \in 1 .. Cardinality(places) |->
         CHOOSE i \in places : below[i] = e - 1]

Low(v, bits) == v % Power[bits]
CeilDiv(a, b) == (a + b - 1) \div b

\* pfor_bw
Width(v) ==
  CHOOSE n \in 0 .. 8 * MaxWidth :
    v < Power[n] /\ (n = 0 \/ v >= Power[n - 1])

BodyBytes(b) == (b * Block) \div 8

PositionBytes(nexc, mode) == IF mode = BITMAP THEN BitmapBytes ELSE nexc

HighBytes(nexc, eb) == CeilDiv(nexc * eb, 8)

ExcBytes(nexc, eb, mode) ==
  IF nexc = 0 THEN 0 ELSE 1 + PositionBytes(nexc, mode) + HighBytes(nexc, eb)

\* Exception e goes through the wide word: bits below eb of it, and the bytes
\* it touches are those of the exceptions.
Wide(e, nexc, eb) ==
  /\ eb <= WideMax /\ HighBytes(nexc, eb) >= WideBytes
  /\ (e * eb) \div 8 <= HighBytes(nexc, eb) - WideBytes

\* Bits that put_bits and get_bits move for exception e: all of it, or what the
\* wide word holds.
Moved(e, nexc, eb) ==
  IF Wide(e, nexc, eb)
    THEN {j \in 0 .. eb - 1 : ((e * eb) % 8) + j < 8 * WideBytes}
    ELSE 0 .. eb - 1

-----------------------------------------------------------------------------
(* Encoder                                                                 *)

\* The samples that do not fit the body.
Outliers(widths, bits) == {i \in 0 .. Block - 1 : widths[i + 1] > bits}

\* Mutant: the narrowest body is taken whatever it costs.
CheapestNarrow(size, b, c) == b <= c

Able(nexc) == nexc <= 255

Cheapest(size, b, c) == size[b] < size[c] \/ (size[b] = size[c] /\ b >= c)

\* The width of the body: the cheapest whose exceptions can be counted in a
\* byte, the widest of those that cost the same.
Select(widths) ==
  LET most == Max(ToSet(widths))
      nexc == [b \in 0 .. most |-> Cardinality(Outliers(widths, b))]
      mode(b) == IF nexc[b] < BitmapBytes THEN LIST ELSE BITMAP
      size == [b \in 0 .. most |->
                 2 + BodyBytes(b) + ExcBytes(nexc[b], most - b, mode(b))
                   + (nexc[b] * ExcCostBits) \div 8]
      able == {b \in 0 .. most : Able(nexc[b])}
      best == CHOOSE b \in able : \A c \in able : Cheapest(size, b, c)
  IN  [bits |-> best, nexc |-> nexc[best], eb |-> most - best,
       mode |-> mode(best)]

\* Bit k of the high bits, exception e of where after exception e - 1.
HighBit(src, sel, where, k) ==
  LET e == k \div sel.eb
      j == k % sel.eb
  IN  IF e < sel.nexc /\ j \in Moved(e, sel.nexc, sel.eb)
        THEN Bit(src[where[e + 1] + 1] \div Power[sel.bits], j) ELSE 0

\* The exceptions of a block: width and mode, positions and high bits.
Exceptions(src, sel, widths) ==
  LET outliers == Outliers(widths, sel.bits)
      where == Ordered(outliers)
      bitmap == [n \in 1 .. BitmapBytes |->
                   Value([j \in 0 .. 7 |->
                            IF 8 * (n - 1) + j \in outliers THEN 1 ELSE 0],
                         8, 1)]
      high == [n \in 1 .. HighBytes(sel.nexc, sel.eb) |->
                 Value([j \in 0 .. 7 |->
                          HighBit(src, sel, where, 8 * (n - 1) + j)], 8, 1)]
  IN  <<sel.eb + 128 * sel.mode>>
        \o (IF sel.mode = BITMAP THEN bitmap ELSE where) \o high

\* A group on the wire: the words of all lanes, little endian.
GroupBytes(width, words) ==
  [k \in 1 .. Group |->
     (words[(k - 1) \div width] \div Power[8 * ((k - 1) % width)]) % 256]

\* One slot is added to the word of each lane; a full word is written and the
\* rest of the sample starts the next one.
PackSlot(st, src, s, width, bits) ==
  LET lanes == 0 .. Lanes(width) - 1
      v == [l \in lanes |-> Low(src[s * Lanes(width) + l + 1], bits)]
      word == [l \in lanes |->
                 st.acc[l] + Low(v[l], Bits(width) - st.nb) * Power[st.nb]]
      r == st.nb + bits - Bits(width)
  IN  IF st.nb + bits < Bits(width)
        THEN [st EXCEPT !.acc = word, !.nb = st.nb + bits]
        ELSE [acc |-> [l \in lanes |-> v[l] \div Power[bits - r]], nb |-> r,
              out |-> st.out \o GroupBytes(width, word)]

\* The lanes after every slot.
Packing(src, width, bits) ==
  LET st[s \in 0 .. Slots(width)] ==
        IF s = 0
          THEN [acc |-> [l \in 0 .. Lanes(width) - 1 |-> 0], nb |-> 0,
                out |-> <<>>]
          ELSE PackSlot(st[s - 1], src, s - 1, width, bits)
  IN  st

Pack(src, width, bits) ==
  IF bits = 0 THEN <<>> ELSE Packing(src, width, bits)[Slots(width)].out

EncodeBlock(src, width) ==
  LET widths == [i \in 1 .. Block |-> Width(src[i])]
      sel == Select(widths)
  IN  <<sel.bits, sel.nexc % 256>>
        \o (IF sel.nexc = 0 THEN <<>> ELSE Exceptions(src, sel, widths))
        \o Pack(src, width, sel.bits)

Bound(n, width) == CeilDiv(n, Block) * (2 + Block * width)

-----------------------------------------------------------------------------
(* Decoder                                                                 *)

\* One slot from the reservoir of each lane, refilled by a group when it holds
\* less than a sample.
UnpackSlot(st, body, width, bits) ==
  LET lanes == 0 .. Lanes(width) - 1
      w == [l \in lanes |->
              Value([k \in 0 .. width - 1 |->
                       body[st.at + l * width + k + 1]], width, 8)]
      used == bits - st.res
  IN  IF st.res < bits
        THEN [acc |-> [l \in lanes |-> w[l] \div Power[used]],
              res |-> Bits(width) - used, at |-> st.at + Group,
              out |-> st.out \o
                        [k \in 1 .. Lanes(width) |->
                           st.acc[k - 1] + Low(w[k - 1], used) * Power[st.res]]]
        ELSE [acc |-> [l \in lanes |-> st.acc[l] \div Power[bits]],
              res |-> st.res - bits, at |-> st.at,
              out |-> st.out \o
                        [k \in 1 .. Lanes(width) |-> Low(st.acc[k - 1], bits)]]

\* The reservoirs after every slot.
Walking(body, from, slots, width, bits) ==
  LET st[s \in 0 .. slots] ==
        IF s = 0
          THEN [acc |-> [l \in 0 .. Lanes(width) - 1 |-> 0], res |-> 0,
                at |-> from, out |-> <<>>]
          ELSE UnpackSlot(st[s - 1], body, width, bits)
  IN  st

Walk(body, from, slots, width, bits) ==
  Walking(body, from, slots, width, bits)[slots].out

\* Mutant: the second half is taken to begin a group later.
UnpackHalfLate(body, width, bits) ==
  IF bits = 0 THEN [i \in 1 .. Block |-> 0]
  ELSE IF halves
    THEN Walk(body, 0, Slots(width) \div 2, width, bits)
           \o Walk(body, (bits - 1) * Group, Slots(width) \div 2, width, bits)
    ELSE Walk(body, 0, Slots(width), width, bits)

\* The body of a block; the AVX2 loops walk its two halves side by side.
Unpack(body, width, bits) ==
  IF bits = 0 THEN [i \in 1 .. Block |-> 0]
  ELSE IF halves
    THEN Walk(body, 0, Slots(width) \div 2, width, bits)
           \o Walk(body, bits * Group, Slots(width) \div 2, width, bits)
    ELSE Walk(body, 0, Slots(width), width, bits)

\* Position e of the exceptions, counted from 0.
Positions(src, nexc, mode) ==
  IF mode = LIST THEN SubSeq(src, 4, 3 + nexc)
  ELSE Ordered({i \in 0 .. Block - 1 : Bit(src[4 + i \div 8], i % 8) = 1})

Refused == [used |-> 0, out |-> <<>>]

\* Mutant: the order of a list is not checked.
AscendingAny(where, mode) == TRUE

Ascending(where, mode) ==
  mode = LIST => \A e \in 2 .. Len(where) : where[e - 1] < where[e]

Counted(where, nexc) == Len(where) = nexc

\* pfor_dec8 and pfor_dec16: Refused, or the samples of the block and the bytes
\* it took.
DecodeBlock(src, width) ==
  LET bits == src[1]
      nexc == src[2]
      eb == src[3] % 128
      mode == src[3] \div 128
      posBytes == PositionBytes(nexc, mode)
      highBytes == HighBytes(nexc, eb)
      excBytes == IF nexc = 0 THEN 0 ELSE 1 + posBytes + highBytes
      where == Positions(src, nexc, mode)
      highBit(k) == Bit(src[4 + posBytes + k \div 8], k % 8)
      high(e) == Value([j \in 0 .. eb - 1 |->
                          IF j \in Moved(e, nexc, eb)
                            THEN highBit(e * eb + j) ELSE 0], eb, 1)
      body == SubSeq(src, 3 + excBytes, 2 + excBytes + BodyBytes(bits))
      packed == Unpack(body, width, bits)
      patch == [i \in ToSet(where) |->
                  CHOOSE e \in 0 .. nexc - 1 : where[e + 1] = i]
  IN  IF \/ Len(src) < 2
         \/ bits > Bits(width)
         \/ nexc # 0 /\ \/ Len(src) < 3
                        \/ eb = 0 \/ bits + eb > Bits(width)
                        \/ Len(src) < 2 + excBytes
                        \/ ~Counted(where, nexc)
         \/ Len(src) < 2 + excBytes + BodyBytes(bits)
         \/ nexc # 0 /\ ~Ascending(where, mode)
        THEN Refused
        ELSE [used |-> 2 + excBytes + BodyBytes(bits),
              out |-> IF nexc = 0 THEN packed
                      ELSE [i \in 1 .. Block |->
                              IF i - 1 \in DOMAIN patch
                                THEN packed[i] + high(patch[i - 1]) * Power[bits]
                                ELSE packed[i]]]

-----------------------------------------------------------------------------
Init ==
  /\ source \in Sources
  /\ halves \in BOOLEAN
  /\ pc = "encode"
  /\ header = [count |-> Len(source.elts), width |-> source.width]
  /\ sent = <<>> /\ wire = <<>> /\ begin = 0 /\ at = 0
  /\ blocks = 0 /\ decoded = <<>>

\* One turn of pfor_encode: the last block is padded with zeros.
Encode ==
  /\ pc = "encode" /\ blocks * Block < Len(source.elts)
  /\ LET off == blocks * Block
         blk == [i \in 1 .. Block |->
                   IF off + i <= Len(source.elts) THEN source.elts[off + i]
                                                  ELSE 0]
     IN  sent' = sent \o EncodeBlock(blk, source.width)
  /\ blocks' = blocks + 1
  /\ UNCHANGED <<pc, source, header, wire, begin, at, halves, decoded>>

\* What may become of the stream and of its header on the way: a byte is
\* replaced, the end is lost, zeros follow, or the header is another one.
Altered(a) ==
  CASE a.kind = "byte" -> [k \in 1 .. Len(sent) |->
                             IF k = a.at THEN a.value ELSE sent[k]]
    [] a.kind = "cut"  -> SubSeq(sent, 1, Len(sent) - a.at)
    [] a.kind = "more" -> sent \o [k \in 1 .. a.at |-> 0]
    [] OTHER           -> sent

\* EI_geozl_pfor ends; what arrives need not be what was sent.
Send ==
  /\ pc = "encode" /\ blocks * Block >= Len(source.elts)
  /\ \/ wire' = sent /\ UNCHANGED header
     \/ \E a \in Damage(source) :
          /\ wire' = Altered(a)
          /\ header' = IF a.kind = "header"
                         THEN [count |-> a.at, width |-> a.value] ELSE header
  /\ pc' = "sent"
  /\ UNCHANGED <<source, sent, begin, at, halves, blocks, decoded>>

\* More elements than a stream of this size can describe.
CountImpossible == header.count > Len(wire) * MaxEltsPerByte

\* DI_geozl_pfor up to pfor_decode.
Open ==
  /\ pc = "sent"
  /\ pc' = IF header.width \notin Widths THEN "corrupt"
           ELSE IF header.count = 0
             THEN IF wire = <<>> THEN "done" ELSE "corrupt"
           ELSE IF CountImpossible THEN "corrupt" ELSE "decode"
  /\ UNCHANGED <<source, header, sent, wire, begin, at, halves, blocks, decoded>>

\* Mutant: what follows the last block is ignored.
EndsAnyhow(end) == TRUE

Ends(end) == end = Len(wire)

\* One turn of pfor_decode: a short block goes through the pad.
Decode ==
  /\ pc = "decode"
  /\ LET blk == DecodeBlock(SubSeq(wire, at + 1, Len(wire)), header.width)
         n == Min({Block, header.count - Len(decoded)})
     IN  IF blk.used = 0
           THEN pc' = "corrupt" /\ UNCHANGED <<begin, at, decoded>>
           ELSE /\ decoded' = decoded \o SubSeq(blk.out, 1, n)
                /\ begin' = at
                /\ at' = at + blk.used
                /\ pc' = IF Len(decoded) + n < header.count THEN pc
                         ELSE IF Ends(at + blk.used) THEN "done" ELSE "corrupt"
  /\ UNCHANGED <<source, header, sent, wire, halves, blocks>>

Ended == pc \in {"done", "corrupt"} /\ UNCHANGED vars

Next == Encode \/ Send \/ Open \/ Decode \/ Ended

Spec == Init /\ [][Next]_vars

-----------------------------------------------------------------------------
(* Properties                                                              *)

\* Samples that were encoded and whose bytes arrive as they were sent are
\* decoded to the same samples, by either way of unpacking; nothing is refused.
RoundTrips ==
  wire = sent /\ header = [count |-> Len(source.elts), width |-> source.width]
    => /\ pc # "corrupt"
       /\ pc = "done" => decoded = source.elts

\* pfor_encode checks the bound once and then writes block after block: no
\* choice of width and exceptions makes them longer than the bound.
WithinBound == Len(sent) <= Bound(Len(source.elts), source.width)

\* The sample at position i of a block as spec.md lays it out: word j of lane l
\* is at j * 16 + l * W of the body, and the exceptions follow one another, eb
\* bits each, in the order of their positions.
LaidOut(blk, width, i) ==
  LET b == blk[1]
      nexc == blk[2]
      eb == blk[3] % 128
      body == Len(blk) - 32 * b
      laneBit(k) ==
        LET q == (i \div Lanes(width)) * b + k
        IN  Bit(blk[body + (q \div Bits(width)) * 16
                      + (i % Lanes(width)) * width
                      + ((q % Bits(width)) \div 8) + 1], q % 8)
      listed == {blk[k] : k \in 4 .. 3 + nexc}
      mapped == {p \in 0 .. 255 : Bit(blk[4 + p \div 8], p % 8) = 1}
      exceptions == IF nexc = 0 THEN {}
                    ELSE IF blk[3] >= 128 THEN listed ELSE mapped
      first == 8 * (body - CeilDiv(nexc * eb, 8))
                 + eb * Cardinality({p \in exceptions : p < i})
      excBit(k) == Bit(blk[(first + k) \div 8 + 1], (first + k) % 8)
  IN  Value([k \in 0 .. b - 1 |-> laneBit(k)], b, 1)
        + IF i \in exceptions
            THEN Power[b] * Value([k \in 0 .. eb - 1 |-> excBit(k)], eb, 1)
            ELSE 0

\* With a byte replaced, the end lost, zeros behind it or another header, a block
\* that is accepted has the samples spec.md gives its bytes, and a stream that is
\* accepted ends with its last block.
ReadsAsSpecified ==
  /\ at > begin =>
       LET blk == SubSeq(wire, begin + 1, at)
           done == (CeilDiv(Len(decoded), Block) - 1) * Block
       IN  \A i \in done + 1 .. Len(decoded) :
             decoded[i] = LaidOut(blk, header.width, i - done - 1)
  /\ pc = "done" => at = Len(wire) /\ Len(decoded) = header.count
=============================================================================
