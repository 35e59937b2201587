-------------------------- MODULE MedWavefrontProofs --------------------------
(***************************************************************************)
(* Proofs about the wavefront decoder of med and med_zigzag, for every     *)
(* width of a sample, size of a plane and raster, in place and not.        *)
(*                                                                         *)
(* The argument is a refinement of when a sample is decoded into which     *)
(* samples are: Passed.  What was passed is decoded in dst, and of the     *)
(* rest src still holds the residuals, also when both are one array.  The  *)
(* order of a wave is counted by Done, the columns each of its four rows   *)
(* has reached: at every step the row above is exactly one column ahead,   *)
(* so its two registers are the north and the northwest neighbour.  A      *)
(* sample then comes back as ResidualRestores and ZigzagInverts say.       *)
(***************************************************************************)
EXTENDS MedWavefront, TLAPS

-----------------------------------------------------------------------------
(* Samples                                                                 *)

\* An even modulus has a half.
LEMMA HalfModulus ==
  Modulus \div 2 \in Nat /\ 2 * (Modulus \div 2) = Modulus
BY ModulusAssumption, SMT

\* Sums and differences of samples are samples.
LEMMA SampleClosed ==
  ASSUME NEW a \in Sample, NEW b \in Sample
  PROVE  Plus(a, b) \in Sample /\ Minus(a, b) \in Sample
BY ModulusAssumption, SMT DEF Sample, Plus, Minus

\* encode_*_kernel.c and decode_*_kernel.c: whatever was predicted, a sample
\* comes back when the prediction is added to the residual.
THEOREM ResidualRestores ==
  ASSUME NEW v \in Sample, NEW predicted \in Sample
  PROVE  Plus(Minus(v, predicted), predicted) = v
BY ModulusAssumption, SMT DEF Sample, Plus, Minus

\* A half and its remainder, for either parity.
LEMMA Halves ==
  ASSUME NEW k \in Nat
  PROVE  /\ k \div 2 \in Nat /\ k % 2 \in {0, 1}
         /\ k = 2 * (k \div 2) + (k % 2)
BY SMT

\* planar_zigzag, med_zigzag: UNZIGZAG undoes the zigzag of every residual, the
\* most negative one included, and both stay within the width of a sample.
THEOREM ZigzagInverts ==
  ASSUME NEW x \in Sample
  PROVE  /\ Zigzag(x) \in Sample /\ Unzigzag(x) \in Sample
         /\ Unzigzag(Zigzag(x)) = x
         /\ Zigzag(Unzigzag(x)) = x
<1> DEFINE H == Modulus \div 2
<1>1. H \in Nat /\ Modulus = 2 * H /\ x \in Nat /\ x < Modulus /\ H > 0
  BY HalfModulus, ModulusAssumption, SMT DEF Sample
<1>2. PICK q \in Nat : x = 2 * q \/ x = 2 * q + 1
  <2>1. /\ x \div 2 \in Nat
        /\ x = 2 * (x \div 2) \/ x = 2 * (x \div 2) + 1
    BY <1>1, Halves, SMT
  <2> QED BY <2>1
<1> HIDE DEF H
<1>3. Zigzag(x) = IF x < H THEN 2 * x ELSE 2 * (2 * H - x) - 1
  BY <1>1 DEF Zigzag, H
<1>4. Unzigzag(x) = IF x = 2 * q THEN q ELSE 2 * H - 1 - q
  BY <1>1, <1>2, SMT DEF Unzigzag
<1>5. Zigzag(x) \in Sample /\ Unzigzag(x) \in Sample
  BY <1>1, <1>2, <1>3, <1>4, SMT DEF Sample
<1>6. Unzigzag(Zigzag(x)) = x
  <2>1. CASE x < H
    BY <2>1, <1>1, <1>3, SMT DEF Unzigzag
  <2>2. CASE x >= H
    BY <2>2, <1>1, <1>3, SMT DEF Unzigzag
  <2> QED BY <2>1, <2>2, <1>1
<1>7. Zigzag(Unzigzag(x)) = x
  <2>1. CASE x = 2 * q
    BY <2>1, <1>1, <1>2, <1>4, SMT DEF Zigzag, H
  <2>2. CASE x = 2 * q + 1
    BY <2>2, <1>1, <1>2, <1>4, SMT DEF Zigzag, H
  <2> QED BY <2>1, <2>2, <1>2
<1> QED BY <1>5, <1>6, <1>7

\* decode_med_wavefront.h, encode_med_kernel.c: the median of samples is one,
\* and lies between the west and the north neighbour.
THEOREM MedianBetween ==
  ASSUME NEW a \in Sample, NEW b \in Sample, NEW d \in Sample
  PROVE  /\ Median(a, b, d) \in Sample
         /\ \/ a <= Median(a, b, d) /\ Median(a, b, d) <= b
            \/ b <= Median(a, b, d) /\ Median(a, b, d) <= a
BY ModulusAssumption, SMT DEF Sample, Median, Planar, Plus, Minus

-----------------------------------------------------------------------------
(* Rows and columns                                                        *)

\* A row ends before the next one begins.
LEMMA RowEnds ==
  ASSUME NEW n \in Nat, NEW a \in Nat, NEW b \in Nat, a < b
  PROVE  a * n \in Nat /\ a * n + n <= b * n
<1>1. PICK d \in Nat : b = a + 1 + d
  OBVIOUS
<1>2. a * n \in Nat /\ d * n \in Nat
  OBVIOUS
<1>3. b * n = a * n + n + d * n
  BY <1>1
<1> QED
  BY <1>2, <1>3

\* Row and column of a position.
LEMMA Split ==
  ASSUME NEW n \in Nat \ {0}, NEW a \in Nat, NEW x \in 0 .. n - 1
  PROVE  (a * n + x) \div n = a /\ (a * n + x) % n = x
OBVIOUS

\* Every position has a row and a column.
LEMMA Divided ==
  ASSUME NEW n \in Nat \ {0}, NEW p \in Nat
  PROVE  \E a \in Nat, x \in 0 .. n - 1 : p = a * n + x
<1>1. /\ p \div n \in Int /\ p \div n >= 0
      /\ p % n \in 0 .. n - 1
  OBVIOUS
<1>2. PICK a \in Int, x \in Int : a = p \div n /\ x = p % n
  BY <1>1
<1>3. p = n * a + x
  BY <1>2
<1>4. n * a = a * n
  OBVIOUS
<1>5. a \in Nat /\ x \in 0 .. n - 1 /\ p = a * n + x
  BY <1>1, <1>2, <1>3, <1>4
<1> QED
  BY <1>5

\* There is a plane: no width or height of zero.
Plane == w \in Nat \ {0} /\ rows \in Nat \ {0}
\* Rows and columns of the plane.
RowIndex == 0 .. rows - 1
Columns == 0 .. w - 1

\* A row and a column make a position of the plane, and can be read off it.
LEMMA AtPosition ==
  ASSUME Plane, NEW a \in RowIndex, NEW x \in Columns
  PROVE  /\ At(a, x) \in Positions /\ At(a, x) \in Nat
         /\ At(a, x) \div w = a /\ At(a, x) % w = x
<1>1. a \in Nat /\ rows \in Nat /\ a < rows /\ w \in Nat \ {0}
      /\ x \in Nat /\ x < w
  BY DEF Plane, RowIndex, Columns
<1>2. a * w \in Nat /\ a * w + w <= rows * w
  BY <1>1, RowEnds
<1>3. rows * w = w * rows
  BY <1>1
<1>4. (a * w + x) \div w = a /\ (a * w + x) % w = x
  BY <1>1, Split
<1> QED
  BY <1>1, <1>2, <1>3, <1>4 DEF At, Positions

\* Samples of two rows or columns do not share a position.
LEMMA AtInjective ==
  ASSUME Plane, NEW a \in RowIndex, NEW x \in Columns,
         NEW b \in RowIndex, NEW y \in Columns, At(a, x) = At(b, y)
  PROVE  a = b /\ x = y
BY AtPosition

\* Every position before the first one of a row is in a row above.
LEMMA AboveRow ==
  ASSUME Plane, NEW b \in 0 .. rows, NEW p \in 0 .. b * w - 1
  PROVE  \E a \in RowIndex, x \in Columns : a < b /\ p = At(a, x)
<1>1. b \in Nat /\ w \in Nat \ {0} /\ rows \in Nat /\ b <= rows
  BY DEF Plane
<1>2. b * w \in Nat
  BY <1>1
<1>3. p \in Nat /\ p < b * w
  BY <1>2
<1>4. PICK a \in Nat, x \in 0 .. w - 1 : p = a * w + x
  BY <1>1, <1>3, Divided
<1>5. a < b
  <2> SUFFICES ASSUME b <= a PROVE FALSE
    BY <1>1
  <2>1. b * w <= a * w /\ a * w \in Nat
    <3>1. CASE b = a
      BY <3>1, <1>2
    <3>2. CASE b < a
      BY <3>2, <1>1, <1>2, <1>4, RowEnds
    <3> QED
      BY <3>1, <3>2, <1>1
  <2> QED
    BY <2>1, <1>2, <1>3, <1>4
<1> QED
  BY <1>1, <1>4, <1>5 DEF At, RowIndex, Columns

-----------------------------------------------------------------------------
(* A sample from its neighbours                                            *)

\* Zero, which stands for the neighbours outside of the plane, is a sample.
LEMMA ZeroIsSample == 0 \in Sample
BY ModulusAssumption DEF Sample

\* With one neighbour in the plane, the median is that one.
LEMMA MedianAtEdge ==
  ASSUME NEW a \in Sample
  PROVE  Median(a, 0, 0) = a /\ Median(0, a, 0) = a
BY ModulusAssumption DEF Sample, Median

\* What both the encoder and the decoder predict a sample from.
Neighbourly(row, col) ==
  Median(West(original, row, col), North(original, row, col),
         NorthWest(original, row, col))

\* What was encoded is a raster of samples.
Raster == original \in [Positions -> Sample]

\* A sample and its three neighbours are in range, at the edges too.
LEMMA NeighboursAreSamples ==
  ASSUME Plane, Raster, NEW a \in RowIndex, NEW x \in Columns
  PROVE  /\ original[At(a, x)] \in Sample
         /\ West(original, a, x) \in Sample
         /\ North(original, a, x) \in Sample
         /\ NorthWest(original, a, x) \in Sample
<1>1. ASSUME NEW b \in RowIndex, NEW y \in Columns
      PROVE  original[At(b, y)] \in Sample
  BY <1>1, AtPosition DEF Raster
<1>2. x > 0 => x - 1 \in Columns
  BY DEF Columns, Plane
<1>3. a > 0 => a - 1 \in RowIndex
  BY DEF RowIndex, Plane
<1>4. West(original, a, x) \in Sample
  BY <1>1, <1>2, ZeroIsSample DEF West
<1>5. North(original, a, x) \in Sample
  BY <1>1, <1>3, ZeroIsSample DEF North
<1>6. NorthWest(original, a, x) \in Sample
  BY <1>1, <1>2, <1>3, ZeroIsSample DEF NorthWest
<1> QED
  BY <1>1, <1>4, <1>5, <1>6

\* encode_med_kernel.c and MED_RES: a residual and the prediction of its sample
\* give the sample back.
LEMMA Decoded ==
  ASSUME Plane, Raster, codec \in {"med", "med_zigzag"},
         NEW a \in RowIndex, NEW x \in Columns
  PROVE  /\ Stream(original)[At(a, x)] \in Sample
         /\ Plus(RES(Stream(original)[At(a, x)]), Neighbourly(a, x))
              = original[At(a, x)]
<1> DEFINE m == Neighbourly(a, x)
           v == original[At(a, x)]
<1>1. v \in Sample /\ m \in Sample
  BY NeighboursAreSamples, MedianBetween DEF Neighbourly
<1>2. Stream(original)[At(a, x)] =
        IF codec = "med" THEN EncodeMed(original, a, x)
        ELSE EncodeMedZigzag(original, a, x)
  BY AtPosition DEF Stream
<1>3. EncodeMed(original, a, x) = Minus(v, m)
  BY DEF EncodeMed, Neighbourly
<1> HIDE DEF m, v
<1>4. Minus(v, m) \in Sample /\ Plus(Minus(v, m), m) = v
  BY <1>1, SampleClosed, ResidualRestores
<1>5. Zigzag(Minus(v, m)) \in Sample
      /\ Unzigzag(Zigzag(Minus(v, m))) = Minus(v, m)
  BY <1>4, ZigzagInverts
<1>6. RES(Stream(original)[At(a, x)]) = Minus(v, m)
      /\ Stream(original)[At(a, x)] \in Sample
  BY <1>2, <1>3, <1>4, <1>5 DEF RES, EncodeMedZigzag
<1> QED
  BY <1>4, <1>6 DEF m, v

\* In the first column the prediction is the sample above.
LEMMA DecodedFirstColumn ==
  ASSUME Plane, Raster, NEW a \in RowIndex, a > 0
  PROVE  Neighbourly(a, 0) = original[At(a - 1, 0)]
<1>1. a - 1 \in RowIndex /\ 0 \in Columns
  BY DEF Plane, RowIndex, Columns
<1>2. original[At(a - 1, 0)] \in Sample
  BY <1>1, NeighboursAreSamples
<1> QED
  BY <1>2, MedianAtEdge DEF Neighbourly, West, North, NorthWest

\* In the first row the prediction is the sample before.
LEMMA DecodedFirstRow ==
  ASSUME Plane, Raster, NEW x \in Columns
  PROVE  Neighbourly(0, x) = West(original, 0, x)
<1>1. 0 \in RowIndex
  BY DEF Plane, RowIndex
<1>2. West(original, 0, x) \in Sample
  BY <1>1, NeighboursAreSamples
<1> QED
  BY <1>2, MedianAtEdge DEF Neighbourly, North, NorthWest

\* Elsewhere it is the median of three samples.
LEMMA DecodedInside ==
  ASSUME Plane, Raster, NEW a \in RowIndex, a > 0, NEW x \in Columns, x > 0
  PROVE  Neighbourly(a, x) =
           Median(original[At(a, x - 1)], original[At(a - 1, x)],
                  original[At(a - 1, x - 1)])
BY DEF Neighbourly, West, North, NorthWest

-----------------------------------------------------------------------------
(* The order of a wave                                                     *)

\* The columns of row k that are decoded before step j of a wave.
Done(k, j) ==
  IF j < 6 THEN
    CASE k = 0 -> IF j > 2 THEN 3 ELSE IF j > 0 THEN 2 ELSE 1
      [] k = 1 -> IF j > 4 THEN 3 ELSE IF j > 1 THEN 2 ELSE 1
      [] k = 2 -> IF j > 3 THEN 2 ELSE 1
      [] OTHER -> 1
  ELSE IF j < Steps - 6 THEN
    MedRows + ((j - 6) \div 4) - k + (IF 3 - k < (j - 6) % 4 THEN 1 ELSE 0)
  ELSE
    CASE k = 0 -> w
      [] k = 1 -> IF j - (Steps - 6) > 2 THEN w ELSE w - 1
      [] k = 2 -> IF j - (Steps - 6) > 4 THEN w
                  ELSE IF j - (Steps - 6) > 1 THEN w - 1 ELSE w - 2
      [] OTHER -> IF j - (Steps - 6) > 5 THEN w
                  ELSE IF j - (Steps - 6) > 3 THEN w - 1
                  ELSE IF j - (Steps - 6) > 0 THEN w - 2 ELSE w - 3

\* A wave has a step for each sample but those of the first column.
LEMMA StepsOfWave ==
  ASSUME w \in Nat, w >= 8
  PROVE  Steps = 4 * w - 4 /\ Steps \in Nat /\ Steps - 6 >= 22
BY DEF Steps, MedRows

\* What a step of a wave is: the next column of its row, and above it a row
\* that is one column ahead.
InTurn(j) ==
  LET k == StepAt(j)[1]
      x == StepAt(j)[2] IN
  /\ k \in 0 .. 3 /\ x \in 1 .. w - 1
  /\ Done(k, j) = x /\ Done(k, j + 1) = x + 1
  /\ \A l \in 0 .. 3 : l # k => Done(l, j + 1) = Done(l, j)
  /\ k > 0 => Done(k - 1, j) = x + 1

\* The rows enter the wave one at a time.
LEMMA FillInTurn ==
  ASSUME w \in Nat, w >= 8, NEW j \in 0 .. 5
  PROVE  InTurn(j)
<1>1. Steps - 6 >= 22 /\ Steps \in Nat
  BY StepsOfWave
<1>2. StepAt(j) = Fill[j + 1]
  BY DEF StepAt
<1>3. CASE j = 0
  BY <1>1, <1>2, <1>3 DEF InTurn, Fill, Done, MedRows
<1>4. CASE j = 1
  BY <1>1, <1>2, <1>4 DEF InTurn, Fill, Done, MedRows
<1>5. CASE j = 2
  BY <1>1, <1>2, <1>5 DEF InTurn, Fill, Done, MedRows
<1>6. CASE j = 3
  BY <1>1, <1>2, <1>6 DEF InTurn, Fill, Done, MedRows
<1>7. CASE j = 4
  BY <1>1, <1>2, <1>7 DEF InTurn, Fill, Done, MedRows
<1>8. CASE j = 5
  BY <1>1, <1>2, <1>8 DEF InTurn, Fill, Done, MedRows
<1> QED
  BY <1>3, <1>4, <1>5, <1>6, <1>7, <1>8

\* Then each round of four steps moves every row by a column, bottom to top.
LEMMA FrontInTurn ==
  ASSUME w \in Nat, w >= 8, NEW j \in 6 .. Steps - 7
  PROVE  InTurn(j)
<1>1. Steps = 4 * w - 4
  BY StepsOfWave
<1>2. PICK m \in 0 .. w - 5, i \in 0 .. 3 : j = 6 + 4 * m + i
  <2>1. PICK m \in Nat, i \in 0 .. 4 - 1 : j - 6 = m * 4 + i
    BY <1>1, 4 \in Nat \ {0}, j - 6 \in Nat, Divided
  <2> QED
    BY <1>1, <2>1
<1>3. (j - 6) \div 4 = m /\ (j - 6) % 4 = i
  BY <1>2
<1>4. StepAt(j) = << 3 - i, m + 1 + i >>
  BY <1>1, <1>2, <1>3 DEF StepAt, Front, MedRows
<1>5. ASSUME NEW k \in 0 .. 3
      PROVE  /\ Done(k, j) = 4 + m - k + (IF 3 - k < i THEN 1 ELSE 0)
             /\ Done(k, j + 1) = 4 + m - k + (IF 3 - k <= i THEN 1 ELSE 0)
  <2>1. Done(k, j) = 4 + m - k + (IF 3 - k < i THEN 1 ELSE 0)
    BY <1>1, <1>2, <1>3 DEF Done, MedRows
  <2>2. CASE i < 3
    <3>1. (j + 1 - 6) \div 4 = m /\ (j + 1 - 6) % 4 = i + 1
      BY <2>2, <1>2
    <3>2. j + 1 < Steps - 6 /\ ~(j + 1 < 6)
      BY <2>2, <1>1, <1>2
    <3> QED
      BY <2>1, <2>2, <3>1, <3>2 DEF Done, MedRows
  <2>3. CASE i = 3
    <3>1. (j + 1 - 6) \div 4 = m + 1 /\ (j + 1 - 6) % 4 = 0
      BY <2>3, <1>2
    <3>2. CASE m < w - 5
      <4>1. j + 1 < Steps - 6 /\ ~(j + 1 < 6)
        BY <2>3, <3>2, <1>1, <1>2
      <4> QED
        BY <2>1, <2>3, <3>1, <4>1 DEF Done, MedRows
    <3>3. CASE m = w - 5
      <4>1. j + 1 - (Steps - 6) = 0 /\ ~(j + 1 < Steps - 6) /\ ~(j + 1 < 6)
        BY <2>3, <3>3, <1>1, <1>2
      <4>2. Done(k, j + 1) = w - k
        <5>1. k = 0 \/ k = 1 \/ k = 2 \/ k = 3
          OBVIOUS
        <5> QED
          BY <1>1, <4>1, <5>1 DEF Done
      <4> QED
        BY <2>1, <2>3, <3>3, <4>2
    <3> QED
      BY <3>2, <3>3
  <2> QED
    BY <2>1, <2>2, <2>3
<1>6. 3 - i \in 0 .. 3 /\ m + 1 + i \in 1 .. w - 1
  BY <1>1
<1>7. /\ Done(3 - i, j) = m + 1 + i /\ Done(3 - i, j + 1) = m + 1 + i + 1
      /\ \A l \in 0 .. 3 : l # 3 - i => Done(l, j + 1) = Done(l, j)
      /\ 3 - i > 0 => Done(3 - i - 1, j) = m + 1 + i + 1
  BY <1>5
<1> QED
  BY <1>4, <1>6, <1>7 DEF InTurn

\* The rows leave one at a time.
LEMMA DrainInTurn ==
  ASSUME w \in Nat, w >= 8, NEW j \in Steps - 6 .. Steps - 1
  PROVE  InTurn(j)
<1>1. Steps = 4 * w - 4
  BY StepsOfWave
<1>2. StepAt(j) = Drain[j - (Steps - 6) + 1]
  BY <1>1 DEF StepAt
<1>3. CASE j = Steps - 6 + 0
  BY <1>1, <1>2, <1>3 DEF InTurn, Drain, Done, MedRows
<1>4. CASE j = Steps - 6 + 1
  BY <1>1, <1>2, <1>4 DEF InTurn, Drain, Done, MedRows
<1>5. CASE j = Steps - 6 + 2
  BY <1>1, <1>2, <1>5 DEF InTurn, Drain, Done, MedRows
<1>6. CASE j = Steps - 6 + 3
  BY <1>1, <1>2, <1>6 DEF InTurn, Drain, Done, MedRows
<1>7. CASE j = Steps - 6 + 4
  <2>1. StepAt(j)[1] = 2 /\ StepAt(j)[2] = w - 1
    BY <1>1, <1>2, <1>7 DEF Drain
  <2>2. j = 4 * w - 6
    BY <1>1, <1>7
  <2>3. Done(2, j) = w - 1 /\ Done(2, j + 1) = w /\ Done(1, j) = w
    BY <1>1, <2>2 DEF Done
  <2>4. ASSUME NEW l \in {0, 1, 3} PROVE Done(l, j + 1) = Done(l, j)
    BY <1>1, <2>2 DEF Done
  <2> QED
    BY <1>1, <2>1, <2>3, <2>4 DEF InTurn
<1>8. CASE j = Steps - 6 + 5
  <2>1. StepAt(j)[1] = 3 /\ StepAt(j)[2] = w - 1
    BY <1>1, <1>2, <1>8 DEF Drain
  <2>2. j = 4 * w - 5
    BY <1>1, <1>8
  <2> QED
    BY <1>1, <2>1, <2>2 DEF InTurn, Done
<1> QED
  BY <1>1, <1>3, <1>4, <1>5, <1>6, <1>7, <1>8

\* Step by step a wave decodes four rows from their second column to their end.
LEMMA WaveInTurn ==
  ASSUME w \in Nat, w >= 8, NEW j \in 0 .. Steps - 1
  PROVE  InTurn(j)
<1>1. j \in 0 .. 5 \/ j \in 6 .. Steps - 7 \/ j \in Steps - 6 .. Steps - 1
  BY StepsOfWave
<1> QED
  BY <1>1, FillInTurn, FrontInTurn, DrainInTurn

\* A wave begins behind the first column and ends behind the last.
LEMMA EndsOfWave ==
  ASSUME w \in Nat, w >= 8, NEW k \in 0 .. 3
  PROVE  Done(k, 0) = 1 /\ Done(k, Steps) = w
<1>1. Steps = 4 * w - 4
  BY StepsOfWave
<1>2. Done(k, 0) = 1
  BY <1>1 DEF Done
<1>3. k = 0 \/ k = 1 \/ k = 2 \/ k = 3
  OBVIOUS
<1>4. Done(k, Steps) = w
  BY <1>1, <1>3 DEF Done
<1> QED
  BY <1>2, <1>4

-----------------------------------------------------------------------------
(* The invariant                                                           *)

\* The samples that are decoded: the rows above the one at work, and of the
\* rows at work the columns that were reached.
Passed(a, x) ==
  \/ a < r
  \/ phase \in {"first", "serial"} /\ a = r /\ x < c
  \/ phase = "wave" /\ a \in r .. r + 3 /\ x < Done(a - r, c)

\* dst holds what was passed, and src still the residuals of the rest.
DecodeInv ==
  \A a \in RowIndex, x \in Columns :
    /\ Passed(a, x) => dst[At(a, x)] = original[At(a, x)]
    /\ ~Passed(a, x) => src[At(a, x)] = Stream(original)[At(a, x)]

\* The last two samples of each row of a wave, and the last one above them.
RegistersInv ==
  phase = "wave" =>
    /\ \A k \in 0 .. 3 :
         /\ W[k + 1] = original[At(r + k, Done(k, c) - 1)]
         /\ Done(k, c) >= 2 =>
              P[k + 1] = original[At(r + k, Done(k, c) - 2)]
    /\ nw = original[At(r - 1, Done(0, c) - 1)]

\* The row and the column at work, by the phase.
PhaseInv ==
  /\ phase = "first" => r = 0 /\ c < w
  /\ phase = "rows" => 1 <= r /\ c = 0
  /\ phase = "wave" => w >= 8 /\ 1 <= r /\ r + 4 <= rows /\ c < Steps
  /\ phase = "serial" => 1 <= r /\ r < rows /\ c < w
  /\ phase = "done" => r = rows

\* The inductive invariant.
IInv == TypeOK /\ Raster /\ PhaseInv /\ DecodeInv /\ RegistersInv

\* The assumptions on the constants, for the plane at hand.
LEMMA PlaneFacts ==
  ASSUME TypeOK
  PROVE  Plane /\ codec \in {"med", "med_zigzag"} /\ r \in 0 .. rows
BY WavefrontAssumption DEF TypeOK, Plane

\* What does not change in decoding, and what is made of it.
LEMMA StaticKept ==
  ASSUME UNCHANGED <<codec, w, rows, original, inPlace>>
  PROVE  /\ Raster' = Raster /\ RowIndex' = RowIndex /\ Columns' = Columns
         /\ Positions' = Positions /\ Stream(original)' = Stream(original)
         /\ Steps' = Steps
         /\ \A a, x : At(a, x)' = At(a, x)
         /\ \A k, j : Done(k, j)' = Done(k, j)
<1>1. Positions' = Positions /\ RowIndex' = RowIndex /\ Columns' = Columns
  BY DEF Positions, RowIndex, Columns
<1>2. Raster' = Raster
  BY <1>1 DEF Raster
<1>3. \A a, x : At(a, x)' = At(a, x)
  BY DEF At
<1>4. \A s, a, x : EncodeMed(s, a, x)' = EncodeMed(s, a, x)
  BY DEF EncodeMed, West, North, NorthWest, At
<1>5. \A s, a, x : EncodeMedZigzag(s, a, x)' = EncodeMedZigzag(s, a, x)
  BY <1>4 DEF EncodeMedZigzag
<1>6. Stream(original)' = Stream(original)
  BY <1>1, <1>4, <1>5 DEF Stream
<1>7. Steps' = Steps
  BY DEF Steps, MedRows
<1>8. \A k, j : Done(k, j)' = Done(k, j)
  BY DEF Done, Steps, MedRows
<1> QED
  BY <1>1, <1>2, <1>3, <1>6, <1>7, <1>8

\* A sample is written: nothing else changes.
LEMMA StoreSound ==
  ASSUME TypeOK, NEW a \in RowIndex, NEW x \in Columns, NEW v \in Sample,
         Store(a, x, v), UNCHANGED <<codec, w, rows, original, inPlace>>
  PROVE  /\ src' \in [Positions -> Sample]
         /\ dst' \in [Positions -> Sample \cup {NoSample}]
         /\ dst'[At(a, x)] = v
         /\ \A b \in RowIndex, y \in Columns :
              b # a \/ y # x => /\ dst'[At(b, y)] = dst[At(b, y)]
                                /\ src'[At(b, y)] = src[At(b, y)]
<1>1. Plane /\ src \in [Positions -> Sample] /\ inPlace \in BOOLEAN
      /\ dst \in [Positions -> Sample \cup {NoSample}]
  BY PlaneFacts DEF TypeOK
<1>2. At(a, x) \in Positions
  BY <1>1, AtPosition
<1>3. \A b \in RowIndex, y \in Columns :
        /\ At(b, y) \in Positions
        /\ b # a \/ y # x => At(b, y) # At(a, x)
  BY <1>1, AtPosition, AtInjective
<1>4. dst' = [dst EXCEPT ![At(a, x)] = v]
      /\ src' = IF inPlace THEN [src EXCEPT ![At(a, x)] = v] ELSE src
  BY DEF Store
<1> QED
  BY <1>1, <1>2, <1>3, <1>4

\* The next sample is the one that was encoded, and then it is passed.
LEMMA DecodeSound ==
  ASSUME TypeOK, Raster, DecodeInv,
         NEW a \in RowIndex, NEW x \in Columns,
         Store(a, x, original[At(a, x)]),
         UNCHANGED <<codec, w, rows, original, inPlace>>,
         \A b \in RowIndex, y \in Columns :
           Passed(b, y)' <=> Passed(b, y) \/ (b = a /\ y = x)
  PROVE  /\ src' \in [Positions -> Sample]
         /\ dst' \in [Positions -> Sample \cup {NoSample}]
         /\ Raster' /\ DecodeInv'
<1>1. original[At(a, x)] \in Sample
  BY PlaneFacts, NeighboursAreSamples
<1>2. /\ src' \in [Positions -> Sample]
      /\ dst' \in [Positions -> Sample \cup {NoSample}]
      /\ dst'[At(a, x)] = original[At(a, x)]
      /\ \A b \in RowIndex, y \in Columns :
           b # a \/ y # x => /\ dst'[At(b, y)] = dst[At(b, y)]
                             /\ src'[At(b, y)] = src[At(b, y)]
  BY <1>1, StoreSound
<1>3. Raster'
  BY StaticKept
<1>4. DecodeInv'
  <2> SUFFICES ASSUME NEW b \in RowIndex, NEW y \in Columns
               PROVE  /\ Passed(b, y)' => dst'[At(b, y)] = original[At(b, y)]
                      /\ ~Passed(b, y)' =>
                           src'[At(b, y)] = Stream(original)[At(b, y)]
    BY StaticKept DEF DecodeInv
  <2>1. CASE b = a /\ y = x
    BY <2>1, <1>2
  <2>2. CASE b # a \/ y # x
    BY <2>2, <1>2 DEF DecodeInv
  <2> QED
    BY <2>1, <2>2
<1> QED
  BY <1>2, <1>3, <1>4

\* A sample that was not passed is decoded from the neighbours in original.
LEMMA NextSample ==
  ASSUME TypeOK, Raster, DecodeInv, NEW a \in RowIndex, NEW x \in Columns,
         ~Passed(a, x)
  PROVE  Plus(RES(src[At(a, x)]), Neighbourly(a, x)) = original[At(a, x)]
BY PlaneFacts, Decoded DEF DecodeInv

\* A sample that was passed is what was encoded.
LEMMA PassedSample ==
  ASSUME TypeOK, DecodeInv, NEW a \in RowIndex, NEW x \in Columns, Passed(a, x)
  PROVE  dst[At(a, x)] = original[At(a, x)]
BY DEF DecodeInv

\* The invariant holds at the start: nothing is passed, src is the stream.
LEMMA InitInv == Init => IInv
<1> SUFFICES ASSUME Init PROVE IInv
  OBVIOUS
<1>1. Plane /\ codec \in {"med", "med_zigzag"}
  BY WavefrontAssumption DEF Init, Plane
<1>2. Raster
  BY WavefrontAssumption DEF Init, Raster, Positions
<1>3. \A p \in Positions : Stream(original)[p] \in Sample
  <2> SUFFICES ASSUME NEW p \in Positions PROVE Stream(original)[p] \in Sample
    OBVIOUS
  <2>1. p \in 0 .. rows * w - 1 /\ rows \in 0 .. rows
    BY <1>1 DEF Positions, Plane
  <2>2. PICK a \in RowIndex, x \in Columns : p = At(a, x)
    BY <1>1, <2>1, AboveRow
  <2> QED
    BY <1>1, <1>2, <2>2, Decoded
<1>4. src \in [Positions -> Sample]
  BY <1>3 DEF Init, Stream
<1>5. dst \in [Positions -> Sample \cup {NoSample}]
  BY <1>4 DEF Init
<1>6. W \in [1 .. 4 -> Sample] /\ P \in [1 .. 4 -> Sample] /\ nw \in Sample
  BY ZeroIsSample DEF Init
<1>7. TypeOK
  BY <1>1, <1>4, <1>5, <1>6 DEF Init, TypeOK, Plane
<1>8. PhaseInv /\ RegistersInv
  BY <1>1 DEF Init, PhaseInv, RegistersInv, Plane
<1>9. DecodeInv
  <2>1. \A a \in RowIndex, x \in Columns : ~Passed(a, x)
    BY DEF Init, Passed, RowIndex, Columns
  <2> QED
    BY <2>1 DEF DecodeInv, Init
<1> QED
  BY <1>2, <1>7, <1>8, <1>9 DEF IInv

\* The first row continues sample by sample.
LEMMA FirstRowInv ==
  ASSUME IInv, FirstRow PROVE IInv'
<1> USE DEF IInv
<1>1. Plane /\ r = 0 /\ c \in Nat /\ c < w /\ phase = "first"
  BY PlaneFacts DEF FirstRow, PhaseInv, TypeOK
<1>2. 0 \in RowIndex /\ c \in Columns /\ ~Passed(0, c)
  BY <1>1 DEF RowIndex, Columns, Plane, Passed
<1>3. West(dst, 0, c) = West(original, 0, c)
  <2>1. ASSUME c > 0 PROVE dst[At(0, c - 1)] = original[At(0, c - 1)]
    <3>1. c - 1 \in Columns /\ Passed(0, c - 1)
      BY <1>1, <2>1 DEF Columns, Passed, Plane
    <3> QED
      BY <1>2, <3>1, PassedSample
  <2> QED
    BY <2>1 DEF West
<1>4. Store(0, c, original[At(0, c)])
      /\ UNCHANGED <<codec, w, rows, original, inPlace>>
  BY <1>1, <1>2, <1>3, NextSample, DecodedFirstRow DEF FirstRow
<1>5. /\ phase' \in {"first", "rows"}
      /\ phase' = "first" => c + 1 < w /\ c' = c + 1 /\ r' = 0
      /\ phase' = "rows" => c + 1 >= w /\ c' = 0 /\ r' = 1
  BY <1>1 DEF FirstRow, Plane
<1>6. ASSUME NEW b \in RowIndex, NEW y \in Columns
      PROVE  Passed(b, y)' <=> Passed(b, y) \/ (b = 0 /\ y = c)
  BY <1>1, <1>5 DEF Passed, RowIndex, Columns, Plane
<1>7. /\ src' \in [Positions -> Sample]
      /\ dst' \in [Positions -> Sample \cup {NoSample}]
      /\ Raster' /\ DecodeInv'
  BY <1>2, <1>4, <1>6, DecodeSound
<1>8. PhaseInv' /\ RegistersInv'
  BY <1>4, <1>5 DEF PhaseInv, RegistersInv
<1>9. TypeOK'
  <2>1. r' \in 0 .. rows /\ c' \in Nat
    BY <1>1, <1>5 DEF Plane
  <2> QED
    BY <1>4, <1>5, <1>7, <2>1, StaticKept DEF TypeOK, FirstRow
<1> QED
  BY <1>7, <1>8, <1>9

\* No sample changes between the waves and the rows that are left.
LEMMA EndWavesInv ==
  ASSUME IInv, EndWaves PROVE IInv'
<1> USE DEF IInv
<1>1. /\ phase = "rows" /\ 1 <= r /\ c = 0 /\ r \in 0 .. rows
      /\ phase' \in {"serial", "done"}
      /\ phase' = "serial" <=> r < rows
      /\ Plane
      /\ UNCHANGED <<codec, w, rows, original, inPlace, src, dst, r, c, W, P,
                     nw>>
  BY PlaneFacts DEF EndWaves, PhaseInv
<1>2. ASSUME NEW b \in RowIndex, NEW y \in Columns
      PROVE  Passed(b, y)' <=> Passed(b, y)
  BY <1>1 DEF Passed, RowIndex, Columns, Plane
<1>3. DecodeInv' /\ Raster'
  BY <1>1, <1>2, StaticKept DEF DecodeInv
<1>4. PhaseInv' /\ RegistersInv'
  BY <1>1 DEF PhaseInv, RegistersInv, Plane
<1>5. TypeOK'
  BY <1>1, StaticKept DEF TypeOK
<1> QED
  BY <1>3, <1>4, <1>5

\* The rows that are left are decoded from memory.
LEMMA SerialInv ==
  ASSUME IInv, Serial PROVE IInv'
<1> USE DEF IInv
<1>1. Plane /\ 1 <= r /\ r < rows /\ c \in Nat /\ c < w /\ phase = "serial"
      /\ r \in Nat
  BY PlaneFacts DEF Serial, PhaseInv, TypeOK
<1>2. /\ r \in RowIndex /\ r - 1 \in RowIndex /\ c \in Columns /\ 0 \in Columns
      /\ ~Passed(r, c)
  BY <1>1 DEF RowIndex, Columns, Plane, Passed
<1>3. \A y \in Columns : dst[At(r - 1, y)] = original[At(r - 1, y)]
  BY <1>1, <1>2, PassedSample DEF Passed
<1>4. Store(r, c, original[At(r, c)])
  <2>1. CASE c = 0
    <3>1. Store(r, c, Plus(RES(src[At(r, c)]), dst[At(r - 1, 0)]))
      BY <2>1 DEF Serial
    <3> QED
      BY <1>1, <1>2, <1>3, <2>1, <3>1, NextSample, DecodedFirstColumn
  <2>2. CASE c # 0
    <3>1. c - 1 \in Columns /\ Passed(r, c - 1)
      BY <1>1, <2>2 DEF Columns, Passed, Plane
    <3>2. dst[At(r, c - 1)] = original[At(r, c - 1)]
      BY <1>2, <3>1, PassedSample
    <3>3. Neighbourly(r, c) =
            Median(dst[At(r, c - 1)], dst[At(r - 1, c)], dst[At(r - 1, c - 1)])
      BY <1>1, <1>2, <1>3, <2>2, <3>1, <3>2, DecodedInside
    <3>4. Store(r, c, Plus(RES(src[At(r, c)]), Neighbourly(r, c)))
      BY <2>2, <3>3 DEF Serial
    <3> QED
      BY <1>2, <3>4, NextSample
  <2> QED
    BY <2>1, <2>2
<1>5. /\ UNCHANGED <<codec, w, rows, original, inPlace, W, P, nw>>
      /\ c' = IF c + 1 < w THEN c + 1 ELSE 0
      /\ r' = IF c + 1 < w THEN r ELSE r + 1
      /\ phase' = IF c + 1 = w /\ r + 1 = rows THEN "done" ELSE "serial"
  BY <1>1 DEF Serial
<1>6. ASSUME NEW b \in RowIndex, NEW y \in Columns
      PROVE  Passed(b, y)' <=> Passed(b, y) \/ (b = r /\ y = c)
  BY <1>1, <1>5 DEF Passed, RowIndex, Columns, Plane
<1>7. /\ src' \in [Positions -> Sample]
      /\ dst' \in [Positions -> Sample \cup {NoSample}]
      /\ Raster' /\ DecodeInv'
  BY <1>2, <1>4, <1>5, <1>6, DecodeSound
<1>8. PhaseInv' /\ RegistersInv'
  BY <1>1, <1>5 DEF PhaseInv, RegistersInv, Plane
<1>9. TypeOK'
  <2>1. r' \in 0 .. rows /\ c' \in Nat /\ phase' \in {"done", "serial"}
    BY <1>1, <1>5 DEF Plane
  <2> QED
    BY <1>5, <1>7, <2>1, StaticKept DEF TypeOK
<1> QED
  BY <1>7, <1>8, <1>9

-----------------------------------------------------------------------------
(* The steps of a wave                                                     *)

\* In a wave a row is passed as far as it was counted.
LEMMA PassedInWave ==
  ASSUME phase = "wave", r \in Nat, NEW k \in 0 .. 3, NEW x
  PROVE  Passed(r + k, x) <=> x < Done(k, c)
<1>1. r + k - r = k /\ ~(r + k < r) /\ r + k \in r .. r + 3
  OBVIOUS
<1> QED
  BY <1>1 DEF Passed

\* The sample whose turn it is, and what the registers hold of its neighbours.
LEMMA TurnFacts ==
  ASSUME IInv, phase = "wave", NEW k, NEW x,
         k = StepAt(c)[1], x = StepAt(c)[2]
  PROVE  /\ k \in 0 .. 3 /\ x \in 1 .. w - 1
         /\ Done(k, c) = x /\ Done(k, c + 1) = x + 1
         /\ \A l \in 0 .. 3 : l # k => Done(l, c + 1) = Done(l, c)
         /\ r + k \in RowIndex /\ r + k - 1 \in RowIndex /\ r + k > 0
         /\ x \in Columns /\ x - 1 \in Columns
         /\ ~Passed(r + k, x) /\ Passed(r + k, x - 1)
         /\ Passed(r + k - 1, x) /\ Passed(r + k - 1, x - 1)
         /\ W[k + 1] = original[At(r + k, x - 1)]
         /\ k > 0 => /\ W[k] = original[At(r + k - 1, x)]
                     /\ P[k] = original[At(r + k - 1, x - 1)]
         /\ k = 0 => nw = original[At(r - 1, x - 1)]
<1>1. /\ Plane /\ r \in Nat /\ c \in Nat /\ w \in Nat /\ rows \in Nat
      /\ w >= 8 /\ 1 <= r /\ r + 4 <= rows /\ c < Steps
  BY PlaneFacts DEF IInv, PhaseInv, TypeOK, Plane
<1>2. InTurn(c)
  BY <1>1, WaveInTurn, StepsOfWave
<1>3. /\ k \in 0 .. 3 /\ x \in 1 .. w - 1
      /\ Done(k, c) = x /\ Done(k, c + 1) = x + 1
      /\ \A l \in 0 .. 3 : l # k => Done(l, c + 1) = Done(l, c)
      /\ k > 0 => Done(k - 1, c) = x + 1
  BY <1>2 DEF InTurn
<1>4. /\ r + k \in RowIndex /\ r + k - 1 \in RowIndex /\ r + k > 0
      /\ x \in Columns /\ x - 1 \in Columns
  BY <1>1, <1>3 DEF RowIndex, Columns
<1>6. ~Passed(r + k, x) /\ Passed(r + k, x - 1)
  BY <1>1, <1>3, PassedInWave
<1>7. Passed(r + k - 1, x) /\ Passed(r + k - 1, x - 1)
  <2>1. CASE k = 0
    BY <1>1, <2>1 DEF Passed
  <2>2. CASE k > 0
    <3>1. r + (k - 1) = r + k - 1 /\ k - 1 \in 0 .. 3
      BY <1>1, <1>3, <2>2
    <3> QED
      BY <1>1, <1>3, <2>2, <3>1, PassedInWave
  <2> QED
    BY <1>3, <2>1, <2>2
<1>8. W[k + 1] = original[At(r + k, x - 1)]
  BY <1>3 DEF IInv, RegistersInv
<1>9. k = 0 => nw = original[At(r - 1, x - 1)]
  BY <1>3 DEF IInv, RegistersInv
<1>10. ASSUME k > 0
       PROVE  /\ W[k] = original[At(r + k - 1, x)]
              /\ P[k] = original[At(r + k - 1, x - 1)]
  <2>1. PICK l \in 0 .. 3 : l = k - 1
    BY <1>3, <1>10
  <2>2. l + 1 = k /\ r + l = r + k - 1 /\ Done(l, c) = x + 1
        /\ Done(l, c) - 1 = x /\ Done(l, c) - 2 = x - 1 /\ Done(l, c) >= 2
    BY <1>1, <1>3, <1>10, <2>1
  <2>3. /\ W[l + 1] = original[At(r + l, Done(l, c) - 1)]
        /\ Done(l, c) >= 2 => P[l + 1] = original[At(r + l, Done(l, c) - 2)]
    BY DEF IInv, RegistersInv
  <2> QED
    BY <2>2, <2>3
<1> QED
  BY <1>3, <1>4, <1>6, <1>7, <1>8, <1>9, <1>10

\* The registers of the row that was decoded move on by a column, and after the
\* last column the wave goes on to the next four rows.
LEMMA TurnInv ==
  ASSUME IInv, phase = "wave", NEW k, NEW x,
         k = StepAt(c)[1], x = StepAt(c)[2],
         Store(r + k, x, original[At(r + k, x)]),
         W' = [W EXCEPT ![k + 1] = original[At(r + k, x)]],
         P' = [P EXCEPT ![k + 1] = W[k + 1]],
         nw' = IF k = 0 THEN original[At(r - 1, x)] ELSE nw,
         NextStep, UNCHANGED <<codec, w, rows, original, inPlace>>
  PROVE  IInv'
<1> USE DEF IInv
<1>1. /\ Plane /\ r \in Nat /\ c \in Nat /\ w \in Nat /\ rows \in Nat
      /\ w >= 8 /\ 1 <= r /\ r + 4 <= rows /\ c < Steps
  BY PlaneFacts DEF PhaseInv, TypeOK, Plane
<1>2. /\ k \in 0 .. 3 /\ x \in 1 .. w - 1
      /\ Done(k, c) = x /\ Done(k, c + 1) = x + 1
      /\ \A l \in 0 .. 3 : l # k => Done(l, c + 1) = Done(l, c)
      /\ r + k \in RowIndex /\ r + k - 1 \in RowIndex
      /\ x \in Columns /\ x - 1 \in Columns
      /\ W[k + 1] = original[At(r + k, x - 1)]
  BY TurnFacts
<1>3. \/ c + 1 < Steps /\ phase' = "wave" /\ c' = c + 1 /\ r' = r
      \/ c + 1 = Steps /\ phase' = "rows" /\ c' = 0 /\ r' = r + 4
  BY <1>1, StepsOfWave DEF NextStep, MedRows
<1>4. ASSUME NEW b \in RowIndex, NEW y \in Columns
      PROVE  Passed(b, y)' <=> Passed(b, y) \/ (b = r + k /\ y = x)
  <2>0. b \in Nat /\ y \in Nat /\ y < w
    BY <1>1 DEF RowIndex, Columns
  <2>1. CASE b \notin r .. r + 3
    BY <1>1, <1>2, <1>3, <2>0, <2>1 DEF Passed
  <2>2. CASE b \in r .. r + 3
    <3>1. PICK l \in 0 .. 3 : l = b - r /\ b = r + l /\ ~(b < r)
      BY <1>1, <2>0, <2>2
    <3>2. Passed(b, y) <=> y < Done(l, c)
      BY <2>2, <3>1 DEF Passed
    <3>3. Done(l, c + 1) = IF l = k THEN Done(l, c) + 1 ELSE Done(l, c)
      BY <1>2
    <3>4. b = r + k <=> l = k
      BY <1>1, <1>2, <3>1
    <3>5. y < Done(l, c + 1) <=> y < Done(l, c) \/ (l = k /\ y = x)
      BY <1>2, <2>0, <3>3
    <3>6. Passed(b, y)' <=> y < Done(l, c + 1)
      <4>1. CASE c + 1 < Steps
        <5>1. phase' = "wave" /\ r' = r /\ c' = c + 1
          BY <1>1, <1>3, <4>1, StepsOfWave
        <5>2. Done(b - r, c)' = Done(l, c + 1)
          BY <3>1, <5>1, StaticKept
        <5> QED
          BY <2>2, <3>1, <5>1, <5>2 DEF Passed
      <4>2. CASE c + 1 = Steps
        <5>1. phase' = "rows" /\ r' = r + 4
          BY <1>1, <1>3, <4>2, StepsOfWave
        <5>2. Done(l, c + 1) = w
          BY <1>1, <4>2, EndsOfWave
        <5> QED
          BY <1>1, <2>0, <2>2, <5>1, <5>2 DEF Passed
      <4> QED
        BY <1>3, <4>1, <4>2
    <3> QED
      BY <3>2, <3>4, <3>5, <3>6
  <2> QED
    BY <2>1, <2>2
<1>5. /\ src' \in [Positions -> Sample]
      /\ dst' \in [Positions -> Sample \cup {NoSample}]
      /\ Raster' /\ DecodeInv'
  BY <1>2, <1>4, DecodeSound
<1>6. PhaseInv'
  BY <1>1, <1>3, StaticKept DEF PhaseInv
<1>7. RegistersInv'
  <2> SUFFICES ASSUME phase' = "wave" PROVE RegistersInv'
    BY DEF RegistersInv
  <2>1. phase' = "wave" /\ r' = r /\ c' = c + 1
    BY <1>3
  <2>2. nw' = original[At(r - 1, Done(0, c + 1) - 1)]
    <3>1. CASE k = 0
      BY <1>2, <3>1
    <3>2. CASE k # 0
      BY <1>2, <3>2 DEF RegistersInv
    <3> QED
      BY <3>1, <3>2
  <2>3. ASSUME NEW l \in 0 .. 3
        PROVE  /\ W'[l + 1] = original[At(r + l, Done(l, c + 1) - 1)]
               /\ Done(l, c + 1) >= 2 =>
                    P'[l + 1] = original[At(r + l, Done(l, c + 1) - 2)]
    <3>1. W \in [1 .. 4 -> Sample] /\ P \in [1 .. 4 -> Sample]
          /\ l + 1 \in 1 .. 4 /\ k + 1 \in 1 .. 4
      BY <1>2 DEF TypeOK
    <3>2. CASE l = k
      <4>1. Done(l, c + 1) - 1 = x /\ Done(l, c + 1) - 2 = x - 1
        BY <1>2, <3>2
      <4> QED
        BY <1>2, <3>1, <3>2, <4>1
    <3>3. CASE l # k
      <4>1. l + 1 # k + 1 /\ Done(l, c + 1) = Done(l, c)
        BY <1>2, <3>3
      <4>2. W'[l + 1] = W[l + 1] /\ P'[l + 1] = P[l + 1]
        BY <3>1, <4>1
      <4> QED
        BY <4>1, <4>2 DEF RegistersInv
    <3> QED
      BY <3>2, <3>3
  <2> QED
    BY <2>1, <2>2, <2>3, StaticKept DEF RegistersInv
<1>8. TypeOK'
  <2>1. r' \in 0 .. rows /\ c' \in Nat /\ phase' \in {"rows", "wave"}
    BY <1>1, <1>3
  <2>2. original[At(r + k, x)] \in Sample /\ W[k + 1] \in Sample
    BY <1>1, <1>2, NeighboursAreSamples DEF TypeOK
  <2>3. W' \in [1 .. 4 -> Sample] /\ P' \in [1 .. 4 -> Sample]
    BY <2>2 DEF TypeOK
  <2>4. nw' \in Sample
    <3>1. CASE k = 0
      <4>1. r - 1 \in RowIndex
        BY <1>1 DEF RowIndex
      <4> QED
        BY <1>1, <1>2, <3>1, <4>1, NeighboursAreSamples
    <3>2. CASE k # 0
      BY <3>2 DEF TypeOK
    <3> QED
      BY <3>1, <3>2
  <2> QED
    BY <1>5, <2>1, <2>3, <2>4, StaticKept DEF TypeOK
<1> QED
  BY <1>5, <1>6, <1>7, <1>8

\* The top row of a wave takes its north neighbour from memory.
LEMMA TopInv ==
  ASSUME IInv, Top PROVE IInv'
<1>1. PICK x : x = StepAt(c)[2]
  OBVIOUS
<1>2. phase = "wave" /\ StepAt(c)[1] = 0
  BY DEF Top
<1>3. /\ x \in Columns /\ x > 0 /\ r \in RowIndex /\ r - 1 \in RowIndex /\ r > 0
      /\ ~Passed(r, x) /\ Passed(r - 1, x)
      /\ W[1] = original[At(r, x - 1)]
      /\ nw = original[At(r - 1, x - 1)]
  <2>1. r \in Nat
    BY DEF IInv, TypeOK
  <2>2. r + 0 = r /\ r + 0 - 1 = r - 1
    BY <2>1
  <2> QED
    BY <1>1, <1>2, <2>2, TurnFacts
<1>4. dst[At(r - 1, x)] = original[At(r - 1, x)]
  BY <1>3, PassedSample DEF IInv
<1>5. Plus(RES(src[At(r, x)]), Median(W[1], dst[At(r - 1, x)], nw))
        = original[At(r, x)]
  BY <1>3, <1>4, NextSample, DecodedInside, PlaneFacts DEF IInv
<1>6. /\ Store(r, x, original[At(r, x)])
      /\ W' = [W EXCEPT ![1] = original[At(r, x)]]
      /\ P' = [P EXCEPT ![1] = W[1]]
      /\ nw' = original[At(r - 1, x)]
      /\ NextStep /\ UNCHANGED <<codec, w, rows, original, inPlace>>
  BY <1>1, <1>4, <1>5 DEF Top, Lagged
<1>7. PICK k \in 0 .. 3 : k = StepAt(c)[1] /\ k = 0 /\ r + k = r /\ k + 1 = 1
  BY <1>2 DEF IInv, TypeOK
<1>8. /\ Store(r + k, x, original[At(r + k, x)])
      /\ W' = [W EXCEPT ![k + 1] = original[At(r + k, x)]]
      /\ P' = [P EXCEPT ![k + 1] = W[k + 1]]
      /\ nw' = IF k = 0 THEN original[At(r - 1, x)] ELSE nw
  BY <1>6, <1>7
<1> QED
  BY <1>1, <1>2, <1>6, <1>7, <1>8, TurnInv, Zenon

\* The other rows take theirs from the registers of the row above.
LEMMA StepInv ==
  ASSUME IInv, Step PROVE IInv'
<1>1. PICK k, x : k = StepAt(c)[1] /\ x = StepAt(c)[2]
  OBVIOUS
<1>2. phase = "wave" /\ k > 0
  BY <1>1 DEF Step
<1>3. /\ k \in 0 .. 3 /\ x \in Columns /\ x > 0
      /\ r + k \in RowIndex /\ r + k > 0 /\ ~Passed(r + k, x)
      /\ W[k + 1] = original[At(r + k, x - 1)]
      /\ W[k] = original[At(r + k - 1, x)]
      /\ P[k] = original[At(r + k - 1, x - 1)]
  BY <1>1, <1>2, TurnFacts
<1>4. Plus(RES(src[At(r + k, x)]), Median(W[k + 1], W[k], P[k]))
        = original[At(r + k, x)]
  BY <1>3, NextSample, DecodedInside, PlaneFacts DEF IInv
<1>5. /\ Store(r + k, x, original[At(r + k, x)])
      /\ W' = [W EXCEPT ![k + 1] = original[At(r + k, x)]]
      /\ P' = [P EXCEPT ![k + 1] = W[k + 1]]
      /\ nw' = IF k = 0 THEN original[At(r - 1, x)] ELSE nw
      /\ NextStep /\ UNCHANGED <<codec, w, rows, original, inPlace>>
  BY <1>1, <1>2, <1>3, <1>4 DEF Step, Lagged
<1> QED
  BY <1>1, <1>2, <1>5, TurnInv

\* The first column of four rows, each sample from the one above it.
LEMMA BeginWaveInv ==
  ASSUME IInv, BeginWave PROVE IInv'
<1> USE DEF IInv
<1>1. /\ Plane /\ r \in Nat /\ w \in Nat /\ rows \in Nat /\ phase = "rows"
      /\ w >= 8 /\ 1 <= r /\ r + 4 <= rows
  BY PlaneFacts DEF BeginWave, TakesWave, MedRows, PhaseInv, TypeOK, Plane
<1> DEFINE o(k) == original[At(r + k, 0)]
           V0 == Plus(RES(src[At(r, 0)]), dst[At(r - 1, 0)])
           V1 == Plus(RES(src[At(r + 1, 0)]), V0)
           V2 == Plus(RES(src[At(r + 2, 0)]), V1)
           V3 == Plus(RES(src[At(r + 3, 0)]), V2)
           V == <<V0, V1, V2, V3>>
<1>2. ASSUME NEW k \in 0 .. 3
      PROVE  /\ r + k \in RowIndex /\ 0 \in Columns
             /\ o(k) \in Sample
             /\ Plus(RES(src[At(r + k, 0)]), original[At(r + k - 1, 0)]) = o(k)
  <2>1. /\ r + k \in RowIndex /\ r + k > 0 /\ 0 \in Columns
        /\ ~Passed(r + k, 0)
    BY <1>1 DEF RowIndex, Columns, Passed
  <2> QED
    BY <1>1, <2>1, NextSample, DecodedFirstColumn, NeighboursAreSamples
<1>3. original[At(r - 1, 0)] \in Sample
      /\ dst[At(r - 1, 0)] = original[At(r - 1, 0)]
  <2>1. r - 1 \in RowIndex /\ 0 \in Columns /\ Passed(r - 1, 0)
    BY <1>1 DEF RowIndex, Columns, Passed
  <2> QED
    BY <1>1, <2>1, PassedSample, NeighboursAreSamples
<1>4. V0 = o(0) /\ V1 = o(1) /\ V2 = o(2) /\ V3 = o(3)
  <2>1. /\ r + 0 = r /\ r + 0 - 1 = r - 1 /\ r + 1 - 1 = r
        /\ r + 2 - 1 = r + 1 /\ r + 3 - 1 = r + 2
    BY <1>1
  <2>2. V0 = o(0)
    BY <1>2, <1>3, <2>1
  <2>3. V1 = o(1)
    BY <1>2, <2>1, <2>2
  <2>4. V2 = o(2)
    BY <1>2, <2>1, <2>3
  <2> QED
    BY <1>2, <2>1, <2>2, <2>3, <2>4
<1> DEFINE Out(s) == [p \in Positions |->
                        IF p % w = 0 /\ (p \div w) \in r .. r + 3
                          THEN V[(p \div w) - r + 1] ELSE s[p]]
<1>5. /\ dst' = Out(dst) /\ src' = IF inPlace THEN Out(src) ELSE src
      /\ W' = V /\ P' = <<0, 0, 0, 0>> /\ nw' = dst[At(r - 1, 0)]
      /\ phase' = "wave" /\ c' = 0 /\ r' = r
      /\ UNCHANGED <<codec, w, rows, original, inPlace>>
  BY DEF BeginWave
<1>6. /\ V \in [1 .. 4 -> Sample]
      /\ \A k \in 0 .. 3 : V[k + 1] = o(k)
  <2>1. \A k \in 0 .. 3 : o(k) \in Sample
    BY <1>2
  <2> HIDE DEF V0, V1, V2, V3, o
  <2>2. ASSUME NEW k \in 0 .. 3 PROVE V[k + 1] = o(k)
    BY <1>4
  <2>3. V \in [1 .. 4 -> Sample]
    BY <1>4, <2>1
  <2> QED
    BY <2>2, <2>3
<1> HIDE DEF V, V0, V1, V2, V3
<1>7. ASSUME NEW s, s \in [Positions -> Sample \cup {NoSample}]
      PROVE  /\ Out(s) \in [Positions -> Sample \cup {NoSample}]
             /\ s \in [Positions -> Sample] => Out(s) \in [Positions -> Sample]
  <2>1. ASSUME NEW p \in Positions, (p \div w) \in r .. r + 3
        PROVE  V[(p \div w) - r + 1] \in Sample
    <3>1. (p \div w) - r + 1 \in 1 .. 4
      BY <1>1, <2>1
    <3> QED
      BY <1>6, <3>1
  <2> QED
    BY <1>7, <2>1
<1>8. ASSUME NEW s, NEW b \in RowIndex, NEW y \in Columns
      PROVE  Out(s)[At(b, y)] =
               IF y = 0 /\ b \in r .. r + 3 THEN original[At(b, 0)]
               ELSE s[At(b, y)]
  <2>1. /\ At(b, y) \in Positions
        /\ At(b, y) \div w = b /\ At(b, y) % w = y
    BY <1>1, AtPosition
  <2>2. ASSUME b \in r .. r + 3 PROVE V[b - r + 1] = original[At(b, 0)]
    <3>1. PICK k \in 0 .. 3 : k = b - r /\ r + k = b
      BY <1>1, <2>2
    <3> QED
      BY <1>6, <3>1
  <2> QED
    BY <2>1, <2>2
<1> HIDE DEF Out
<1>9. ASSUME NEW b \in RowIndex, NEW y \in Columns
      PROVE  Passed(b, y)' <=> Passed(b, y) \/ (y = 0 /\ b \in r .. r + 3)
  <2>1. Passed(b, y) <=> b < r
    BY <1>1 DEF Passed
  <2>2. CASE b \notin r .. r + 3
    BY <1>5, <2>1, <2>2 DEF Passed
  <2>3. CASE b \in r .. r + 3
    <3>1. b - r \in 0 .. 3 /\ ~(b < r)
      BY <1>1, <2>3
    <3>2. Done(b - r, c)' = 1
      BY <1>1, <1>5, <3>1, EndsOfWave, StaticKept
    <3>3. y < 1 <=> y = 0
      BY <1>1 DEF Columns
    <3> QED
      BY <1>5, <2>1, <2>3, <3>1, <3>2, <3>3 DEF Passed
  <2> QED
    BY <2>2, <2>3
<1>10. DecodeInv'
  <2> SUFFICES ASSUME NEW b \in RowIndex, NEW y \in Columns
               PROVE  /\ Passed(b, y)' => dst'[At(b, y)] = original[At(b, y)]
                      /\ ~Passed(b, y)' =>
                           src'[At(b, y)] = Stream(original)[At(b, y)]
    BY <1>5, StaticKept DEF DecodeInv
  <2> QED
    BY <1>5, <1>8, <1>9 DEF DecodeInv
<1>11. Raster' /\ PhaseInv'
  BY <1>1, <1>5, StaticKept, StepsOfWave DEF PhaseInv
<1>12. RegistersInv'
  <2>1. ASSUME NEW k \in 0 .. 3
        PROVE  /\ W'[k + 1] = original[At(r + k, Done(k, 0) - 1)]
               /\ ~(Done(k, 0) >= 2)
    BY <1>1, <1>5, <1>6, EndsOfWave
  <2>2. nw' = original[At(r - 1, Done(0, 0) - 1)]
    BY <1>1, <1>3, <1>5, EndsOfWave
  <2> QED
    BY <1>5, <2>1, <2>2, StaticKept DEF RegistersInv
<1>13. TypeOK'
  <2>1. /\ src' \in [Positions -> Sample]
        /\ dst' \in [Positions -> Sample \cup {NoSample}]
    BY <1>5, <1>7 DEF TypeOK
  <2>2. W' \in [1 .. 4 -> Sample] /\ nw' \in Sample
    BY <1>3, <1>5, <1>6
  <2>3. P' \in [1 .. 4 -> Sample]
    BY <1>5, ZeroIsSample
  <2>4. r' \in 0 .. rows /\ c' \in Nat
    BY <1>1, <1>5
  <2> QED
    BY <1>5, <2>1, <2>2, <2>3, <2>4, StaticKept DEF TypeOK
<1> QED
  BY <1>10, <1>11, <1>12, <1>13

\* Every step keeps the invariant.
LEMMA NextInv == IInv /\ [Next]_vars => IInv'
<1> SUFFICES ASSUME IInv, [Next]_vars PROVE IInv'
  OBVIOUS
<1>1. CASE FirstRow
  BY <1>1, FirstRowInv
<1>2. CASE BeginWave
  BY <1>2, BeginWaveInv
<1>3. CASE Top
  BY <1>3, TopInv
<1>4. CASE Step
  BY <1>4, StepInv
<1>5. CASE EndWaves
  BY <1>5, EndWavesInv
<1>6. CASE Serial
  BY <1>6, SerialInv
<1>7. CASE UNCHANGED vars
  <2>1. UNCHANGED <<codec, w, rows, original, inPlace, src, dst, phase, r, c,
                    W, P, nw>>
    BY <1>7 DEF vars
  <2>2. \A a, x : Passed(a, x)' <=> Passed(a, x)
    BY <2>1, StaticKept DEF Passed
  <2>3. DecodeInv'
    BY <2>1, <2>2, StaticKept DEF DecodeInv, IInv
  <2>4. Raster' /\ PhaseInv' /\ RegistersInv'
    BY <2>1, StaticKept DEF IInv, PhaseInv, RegistersInv
  <2>5. TypeOK'
    BY <2>1, StaticKept DEF IInv, TypeOK
  <2> QED
    BY <2>3, <2>4, <2>5 DEF IInv
<1> QED
  BY <1>1, <1>2, <1>3, <1>4, <1>5, <1>6, <1>7 DEF Next, Ended

\* So it holds always.
LEMMA Invariant == Spec => []IInv
BY InitInv, NextInv, PTL DEF Spec

\* The variables of the wavefront stay in their ranges: what is decoded or kept
\* in a register is a sample, whatever the width of samples and plane.
THEOREM TypeCorrect == Spec => []TypeOK
<1>1. IInv => TypeOK
  BY DEF IInv
<1> QED
  BY <1>1, Invariant, PTL

\* At every step of a wave the registers are the neighbours of the very sample.
THEOREM RegistersHoldNeighbours == Spec => []RegistersAreNeighbours
<1>1. ASSUME IInv PROVE RegistersAreNeighbours
  <2> SUFFICES ASSUME phase = "wave",
                      NEW k, NEW x, k = StepAt(c)[1], x = StepAt(c)[2]
               PROVE  /\ W[k + 1] = dst[At(r + k, x - 1)]
                      /\ IF k = 0 THEN nw = dst[At(r - 1, x - 1)]
                         ELSE /\ W[k] = dst[At(r + k - 1, x)]
                              /\ P[k] = dst[At(r + k - 1, x - 1)]
    BY DEF RegistersAreNeighbours
  <2>1. /\ k \in 0 .. 3 /\ x \in Columns /\ x - 1 \in Columns
        /\ r + k \in RowIndex /\ r + k - 1 \in RowIndex
        /\ Passed(r + k, x - 1)
        /\ Passed(r + k - 1, x) /\ Passed(r + k - 1, x - 1)
        /\ W[k + 1] = original[At(r + k, x - 1)]
        /\ k > 0 => /\ W[k] = original[At(r + k - 1, x)]
                    /\ P[k] = original[At(r + k - 1, x - 1)]
        /\ k = 0 => nw = original[At(r - 1, x - 1)]
    BY <1>1, TurnFacts
  <2>2. /\ dst[At(r + k, x - 1)] = original[At(r + k, x - 1)]
        /\ dst[At(r + k - 1, x)] = original[At(r + k - 1, x)]
        /\ dst[At(r + k - 1, x - 1)] = original[At(r + k - 1, x - 1)]
    BY <1>1, <2>1, PassedSample DEF IInv
  <2>3. k = 0 => r + k - 1 = r - 1
    BY <1>1 DEF IInv, TypeOK
  <2> QED
    BY <2>1, <2>2, <2>3
<1> QED
  BY <1>1, Invariant, PTL

\* Every row above the one at work is what was encoded, in place or not; at the
\* end that is the plane.
THEOREM WaveDecodesRows == Spec => []RowsDecoded
<1>1. ASSUME IInv PROVE RowsDecoded
  <2> SUFFICES ASSUME NEW p \in 0 .. r * w - 1 PROVE dst[p] = original[p]
    BY DEF RowsDecoded
  <2>1. Plane /\ r \in 0 .. rows
    BY <1>1, PlaneFacts DEF IInv
  <2>2. PICK a \in RowIndex, x \in Columns : a < r /\ p = At(a, x)
    BY <2>1, AboveRow
  <2>3. Passed(a, x)
    BY <2>2 DEF Passed
  <2> QED
    BY <1>1, <2>2, <2>3, PassedSample DEF IInv
<1> QED
  BY <1>1, Invariant, PTL
=============================================================================
