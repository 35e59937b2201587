-------------------------- MODULE PredictorsProofs --------------------------
(***************************************************************************)
(* Proofs about the codecs that decode by sums, for every width of a       *)
(* sample, raster, build of at most 32 lanes, block, set of weights and    *)
(* header of Corruptions.                                                  *)
(*                                                                         *)
(* RoundTrip and AllOrNothing follow from IInv.  An encoder that works in  *)
(* place may not overwrite what a later residual is taken from: EncodeInv  *)
(* says which samples of src are still those of the raster.  A decoder     *)
(* predicts from what it has written: DecodedInv says that this is the     *)
(* raster already, StreamInv that what it has not reached is still the     *)
(* stream.  A register adds the residuals of a row at once, and CarryInv   *)
(* says that its carry is the sample in the west.  FoldedInv and           *)
(* ScratchInv are about rows that are computed before they are scanned.    *)
(* The other parts say where a kernel is, and what a header promises of    *)
(* the planes it is about to decode.                                       *)
(***************************************************************************)
EXTENDS Predictors, FiniteSetTheorems, WellFoundedInduction, TLAPS

-----------------------------------------------------------------------------
(* Samples                                                                 *)

\* Sums and differences of samples are samples, and zero is one.
LEMMA SampleClosed ==
  /\ 0 \in Sample
  /\ \A a, b \in Sample : Plus(a, b) \in Sample /\ Minus(a, b) \in Sample
BY ModulusAssumption, SMT DEF Sample, Plus, Minus

\* encode_*_kernel.c and decode_*_kernel.c: a prediction that was subtracted is
\* added, from either side.
LEMMA Restores ==
  ASSUME NEW v \in Sample, NEW q \in Sample
  PROVE  Plus(Minus(v, q), q) = v /\ Plus(q, Minus(v, q)) = v
BY ModulusAssumption, SMT DEF Sample, Plus, Minus

\* A sum that is known leaves one value for its second term.
LEMMA Difference ==
  ASSUME NEW a \in Sample, NEW b \in Sample
  PROVE  Minus(Plus(a, b), a) = b
BY ModulusAssumption, SMT DEF Sample, Plus, Minus

\* Differences that meet add up.
LEMMA Telescope ==
  ASSUME NEW a \in Sample, NEW b \in Sample, NEW c \in Sample
  PROVE  Plus(Minus(a, b), Minus(b, c)) = Minus(a, c)
BY ModulusAssumption, SMT DEF Sample, Plus, Minus

\* Nothing is subtracted and added.
LEMMA ZeroSum ==
  ASSUME NEW a \in Sample
  PROVE  Plus(a, 0) = a /\ Plus(0, a) = a /\ Minus(a, 0) = a
BY ModulusAssumption, SMT DEF Sample, Plus, Minus

\* A half and its remainder.
LEMMA Halves ==
  ASSUME NEW k \in Nat
  PROVE  /\ k \div 2 \in Nat /\ k % 2 \in {0, 1}
         /\ k = 2 * (k \div 2) + (k % 2)
BY SMT

\* planar_zigzag: UNZIGZAG gives back every residual, within its width.
LEMMA ZigzagUndone ==
  ASSUME NEW x \in Sample
  PROVE  /\ Zigzag(x) \in Sample /\ Unzigzag(x) \in Sample
         /\ Unzigzag(Zigzag(x)) = x
<1> DEFINE H == Modulus \div 2
<1>1. H \in Nat /\ Modulus = 2 * H /\ x \in Nat /\ x < Modulus /\ H > 0
  BY ModulusAssumption, SMT DEF Sample
<1> HIDE DEF H
<1>2. Zigzag(x) = IF x < H THEN 2 * x ELSE 2 * (2 * H - x) - 1
  BY <1>1 DEF Zigzag, H
<1>3. Zigzag(x) \in Sample
  BY <1>1, <1>2, SMT DEF Sample
<1>4. Unzigzag(x) \in Sample
  BY <1>1, Halves, SMT DEF Sample, Unzigzag
<1>5. Unzigzag(Zigzag(x)) = x
  <2>1. CASE x < H
    BY <1>1, <1>2, <2>1, SMT DEF Unzigzag
  <2>2. CASE x >= H
    BY <1>1, <1>2, <2>2, SMT DEF Unzigzag
  <2> QED
    BY <1>1, <2>1, <2>2
<1> QED
  BY <1>3, <1>4, <1>5

\* encode_average_kernel.c: the three terms, none of which is wider than a
\* sample, are the floor of the average of two samples.
THEOREM AverageIsFloor ==
  ASSUME NEW a \in Sample, NEW b \in Sample
  PROVE  Average(a, b) = (a + b) \div 2 /\ Average(a, b) \in Sample
<1>1. a \in Nat /\ b \in Nat /\ a < Modulus /\ b < Modulus
  BY ModulusAssumption, SMT DEF Sample
<1>2. Average(a, b) = (a + b) \div 2
  BY <1>1, SMT DEF Average
<1> QED BY <1>1, <1>2, ModulusAssumption, SMT DEF Sample

\* decode_average_kernel.c: the chain over B and L adds what the average of the
\* two neighbours would.
THEOREM SplitAverageAgrees ==
  ASSUME NEW res \in Sample, NEW west \in Sample, NEW up \in Sample
  PROVE  Plus(Plus(Plus(res, up \div 2), west \div 2),
              IF west % 2 = 1 THEN up % 2 ELSE 0)
           = Plus(res, Average(west, up))
<1>1. /\ res \in Nat /\ res < Modulus
      /\ west \in Nat /\ west < Modulus /\ up \in Nat /\ up < Modulus
  BY ModulusAssumption, SMT DEF Sample
<1>2. PICK h \in Nat, g \in Nat : h = west \div 2 /\ g = up \div 2
  BY <1>1, Halves
<1> DEFINE bit == IF west % 2 = 1 THEN up % 2 ELSE 0
<1>3. bit \in {0, 1} /\ h + g + bit < Modulus
  BY <1>1, <1>2, ModulusAssumption, SMT
<1>4. Average(west, up) = h + g + bit
  BY <1>1, <1>2, SMT DEF Average
<1> HIDE DEF bit
<1>5. Plus(Plus(Plus(res, g), h), bit) = Plus(res, h + g + bit)
  BY <1>1, <1>2, <1>3, ModulusAssumption, SMT DEF Plus
<1> QED BY <1>2, <1>4, <1>5 DEF bit

-----------------------------------------------------------------------------
(* Rows and planes                                                         *)

\* A row ends before the next one begins.
LEMMA RowEnds ==
  ASSUME NEW w \in Nat, NEW a \in Nat, NEW b \in Nat, a < b
  PROVE  a * w \in Nat /\ a * w + w <= b * w
<1>1. PICK d \in Nat : b = a + 1 + d
  OBVIOUS
<1>2. a * w \in Nat /\ d * w \in Nat
  OBVIOUS
<1>3. b * w = a * w + w + d * w
  BY <1>1
<1> QED
  BY <1>2, <1>3

\* Quotient and remainder of a number that is given by them.
LEMMA Split ==
  ASSUME NEW w \in Nat \ {0}, NEW a \in Nat, NEW x \in 0 .. w - 1
  PROVE  (a * w + x) \div w = a /\ (a * w + x) % w = x
OBVIOUS

\* Every number has a quotient and a remainder.
LEMMA Divided ==
  ASSUME NEW w \in Nat \ {0}, NEW p \in Nat
  PROVE  \E a \in Nat, x \in 0 .. w - 1 : p = a * w + x
<1>1. /\ p \div w \in Int /\ p \div w >= 0
      /\ p % w \in 0 .. w - 1
  OBVIOUS
<1>2. PICK a \in Int, x \in Int : a = p \div w /\ x = p % w
  BY <1>1
<1>3. p = w * a + x
  BY <1>2
<1>4. w * a = a * w
  OBVIOUS
<1>5. a \in Nat /\ x \in 0 .. w - 1 /\ p = a * w + x
  BY <1>1, <1>2, <1>3, <1>4
<1> QED
  BY <1>5

\* A stream is cut into planes, and these into rows.
Tiled ==
  /\ width \in Nat \ {0} /\ planes \in Nat \ {0} /\ planeElts \in Nat \ {0}
  /\ planeElts % width = 0 /\ nbElts = planes * planeElts
  /\ Positions = 0 .. nbElts - 1

\* Rows of a plane.
Rows == 0 .. (planeElts \div width) - 1
Columns == 0 .. width - 1

\* The sample of a plane, a row and a column.
Cell(a, r, x) == a * planeElts + (r * width + x)

\* A stream is a function from the first numbers to samples.
LEMMA RasterFacts ==
  ASSUME original \in Rasters
  PROVE  /\ nbElts \in Nat \ {0} /\ Positions = 0 .. nbElts - 1
         /\ original \in [Positions -> Sample]
<1>1. PICK m \in 1 .. Cardinality(DOMAIN original) :
        original \in [0 .. m - 1 -> Sample]
  BY PredictorAssumption
<1>2. DOMAIN original = 0 .. m - 1
  BY <1>1
<1>3. m \in Nat \ {0}
  <2>1. IsFiniteSet(DOMAIN original)
    <3>1. CASE m \in Int
      BY <1>2, <3>1, FS_Interval
    <3> QED
      BY <1>1, <3>1
  <2> QED
    BY <1>1, <2>1, FS_CardinalityType
<1>4. Cardinality(0 .. m - 1) = m
  BY <1>3, FS_Interval
<1> QED
  BY <1>1, <1>2, <1>3, <1>4 DEF Positions, nbElts

\* A stream has a sample, and a position for each of its samples.
LEMMA StreamFacts ==
  ASSUME TypeOK
  PROVE  /\ nbElts \in Nat \ {0} /\ Positions = 0 .. nbElts - 1
         /\ original \in [Positions -> Sample]
BY RasterFacts DEF TypeOK

\* How many rows a plane has.
LEMMA RowCount ==
  ASSUME Tiled
  PROVE  /\ planeElts \div width \in Nat \ {0}
         /\ (planeElts \div width) * width = planeElts
<1>1. width \in Nat \ {0} /\ planeElts \in Nat \ {0} /\ planeElts % width = 0
  BY DEF Tiled
<1>2. PICK u \in Nat \ {0}, e \in Nat \ {0} : u = width /\ e = planeElts
  BY <1>1
<1>3. PICK a \in Nat, x \in 0 .. u - 1 : e = a * u + x
  BY Divided
<1>4. e % u = x /\ e \div u = a
  BY <1>3, Split
<1>5. x = 0 /\ a # 0
  BY <1>1, <1>2, <1>3, <1>4
<1> QED
  BY <1>2, <1>3, <1>4, <1>5

\* A plane, a row and a column make a position, and can be read off it.
LEMMA CellFacts ==
  ASSUME Tiled, NEW a \in 0 .. planes - 1, NEW r \in Rows, NEW x \in Columns
  PROVE  /\ Cell(a, r, x) \in Positions
         /\ Column(Cell(a, r, x)) = x /\ Row(Cell(a, r, x)) = r
<1>1. PICK u \in Nat \ {0}, e \in Nat \ {0}, m \in Nat \ {0},
           k \in Nat \ {0} :
        /\ u = width /\ e = planeElts /\ m = planes /\ k = planeElts \div width
        /\ k * u = e
  BY RowCount DEF Tiled
<1>2. a \in Nat /\ a < m /\ r \in Nat /\ r < k /\ x \in Nat /\ x < u
  BY <1>1 DEF Rows, Columns
<1>3. r * u \in Nat /\ r * u + u <= e
  BY <1>1, <1>2, RowEnds
<1>4. a * e \in Nat /\ a * e + e <= m * e
  BY <1>2, RowEnds
<1>5. r * u + x \in 0 .. e - 1
  BY <1>2, <1>3
<1>6. (a * e + (r * u + x)) % e = r * u + x
  BY <1>2, <1>5, Split
<1>7. (r * u + x) % u = x /\ (r * u + x) \div u = r
  <2>1. r \in Nat /\ x \in 0 .. u - 1
    BY <1>2
  <2> QED
    BY <2>1, Split
<1>8. Cell(a, r, x) = a * e + (r * u + x)
  BY <1>1 DEF Cell
<1>9. Cell(a, r, x) \in Positions
  BY <1>1, <1>4, <1>5, <1>8 DEF Tiled
<1>10. Column(Cell(a, r, x)) = x /\ Row(Cell(a, r, x)) = r
  BY <1>1, <1>6, <1>7, <1>8 DEF Column, Row
<1> QED
  BY <1>9, <1>10

\* Every position has a plane, a row and a column.
LEMMA CellOf ==
  ASSUME Tiled, NEW p \in Positions
  PROVE  /\ Row(p) \in Rows /\ Column(p) \in Columns
         /\ \E a \in 0 .. planes - 1 : p = Cell(a, Row(p), Column(p))
<1>1. PICK u \in Nat \ {0}, e \in Nat \ {0}, m \in Nat \ {0},
           k \in Nat \ {0} :
        /\ u = width /\ e = planeElts /\ m = planes /\ k = planeElts \div width
        /\ k * u = e
  BY RowCount DEF Tiled
<1>2. p \in Nat /\ p < m * e
  BY <1>1 DEF Tiled
<1>3. PICK a \in Nat, y \in 0 .. e - 1 : p = a * e + y
  BY <1>2, Divided
<1>4. PICK r \in Nat, x \in 0 .. u - 1 : y = r * u + x
  <2>1. y \in Nat
    BY <1>3
  <2> QED
    BY <2>1, Divided
<1>5. a < m
  <2> SUFFICES ASSUME m <= a PROVE FALSE
    BY <1>3
  <2>1. m * e <= a * e /\ a * e \in Nat /\ m * e \in Nat
    <3>1. CASE m = a
      BY <3>1, <1>3
    <3>2. CASE m < a
      BY <3>2, <1>3, RowEnds
    <3> QED
      BY <3>1, <3>2, <1>3
  <2> QED
    BY <1>2, <1>3, <2>1
<1>6. r < k
  <2> SUFFICES ASSUME k <= r PROVE FALSE
    BY <1>4
  <2>1. k * u <= r * u /\ r * u \in Nat
    <3>1. CASE k = r
      BY <3>1, <1>4
    <3>2. CASE k < r
      BY <3>2, <1>4, RowEnds
    <3> QED
      BY <3>1, <3>2, <1>4
  <2> QED
    BY <1>1, <1>3, <1>4, <2>1
<1>7. a \in 0 .. planes - 1 /\ r \in Rows /\ x \in Columns
  BY <1>1, <1>3, <1>4, <1>5, <1>6 DEF Rows, Columns
<1>8. p = Cell(a, r, x)
  BY <1>1, <1>3, <1>4 DEF Cell
<1>9. Row(p) = r /\ Column(p) = x
  BY <1>7, <1>8, CellFacts
<1> QED
  BY <1>7, <1>8, <1>9

\* The samples to the right, up to the end of the row.
LEMMA RightOf ==
  ASSUME Tiled, NEW p \in Positions, NEW k \in Nat, Column(p) + k < width
  PROVE  /\ p + k \in Positions
         /\ Column(p + k) = Column(p) + k /\ Row(p + k) = Row(p)
<1>1. PICK a \in 0 .. planes - 1 : p = Cell(a, Row(p), Column(p))
  BY CellOf
<1>2. Row(p) \in Rows /\ Column(p) \in Columns
  BY CellOf
<1>3. PICK r \in Rows, x \in Columns : r = Row(p) /\ x = Column(p)
  BY <1>2
<1>4. x + k \in Columns
  BY <1>3 DEF Columns, Tiled
<1>5. r \in Nat /\ x \in Nat /\ a \in Nat
  BY RowCount DEF Rows, Columns, Tiled
<1>6. a * planeElts \in Nat /\ r * width \in Nat
  BY <1>5 DEF Tiled
<1>7. Cell(a, r, x + k) = Cell(a, r, x) + k
  BY <1>5, <1>6 DEF Cell
<1> QED
  BY <1>1, <1>3, <1>4, <1>7, CellFacts

\* The sample to the left.
LEMMA LeftOf ==
  ASSUME Tiled, NEW p \in Positions, Column(p) > 0
  PROVE  /\ p - 1 \in Positions
         /\ Column(p - 1) = Column(p) - 1 /\ Row(p - 1) = Row(p)
<1>1. PICK a \in 0 .. planes - 1 : p = Cell(a, Row(p), Column(p))
  BY CellOf
<1>2. Row(p) \in Rows /\ Column(p) \in Columns
  BY CellOf
<1>3. PICK r \in Rows, x \in Columns : r = Row(p) /\ x = Column(p)
  BY <1>2
<1>4. x - 1 \in Columns
  BY <1>3 DEF Columns, Tiled
<1>5. r \in Nat /\ x \in Nat /\ a \in Nat
  BY RowCount DEF Rows, Columns, Tiled
<1>6. a * planeElts \in Nat /\ r * width \in Nat
  BY <1>5 DEF Tiled
<1>7. Cell(a, r, x - 1) = Cell(a, r, x) - 1
  BY <1>5, <1>6 DEF Cell
<1> QED
  BY <1>1, <1>3, <1>4, <1>7, CellFacts

\* The sample above.
LEMMA Above ==
  ASSUME Tiled, NEW p \in Positions, Row(p) > 0
  PROVE  /\ p - width \in Positions
         /\ Column(p - width) = Column(p) /\ Row(p - width) = Row(p) - 1
<1>1. PICK a \in 0 .. planes - 1 : p = Cell(a, Row(p), Column(p))
  BY CellOf
<1>2. Row(p) \in Rows /\ Column(p) \in Columns
  BY CellOf
<1>3. PICK r \in Rows, x \in Columns : r = Row(p) /\ x = Column(p)
  BY <1>2
<1>4. r - 1 \in Rows
  BY <1>3, RowCount DEF Rows
<1>5. r \in Nat /\ x \in Nat /\ a \in Nat
  BY RowCount DEF Rows, Columns, Tiled
<1>6. PICK u \in Nat \ {0}, e \in Nat \ {0} : u = width /\ e = planeElts
  BY DEF Tiled
<1>7. a * e \in Nat /\ r * u \in Nat /\ (r - 1) * u = r * u - u
  BY <1>5
<1>8. Cell(a, r - 1, x) = Cell(a, r, x) - width
  BY <1>5, <1>6, <1>7 DEF Cell
<1> QED
  BY <1>1, <1>3, <1>4, <1>8, CellFacts

\* A row is followed by the end of the stream or by another row.
LEMMA NextRow ==
  ASSUME Tiled, NEW p \in Positions
  PROVE  LET q == p + (width - Column(p)) IN
         q = nbElts \/ (q \in Positions /\ Column(q) = 0)
<1>1. PICK a \in 0 .. planes - 1 : p = Cell(a, Row(p), Column(p))
  BY CellOf
<1>2. Row(p) \in Rows /\ Column(p) \in Columns
  BY CellOf
<1>3. PICK r \in Rows, x \in Columns : r = Row(p) /\ x = Column(p)
  BY <1>2
<1>4. PICK u \in Nat \ {0}, e \in Nat \ {0}, m \in Nat \ {0},
           k \in Nat \ {0} :
        /\ u = width /\ e = planeElts /\ m = planes /\ k = planeElts \div width
        /\ k * u = e
  BY RowCount DEF Tiled
<1>5. r \in Nat /\ r < k /\ x \in Nat /\ a \in Nat /\ a < m /\ 0 \in Columns
  BY <1>4 DEF Rows, Columns
<1>6. a * e \in Nat /\ r * u \in Nat /\ (r + 1) * u = r * u + u
      /\ (a + 1) * e = a * e + e
  BY <1>5
<1>7. p + (width - x) = a * e + (r + 1) * u
  BY <1>1, <1>3, <1>4, <1>5, <1>6 DEF Cell
<1>8. CASE r + 1 < k
  <2>1. r + 1 \in Rows
    BY <1>4, <1>5, <1>8 DEF Rows
  <2>2. Cell(a, r + 1, 0) = p + (width - x)
    BY <1>4, <1>5, <1>6, <1>7 DEF Cell
  <2> QED
    BY <1>3, <1>5, <2>1, <2>2, CellFacts
<1>9. CASE r + 1 = k
  <2>1. p + (width - x) = (a + 1) * e
    BY <1>4, <1>6, <1>7, <1>9
  <2>2. CASE a + 1 = m
    BY <1>3, <1>4, <2>1, <2>2 DEF Tiled
  <2>3. CASE a + 1 < m
    <3>1. a + 1 \in 0 .. planes - 1 /\ 0 \in Rows
      BY <1>4, <1>5, <2>3 DEF Rows
    <3>2. Cell(a + 1, 0, 0) = p + (width - x)
      BY <1>4, <1>5, <1>6, <2>1 DEF Cell
    <3> QED
      BY <1>3, <1>5, <3>1, <3>2, CellFacts
  <2> QED
    BY <1>4, <1>5, <2>2, <2>3
<1> QED
  BY <1>4, <1>5, <1>8, <1>9

\* The order of the encoders, by plane, row and column.
LEMMA OrderOfCell ==
  ASSUME Tiled, NEW a \in 0 .. planes - 1, NEW r \in Rows, NEW x \in Columns
  PROVE  EncodeOrder(Cell(a, r, x)) =
           CASE codec = "delta_w" -> Cell(a, r, width - 1 - x)
             [] codec = "delta_n" ->
                  Cell(a, (planeElts \div width) - 1 - r, x)
             [] OTHER -> Cell(a, r, x)
<1>1. Row(Cell(a, r, x)) = r /\ Column(Cell(a, r, x)) = x
  BY CellFacts
<1>2. PICK u \in Nat \ {0}, e \in Nat \ {0}, k \in Nat \ {0} :
        u = width /\ e = planeElts /\ k = planeElts \div width
  BY RowCount DEF Tiled
<1>3. r \in Nat /\ x \in Nat /\ a \in Nat
  BY <1>2 DEF Rows, Columns, Tiled
<1>4. a * e \in Nat /\ r * u \in Nat
  BY <1>3
<1>5. CASE codec = "delta_w"
  BY <1>1, <1>2, <1>3, <1>4, <1>5 DEF EncodeOrder, Cell
<1>6. CASE codec = "delta_n"
  <2>1. (k - 1 - 2 * r) * u = (k - 1 - r) * u - r * u
    BY <1>3
  <2>2. (k - 1 - r) * u \in Int
    BY <1>3
  <2>3. Cell(a, r, x) = a * e + (r * u + x)
        /\ Cell(a, k - 1 - r, x) = a * e + ((k - 1 - r) * u + x)
    BY <1>2 DEF Cell
  <2>4. EncodeOrder(Cell(a, r, x)) = Cell(a, r, x) + (k - 1 - 2 * r) * u
    BY <1>1, <1>2, <1>6 DEF EncodeOrder
  <2> QED
    BY <1>2, <1>3, <1>4, <1>6, <2>1, <2>2, <2>3, <2>4
<1>7. CASE codec \notin {"delta_w", "delta_n"}
  BY <1>7 DEF EncodeOrder
<1> QED
  BY <1>5, <1>6, <1>7

\* encode_delta_w_kernel.c, encode_delta_n_kernel.c: every sample has its turn,
\* and no two have the same one: the order undoes itself.
LEMMA OrderInverts ==
  ASSUME Tiled, NEW p \in Positions
  PROVE  EncodeOrder(p) \in Positions /\ EncodeOrder(EncodeOrder(p)) = p
<1>1. PICK a \in 0 .. planes - 1, r \in Rows, x \in Columns : p = Cell(a, r, x)
  BY CellOf
<1>2. PICK k \in Nat \ {0} : k = planeElts \div width
  BY RowCount
<1>3. /\ width - 1 - x \in Columns /\ width - 1 - (width - 1 - x) = x
      /\ k - 1 - r \in Rows /\ k - 1 - (k - 1 - r) = r
  BY <1>2 DEF Columns, Rows, Tiled
<1>4. CASE codec = "delta_w"
  BY <1>1, <1>3, <1>4, OrderOfCell, CellFacts
<1>5. CASE codec = "delta_n"
  BY <1>1, <1>2, <1>3, <1>5, OrderOfCell, CellFacts
<1>6. CASE codec \notin {"delta_w", "delta_n"}
  BY <1>1, <1>6, OrderOfCell, CellFacts
<1> QED
  BY <1>4, <1>5, <1>6

\* In place, a sample has its turn before the one it is predicted from.
LEMMA OrderKeeps ==
  ASSUME Tiled, NEW k \in Positions
  PROVE  LET p == EncodeOrder(k) IN
         /\ codec = "delta_w" /\ Column(p) > 0 =>
              k + 1 \in Positions /\ EncodeOrder(k + 1) = p - 1
         /\ codec = "delta_n" /\ Row(p) > 0 =>
              k + width \in Positions /\ EncodeOrder(k + width) = p - width
<1>1. PICK a \in 0 .. planes - 1, r \in Rows, x \in Columns : k = Cell(a, r, x)
  BY CellOf
<1>2. PICK u \in Nat \ {0}, e \in Nat \ {0}, m \in Nat \ {0} :
        u = width /\ e = planeElts /\ m = planeElts \div width
  BY RowCount DEF Tiled
<1>3. r \in Nat /\ x \in Nat /\ a \in Nat /\ r < m /\ x < u
  BY <1>2 DEF Rows, Columns, Tiled
<1>4. a * e \in Nat /\ r * u \in Nat /\ (r + 1) * u = r * u + u
  BY <1>3
<1>5. u - 1 - x \in Columns /\ m - 1 - r \in Rows
  BY <1>2, <1>3 DEF Columns, Rows
<1>6. ASSUME codec = "delta_w", Column(EncodeOrder(k)) > 0
      PROVE  k + 1 \in Positions /\ EncodeOrder(k + 1) = EncodeOrder(k) - 1
  <2>1. EncodeOrder(k) = Cell(a, r, u - 1 - x)
    BY <1>1, <1>2, <1>6, OrderOfCell
  <2>2. u - 1 - x > 0
    BY <1>5, <1>6, <2>1, CellFacts
  <2>3. x + 1 \in Columns
    BY <1>2, <1>3, <2>2 DEF Columns
  <2>4. Cell(a, r, x + 1) = k + 1
    BY <1>1, <1>2, <1>3, <1>4 DEF Cell
  <2>5. EncodeOrder(k + 1) = Cell(a, r, u - 1 - (x + 1))
    BY <1>2, <1>6, <2>3, <2>4, OrderOfCell
  <2>6. Cell(a, r, u - 1 - (x + 1)) = Cell(a, r, u - 1 - x) - 1
    BY <1>2, <1>3, <1>4 DEF Cell
  <2> QED
    BY <2>1, <2>3, <2>4, <2>5, <2>6, CellFacts
<1>7. ASSUME codec = "delta_n", Row(EncodeOrder(k)) > 0
      PROVE  /\ k + width \in Positions
             /\ EncodeOrder(k + width) = EncodeOrder(k) - width
  <2>1. EncodeOrder(k) = Cell(a, m - 1 - r, x)
    BY <1>1, <1>2, <1>7, OrderOfCell
  <2>2. m - 1 - r > 0
    BY <1>5, <1>7, <2>1, CellFacts
  <2>3. r + 1 \in Rows
    BY <1>2, <1>3, <2>2 DEF Rows
  <2>4. Cell(a, r + 1, x) = k + width
    BY <1>1, <1>2, <1>3, <1>4 DEF Cell
  <2>5. EncodeOrder(k + width) = Cell(a, m - 1 - (r + 1), x)
    BY <1>2, <1>7, <2>3, <2>4, OrderOfCell
  <2>6. Cell(a, m - 1 - (r + 1), x) = Cell(a, m - 1 - r, x) - width
    <3>1. PICK v \in Nat : v = m - 1 - (r + 1)
      BY <1>3, <2>2
    <3>2. m - 1 - r = v + 1 /\ (v + 1) * u = v * u + u /\ v * u \in Nat
      BY <1>3, <3>1
    <3> QED
      BY <1>2, <1>3, <1>4, <3>1, <3>2 DEF Cell
  <2> QED
    BY <2>1, <2>3, <2>4, <2>5, <2>6, CellFacts
<1> QED
  BY <1>6, <1>7

-----------------------------------------------------------------------------
(* Powers of two                                                           *)

\* A set of numbers has a least one.  Taken of the numbers for which a claim
\* fails, it stands for induction.
LEMMA LeastNumber ==
  ASSUME NEW T, T \subseteq Nat, T # {}
  PROVE  \E x \in T : \A y \in T : x <= y
<1> DEFINE Below(m) == 0 .. m
           F == {Below(m) : m \in T}
<1>1. F \subseteq FiniteSubsetsOf(Nat) /\ F # {}
  <2>1. ASSUME NEW m \in T
        PROVE  Below(m) \in SUBSET Nat /\ IsFiniteSet(Below(m))
    <3>1. m \in Int /\ 0 \in Int /\ Below(m) \in SUBSET Nat
      OBVIOUS
    <3>2. IsFiniteSet(0 .. m)
      BY <3>1, FS_Interval
    <3> QED
      BY <3>1, <3>2
  <2> QED
    BY <2>1 DEF FiniteSubsetsOf
<1>2. PICK U \in F : \A V \in F : <<V, U>> \notin StrictSubsetOrdering(Nat)
  BY <1>1, FS_StrictSubsetOrderingWellFounded, WFMin
<1>3. PICK x \in T : U = Below(x)
  OBVIOUS
<1>4. ASSUME NEW y \in T PROVE x <= y
  <2> SUFFICES ASSUME y < x PROVE FALSE
    OBVIOUS
  <2>1. Below(y) \in SUBSET Nat /\ U \in SUBSET Nat /\ Below(y) \subseteq U
    BY <1>3
  <2>2. x \in U /\ x \notin Below(y)
    BY <1>3
  <2> HIDE DEF Below
  <2>3. <<Below(y), U>> \in StrictSubsetOrdering(Nat)
    BY <2>1, <2>2 DEF StrictSubsetOrdering
  <2> QED
    BY <1>2, <2>3
<1> QED
  BY <1>4

\* Each number doubles the power of the one before, up to some number.
Doubles(u, m) == u = [e \in 0 .. m |-> IF e = 0 THEN 1 ELSE 2 * u[e - 1]]

\* There is such a function.
LEMMA DoublesExist ==
  ASSUME NEW m \in Nat
  PROVE  \E u \in [0 .. m -> Nat \ {0}] : Doubles(u, m)
<1> DEFINE Has(k) == \E u \in [0 .. k -> Nat \ {0}] : Doubles(u, k)
           T == {k \in Nat : ~Has(k)}
<1>1. Has(0)
  <2>1. PICK u : u = [e \in 0 .. 0 |-> 1]
    OBVIOUS
  <2>2. u \in [0 .. 0 -> Nat \ {0}] /\ Doubles(u, 0)
    BY <2>1 DEF Doubles
  <2> QED
    BY <2>2
<1>2. ASSUME NEW k \in Nat, Has(k) PROVE Has(k + 1)
  <2>1. PICK u \in [0 .. k -> Nat \ {0}] : Doubles(u, k)
    BY <1>2
  <2>2. \A e \in 0 .. k : u[e] = IF e = 0 THEN 1 ELSE 2 * u[e - 1]
    BY <2>1 DEF Doubles
  <2> DEFINE last == 2 * u[k]
             v == [e \in 0 .. k + 1 |-> IF e <= k THEN u[e] ELSE last]
  <2>3. last \in Nat \ {0}
    OBVIOUS
  <2>4. v \in [0 .. k + 1 -> Nat \ {0}]
    BY <2>3
  <2>5. ASSUME NEW e \in 0 .. k + 1
        PROVE  v[e] = IF e = 0 THEN 1 ELSE 2 * v[e - 1]
    <3>1. CASE e \in 0 .. k
      <4>1. v[e] = u[e] /\ (e # 0 => v[e - 1] = u[e - 1])
        BY <3>1
      <4> QED
        BY <2>2, <3>1, <4>1
    <3>2. CASE e = k + 1
      <4>1. v[e] = last /\ v[e - 1] = u[k] /\ e # 0
        BY <3>2
      <4> QED
        BY <3>2, <4>1
    <3> QED
      BY <3>1, <3>2
  <2>6. v = [e \in 0 .. k + 1 |-> v[e]]
    OBVIOUS
  <2> HIDE DEF v
  <2>7. Doubles(v, k + 1)
    BY <2>5, <2>6 DEF Doubles
  <2> QED
    BY <2>4, <2>7
<1> HIDE DEF Has
<1>3. T = {}
  <2> SUFFICES ASSUME T # {} PROVE FALSE
    OBVIOUS
  <2>1. PICK k \in T : \A j \in T : k <= j
    BY LeastNumber
  <2>2. k # 0 /\ k \in Nat
    BY <1>1
  <2>3. k - 1 \in Nat /\ k - 1 \notin T
    BY <2>1, <2>2
  <2>4. Has(k - 1 + 1)
    BY <1>2, <2>3
  <2> QED
    BY <2>2, <2>4
<1> QED
  BY <1>3 DEF Has

\* What Power computes.
LEMMA PowerFacts ==
  /\ SampleBits \in Nat \ {0} /\ Power[0] = 1 /\ Power[SampleBits] = Modulus
  /\ \A k \in 0 .. 4 * SampleBits : Power[k] \in Nat \ {0}
  /\ \A k \in 0 .. 4 * SampleBits - 1 : Power[k + 1] = 2 * Power[k]
<1> DEFINE m == 4 * SampleBits
<1>1. SampleBits \in Nat /\ Modulus = Power[SampleBits]
  BY PredictorAssumption
<1>2. \E u : Doubles(u, m)
  <2>1. m \in Nat
    BY <1>1
  <2> QED
    BY <2>1, DoublesExist
<1>3. Doubles(Power, m)
  BY <1>2 DEF Doubles, Power
<1>4. \A e \in 0 .. m : Power[e] = IF e = 0 THEN 1 ELSE 2 * Power[e - 1]
  BY <1>3 DEF Doubles
<1>5. Power[0] = 1
  BY <1>1, <1>4
<1>6. SampleBits # 0
  BY <1>1, <1>5, ModulusAssumption
<1>7. \A k \in 0 .. m - 1 : Power[k + 1] = 2 * Power[k]
  <2>1. ASSUME NEW k \in 0 .. m - 1 PROVE Power[k + 1] = 2 * Power[k]
    <3>1. k + 1 \in 0 .. m /\ k + 1 # 0 /\ k + 1 - 1 = k
      BY <1>1
    <3> QED
      BY <1>4, <3>1
  <2> QED
    BY <2>1
<1> DEFINE T == {e \in 0 .. m : Power[e] \notin Nat \ {0}}
<1>8. T = {}
  <2> SUFFICES ASSUME T # {} PROVE FALSE
    OBVIOUS
  <2>1. PICK e \in T : \A k \in T : e <= k
    BY T \subseteq Nat, LeastNumber
  <2>2. e # 0 /\ e \in 0 .. m
    BY <1>5
  <2>3. e - 1 \in 0 .. m - 1 /\ e - 1 \notin T /\ e - 1 + 1 = e
    BY <1>1, <2>1, <2>2
  <2>4. Power[e - 1] \in Nat \ {0}
    BY <1>1, <2>3
  <2>5. Power[e] = 2 * Power[e - 1]
    BY <1>7, <2>3
  <2> QED
    BY <2>1, <2>4, <2>5
<1> QED
  BY <1>1, <1>5, <1>6, <1>7, <1>8

\* Powers multiply.
LEMMA PowerSum ==
  ASSUME NEW a \in Nat, NEW b \in Nat, a + b <= 4 * SampleBits
  PROVE  Power[a + b] = Power[a] * Power[b]
<1> DEFINE T == {k \in 0 .. b : Power[a + k] # Power[a] * Power[k]}
<1> SUFFICES ASSUME T # {} PROVE FALSE
  OBVIOUS
<1>1. PICK k \in T : \A j \in T : k <= j
  BY T \subseteq Nat, LeastNumber
<1>2. k \in 0 .. b /\ Power[a + k] # Power[a] * Power[k]
  BY <1>1
<1>3. k # 0
  <2>1. a \in 0 .. 4 * SampleBits /\ a + 0 = a
    BY PowerFacts
  <2>2. Power[a] \in Nat /\ Power[0] = 1
    BY <2>1, PowerFacts
  <2>3. Power[a + 0] = Power[a] * Power[0]
    BY <2>1, <2>2
  <2> QED
    BY <1>2, <2>3
<1>4. PICK j \in Nat : k = j + 1
  BY <1>2, <1>3
<1>5. Power[a + j] = Power[a] * Power[j]
  BY <1>1, <1>2, <1>4
<1>6. /\ a \in 0 .. 4 * SampleBits /\ j \in 0 .. 4 * SampleBits - 1
      /\ j \in 0 .. 4 * SampleBits
      /\ a + j \in 0 .. 4 * SampleBits - 1 /\ a + j + 1 = a + k
  BY <1>2, <1>4, PowerFacts
<1>7. Power[a + k] = 2 * Power[a + j] /\ Power[k] = 2 * Power[j]
  BY <1>4, <1>6, PowerFacts
<1>8. Power[a] \in Nat /\ Power[j] \in Nat
  BY <1>6, PowerFacts
<1>9. Power[a] * (2 * Power[j]) = 2 * (Power[a] * Power[j])
  BY <1>8
<1> QED
  BY <1>2, <1>5, <1>7, <1>9

-----------------------------------------------------------------------------
(* The invariant                                                           *)

\* Where a decoder has written, and where it may be about to.
Kernel == {"plane", "run", "row", "done"}
Decoding == {"header"} \cup Kernel

\* The planes are whole rows.
WholeRows == RowWidth(width, planeElts) # 0

\* The codecs that scan their runs.
Summed == codec \notin {"average", "delta_n"}

\* Samples before this one are decoded.
Reached == at + (IF phase = "row" THEN i ELSE 0)

\* Samples from this one on are still encoded in src, in place too.  A row of
\* wp_static is folded as a whole before it is scanned.
Folding == phase = "row" /\ codec = "wp_static" /\ Interior
Unread == IF Folding THEN at + n ELSE Reached

\* The header is one an encoder writes.
Asked ==
  \E asked \in 0 .. nbElts + 1, planesAsked \in 0 .. MaxPlanes :
    header = Declared(codec, asked, planesAsked, nbElts)

\* What is known of the session: its header, and which streams are one array.
SessionInv ==
  /\ codec = "wp_static" => weights \in Weights /\ weights.shift < FoldBits
  /\ ~corrupt => Asked
  /\ phase = "encode" => ~corrupt
  /\ inPlace => src = dst
  /\ inPlace => IF phase = "encode" THEN EncodesInPlace(codec)
                ELSE phase \in Decoding => DecodesInPlace(codec)

\* The header is checked before it is used, and a kernel runs on whole rows.
HeaderInv ==
  /\ phase \in Kernel => Accepted
  /\ phase \in {"run", "row", "done"} => WholeRows
  /\ phase \in {"encode", "plane"} /\ at > 0 => WholeRows
  /\ phase \in Decoding /\ ~corrupt => WholeRows

\* Nothing is written before the geometry was looked at.
UnwrittenInv ==
  /\ (phase \in {"encode", "plane"} /\ at = 0) \/ phase \in {"header", "error"} =>
       inPlace \/ dst = Untouched
  /\ phase = "error" /\ ~corrupt => RowWidth(width, nbElts) = 0 /\ at = 0

\* Where the kernel is: runs of codecs without blocks are whole rows.
PlaceInv ==
  /\ phase = "header" => at = 0
  /\ phase \in {"encode", "header"} => scratch = NoScratch
  /\ phase = "done" => at = nbElts
  /\ phase \in {"plane", "run", "row"} => at < nbElts
  /\ phase \in {"run", "row"} /\ codec # "planar_zigzag_pfor" => Column(at) = 0
  /\ phase = "plane" /\ codec # "planar_zigzag_pfor" /\ at > 0 => Column(at) = 0
  /\ phase = "row" => n = RunLength /\ i \in 0 .. n
  /\ phase = "row" /\ Interior /\ codec \in {"planar"} \cup Zigzags => i >= 1

\* The samples that were encoded are those of the stream, and the others are
\* still there to be encoded and to predict from.
EncodeInv ==
  phase = "encode" /\ WholeRows =>
    \A k \in 0 .. nbElts - 1 :
      LET p == EncodeOrder(k) IN
      /\ k < at => dst[p] = Encoded(original, p)
      /\ k >= at => src[p] = original[p]
      /\ inPlace \/ src[p] = original[p]

\* What was reached is decoded, and the rest of the stream is as it arrived.
DecodedInv ==
  phase \in Kernel =>
    \A p \in 0 .. Reached - 1 :
      dst[p] \in Sample /\ (~corrupt => dst[p] = original[p])

StreamInv ==
  phase \in Decoding =>
    /\ src \in [Positions -> Sample]
    /\ ~corrupt => \A p \in Positions :
         p >= Unread \/ ~inPlace => src[p] = Encoded(original, p)

\* A folded row holds the differences to the samples in the west.
FoldedInv ==
  Folding =>
    \A p \in at + i .. at + n - 1 :
      /\ dst[p] \in Sample
      /\ ~corrupt => dst[p] = Minus(original[p], West(original, p))

\* While registers are scanned, the carry is the sample in the west.
CarryInv ==
  phase = "row" /\ Summed /\ i + Lanes <= n /\ ~corrupt =>
    carry = West(original, at + i)

\* The rows of scratch belong to the row at work.
ScratchInv ==
  phase = "row" /\ codec = "average" /\ scratch # NoScratch /\ Interior =>
    \A c \in 0 .. width - 1 :
      /\ scratch[c].b \in Sample /\ scratch[c].l \in {0, 1}
      /\ ~corrupt =>
           LET up == original[at + c - width] IN
           /\ scratch[c].b = Plus(Encoded(original, at + c), up \div 2)
           /\ scratch[c].l = up % 2

IInv ==
  /\ TypeOK /\ SessionInv /\ HeaderInv /\ UnwrittenInv /\ PlaceInv /\ EncodeInv
  /\ DecodedInv /\ StreamInv /\ FoldedInv /\ CarryInv /\ ScratchInv

-----------------------------------------------------------------------------
(* What wp_static predicts from the rows above                             *)

\* The sum of the weighted neighbours before it is cut to any width.
Weighted(s, p) ==
  weights.n * North(s, p) + weights.nw * NorthWest(s, p)
    + weights.ne * NorthEast(s, p) + weights.nn * NorthNorth(s, p)
    + Power[weights.shift] \div 2

\* A sum that is cut to so many values, read as a signed number.
Signed(x, m) == LET y == x % m IN IF y < m \div 2 THEN y ELSE y - m

\* WP_STATIC_FWD: a fold is the weighted sum, cut, read as signed and shifted.
LEMMA FoldForm ==
  ASSUME NEW s, NEW p, NEW bits
  PROVE  Fold(s, p, bits) =
           (Signed(Weighted(s, p), Power[bits]) \div Power[weights.shift])
             % Modulus
BY DEF Fold, Weighted, Signed

\* Cutting changes a sum by a multiple of the number of values.
LEMMA SignedForm ==
  ASSUME NEW x \in Int, NEW m \in Nat \ {0}
  PROVE  \E k \in Int : Signed(x, m) = x + k * m
<1>1. PICK q \in Int : q = x \div m
  OBVIOUS
<1>2. x = m * q + (x % m) /\ x % m \in 0 .. m - 1
  BY <1>1
<1>3. m * q = q * m
  OBVIOUS
<1>4. CASE x % m < m \div 2
  <2>1. Signed(x, m) = x + (-q) * m
    <3>1. Signed(x, m) = x % m
      BY <1>4 DEF Signed
    <3>2. (-q) * m = -(q * m)
      OBVIOUS
    <3> QED
      BY <1>2, <1>3, <3>1, <3>2
  <2> QED
    BY <2>1
<1>5. CASE ~(x % m < m \div 2)
  <2>1. Signed(x, m) = x + (-q - 1) * m
    <3>1. Signed(x, m) = (x % m) - m
      BY <1>5 DEF Signed
    <3>2. (-q - 1) * m = -(q * m) - m
      OBVIOUS
    <3> QED
      BY <1>2, <1>3, <3>1, <3>2
  <2> QED
    BY <2>1
<1> QED
  BY <1>4, <1>5

\* Multiples of the divisor are divided apart.
LEMMA DivPlus ==
  ASSUME NEW x \in Int, NEW k \in Int, NEW s \in Nat \ {0}
  PROVE  (x + k * s) \div s = x \div s + k /\ (x + k * s) % s = x % s
<1>1. PICK q \in Int, r \in 0 .. s - 1 : q = x \div s /\ r = x % s
  OBVIOUS
<1>2. x = q * s + r
  <2>1. x = s * q + r
    BY <1>1
  <2> QED
    BY <2>1
<1>3. x + k * s = (q + k) * s + r
  BY <1>2
<1>4. ASSUME NEW y \in Int PROVE (y * s + r) \div s = y /\ (y * s + r) % s = r
  OBVIOUS
<1>5. ((q + k) * s + r) \div s = q + k /\ ((q + k) * s + r) % s = r
  BY <1>4
<1> QED
  BY <1>1, <1>3, <1>5

\* What a multiple of both the shift and the sample width adds is not seen.
LEMMA CutUnseen ==
  ASSUME NEW x \in Int, NEW k \in Int, NEW s \in Nat \ {0}, NEW b \in Nat \ {0}
  PROVE  ((x + k * (s * b)) \div s) % b = (x \div s) % b
<1>1. k * (s * b) = (k * b) * s /\ k * b \in Int
  OBVIOUS
<1>2. (x + (k * b) * s) \div s = x \div s + k * b
  BY <1>1, DivPlus
<1>3. x \div s \in Int
  OBVIOUS
<1>4. (x \div s + k * b) % b = (x \div s) % b
  BY <1>3, DivPlus
<1> QED
  BY <1>1, <1>2, <1>4

\* The weights and the sum are integers.
LEMMA WeightedType ==
  ASSUME Tiled, codec = "wp_static", SessionInv, NEW s \in [Positions -> Int],
         NEW p \in Positions
  PROVE  /\ Weighted(s, p) \in Int
         /\ weights.shift \in 0 .. 4 * SampleBits - 1
         /\ FoldBits \in 0 .. 4 * SampleBits /\ weights.shift < FoldBits
<1>1. /\ weights.n \in Int /\ weights.nw \in Int /\ weights.ne \in Int
      /\ weights.nn \in Int /\ weights.shift \in Nat
      /\ weights.shift < FoldBits
  BY PredictorAssumption DEF SessionInv, IsWeights
<1>2. FoldBits \in 0 .. 4 * SampleBits
  BY PowerFacts DEF FoldBits
<1>3. weights.shift \in 0 .. 4 * SampleBits - 1
  BY <1>1, <1>2, PowerFacts
<1>4. Power[weights.shift] \in Nat \ {0}
  <2>1. weights.shift \in 0 .. 4 * SampleBits
    BY <1>3, PowerFacts
  <2> QED
    BY <2>1, PowerFacts
<1>5. Power[weights.shift] \div 2 \in Int
  BY <1>4
<1>6. Row(p) > 0 => p - width \in Positions
  BY Above
<1>7. Row(p) > 0 /\ Column(p) > 0 => p - width - 1 \in Positions
  BY Above, LeftOf
<1>8. Row(p) > 0 /\ Column(p) + 1 < width => p - width + 1 \in Positions
  <2> SUFFICES ASSUME Row(p) > 0, Column(p) + 1 < width
               PROVE  p - width + 1 \in Positions
    OBVIOUS
  <2>1. p - width \in Positions /\ Column(p - width) = Column(p)
    BY Above
  <2> QED
    BY <2>1, RightOf
<1>9. Row(p) > 1 => p - 2 * width \in Positions
  <2> SUFFICES ASSUME Row(p) > 1 PROVE p - 2 * width \in Positions
    OBVIOUS
  <2>0. Row(p) \in Nat /\ width \in Nat /\ p \in Nat
    BY CellOf, RowCount DEF Rows, Tiled
  <2>1. p - width \in Positions /\ Row(p - width) = Row(p) - 1
    BY <2>0, Above
  <2>2. p - width - width \in Positions
    BY <2>0, <2>1, Above
  <2>3. p - width - width = p - 2 * width
    BY <2>0
  <2> QED
    BY <2>2, <2>3
<1>10. North(s, p) \in Int /\ NorthWest(s, p) \in Int /\ NorthEast(s, p) \in Int
       /\ NorthNorth(s, p) \in Int
  BY <1>6, <1>7, <1>8, <1>9 DEF North, NorthWest, NorthEast, NorthNorth
<1>11. PICK c1 \in Int, c2 \in Int, c3 \in Int, c4 \in Int, c5 \in Int,
            x1 \in Int, x2 \in Int, x3 \in Int, x4 \in Int :
         /\ c1 = weights.n /\ c2 = weights.nw /\ c3 = weights.ne
         /\ c4 = weights.nn /\ c5 = Power[weights.shift] \div 2
         /\ x1 = North(s, p) /\ x2 = NorthWest(s, p) /\ x3 = NorthEast(s, p)
         /\ x4 = NorthNorth(s, p)
  BY <1>1, <1>5, <1>10
<1>12. c1 * x1 \in Int /\ c2 * x2 \in Int /\ c3 * x3 \in Int /\ c4 * x4 \in Int
  OBVIOUS
<1>13. Weighted(s, p) = c1 * x1 + c2 * x2 + c3 * x3 + c4 * x4 + c5
  BY <1>11 DEF Weighted
<1> QED
  BY <1>1, <1>2, <1>3, <1>12, <1>13

\* A prediction is a sample.
LEMMA FoldType ==
  ASSUME Tiled, codec = "wp_static", SessionInv, NEW s \in [Positions -> Int],
         NEW p \in Positions, NEW bits \in 0 .. 4 * SampleBits
  PROVE  Fold(s, p, bits) \in Sample
<1>1. Weighted(s, p) \in Int /\ weights.shift \in 0 .. 4 * SampleBits
  BY WeightedType, PowerFacts
<1>2. Power[bits] \in Nat \ {0} /\ Power[weights.shift] \in Nat \ {0}
  BY <1>1, PowerFacts
<1>3. PICK x \in Int, m \in Nat \ {0}, d \in Nat \ {0} :
        x = Weighted(s, p) /\ m = Power[bits] /\ d = Power[weights.shift]
  BY <1>1, <1>2
<1>4. Signed(x, m) \in Int
  BY DEF Signed
<1>5. Signed(x, m) \div d \in Int
  BY <1>4
<1>6. (Signed(x, m) \div d) % Modulus \in Sample
  BY <1>5, ModulusAssumption DEF Sample
<1> QED
  BY <1>3, <1>6, FoldForm

\* decode_wp_static_kernel.c, FAST: a sum with room for the shift and a sample
\* gives the sample that an unlimited sum would.
LEMMA FoldWide ==
  ASSUME Tiled, codec = "wp_static", SessionInv, NEW s \in [Positions -> Int],
         NEW p \in Positions, NEW bits \in 0 .. 4 * SampleBits,
         weights.shift + SampleBits <= bits
  PROVE  Fold(s, p, bits) =
           (Weighted(s, p) \div Power[weights.shift]) % Modulus
<1>1. Weighted(s, p) \in Int /\ weights.shift \in 0 .. 4 * SampleBits
  BY WeightedType, PowerFacts
<1>2. PICK h \in Nat, k \in Nat, b \in Nat :
        /\ h = weights.shift /\ b = SampleBits /\ bits = h + b + k
  <2>1. bits - (weights.shift + SampleBits) \in Nat /\ weights.shift \in Nat
    BY <1>1, PowerFacts
  <2> QED
    BY <2>1, PowerFacts
<1>3. /\ h \in 0 .. 4 * SampleBits /\ b \in 0 .. 4 * SampleBits
      /\ k \in 0 .. 4 * SampleBits /\ h + b + k <= 4 * SampleBits
      /\ h + b <= 4 * SampleBits /\ h + b \in Nat
  BY <1>1, <1>2, PowerFacts
<1>4. PICK d \in Nat \ {0}, m \in Nat \ {0}, e \in Nat \ {0} :
        d = Power[h] /\ m = Power[b] /\ e = Power[k]
  BY <1>3, PowerFacts
<1>5. Power[bits] = (d * m) * e
  <2>1. Power[h + b] = d * m
    BY <1>3, <1>4, PowerSum
  <2>2. Power[h + b + k] = Power[h + b] * e
    BY <1>3, <1>4, PowerSum
  <2> QED
    BY <1>2, <2>1, <2>2
<1>6. PICK x \in Int : x = Weighted(s, p)
  BY <1>1
<1>7. d * m * e \in Nat \ {0} /\ d * m \in Nat
  <2>1. d * m \in Nat \ {0}
    OBVIOUS
  <2> QED
    BY <2>1
<1>8. PICK z \in Int : Signed(x, d * m * e) = x + z * (d * m * e)
  BY <1>7, SignedForm
<1>9. z * (d * m * e) = (z * e) * (d * m) /\ z * e \in Int
  <2>1. PICK y \in Nat : y = d * m
    BY <1>7
  <2>2. z * (y * e) = (z * e) * y
    OBVIOUS
  <2> QED
    BY <2>1, <2>2
<1>10. ((x + (z * e) * (d * m)) \div d) % m = (x \div d) % m
  BY <1>9, CutUnseen
<1>11. m = Modulus
  BY <1>2, <1>4, PowerFacts
<1> QED
  BY <1>2, <1>4, <1>5, <1>6, <1>8, <1>9, <1>10, <1>11, FoldForm

\* With the shift of a short sum, the 32-bit and the 64-bit sums agree.
LEMMA FoldAgrees ==
  ASSUME Tiled, codec = "wp_static", SessionInv, NEW s \in [Positions -> Int],
         NEW p \in Positions, NEW c, FoldsShort(c)
  PROVE  Fold(s, p, 2 * SampleBits) = Fold(s, p, FoldBits)
<1>1. /\ SampleBits \in Nat /\ weights.shift \in Nat
      /\ weights.shift <= SampleBits /\ FoldBits = 4 * SampleBits
  BY WeightedType, PowerFacts DEF FoldsShort, FoldBits
<1>2. /\ 2 * SampleBits \in 0 .. 4 * SampleBits
      /\ 4 * SampleBits \in 0 .. 4 * SampleBits
      /\ weights.shift + SampleBits <= 2 * SampleBits
      /\ weights.shift + SampleBits <= 4 * SampleBits
  BY <1>1
<1> QED
  BY <1>1, <1>2, FoldWide

\* The first row of a plane is predicted from the west alone.
LEMMA FoldFlat ==
  ASSUME Tiled, codec = "wp_static", SessionInv, NEW s \in [Positions -> Int],
         NEW p \in Positions, Row(p) = 0
  PROVE  Fold(s, p, FoldBits) = 0
<1>1. /\ weights.n \in Int /\ weights.nw \in Int /\ weights.ne \in Int
      /\ weights.nn \in Int /\ weights.shift \in 0 .. 4 * SampleBits - 1
      /\ FoldBits \in 0 .. 4 * SampleBits /\ weights.shift < FoldBits
  BY WeightedType, PredictorAssumption DEF SessionInv, IsWeights
<1>2. PICK h \in Nat, k \in Nat :
        h = weights.shift /\ FoldBits = h + 1 + k
  <2>1. FoldBits - (weights.shift + 1) \in Nat /\ weights.shift \in Nat
    BY <1>1
  <2> QED
    BY <1>1, <2>1
<1>3. /\ h \in 0 .. 4 * SampleBits - 1 /\ h \in 0 .. 4 * SampleBits
      /\ h + 1 \in Nat /\ h + 1 + k <= 4 * SampleBits
      /\ k \in 0 .. 4 * SampleBits /\ FoldBits \in 0 .. 4 * SampleBits
  BY <1>1, <1>2, PowerFacts
<1>4. PICK d \in Nat \ {0}, e \in Nat \ {0}, m \in Nat \ {0} :
        d = Power[h] /\ e = Power[k] /\ m = Power[FoldBits]
  BY <1>3, PowerFacts
<1>5. m = (2 * d) * e
  <2>1. Power[h + 1] = 2 * d
    BY <1>3, <1>4, PowerFacts
  <2>2. Power[h + 1 + k] = Power[h + 1] * e
    BY <1>3, <1>4, PowerSum
  <2> QED
    BY <1>2, <1>4, <2>1, <2>2
<1>6. 2 * d <= m
  BY <1>5
<1>7. Weighted(s, p) = d \div 2
  <2>1. North(s, p) = 0 /\ NorthWest(s, p) = 0 /\ NorthEast(s, p) = 0
        /\ NorthNorth(s, p) = 0
    BY DEF North, NorthWest, NorthEast, NorthNorth
  <2>2. \A y \in Int : y * 0 = 0
    OBVIOUS
  <2>3. d \div 2 \in Int
    OBVIOUS
  <2>4. Weighted(s, p) = 0 + 0 + 0 + 0 + d \div 2
    BY <1>1, <1>2, <1>4, <2>1, <2>2 DEF Weighted
  <2> QED
    BY <2>3, <2>4
<1>8. d \div 2 \in 0 .. m - 1 /\ d \div 2 < m \div 2 /\ d \div 2 \in 0 .. d - 1
  BY <1>6
<1>9. PICK y \in Nat : y = d \div 2
  BY <1>8
<1>10. y % m = y /\ y \div d = 0
  <2>1. y = 0 * m + y /\ y = 0 * d + y
    OBVIOUS
  <2>2. y \in 0 .. m - 1 /\ y \in 0 .. d - 1 /\ 0 \in Nat
    BY <1>8, <1>9
  <2>3. (0 * m + y) % m = y /\ (0 * d + y) \div d = 0
    BY <2>2, Split
  <2> QED
    BY <2>1, <2>3
<1>11. Signed(y, m) = y
  BY <1>8, <1>9, <1>10 DEF Signed
<1>12. 0 % Modulus = 0
  BY ModulusAssumption
<1> QED
  BY <1>2, <1>4, <1>7, <1>9, <1>10, <1>11, <1>12, FoldForm

-----------------------------------------------------------------------------
(* Prefix sums in registers                                                *)

\* Within a part, remainders count down with the lanes.
LEMMA RemainderDown ==
  ASSUME NEW part \in Nat \ {0}, NEW l \in Nat, NEW k \in Nat, k <= l % part
  PROVE  l - k \in Nat /\ (l - k) % part = (l % part) - k
<1>1. PICK a \in Nat, x \in 0 .. part - 1 : l = a * part + x
  BY Divided
<1>2. l % part = x
  BY <1>1, Split
<1>3. x - k \in 0 .. part - 1 /\ a * part \in Nat
  BY <1>2
<1>4. l - k = a * part + (x - k)
  BY <1>1, <1>3
<1>5. (a * part + (x - k)) % part = x - k
  BY <1>3, Split
<1> QED
  BY <1>2, <1>3, <1>4, <1>5

\* The first lane of a window of k lanes that ends with l and stays in its part.
First(l, k, part) ==
  IF (l % part) + 1 >= k THEN l + 1 - k ELSE l - (l % part)

\* Lane l of y holds the sum over its window, where t[l] is the sum over all
\* lanes before l.
Windowed(y, t, m, k, part) ==
  \A l \in 0 .. m - 1 : y[l] = Minus(t[l + 1], t[First(l, k, part)])

\* A window starts in the register.
LEMMA FirstType ==
  ASSUME NEW l \in Nat, NEW k \in Nat \ {0}, NEW part \in Nat \ {0}
  PROVE  First(l, k, part) \in 0 .. l
<1>1. PICK a \in Nat, x \in 0 .. part - 1 : l = a * part + x
  BY Divided
<1>2. l % part = x /\ a * part \in Nat
  BY <1>1, Split
<1> QED
  BY <1>1, <1>2 DEF First

\* vprefix.h: a shift doubles the window, as long as it is shorter than a part.
LEMMA RungDoubles ==
  ASSUME NEW m \in Nat \ {0}, NEW t \in [0 .. m -> Sample],
         NEW y \in [0 .. m - 1 -> Sample],
         NEW k \in Nat \ {0}, NEW part \in Nat \ {0}, Windowed(y, t, m, k, part)
  PROVE  /\ Rung(y, k, part) \in [0 .. m - 1 -> Sample]
         /\ Windowed(Rung(y, k, part), t, m, 2 * k, part)
<1> DEFINE z == Rung(y, k, part)
<1>1. CASE k >= part
  <2>1. z = y
    BY <1>1 DEF Rung
  <2>2. ASSUME NEW l \in 0 .. m - 1
        PROVE  First(l, 2 * k, part) = First(l, k, part)
    <3>1. l \in Nat /\ l % part \in 0 .. part - 1
      OBVIOUS
    <3>2. PICK x \in 0 .. part - 1 : x = l % part
      BY <3>1
    <3> QED
      BY <1>1, <3>1, <3>2 DEF First
  <2> QED
    BY <2>1, <2>2 DEF Windowed
<1>2. CASE k < part
  <2>1. z = [l \in 0 .. m - 1 |->
               IF l % part >= k THEN Plus(y[l], y[l - k]) ELSE y[l]]
    BY <1>2 DEF Rung
  <2>2. ASSUME NEW l \in 0 .. m - 1
        PROVE  /\ z[l] \in Sample
               /\ z[l] = Minus(t[l + 1], t[First(l, 2 * k, part)])
    <3>1. l \in Nat /\ l + 1 \in 0 .. m
      OBVIOUS
    <3>2. PICK x \in 0 .. part - 1 : x = l % part
      BY <3>1
    <3>3. First(l, 2 * k, part) \in 0 .. l
      <4>1. 2 * k \in Nat \ {0}
        OBVIOUS
      <4> QED
        BY <3>1, <4>1, FirstType
    <3>4. t[First(l, 2 * k, part)] \in Sample /\ t[l + 1] \in Sample
      BY <3>1, <3>3
    <3>5. CASE x >= k
      <4>1. l - k \in Nat /\ (l - k) % part = x - k
        BY <3>1, <3>2, <3>5, RemainderDown
      <4>2. l - k \in 0 .. m - 1 /\ l - k + 1 \in 0 .. m
        BY <4>1
      <4>3. z[l] = Plus(y[l], y[l - k])
        BY <2>1, <3>2, <3>5
      <4>4. First(l, k, part) = l - k + 1
        BY <3>1, <3>2, <3>5 DEF First
      <4>5. First(l - k, k, part) = First(l, 2 * k, part)
        BY <3>1, <3>2, <3>5, <4>1 DEF First
      <4>6. y[l] = Minus(t[l + 1], t[l - k + 1])
        BY <4>4 DEF Windowed
      <4>7. y[l - k] = Minus(t[l - k + 1], t[First(l, 2 * k, part)])
        BY <4>2, <4>5 DEF Windowed
      <4>8. t[l - k + 1] \in Sample
        BY <4>2
      <4>9. z[l] = Minus(t[l + 1], t[First(l, 2 * k, part)])
        BY <3>4, <4>3, <4>6, <4>7, <4>8, Telescope
      <4> QED
        BY <3>4, <4>9, SampleClosed
    <3>6. CASE x < k
      <4>1. z[l] = y[l]
        BY <2>1, <3>2, <3>6
      <4>2. First(l, k, part) = First(l, 2 * k, part)
        BY <3>1, <3>2, <3>6 DEF First
      <4> QED
        BY <4>1, <4>2 DEF Windowed
    <3> QED
      BY <3>5, <3>6
  <2> QED
    BY <2>1, <2>2 DEF Windowed
<1> QED
  BY <1>1, <1>2

\* After the five shifts a lane holds the sum over its part.
LEMMA LadderSums ==
  ASSUME NEW m \in Nat \ {0}, NEW t \in [0 .. m -> Sample],
         NEW y \in [0 .. m - 1 -> Sample],
         NEW part \in 1 .. 32, \A l \in 0 .. m - 1 : y[l] = Minus(t[l + 1], t[l])
  PROVE  /\ Ladder(y, part) \in [0 .. m - 1 -> Sample]
         /\ \A l \in 0 .. m - 1 :
              Ladder(y, part)[l] = Minus(t[l + 1], t[l - (l % part)])
<1> DEFINE Good(z, k) ==
             z \in [0 .. m - 1 -> Sample] /\ Windowed(z, t, m, k, part)
<1>1. Good(y, 1)
  <2>1. ASSUME NEW l \in 0 .. m - 1 PROVE First(l, 1, part) = l
    <3>1. l \in Nat /\ l % part \in 0 .. part - 1
      OBVIOUS
    <3> QED
      BY <3>1 DEF First
  <2> QED
    BY <2>1 DEF Windowed
<1>2. ASSUME NEW z, NEW k \in Nat \ {0}, Good(z, k)
      PROVE  Good(Rung(z, k, part), 2 * k)
  BY <1>2, RungDoubles
<1> HIDE DEF Good
<1>3. PICK x2 : x2 = Rung(y, 1, part)
  OBVIOUS
<1>4. PICK x4 : x4 = Rung(x2, 2, part)
  OBVIOUS
<1>5. PICK x8 : x8 = Rung(x4, 4, part)
  OBVIOUS
<1>6. PICK x16 : x16 = Rung(x8, 8, part)
  OBVIOUS
<1>7. PICK x32 : x32 = Rung(x16, 16, part)
  OBVIOUS
<1>8. Good(x2, 2 * 1)
  BY <1>1, <1>2, <1>3
<1>9. Good(x4, 2 * 2)
  BY <1>2, <1>4, <1>8
<1>10. Good(x8, 2 * 4)
  BY <1>2, <1>5, <1>9
<1>11. Good(x16, 2 * 8)
  BY <1>2, <1>6, <1>10
<1>12. Good(x32, 2 * 16)
  BY <1>2, <1>7, <1>11
<1>13. Ladder(y, part) = x32
  BY <1>3, <1>4, <1>5, <1>6, <1>7 DEF Ladder
<1>14. ASSUME NEW l \in 0 .. m - 1
       PROVE  First(l, 2 * 16, part) = l - (l % part)
  <2>1. l \in Nat /\ l % part \in 0 .. part - 1
    OBVIOUS
  <2>2. PICK x \in Int : x = l % part /\ 0 <= x /\ x <= 31
    BY <2>1
  <2>3. First(l, 32, part) = IF x + 1 >= 32 THEN l + 1 - 32 ELSE l - x
    BY <2>2 DEF First
  <2>4. 2 * 16 = 32
    OBVIOUS
  <2> QED
    BY <2>1, <2>2, <2>3, <2>4
<1> QED
  BY <1>12, <1>13, <1>14 DEF Good, Windowed

\* vprefix.h, geozl_vprefix*: every lane holds the sum of the lanes up to it, in
\* one register and in two halves.
LEMMA PrefixSums ==
  ASSUME build \in Builds, NEW t \in [0 .. Lanes -> Sample],
         NEW y \in [0 .. Lanes - 1 -> Sample],
         \A l \in 0 .. Lanes - 1 : y[l] = Minus(t[l + 1], t[l])
  PROVE  /\ VPrefix(y) \in [0 .. Lanes - 1 -> Sample]
         /\ \A l \in 0 .. Lanes - 1 : VPrefix(y)[l] = Minus(t[l + 1], t[0])
<1>1. Lanes \in {2, 4, 8, 16, 32} /\ build.halves \in BOOLEAN
  BY PredictorAssumption DEF IsBuild, Lanes
<1>2. PICK m \in Nat \ {0} : m = Lanes /\ m \in 2 .. 32
  BY <1>1
<1>3. CASE ~build.halves
  <2>1. VPrefix(y) = Ladder(y, m)
    BY <1>2, <1>3 DEF VPrefix
  <2>2. \A l \in 0 .. m - 1 : l % m = l
    BY <1>1, <1>2
  <2>3. /\ Ladder(y, m) \in [0 .. m - 1 -> Sample]
        /\ \A l \in 0 .. m - 1 :
             Ladder(y, m)[l] = Minus(t[l + 1], t[l - (l % m)])
    <3>1. m \in 1 .. 32 /\ t \in [0 .. m -> Sample]
          /\ y \in [0 .. m - 1 -> Sample]
          /\ \A l \in 0 .. m - 1 : y[l] = Minus(t[l + 1], t[l])
      BY <1>2
    <3> QED
      BY <3>1, LadderSums
  <2> QED
    BY <1>2, <2>1, <2>2, <2>3
<1>4. CASE build.halves
  <2>1. PICK half \in 1 .. 16 : m = 2 * half /\ half = Lanes \div 2
    BY <1>1, <1>2
  <2>2. PICK z : z = Ladder(y, half)
    OBVIOUS
  <2>3. /\ z \in [0 .. m - 1 -> Sample]
        /\ \A l \in 0 .. m - 1 : z[l] = Minus(t[l + 1], t[l - (l % half)])
    <3>1. half \in 1 .. 32 /\ t \in [0 .. m -> Sample]
          /\ y \in [0 .. m - 1 -> Sample]
          /\ \A l \in 0 .. m - 1 : y[l] = Minus(t[l + 1], t[l])
      BY <1>2, <2>1
    <3>2. /\ Ladder(y, half) \in [0 .. m - 1 -> Sample]
          /\ \A l \in 0 .. m - 1 :
               Ladder(y, half)[l] = Minus(t[l + 1], t[l - (l % half)])
      BY <3>1, LadderSums
    <3> QED
      BY <2>2, <3>2
  <2>4. \A l \in 0 .. m - 1 : l - (l % half) = IF l < half THEN 0 ELSE half
    <3> SUFFICES ASSUME NEW l \in 0 .. m - 1
                 PROVE  l % half = IF l < half THEN l ELSE l - half
      BY <2>1
    <3>1. CASE l < half
      <4>1. l \in 0 .. half - 1 /\ l = 0 * half + l
        BY <3>1
      <4> QED
        BY <3>1, <4>1, Split
    <3>2. CASE l >= half
      <4>1. l - half \in 0 .. half - 1 /\ l = 1 * half + (l - half)
        <5>1. m = 2 * half /\ half \in Nat /\ l \in Nat /\ l < m
          BY <2>1
        <5> QED
          BY <3>2, <5>1
      <4>2. (1 * half + (l - half)) % half = l - half
        BY <4>1, Split
      <4> QED
        BY <3>2, <4>1, <4>2, <2>1
    <3> QED
      BY <3>1, <3>2, <2>1
  <2>5. VPrefix(y) =
          [l \in 0 .. m - 1 |->
             IF l < half THEN z[l] ELSE Plus(z[l], z[half - 1])]
    BY <1>2, <1>4, <2>1, <2>2, <2>3 DEF VPrefix
  <2>6. half - 1 \in 0 .. m - 1 /\ half \in 0 .. m
    BY <2>1
  <2>7. z[half - 1] = Minus(t[half], t[0])
    <3>1. half - 1 < half /\ half - 1 + 1 = half
      BY <2>1
    <3>2. (half - 1) - ((half - 1) % half) = 0
      BY <2>4, <2>6, <3>1
    <3> QED
      BY <2>3, <2>6, <3>1, <3>2
  <2>8. ASSUME NEW l \in 0 .. m - 1
        PROVE  VPrefix(y)[l] = Minus(t[l + 1], t[0])
    <3>1. t[l + 1] \in Sample /\ t[half] \in Sample /\ t[0] \in Sample
      BY <1>2, <2>6
    <3>2. CASE l < half
      BY <2>3, <2>4, <2>5, <3>2
    <3>3. CASE ~(l < half)
      <4>1. VPrefix(y)[l] = Plus(z[l], z[half - 1]) /\ z[l] = Minus(t[l + 1], t[half])
        BY <2>3, <2>4, <2>5, <3>3
      <4> QED
        BY <2>7, <3>1, <4>1, Telescope
    <3> QED
      BY <3>2, <3>3
  <2>9. \A l \in 0 .. m - 1 : Minus(t[l + 1], t[0]) \in Sample
    BY <1>2, SampleClosed
  <2> QED
    BY <1>2, <2>5, <2>8, <2>9
<1> QED
  BY <1>1, <1>3, <1>4

-----------------------------------------------------------------------------
(* A sample from its residual                                              *)

\* What the slope of the row above predicts is made up for, in either order.
LEMMA Slope ==
  ASSUME NEW v \in Sample, NEW a \in Sample, NEW b \in Sample, NEW c \in Sample
  PROVE  LET d == Minus(v, Planar(a, b, c)) IN
         /\ Planar(a, b, c) \in Sample /\ d \in Sample
         /\ Plus(a, Minus(Plus(d, b), c)) = v
         /\ Minus(Plus(Plus(a, d), b), c) = v
<1>1. Planar(a, b, c) \in Sample
  BY SampleClosed DEF Planar
<1>2. Minus(v, Planar(a, b, c)) \in Sample
  BY <1>1, SampleClosed
<1>3. /\ v \in Nat /\ v < Modulus /\ a \in Nat /\ a < Modulus
      /\ b \in Nat /\ b < Modulus /\ c \in Nat /\ c < Modulus
      /\ Modulus \in Nat
  BY ModulusAssumption DEF Sample
<1>4. PICK g \in Int, h \in Int, d \in Int :
        /\ g = Plus(a, b) /\ h = Planar(a, b, c) /\ d = Minus(v, h)
        /\ 0 <= h /\ h < Modulus /\ 0 <= d /\ d < Modulus
  BY <1>1, <1>2, SampleClosed, ModulusAssumption DEF Sample
<1>5. g = a + b \/ g = a + b - Modulus
  BY <1>3, <1>4 DEF Plus
<1>6. h = g - c \/ h = g - c + Modulus
  BY <1>3, <1>4 DEF Planar, Minus
<1>7. d = v - h \/ d = v - h + Modulus
  BY <1>3, <1>4 DEF Minus
<1>8. Plus(a, Minus(Plus(d, b), c)) = v
  <2>1. PICK e \in Int : e = Plus(d, b) /\ (e = d + b \/ e = d + b - Modulus)
                         /\ 0 <= e /\ e < Modulus
    BY <1>3, <1>4 DEF Plus
  <2>2. PICK f \in Int : f = Minus(e, c) /\ (f = e - c \/ f = e - c + Modulus)
                         /\ 0 <= f /\ f < Modulus
    BY <1>3, <2>1 DEF Minus
  <2>3. PICK k \in Int : k = Plus(a, f) /\ (k = a + f \/ k = a + f - Modulus)
                         /\ 0 <= k /\ k < Modulus
    BY <1>3, <2>2 DEF Plus
  <2>4. k = v
    BY <1>3, <1>4, <1>5, <1>6, <1>7, <2>1, <2>2, <2>3
  <2> QED
    BY <2>1, <2>2, <2>3, <2>4
<1>9. Minus(Plus(Plus(a, d), b), c) = v
  <2>1. PICK e \in Int : e = Plus(a, d) /\ (e = a + d \/ e = a + d - Modulus)
                         /\ 0 <= e /\ e < Modulus
    BY <1>3, <1>4 DEF Plus
  <2>2. PICK f \in Int : f = Plus(e, b) /\ (f = e + b \/ f = e + b - Modulus)
                         /\ 0 <= f /\ f < Modulus
    <3>1. e + b >= Modulus => e + b - Modulus < Modulus /\ e + b - Modulus >= 0
      BY <1>3, <2>1
    <3>2. e + b >= 0 /\ e + b \in Int /\ e + b - Modulus \in Int
      BY <1>3, <2>1
    <3>3. Plus(e, b) = IF e + b >= Modulus THEN e + b - Modulus ELSE e + b
      BY DEF Plus
    <3> QED
      BY <1>3, <3>1, <3>2, <3>3
  <2>3. PICK k \in Int : k = Minus(f, c) /\ (k = f - c \/ k = f - c + Modulus)
                         /\ 0 <= k /\ k < Modulus
    BY <1>3, <2>2 DEF Minus
  <2>4. k = v
    BY <1>3, <1>4, <1>5, <1>6, <1>7, <2>1, <2>2, <2>3
  <2> QED
    BY <2>1, <2>2, <2>3, <2>4
<1> QED
  BY <1>1, <1>2, <1>4, <1>8, <1>9

\* The neighbours of a sample are samples.
LEMMA NeighbourTypes ==
  ASSUME Tiled, NEW s \in [Positions -> Sample], NEW p \in Positions
  PROVE  /\ s[p] \in Sample /\ West(s, p) \in Sample
         /\ North(s, p) \in Sample /\ NorthWest(s, p) \in Sample
<1>1. 0 \in Sample
  BY SampleClosed
<1>2. West(s, p) \in Sample
  BY <1>1, LeftOf DEF West
<1>3. North(s, p) \in Sample
  BY <1>1, Above DEF North
<1>4. NorthWest(s, p) \in Sample
  <2>1. CASE Column(p) > 0 /\ Row(p) > 0
    <3>1. p - width \in Positions /\ Column(p - width) > 0
      BY <2>1, Above
    <3>2. p - width - 1 \in Positions
      BY <3>1, LeftOf
    <3> QED
      BY <2>1, <3>2 DEF NorthWest
  <2>2. CASE ~(Column(p) > 0 /\ Row(p) > 0)
    BY <1>1, <2>2 DEF NorthWest
  <2> QED
    BY <2>1, <2>2
<1> QED
  BY <1>2, <1>3, <1>4

\* The codecs there are.
LEMMA CodecNames ==
  ASSUME TypeOK
  PROVE  codec \in {"delta_w", "delta_n", "planar", "average", "wp_static"}
                     \cup Zigzags
BY PredictorAssumption DEF TypeOK, Zigzags

\* A residual is a sample.
LEMMA EncodedType ==
  ASSUME TypeOK, Tiled, SessionInv, NEW s \in [Positions -> Sample],
         NEW p \in Positions
  PROVE  Encoded(s, p) \in Sample
<1>1. /\ s[p] \in Sample /\ West(s, p) \in Sample
      /\ North(s, p) \in Sample /\ NorthWest(s, p) \in Sample
  BY NeighbourTypes
<1>2. /\ EncodeDeltaW(s, p) \in Sample /\ EncodeDeltaN(s, p) \in Sample
  BY <1>1, SampleClosed DEF EncodeDeltaW, EncodeDeltaN
<1>3. EncodePlanar(s, p) \in Sample
  BY <1>1, Slope DEF EncodePlanar
<1>4. EncodeAverage(s, p) \in Sample
  BY <1>1, SampleClosed, AverageIsFloor DEF EncodeAverage
<1>5. EncodePlanarZigzag(s, p) \in Sample /\ EncodePlanarZigzagPfor(s, p) \in Sample
  BY <1>3, ZigzagUndone DEF EncodePlanarZigzag, EncodePlanarZigzagPfor
<1>6. ASSUME codec = "wp_static" PROVE EncodeWpStatic(s, p) \in Sample
  <2>1. s \in [Positions -> Int] /\ FoldBits \in 0 .. 4 * SampleBits
    BY PowerFacts, ModulusAssumption DEF Sample, FoldBits
  <2>2. Fold(s, p, FoldBits) \in Sample
    BY <1>6, <2>1, FoldType
  <2> QED
    BY <1>1, <2>2, SampleClosed DEF EncodeWpStatic
<1> QED
  BY <1>2, <1>3, <1>4, <1>5, <1>6 DEF Encoded

\* The residual of a scan in the first row of a plane is that to the west.
LEMMA WestRestores ==
  ASSUME TypeOK, Tiled, SessionInv, NEW s \in [Positions -> Sample],
         NEW p \in Positions,
         codec = "delta_w" \/ (codec \in {"planar", "wp_static"} /\ Row(p) = 0)
  PROVE  Plus(West(s, p), Encoded(s, p)) = s[p]
<1>1. /\ s[p] \in Sample /\ West(s, p) \in Sample
  BY NeighbourTypes
<1>2. CASE codec = "delta_w"
  BY <1>1, <1>2, Restores DEF Encoded, EncodeDeltaW
<1>3. CASE codec = "planar" /\ Row(p) = 0
  <2>1. North(s, p) = 0 /\ NorthWest(s, p) = 0
    BY <1>3 DEF North, NorthWest
  <2>2. Planar(West(s, p), 0, 0) = West(s, p)
    BY <1>1, ZeroSum DEF Planar
  <2>3. Encoded(s, p) = Minus(s[p], West(s, p))
    BY <1>3, <2>1, <2>2 DEF Encoded, EncodePlanar
  <2> QED
    BY <1>1, <2>3, Restores
<1>4. CASE codec = "wp_static" /\ Row(p) = 0
  <2>1. s \in [Positions -> Int]
    BY ModulusAssumption DEF Sample
  <2>2. Fold(s, p, FoldBits) = 0
    BY <1>4, <2>1, FoldFlat
  <2>3. Encoded(s, p) = Minus(s[p], West(s, p))
    BY <1>1, <1>4, <2>2, ZeroSum DEF Encoded, EncodeWpStatic
  <2> QED
    BY <1>1, <2>3, Restores
<1> QED
  BY <1>2, <1>3, <1>4

\* The residual of planar, whether it is stored as it is or as a zigzag.
Residual(x) == IF codec \in Zigzags THEN Unzigzag(x) ELSE x

\* planar_encode, planar_zigzag_encode: the residual is what the plane through
\* three neighbours misses.
LEMMA PlanarResidual ==
  ASSUME TypeOK, Tiled, NEW s \in [Positions -> Sample], NEW p \in Positions,
         codec = "planar" \/ codec \in Zigzags
  PROVE  Residual(Encoded(s, p)) =
           Minus(s[p], Planar(West(s, p), North(s, p), NorthWest(s, p)))
<1>1. EncodePlanar(s, p) \in Sample
  BY NeighbourTypes, Slope DEF EncodePlanar
<1>2. CASE codec = "planar"
  BY <1>2 DEF Residual, Encoded, EncodePlanar, Zigzags
<1>3. CASE codec \in Zigzags
  <2>1. Encoded(s, p) = Zigzag(EncodePlanar(s, p))
    BY <1>3 DEF Encoded, EncodePlanarZigzag, EncodePlanarZigzagPfor, Zigzags
  <2>2. Unzigzag(Zigzag(EncodePlanar(s, p))) = EncodePlanar(s, p)
    BY <1>1, ZigzagUndone
  <2> QED
    BY <1>3, <2>1, <2>2 DEF Residual, EncodePlanar
<1> QED
  BY <1>2, <1>3

\* planar and its zigzags: the sample from the residual and its neighbours, at
\* the edges of a plane and inside.
LEMMA PlanarRestores ==
  ASSUME TypeOK, Tiled, NEW s \in [Positions -> Sample], NEW p \in Positions,
         codec = "planar" \/ codec \in Zigzags
  PROVE  LET d == Residual(Encoded(s, p)) IN
         /\ d \in Sample
         /\ Row(p) = 0 => Plus(West(s, p), d) = s[p]
         /\ Column(p) = 0 => Plus(d, North(s, p)) = s[p]
         /\ Plus(West(s, p), Minus(Plus(d, North(s, p)), NorthWest(s, p))) = s[p]
         /\ Minus(Plus(Plus(West(s, p), d), North(s, p)), NorthWest(s, p)) = s[p]
<1>1. /\ s[p] \in Sample /\ West(s, p) \in Sample
      /\ North(s, p) \in Sample /\ NorthWest(s, p) \in Sample
  BY NeighbourTypes
<1>2. PICK v \in Sample, a \in Sample, b \in Sample, c \in Sample :
        /\ v = s[p] /\ a = West(s, p) /\ b = North(s, p)
        /\ c = NorthWest(s, p)
  BY <1>1
<1>3. PICK d : d = Residual(Encoded(s, p))
  OBVIOUS
<1>4. d = Minus(v, Planar(a, b, c))
  BY <1>2, <1>3, PlanarResidual
<1>5. /\ d \in Sample
      /\ Plus(a, Minus(Plus(d, b), c)) = v
      /\ Minus(Plus(Plus(a, d), b), c) = v
  BY <1>4, Slope
<1>6. Row(p) = 0 => Plus(a, d) = v
  <2> SUFFICES ASSUME Row(p) = 0 PROVE Plus(a, d) = v
    OBVIOUS
  <2>1. b = 0 /\ c = 0
    BY <1>2 DEF North, NorthWest
  <2>2. Planar(a, 0, 0) = a
    BY ZeroSum DEF Planar
  <2> QED
    BY <1>4, <2>1, <2>2, Restores
<1>7. Column(p) = 0 => Plus(d, b) = v
  <2> SUFFICES ASSUME Column(p) = 0 PROVE Plus(d, b) = v
    OBVIOUS
  <2>1. a = 0 /\ c = 0
    BY <1>2 DEF West, NorthWest
  <2>2. Planar(0, b, 0) = b
    BY ZeroSum DEF Planar
  <2> QED
    BY <1>4, <2>1, <2>2, Restores
<1> QED
  BY <1>2, <1>3, <1>5, <1>6, <1>7

-----------------------------------------------------------------------------
(* Headers                                                                 *)

\* The types of what a header says.
LEMMA HeaderTypes ==
  ASSUME TypeOK
  PROVE  width \in Nat /\ planes \in Nat /\ header.size \in {4, 8, 13, 17}
BY DEF TypeOK, Headers, width, planes

\* Rows that are whole.
LEMMA WholeFacts ==
  ASSUME WholeRows
  PROVE  /\ planeElts # 0 /\ width # 0 /\ ~(width > planeElts)
         /\ planeElts % width = 0
BY DEF WholeRows, RowWidth

\* Planes that divide the stream.
LEMMA PlanesDivide ==
  ASSUME TypeOK, planes # 0, nbElts % planes = 0
  PROVE  planeElts \in Nat \ {0} /\ nbElts = planes * planeElts
<1>1. PICK u \in Nat \ {0}, e \in Nat \ {0} : u = planes /\ e = nbElts
  BY HeaderTypes, StreamFacts
<1>2. PICK a \in Nat, x \in 0 .. u - 1 : e = a * u + x
  BY Divided
<1>3. e % u = x /\ e \div u = a
  BY <1>2, Split
<1>4. x = 0 /\ a # 0
  BY <1>1, <1>2, <1>3
<1>5. planeElts = a
  BY <1>1, <1>3 DEF planeElts
<1>6. u * a = a * u
  OBVIOUS
<1> QED
  BY <1>1, <1>2, <1>4, <1>5, <1>6

\* What an encoder declares: a width, and planes only where they are whole.
LEMMA AskedFacts ==
  ASSUME TypeOK, Asked
  PROVE  /\ width \in 1 .. nbElts /\ planes \in Nat \ {0}
         /\ nbElts % planes = 0
         /\ planes # 1 => planeElts % width = 0
         /\ codec = "delta_w" => header.size = 4
         /\ codec = "planar_zigzag_pfor" => header.size = 17
         /\ codec = "wp_static" => header.size \in {13, 17}
         /\ codec \in {"delta_n", "planar", "average", "planar_zigzag"} =>
              header.size \in {4, 8}
<1>1. PICK asked \in 0 .. nbElts + 1, planesAsked \in 0 .. MaxPlanes :
        header = Declared(codec, asked, planesAsked, nbElts)
  BY DEF Asked
<1>2. nbElts \in Nat \ {0} /\ MaxPlanes \in Nat
  BY StreamFacts, PredictorAssumption
<1>3. PICK w : w = RowWidthDeclared(asked, nbElts)
  OBVIOUS
<1>4. w \in 1 .. nbElts
  BY <1>2, <1>3 DEF RowWidthDeclared
<1>5. PICK u : u = PlanesDeclared(planesAsked, w, nbElts)
  OBVIOUS
<1>6. /\ u \in Nat \ {0}
      /\ u = 1 \/ (nbElts % u = 0 /\ (nbElts \div u) % w = 0)
  BY <1>2, <1>5 DEF PlanesDeclared
<1>7. DeclaresPlanes(asked, planesAsked, nbElts) =
        [size |-> IF u > 1 THEN 8 ELSE 4, width |-> w, planes |-> u]
  BY <1>3, <1>5 DEF DeclaresPlanes
<1>8. /\ width = w
      /\ planes = IF codec = "delta_w" THEN 1 ELSE u
      /\ codec = "delta_w" => header.size = 4
      /\ codec = "planar_zigzag_pfor" => header.size = 17
      /\ codec = "wp_static" => header.size \in {13, 17}
      /\ codec \in {"delta_n", "planar", "average", "planar_zigzag"} =>
           header.size \in {4, 8}
  <2>1. CASE codec = "delta_w"
    <3>1. header = [size |-> 4, width |-> w, planes |-> 1]
      BY <1>1, <1>3, <2>1 DEF Declared, EI_delta_w
    <3> QED
      BY <2>1, <3>1 DEF width, planes
  <2>2. CASE codec \in {"delta_n", "planar", "average", "planar_zigzag"}
    <3>1. header = [size |-> IF u > 1 THEN 8 ELSE 4, width |-> w, planes |-> u]
      BY <1>1, <1>7, <2>2
         DEF Declared, EI_delta_n, EI_planar, EI_average, EI_planar_zigzag
    <3> QED
      BY <1>6, <2>2, <3>1 DEF width, planes
  <2>3. CASE codec = "wp_static"
    <3>1. header = [size |-> IF u > 1 THEN 17 ELSE 13, width |-> w, planes |-> u]
      BY <1>1, <1>7, <2>3 DEF Declared, EI_wp_static
    <3> QED
      BY <1>6, <2>3, <3>1 DEF width, planes
  <2>4. CASE codec = "planar_zigzag_pfor"
    <3>1. header = [size |-> 17, width |-> w, planes |-> u]
      BY <1>1, <1>7, <2>4 DEF Declared, EI_planar_zigzag_pfor
    <3> QED
      BY <2>4, <3>1 DEF width, planes
  <2> QED
    BY <2>1, <2>2, <2>3, <2>4, CodecNames DEF Zigzags
<1>9. nbElts % 1 = 0
  BY <1>2
<1> QED
  BY <1>4, <1>6, <1>8, <1>9 DEF planeElts

\* A header that is accepted cuts the stream into planes.
LEMMA AcceptedFacts ==
  ASSUME TypeOK, Accepted
  PROVE  planes # 0 /\ nbElts % planes = 0
<1>1. nbElts \in Nat \ {0} /\ planes \in Nat
  BY StreamFacts, HeaderTypes
<1>2. nbElts % 1 = 0
  BY <1>1
<1>3. CASE codec = "delta_w"
  BY <1>2, <1>3 DEF Accepted, DI_delta_w, planes
<1>4. CASE codec = "planar_zigzag_pfor"
  BY <1>4 DEF Accepted, DI_planar_zigzag_pfor
<1>5. CASE codec \notin {"delta_w", "planar_zigzag_pfor"}
  <2>1. AcceptsPlanes
    BY <1>5, CodecNames
       DEF Zigzags, Accepted, DI_delta_n, DI_planar, DI_average,
           DI_planar_zigzag, DI_wp_static
  <2> QED
    BY <1>1, <1>2, <2>1 DEF AcceptsPlanes
<1> QED
  BY <1>3, <1>4, <1>5

\* With whole rows, that is a tiling.
LEMMA HeaderTiled ==
  ASSUME TypeOK, WholeRows, Accepted \/ Asked
  PROVE  Tiled
<1>1. planes # 0 /\ nbElts % planes = 0
  BY AcceptedFacts, AskedFacts
<1> QED
  BY <1>1, HeaderTypes, WholeFacts, PlanesDivide, StreamFacts DEF Tiled

\* No decoder refuses what an encoder declared for whole rows.
LEMMA AskedAccepted ==
  ASSUME TypeOK, SessionInv, WholeRows, Asked
  PROVE  Accepted
<1>1. /\ planes # 0 /\ width # 0 /\ nbElts % planes = 0
      /\ planeElts % width = 0 /\ width <= planeElts
  <2>1. Tiled
    BY HeaderTiled
  <2> QED
    BY <2>1, AskedFacts, WholeFacts DEF Tiled
<1>2. AcceptsPlanes
  BY <1>1 DEF AcceptsPlanes
<1>3. CASE codec = "delta_w"
  BY <1>3, AskedFacts DEF Accepted, DI_delta_w
<1>4. CASE codec = "planar_zigzag_pfor"
  BY <1>1, <1>4, AskedFacts DEF Accepted, DI_planar_zigzag_pfor
<1>5. CASE codec = "wp_static"
  BY <1>2, <1>5, AskedFacts DEF Accepted, DI_wp_static, SessionInv
<1>6. CASE codec \in {"delta_n", "planar", "average", "planar_zigzag"}
  BY <1>2, <1>6, AskedFacts
     DEF Accepted, DI_delta_n, DI_planar, DI_average, DI_planar_zigzag
<1> QED
  BY <1>3, <1>4, <1>5, <1>6, CodecNames DEF Zigzags

\* An encoder refuses only a width that does not divide the stream.
LEMMA AskedRefused ==
  ASSUME TypeOK, Asked, ~WholeRows
  PROVE  RowWidth(width, nbElts) = 0
<1>1. /\ planes \in Nat \ {0} /\ width \in Nat \ {0}
      /\ planeElts \in Nat \ {0} /\ nbElts = planes * planeElts
      /\ planes # 1 => planeElts % width = 0
  BY AskedFacts, StreamFacts, PlanesDivide
<1>2. CASE planes = 1
  BY <1>1, <1>2 DEF WholeRows
<1>3. CASE planes # 1
  <2>1. PICK u \in Nat \ {0}, e \in Nat \ {0} : u = width /\ e = planeElts
    BY <1>1
  <2>2. e % u = 0
    BY <1>1, <1>3, <2>1
  <2>3. ~(u > e)
    <3> SUFFICES ASSUME u > e PROVE FALSE
      OBVIOUS
    <3>1. e \in 0 .. u - 1 /\ e = 0 * u + e
      OBVIOUS
    <3>2. (0 * u + e) % u = e
      BY <3>1, Split
    <3> QED
      BY <2>2, <3>1, <3>2
  <2>4. WholeRows
    BY <2>1, <2>2, <2>3 DEF WholeRows, RowWidth
  <2> QED
    BY <2>4
<1> QED
  BY <1>2, <1>3

-----------------------------------------------------------------------------
(* What a step of a kernel leaves as it is                                 *)

Static == <<build, codec, original, header, weights>>

\* The geometry depends on the header and the stream.
LEMMA GeometryKept ==
  ASSUME UNCHANGED Static
  PROVE  /\ width' = width /\ planes' = planes /\ nbElts' = nbElts
         /\ planeElts' = planeElts /\ Positions' = Positions
         /\ \A p : Column(p)' = Column(p) /\ Row(p)' = Row(p)
         /\ WholeRows' = WholeRows /\ Tiled' = Tiled /\ Lanes' = Lanes
         /\ Summed' = Summed /\ FoldBits' = FoldBits
         /\ \A k : EncodeOrder(k)' = EncodeOrder(k)
<1>1. /\ width' = width /\ planes' = planes /\ Positions' = Positions
      /\ Lanes' = Lanes /\ Summed' = Summed /\ FoldBits' = FoldBits
  BY DEF Static, width, planes, Positions, Lanes, Summed, FoldBits
<1>2. nbElts' = nbElts
  BY <1>1 DEF nbElts
<1>3. planeElts' = planeElts
  BY <1>1, <1>2 DEF planeElts
<1>4. \A p : Column(p)' = Column(p) /\ Row(p)' = Row(p)
  BY <1>1, <1>3 DEF Column, Row
<1>5. \A k : EncodeOrder(k)' = EncodeOrder(k)
  BY <1>1, <1>3, <1>4 DEF EncodeOrder, Static
<1>6. WholeRows' = WholeRows
  BY <1>1, <1>3 DEF WholeRows
<1>7. Tiled' = Tiled
  BY <1>1, <1>2, <1>3 DEF Tiled
<1> QED
  BY <1>1, <1>2, <1>3, <1>4, <1>5, <1>6, <1>7

\* So do the neighbours and the residuals.
LEMMA ResidualsKept ==
  ASSUME UNCHANGED Static
  PROVE  \A p : /\ Encoded(original, p)' = Encoded(original, p)
                /\ West(original, p)' = West(original, p)
<1>1. \A s, p : /\ West(s, p)' = West(s, p) /\ North(s, p)' = North(s, p)
                /\ NorthWest(s, p)' = NorthWest(s, p)
  BY GeometryKept DEF West, North, NorthWest
<1>2. \A s, p : /\ NorthEast(s, p)' = NorthEast(s, p)
                /\ NorthNorth(s, p)' = NorthNorth(s, p)
  BY GeometryKept DEF NorthEast, NorthNorth
<1>3. \A s, p, b : Fold(s, p, b)' = Fold(s, p, b)
  BY <1>1, <1>2 DEF Fold, Static
<1>4. \A s, p : EncodePlanar(s, p)' = EncodePlanar(s, p)
  BY <1>1 DEF EncodePlanar
<1>5. \A s, p : /\ EncodeDeltaW(s, p)' = EncodeDeltaW(s, p)
                /\ EncodeDeltaN(s, p)' = EncodeDeltaN(s, p)
                /\ EncodeAverage(s, p)' = EncodeAverage(s, p)
  BY <1>1 DEF EncodeDeltaW, EncodeDeltaN, EncodeAverage
<1>6. \A s, p : /\ EncodePlanarZigzag(s, p)' = EncodePlanarZigzag(s, p)
                /\ EncodePlanarZigzagPfor(s, p)' = EncodePlanarZigzagPfor(s, p)
  BY <1>4 DEF EncodePlanarZigzag, EncodePlanarZigzagPfor
<1>7. \A s, p : EncodeWpStatic(s, p)' = EncodeWpStatic(s, p)
  BY <1>1, <1>3, GeometryKept DEF EncodeWpStatic
<1>8. \A s, p : Encoded(s, p)' = Encoded(s, p)
  BY <1>4, <1>5, <1>6, <1>7 DEF Encoded, Static
<1>9. original' = original
  BY DEF Static
<1> QED
  BY <1>1, <1>8, <1>9

\* What the headers say stays.
LEMMA HeaderKept ==
  ASSUME UNCHANGED Static
  PROVE  Accepted' = Accepted /\ Asked' = Asked
<1>1. /\ header' = header /\ codec' = codec /\ weights' = weights
      /\ width' = width /\ planes' = planes /\ nbElts' = nbElts
      /\ planeElts' = planeElts /\ FoldBits' = FoldBits
  BY GeometryKept DEF Static
<1>2. AcceptsPlanes' = AcceptsPlanes
  BY <1>1 DEF AcceptsPlanes
<1>3. Accepted' = Accepted
  BY <1>1, <1>2 DEF Accepted, DI_delta_w, DI_delta_n, DI_planar, DI_average,
       DI_planar_zigzag, DI_wp_static, DI_planar_zigzag_pfor
<1>4. Asked' = Asked
  BY <1>1 DEF Asked
<1> QED
  BY <1>3, <1>4

\* A run is as long as it was.
LEMMA RunKept ==
  ASSUME UNCHANGED Static, at' = at
  PROVE  /\ Column(at)' = Column(at) /\ Interior' = Interior
         /\ RunLength' = RunLength
<1>1. PICK a : a = at
  OBVIOUS
<1>2. Column(a)' = Column(a) /\ Row(a)' = Row(a)
  BY GeometryKept
<1>3. Column(at)' = Column(at) /\ Row(at)' = Row(at)
  BY <1>1, <1>2
<1>4. Interior' = Interior
  BY <1>3 DEF Interior
<1>5. RunLength' = RunLength
  BY <1>3, GeometryKept DEF RunLength, Static, Least
<1> QED
  BY <1>3, <1>4, <1>5

-----------------------------------------------------------------------------
(* The run at work                                                         *)

\* Where a kernel runs, the stream is tiled and the types are known.
LEMMA KernelFacts ==
  ASSUME IInv, phase \in {"run", "row"}
  PROVE  /\ Tiled /\ at \in Positions /\ at \in Nat
         /\ original \in [Positions -> Sample] /\ src \in [Positions -> Sample]
         /\ dst \in [Positions -> Sample \cup {NoSample}]
         /\ Column(at) \in 0 .. width - 1 /\ Row(at) \in Nat
         /\ width \in Nat \ {0} /\ nbElts \in Nat \ {0}
         /\ Positions = 0 .. nbElts - 1
         /\ inPlace \in BOOLEAN /\ corrupt \in BOOLEAN
         /\ ~corrupt => Asked
<1>1. TypeOK /\ WholeRows /\ Accepted /\ at < nbElts /\ (~corrupt => Asked)
  BY DEF IInv, HeaderInv, PlaceInv, Kernel, SessionInv
<1>2. Tiled /\ nbElts \in Nat \ {0} /\ original \in [Positions -> Sample]
      /\ Positions = 0 .. nbElts - 1
  BY <1>1, HeaderTiled, StreamFacts
<1>3. at \in Positions /\ at \in Nat
  BY <1>1, <1>2 DEF TypeOK
<1>4. Row(at) \in Rows /\ Column(at) \in Columns
  BY <1>2, <1>3, CellOf
<1>5. src \in [Positions -> Sample]
  BY DEF IInv, StreamInv, Decoding, Kernel
<1>6. width \in Nat \ {0} /\ Column(at) \in 0 .. width - 1 /\ Row(at) \in Nat
  BY <1>2, <1>4, RowCount DEF Tiled, Rows, Columns
<1> QED
  BY <1>1, <1>2, <1>3, <1>5, <1>6 DEF TypeOK

\* A run is not empty, and stays in its row and in the stream.
LEMMA RunFacts ==
  ASSUME IInv, phase \in {"run", "row"}
  PROVE  /\ RunLength \in Nat \ {0} /\ RunLength <= width - Column(at)
         /\ at + RunLength <= nbElts
         /\ codec # "planar_zigzag_pfor" =>
              RunLength = width /\ Column(at) = 0
<1>1. /\ Tiled /\ at \in Positions /\ at \in Nat /\ width \in Nat \ {0}
      /\ Column(at) \in 0 .. width - 1 /\ nbElts \in Nat \ {0}
      /\ Positions = 0 .. nbElts - 1
  BY KernelFacts
<1>2. PICK q : q = at + (width - Column(at))
  OBVIOUS
<1>3. q <= nbElts
  BY <1>1, <1>2, NextRow
<1>4. CASE codec = "planar_zigzag_pfor"
  <2>1. PICK b \in Nat \ {0} : b = Block
    BY PredictorAssumption
  <2>2. at % b \in 0 .. b - 1
    BY <1>1
  <2>3. PICK l \in Nat \ {0}, k \in Nat \ {0}, h \in Nat \ {0} :
          l = width - Column(at) /\ k = Block - (at % Block) /\ h = nbElts - at
    <3>1. width - Column(at) \in Nat \ {0} /\ nbElts - at \in Nat \ {0}
      BY <1>1
    <3>2. b - (at % b) \in Nat \ {0}
      BY <2>2
    <3> QED
      BY <2>1, <3>1, <3>2
  <2>4. RunLength = Least(l, Least(k, h))
    BY <1>4, <2>3 DEF RunLength
  <2>5. RunLength \in Nat \ {0} /\ RunLength <= l /\ RunLength <= h
    BY <2>4 DEF Least
  <2> QED
    BY <1>1, <1>4, <2>3, <2>5
<1>5. CASE codec # "planar_zigzag_pfor"
  <2>1. Column(at) = 0
    BY <1>5 DEF IInv, PlaceInv
  <2>2. RunLength = width - Column(at)
    BY <1>5 DEF RunLength
  <2> QED
    BY <1>1, <1>2, <1>3, <2>1, <2>2
<1> QED
  BY <1>4, <1>5

\* The samples of a run are in one row.
LEMMA InRun ==
  ASSUME IInv, phase \in {"run", "row"}, NEW k \in 0 .. RunLength - 1
  PROVE  /\ at + k \in Positions /\ at + k \in Nat
         /\ Column(at + k) = Column(at) + k /\ Row(at + k) = Row(at)
<1>1. /\ Tiled /\ at \in Positions /\ at \in Nat /\ width \in Nat \ {0}
      /\ Column(at) \in 0 .. width - 1
  BY KernelFacts
<1>2. k \in Nat /\ Column(at) + k < width
  BY <1>1, RunFacts
<1> QED
  BY <1>1, <1>2, RightOf

\* The row above a run is decoded.
LEMMA NorthDecoded ==
  ASSUME IInv, phase \in {"run", "row"}, Interior,
         NEW k \in 0 .. RunLength - 1
  PROVE  LET q == at + k IN
         /\ q - width \in 0 .. at - 1 /\ dst[q - width] \in Sample
         /\ ~corrupt => dst[q - width] = North(original, q)
         /\ Column(q) > 0 =>
              /\ dst[q - width - 1] \in Sample
              /\ ~corrupt => dst[q - width - 1] = NorthWest(original, q)
<1>1. /\ Tiled /\ at \in Positions /\ at \in Nat /\ width \in Nat \ {0}
      /\ Column(at) \in 0 .. width - 1 /\ nbElts \in Nat
      /\ Positions = 0 .. nbElts - 1
  BY KernelFacts
<1>2. PICK q \in Positions : q = at + k
  BY InRun
<1>3. Row(q) > 0 /\ k <= width - 1 /\ k \in Nat
  BY <1>1, <1>2, InRun, RunFacts DEF Interior
<1>4. q - width \in Positions /\ Column(q - width) = Column(q)
  BY <1>1, <1>2, <1>3, Above
<1>5. q - width \in 0 .. at - 1
  BY <1>1, <1>2, <1>3, <1>4
<1>6. \A p \in 0 .. at - 1 : dst[p] \in Sample /\ (~corrupt => dst[p] = original[p])
  <2>1. Reached >= at /\ Reached \in Int
    BY <1>1 DEF IInv, PlaceInv, Reached, TypeOK
  <2>2. \A p \in 0 .. Reached - 1 :
          dst[p] \in Sample /\ (~corrupt => dst[p] = original[p])
    BY DEF IInv, DecodedInv, Kernel
  <2> QED
    BY <1>1, <2>1, <2>2
<1>7. ~corrupt => dst[q - width] = North(original, q)
  BY <1>3, <1>5, <1>6 DEF North
<1>8. ASSUME Column(q) > 0
      PROVE  /\ dst[q - width - 1] \in Sample
             /\ ~corrupt => dst[q - width - 1] = NorthWest(original, q)
  <2>1. q - width - 1 \in Positions
    BY <1>1, <1>4, <1>8, LeftOf
  <2>2. q - width - 1 \in 0 .. at - 1
    BY <1>1, <1>5, <2>1
  <2> QED
    BY <1>3, <1>6, <1>8, <2>2 DEF NorthWest
<1> QED
  BY <1>2, <1>5, <1>6, <1>7, <1>8

\* So is the sample to the west of the next one.
LEMMA WestDecoded ==
  ASSUME IInv, phase = "row", i < n
  PROVE  LET acc == IF i > 0 THEN dst[at + i - 1] ELSE Initial IN
         acc \in Sample /\ (~corrupt => acc = West(original, at + i))
<1>1. /\ Tiled /\ at \in Positions /\ at \in Nat /\ width \in Nat \ {0}
      /\ Column(at) \in 0 .. width - 1 /\ nbElts \in Nat
      /\ Positions = 0 .. nbElts - 1
  BY KernelFacts
<1>2. n = RunLength /\ i \in 0 .. n /\ n \in Nat /\ i \in Nat
  BY <1>1, RunFacts DEF IInv, PlaceInv
<1>3. i \in 0 .. RunLength - 1
  BY <1>2
<1>4. at + i \in Positions /\ Column(at + i) = Column(at) + i
  BY <1>3, InRun
<1>5. ASSUME NEW p \in 0 .. at + i - 1
      PROVE  dst[p] \in Sample /\ (~corrupt => dst[p] = original[p])
  <2>1. Reached = at + i
    BY DEF Reached
  <2>2. phase \in Kernel
    BY DEF Kernel
  <2>3. \A q \in 0 .. Reached - 1 :
          dst[q] \in Sample /\ (~corrupt => dst[q] = original[q])
    BY <2>2 DEF IInv, DecodedInv
  <2>4. \A q \in 0 .. at + i - 1 :
          dst[q] \in Sample /\ (~corrupt => dst[q] = original[q])
    BY <1>1, <1>2, <2>1, <2>3
  <2> QED
    BY <2>4
<1>6. CASE i > 0
  <2>1. at + i - 1 \in 0 .. at + i - 1 /\ Column(at + i) > 0
    BY <1>1, <1>2, <1>4, <1>6
  <2>2. dst[at + i - 1] \in Sample
        /\ (~corrupt => dst[at + i - 1] = original[at + i - 1])
    BY <1>5, <2>1
  <2>3. West(original, at + i) = original[at + i - 1]
    <3>1. PICK q \in Nat : q = at + i
      BY <1>1, <1>2
    <3>2. West(original, q) = original[q - 1]
      BY <2>1, <3>1 DEF West
    <3>3. q - 1 = at + i - 1
      BY <1>1, <1>2, <3>1
    <3> QED
      BY <3>1, <3>2, <3>3
  <2>4. (IF i > 0 THEN dst[at + i - 1] ELSE Initial) = dst[at + i - 1]
    BY <1>6
  <2> QED
    BY <2>2, <2>3, <2>4
<1>7. CASE i = 0 /\ Column(at) = 0
  BY <1>1, <1>4, <1>7, SampleClosed DEF Initial, West
<1>8. CASE i = 0 /\ Column(at) # 0
  <2>1. Column(at + i) > 0 /\ at + i = at
    BY <1>1, <1>4, <1>8
  <2>2. at - 1 \in Positions
    BY <1>1, <2>1, LeftOf
  <2>3. at - 1 \in 0 .. at + i - 1
    BY <1>1, <1>8, <2>2
  <2> QED
    BY <1>5, <1>8, <2>1, <2>3 DEF West, Initial
<1> QED
  BY <1>2, <1>6, <1>7, <1>8


\* What is still to be read of a run is as it was encoded.
LEMMA StillEncoded ==
  ASSUME IInv, phase \in {"run", "row"}, ~corrupt, ~Folding, NEW p \in Positions,
         p >= Reached
  PROVE  src[p] = Encoded(original, p)
<1>1. phase \in Decoding
  BY DEF Decoding, Kernel
<1>2. \A q \in Positions : q >= Unread \/ ~inPlace => src[q] = Encoded(original, q)
  BY <1>1 DEF IInv, StreamInv
<1>3. Unread = Reached
  BY DEF Unread
<1> QED
  BY <1>2, <1>3

\* decode_planar_kernel.c, decode_planar_zigzag_kernel.c: the slope of the row
\* above and the residual.
LEMMA SlopeTerm ==
  ASSUME IInv, phase = "row", codec = "planar" \/ codec \in Zigzags, Interior,
         NEW k \in i .. n - 1
  PROVE  LET q == at + k
             d == Residual(src[q]) IN
         /\ Minus(Plus(d, dst[q - width]), dst[q - width - 1]) \in Sample
         /\ ~corrupt =>
              Plus(West(original, q),
                   Minus(Plus(d, dst[q - width]), dst[q - width - 1]))
                = original[q]
<1>1. /\ Tiled /\ at \in Positions /\ at \in Nat /\ TypeOK
      /\ Column(at) \in 0 .. width - 1 /\ Positions = 0 .. nbElts - 1
      /\ src \in [Positions -> Sample] /\ original \in [Positions -> Sample]
  BY KernelFacts DEF IInv
<1>2. n = RunLength /\ i \in 0 .. n /\ n \in Nat /\ i \in Nat /\ i >= 1
  BY RunFacts DEF IInv, PlaceInv
<1>3. k \in 0 .. RunLength - 1 /\ k >= 1 /\ k \in Nat
  BY <1>2
<1>4. PICK q \in Positions : q = at + k /\ q \in Nat /\ Column(q) = Column(at) + k
  BY <1>3, InRun
<1>5. Column(q) > 0
  BY <1>1, <1>3, <1>4
<1>6. /\ dst[q - width] \in Sample /\ dst[q - width - 1] \in Sample
      /\ ~corrupt => /\ dst[q - width] = North(original, q)
                     /\ dst[q - width - 1] = NorthWest(original, q)
  BY <1>3, <1>4, <1>5, NorthDecoded
<1>7. src[q] \in Sample
  BY <1>1, <1>4
<1>8. Residual(src[q]) \in Sample
  BY <1>7, ZigzagUndone DEF Residual
<1>9. Minus(Plus(Residual(src[q]), dst[q - width]), dst[q - width - 1]) \in Sample
  BY <1>6, <1>8, SampleClosed
<1>10. ASSUME ~corrupt
       PROVE  Plus(West(original, q),
                   Minus(Plus(Residual(src[q]), dst[q - width]),
                         dst[q - width - 1])) = original[q]
  <2>1. q >= Reached
    BY <1>1, <1>2, <1>4 DEF Reached
  <2>2. ~Folding
    BY DEF Folding, Zigzags
  <2>3. src[q] = Encoded(original, q)
    BY <1>10, <2>1, <2>2, StillEncoded
  <2> QED
    BY <1>1, <1>6, <1>10, <2>3, PlanarRestores
<1> QED
  BY <1>4, <1>9, <1>10

\* Without a row above, the residual is that to the west.
LEMMA FlatTerm ==
  ASSUME IInv, phase = "row", NEW k \in i .. n - 1,
         \/ codec = "delta_w"
         \/ codec \in {"planar", "wp_static"} \cup Zigzags /\ ~Interior
  PROVE  LET q == at + k
             d == Residual(src[q]) IN
         /\ d \in Sample
         /\ ~corrupt => Plus(West(original, q), d) = original[q]
<1>1. /\ Tiled /\ at \in Positions /\ at \in Nat /\ TypeOK /\ SessionInv
      /\ Column(at) \in 0 .. width - 1 /\ Positions = 0 .. nbElts - 1
      /\ src \in [Positions -> Sample] /\ original \in [Positions -> Sample]
      /\ Row(at) \in Nat
  BY KernelFacts DEF IInv
<1>2. n = RunLength /\ i \in 0 .. n /\ n \in Nat /\ i \in Nat
  BY RunFacts DEF IInv, PlaceInv
<1>3. k \in 0 .. RunLength - 1 /\ k \in Nat
  BY <1>2
<1>4. PICK q \in Positions : q = at + k /\ q \in Nat /\ Row(q) = Row(at)
  BY <1>3, InRun
<1>5. src[q] \in Sample
  BY <1>1, <1>4
<1>6. Residual(src[q]) \in Sample
  BY <1>5, ZigzagUndone DEF Residual
<1>7. ASSUME ~corrupt PROVE Plus(West(original, q), Residual(src[q])) = original[q]
  <2>1. q >= Reached
    BY <1>1, <1>2, <1>4 DEF Reached
  <2>2. ~Folding
    BY DEF Folding
  <2>3. src[q] = Encoded(original, q)
    BY <1>7, <2>1, <2>2, StillEncoded
  <2>4. ~Interior => Row(q) = 0
    BY <1>1, <1>4 DEF Interior
  <2>5. CASE codec = "delta_w" \/ codec = "wp_static"
    <3>1. Residual(src[q]) = Encoded(original, q)
      BY <2>3, <2>5 DEF Residual, Zigzags
    <3> QED
      BY <1>1, <2>4, <2>5, <3>1, WestRestores
  <2>6. CASE codec = "planar" \/ codec \in Zigzags
    <3>1. Row(q) = 0
      BY <2>4, <2>6 DEF Zigzags
    <3> QED
      BY <1>1, <2>3, <2>6, <3>1, PlanarRestores
  <2> QED
    BY <2>5, <2>6
<1> QED
  BY <1>4, <1>6, <1>7

\* What a kernel adds to the sum is the difference to the sample in the west.
LEMMA TermFacts ==
  ASSUME IInv, phase = "row", Summed, NEW k \in i .. n - 1
  PROVE  /\ Term(at + k) \in Sample
         /\ ~corrupt =>
              Plus(West(original, at + k), Term(at + k)) = original[at + k]
<1>1. TypeOK /\ Tiled /\ original \in [Positions -> Sample]
  BY KernelFacts DEF IInv
<1>2. PICK q : q = at + k
  OBVIOUS
<1>3. CASE codec = "planar" /\ Interior
  <2>1. Term(q) = Minus(Plus(Residual(src[q]), dst[q - width]), dst[q - width - 1])
    BY <1>3 DEF Term, FTerm, Residual, Zigzags
  <2> QED
    BY <1>2, <1>3, <2>1, SlopeTerm
<1>4. CASE codec \in Zigzags /\ Interior
  <2>1. Term(q) = Minus(Plus(Residual(src[q]), dst[q - width]), dst[q - width - 1])
    BY <1>4 DEF Term, ZFTerm, ZTerm, Residual, Zigzags
  <2> QED
    BY <1>2, <1>4, <2>1, SlopeTerm
<1>5. CASE codec \in Zigzags /\ ~Interior
  <2>1. Term(q) = Residual(src[q])
    BY <1>5 DEF Term, ZTerm, Residual, Zigzags
  <2> QED
    BY <1>2, <1>5, <2>1, FlatTerm
<1>6. CASE codec = "delta_w" \/ (codec \in {"planar", "wp_static"} /\ ~Interior)
  <2>1. Term(q) = Residual(src[q])
    BY <1>6 DEF Term, Residual, Zigzags
  <2> QED
    BY <1>2, <1>6, <2>1, FlatTerm
<1>7. CASE codec = "wp_static" /\ Interior
  <2>1. Term(q) = dst[q]
    BY <1>7 DEF Term, Zigzags
  <2>2. at \in Nat /\ n = RunLength /\ i \in Nat /\ n \in Nat /\ k \in Nat
        /\ k \in 0 .. RunLength - 1
    BY KernelFacts, RunFacts DEF IInv, PlaceInv
  <2>3. q \in at + i .. at + n - 1 /\ q \in Positions
    BY <1>2, <2>2, InRun
  <2>4. /\ dst[q] \in Sample
        /\ ~corrupt => dst[q] = Minus(original[q], West(original, q))
    BY <1>7, <2>3 DEF IInv, FoldedInv, Folding
  <2>5. West(original, q) \in Sample /\ original[q] \in Sample
    BY <1>1, <2>3, NeighbourTypes
  <2> QED
    BY <1>2, <2>1, <2>4, <2>5, Restores
<1> QED
  BY <1>1, <1>3, <1>4, <1>5, <1>6, <1>7, CodecNames DEF Summed

-----------------------------------------------------------------------------
(* A step within a run                                                     *)

\* All that is known but what is special to a codec.
Common ==
  /\ TypeOK /\ SessionInv /\ HeaderInv /\ UnwrittenInv /\ PlaceInv /\ EncodeInv
  /\ DecodedInv /\ StreamInv

\* What a run has written, up to hi, when j of its samples are decoded.
Wrote(j, hi) ==
  /\ j \in 0 .. RunLength /\ hi \in Reached .. nbElts
  /\ Reached <= at + j /\ at + j <= hi
  /\ hi <= IF codec = "wp_static" /\ Interior THEN at + RunLength ELSE at + j
  /\ Interior /\ codec \in {"planar"} \cup Zigzags => j >= 1
  /\ dst' \in [Positions -> Sample \cup {NoSample}]
  /\ src' = IF inPlace THEN dst' ELSE src
  /\ \A p \in Positions : p \notin Reached .. hi - 1 => dst'[p] = dst[p]
  /\ \A p \in Reached .. hi - 1 : dst'[p] \in Sample
  /\ ~corrupt => \A p \in Reached .. at + j - 1 : dst'[p] = original[p]

\* A run that has written what it should keeps what is common to the codecs.
LEMMA RowStep ==
  ASSUME IInv, phase \in {"run", "row"}, UNCHANGED Static,
         UNCHANGED <<at, corrupt, inPlace>>, phase' = "row", n' = RunLength,
         NEW j, NEW hi, Wrote(j, hi), i' = j, carry' \in Sample,
         scratch' = NoScratch \/ DOMAIN scratch' = 0 .. width - 1
  PROVE  Common'
<1>1. /\ TypeOK /\ SessionInv /\ HeaderInv /\ PlaceInv /\ DecodedInv /\ StreamInv
  BY DEF IInv
<1>2. /\ Tiled /\ at \in Positions /\ at \in Nat /\ Positions = 0 .. nbElts - 1
      /\ src \in [Positions -> Sample] /\ nbElts \in Nat
      /\ width \in Nat \ {0}
  BY KernelFacts
<1>3. /\ RunLength \in Nat \ {0} /\ at + RunLength <= nbElts
  BY RunFacts
<1>4. /\ width' = width /\ planes' = planes /\ nbElts' = nbElts
      /\ planeElts' = planeElts /\ Positions' = Positions
      /\ WholeRows' = WholeRows /\ FoldBits' = FoldBits
      /\ Accepted' = Accepted /\ Asked' = Asked
      /\ Column(at)' = Column(at) /\ Interior' = Interior
      /\ RunLength' = RunLength
  BY GeometryKept, HeaderKept, RunKept
<1>5. /\ build' = build /\ codec' = codec /\ original' = original
      /\ header' = header /\ weights' = weights /\ at' = at
      /\ corrupt' = corrupt /\ inPlace' = inPlace
  BY DEF Static
<1>6. PICK l \in Nat, h \in Nat, r \in Nat :
        /\ l = RunLength /\ h = hi /\ r = Reached /\ j \in 0 .. l
        /\ r <= at + j /\ at + j <= h /\ h <= nbElts /\ r >= at
  <2>1. Reached \in Nat /\ Reached >= at
    <3>1. CASE phase = "row"
      BY <1>1, <1>2, <1>3, <3>1 DEF Reached, PlaceInv
    <3>2. CASE phase = "run"
      BY <1>2, <3>2 DEF Reached
    <3> QED
      BY <3>1, <3>2
  <2>2. j \in 0 .. RunLength /\ hi \in Reached .. nbElts
        /\ Reached <= at + j /\ at + j <= hi
    BY DEF Wrote
  <2> QED
    BY <1>2, <1>3, <2>1, <2>2
<1>7. /\ dst' \in [Positions -> Sample \cup {NoSample}]
      /\ src' = IF inPlace THEN dst' ELSE src
      /\ \A p \in Positions : p \notin r .. h - 1 => dst'[p] = dst[p]
      /\ \A p \in r .. h - 1 : dst'[p] \in Sample
      /\ ~corrupt => \A p \in r .. at + j - 1 : dst'[p] = original[p]
  BY <1>6 DEF Wrote
<1>8. inPlace => src = dst /\ dst \in [Positions -> Sample]
  BY <1>1, <1>2 DEF SessionInv
<1>9. src' \in [Positions -> Sample]
  <2>1. CASE ~inPlace
    BY <1>2, <1>7, <2>1
  <2>2. CASE inPlace
    <3>1. \A p \in Positions : dst'[p] \in Sample
      BY <1>2, <1>7, <1>8, <2>2
    <3> QED
      BY <1>7, <2>2, <3>1
  <2> QED
    BY <2>1, <2>2
<1>10. TypeOK'
  <2>1. n' \in 0 .. nbElts /\ i' \in 0 .. n'
    BY <1>2, <1>3, <1>6
  <2>2. src' \in [Positions' -> Sample \cup {NoSample}]
        /\ dst' \in [Positions' -> Sample \cup {NoSample}]
    BY <1>4, <1>7, <1>9
  <2>3. at' \in 0 .. nbElts'
    BY <1>1, <1>4, <1>5 DEF TypeOK
  <2>4. scratch' = NoScratch \/ DOMAIN scratch' = 0 .. width' - 1
    BY <1>4
  <2>5. /\ build' \in Builds /\ codec' \in Codecs /\ original' \in Rasters
        /\ header' \in Headers /\ corrupt' \in BOOLEAN /\ inPlace' \in BOOLEAN
        /\ weights' \in Weights \cup {<<>>}
    BY <1>1, <1>5 DEF TypeOK
  <2> QED
    BY <1>4, <2>1, <2>2, <2>3, <2>4, <2>5 DEF TypeOK
<1>11. SessionInv'
  <2>1. inPlace' => src' = dst'
    BY <1>5, <1>7
  <2>2. inPlace => DecodesInPlace(codec)
    BY <1>1 DEF SessionInv, Decoding, Kernel
  <2> QED
    BY <1>1, <1>4, <1>5, <2>1, <2>2 DEF SessionInv, DecodesInPlace
<1>12. HeaderInv'
  <2>1. Accepted /\ WholeRows
    BY <1>1 DEF HeaderInv, Kernel
  <2> QED
    BY <1>4, <2>1 DEF HeaderInv
<1>13. UnwrittenInv' /\ EncodeInv'
  BY DEF UnwrittenInv, EncodeInv
<1>14. PlaceInv'
  <2>1. at < nbElts /\ (codec # "planar_zigzag_pfor" => Column(at) = 0)
    BY <1>1 DEF PlaceInv
  <2>2. i' \in 0 .. n' /\ n' = RunLength'
    BY <1>4, <1>6
  <2>3. Interior /\ codec \in {"planar"} \cup Zigzags => j >= 1
    BY DEF Wrote
  <2> QED
    BY <1>4, <1>5, <2>1, <2>2, <2>3 DEF PlaceInv, Zigzags
<1>15. DecodedInv'
  <2>1. Reached' = at + j
    BY <1>5 DEF Reached
  <2>2. ASSUME NEW p \in 0 .. at + j - 1
        PROVE  dst'[p] \in Sample /\ (~corrupt => dst'[p] = original[p])
    <3>1. CASE p < r
      <4>1. p \in Positions /\ p \notin r .. h - 1 /\ p \in 0 .. r - 1
        BY <1>2, <1>3, <1>6, <3>1
      <4>2. \A q \in 0 .. r - 1 :
              dst[q] \in Sample /\ (~corrupt => dst[q] = original[q])
        BY <1>1, <1>6 DEF DecodedInv, Kernel
      <4> QED
        BY <1>7, <4>1, <4>2
    <3>2. CASE p >= r
      <4>1. p \in r .. h - 1 /\ p \in r .. at + j - 1
        BY <1>2, <1>6, <3>2
      <4> QED
        BY <1>7, <4>1
    <3> QED
      BY <1>2, <1>6, <3>1, <3>2
  <2>3. \A p \in 0 .. Reached' - 1 :
          dst'[p] \in Sample /\ (~corrupt' => dst'[p] = original'[p])
    <3>1. PICK e \in Int : e = at + j /\ Reached' = e
      BY <1>2, <1>6, <2>1
    <3>2. \A p \in 0 .. e - 1 :
            dst'[p] \in Sample /\ (~corrupt => dst'[p] = original[p])
      <4>1. 0 .. e - 1 = 0 .. at + j - 1
        BY <1>2, <1>6, <3>1
      <4> QED
        BY <2>2, <4>1
    <3> QED
      BY <1>5, <3>1, <3>2
  <2> QED
    BY <2>3 DEF DecodedInv
<1>16. StreamInv'
  <2>1. Unread' = IF codec = "wp_static" /\ Interior THEN at + RunLength ELSE at + j
    BY <1>4, <1>5 DEF Unread, Folding, Reached
  <2>2. PICK u \in Nat : u = Unread' /\ u >= h
    BY <1>2, <1>3, <1>6, <2>1 DEF Wrote
  <2>3. PICK v \in Nat : v = Unread /\ v <= u
    <3>1. CASE Folding
      <4>1. Unread = at + n /\ n = RunLength
        BY <1>1, <3>1 DEF Folding, Unread, PlaceInv
      <4>2. Unread' = at + RunLength
        BY <2>1, <3>1 DEF Folding
      <4> QED
        BY <1>2, <1>3, <2>2, <4>1, <4>2
    <3>2. CASE ~Folding
      BY <1>6, <1>2, <2>2, <3>2 DEF Unread
    <3> QED
      BY <3>1, <3>2
  <2>4. ASSUME NEW p \in Positions, ~corrupt, p >= u \/ ~inPlace
        PROVE  src'[p] = Encoded(original, p)
    <3>1. p >= v \/ ~inPlace
      BY <1>2, <2>3, <2>4
    <3>2. src[p] = Encoded(original, p)
      BY <1>1, <2>3, <2>4, <3>1 DEF StreamInv, Decoding, Kernel
    <3>3. CASE ~inPlace
      BY <1>7, <3>2, <3>3
    <3>4. CASE inPlace
      <4>1. p \notin r .. h - 1
        BY <1>2, <1>6, <2>2, <2>4, <3>4
      <4> QED
        BY <1>7, <1>8, <3>2, <3>4, <4>1
    <3> QED
      BY <3>3, <3>4
  <2>5. \A p : Encoded(original, p)' = Encoded(original, p)
    BY ResidualsKept
  <2>6. ~corrupt' => \A p \in Positions' :
          p >= Unread' \/ ~inPlace' => src'[p] = Encoded(original, p)'
    BY <1>4, <1>5, <2>2, <2>4, <2>5
  <2>7. src' \in [Positions' -> Sample]
    BY <1>4, <1>9
  <2> QED
    BY <2>6, <2>7 DEF StreamInv
<1> QED
  BY <1>10, <1>11, <1>12, <1>13, <1>14, <1>15, <1>16 DEF Common

\* Nothing is written before the first sample of a run is decoded.
LEMMA NothingWritten ==
  ASSUME IInv, phase = "run", UNCHANGED <<src, dst>>,
         ~(Interior /\ codec \in {"planar"} \cup Zigzags)
  PROVE  Wrote(0, at)
<1>1. /\ at \in Nat /\ nbElts \in Nat /\ at < nbElts
      /\ src \in [Positions -> Sample]
      /\ dst \in [Positions -> Sample \cup {NoSample}]
      /\ RunLength \in Nat \ {0} /\ (inPlace => src = dst)
  BY KernelFacts, RunFacts DEF IInv, PlaceInv, SessionInv
<1>2. Reached = at
  BY <1>1 DEF Reached
<1>3. at <= IF codec = "wp_static" /\ Interior THEN at + RunLength ELSE at + 0
  BY <1>1
<1>4. 0 \in 0 .. RunLength /\ at \in Reached .. nbElts /\ at <= at + 0
      /\ at + 0 <= at /\ Reached <= at + 0
  BY <1>1, <1>2
<1>5. src' = IF inPlace THEN dst' ELSE src
  BY <1>1
<1>6. \A p : p \notin Reached .. at - 1 /\ p \notin Reached .. at + 0 - 1
  BY <1>1, <1>2
<1> QED
  BY <1>1, <1>3, <1>4, <1>5, <1>6 DEF Wrote

\* One sample is stored, the next one of the run.
LEMMA SampleWritten ==
  ASSUME IInv, phase \in {"run", "row"}, NEW p \in Positions, p = Reached,
         NEW j \in 1 .. RunLength, p + 1 = at + j,
         NEW v \in Sample, ~corrupt => v = original[p], Store(p, v)
  PROVE  Wrote(j, p + 1)
<1>1. /\ at \in Nat /\ nbElts \in Nat /\ Positions = 0 .. nbElts - 1
      /\ src \in [Positions -> Sample]
      /\ dst \in [Positions -> Sample \cup {NoSample}]
      /\ RunLength \in Nat \ {0} /\ (inPlace => src = dst)
      /\ j \in Nat /\ p \in Nat /\ at + RunLength <= nbElts
  BY KernelFacts, RunFacts DEF IInv, SessionInv
<1>2. /\ dst' = [dst EXCEPT ![p] = v]
      /\ src' = IF inPlace THEN [src EXCEPT ![p] = v] ELSE src
  BY DEF Store
<1>3. src' = IF inPlace THEN dst' ELSE src
  BY <1>1, <1>2
<1>4. /\ dst' \in [Positions -> Sample \cup {NoSample}] /\ dst'[p] = v
      /\ \A q \in Positions : q # p => dst'[q] = dst[q]
  BY <1>1, <1>2
<1>5. Reached .. (p + 1) - 1 = {p} /\ Reached .. at + j - 1 = {p}
  BY <1>1
<1>6. /\ j \in 0 .. RunLength /\ p + 1 \in Reached .. nbElts
      /\ Reached <= at + j /\ at + j <= p + 1 /\ j >= 1
      /\ p + 1 <= at + RunLength
  BY <1>1
<1>7. p + 1 <= IF codec = "wp_static" /\ Interior THEN at + RunLength ELSE at + j
  BY <1>1, <1>6
<1> QED
  BY <1>3, <1>4, <1>5, <1>6, <1>7 DEF Wrote

\* A run in the middle of a row goes on with the sample before it.
LEMMA InitialFacts ==
  ASSUME IInv, phase \in {"run", "row"}
  PROVE  Initial \in Sample /\ (~corrupt => Initial = West(original, at))
<1>1. /\ Tiled /\ at \in Positions /\ at \in Nat /\ Positions = 0 .. nbElts - 1
      /\ Column(at) \in 0 .. width - 1 /\ width \in Nat /\ nbElts \in Nat
  BY KernelFacts
<1>2. CASE Column(at) = 0
  BY <1>2, SampleClosed DEF Initial, West
<1>3. CASE Column(at) # 0
  <2>1. Column(at) > 0
    BY <1>1, <1>3
  <2>2. at - 1 \in Nat
    BY <1>1, <2>1, LeftOf
  <2>3. Reached >= at /\ Reached \in Int
    BY <1>1 DEF IInv, PlaceInv, Reached, TypeOK
  <2>4. at - 1 \in 0 .. Reached - 1
    BY <1>1, <2>2, <2>3
  <2>5. dst[at - 1] \in Sample /\ (~corrupt => dst[at - 1] = original[at - 1])
    BY <2>4 DEF IInv, DecodedInv, Kernel
  <2> QED
    BY <1>3, <2>1, <2>5 DEF Initial, West
<1> QED
  BY <1>2, <1>3

\* The run that begins at the first column finds nothing in the west.
LEMMA NothingWest ==
  ASSUME IInv, phase \in {"run", "row"}, codec # "planar_zigzag_pfor"
  PROVE  /\ Column(at) = 0 /\ RunLength = width /\ West(original, at) = 0
         /\ 0 \in Sample
BY RunFacts, SampleClosed DEF West

\* The first sample of a run is in the west of the second one.
LEMMA SecondWest ==
  ASSUME IInv, phase \in {"run", "row"}, NEW k \in Nat \ {0}, k <= RunLength - 1
  PROVE  West(original, at + k) = original[at + k - 1]
<1>1. k \in 0 .. RunLength - 1
  BY RunFacts
<1>2. Column(at) \in Nat /\ at \in Nat /\ width \in Nat
  BY KernelFacts
<1>3. Column(at + k) > 0
  BY <1>1, <1>2, InRun
<1>4. PICK q \in Nat : q = at + k
  BY <1>2
<1>5. West(original, q) = original[q - 1]
  BY <1>3, <1>4 DEF West
<1>6. q - 1 = at + k - 1
  BY <1>2, <1>4
<1> QED
  BY <1>4, <1>5, <1>6

\* A step of a run leaves the carry, the folded row and the scratch of other
\* codecs alone.
LEMMA Elsewhere ==
  ASSUME UNCHANGED codec
  PROVE  /\ codec # "wp_static" => FoldedInv'
         /\ ~Summed => CarryInv'
         /\ codec # "average" => ScratchInv'
BY DEF FoldedInv, Folding, CarryInv, Summed, ScratchInv

\* The carry that a run begins with.
LEMMA CarryBegins ==
  ASSUME IInv, phase \in {"run", "row"}, UNCHANGED Static,
         UNCHANGED <<at, corrupt>>, n' = RunLength, NEW k \in Nat, i' = k,
         build \in Builds,
         ~corrupt /\ k < RunLength => carry' = West(original, at + k)
  PROVE  CarryInv'
<1>1. /\ RunLength \in Nat \ {0} /\ Lanes \in {2, 4, 8, 16, 32}
  BY RunFacts, PredictorAssumption DEF Lanes, IsBuild
<1>2. Lanes' = Lanes
  BY GeometryKept
<1>3. \A p : West(original, p)' = West(original, p)
  BY ResidualsKept
<1>4. PICK q : q = at + k
  OBVIOUS
<1>5. West(original, q)' = West(original, q)
  BY <1>3
<1>6. West(original, at + i)' = West(original, at + k)
  BY <1>4, <1>5
<1>7. i' + Lanes' <= n' => k < RunLength
  BY <1>1, <1>2
<1> QED
  BY <1>6, <1>7 DEF CarryInv

\* The parts of the invariant that a step of a kernel has to show.
LEMMA Assembled ==
  ASSUME Common', FoldedInv', CarryInv', ScratchInv'
  PROVE  IInv'
BY DEF Common, IInv

-----------------------------------------------------------------------------
(* The rows of a kernel                                                    *)

\* The start of a row changes nothing else.
LEMMA BeginFacts ==
  ASSUME NEW first, NEW sum, Begin(first, sum), UNCHANGED <<build, weights>>
  PROVE  /\ UNCHANGED Static /\ UNCHANGED <<at, corrupt, inPlace>>
         /\ phase' = "row" /\ n' = RunLength /\ i' = first /\ carry' = sum
         /\ scratch' = scratch
BY DEF Begin, Static

\* The rows that are scanned without a row above.
LEMMA ScanStep ==
  ASSUME IInv, Scan, UNCHANGED <<build, weights>>
  PROVE  IInv'
<1>1. /\ phase = "run" /\ Begin(0, 0) /\ UNCHANGED <<src, dst>>
      /\ codec = "delta_w" \/ (codec \in {"planar", "wp_static"} /\ ~Interior)
  BY DEF Scan
<1>2. /\ UNCHANGED Static /\ UNCHANGED <<at, corrupt, inPlace>>
      /\ phase' = "row" /\ n' = RunLength /\ i' = 0 /\ carry' = 0
      /\ scratch' = scratch
  BY <1>1, BeginFacts
<1>3. Wrote(0, at)
  BY <1>1, NothingWritten DEF Zigzags
<1>4. 0 \in Sample /\ West(original, at) = 0 /\ at + 0 = at /\ build \in Builds
      /\ (scratch' = NoScratch \/ DOMAIN scratch' = 0 .. width - 1)
  BY <1>1, <1>2, NothingWest, KernelFacts DEF IInv, TypeOK
<1>5. Common'
  BY <1>1, <1>2, <1>3, <1>4, RowStep
<1>6. codec' = codec /\ codec' # "average" /\ Interior' = Interior
  BY <1>1, <1>2, RunKept DEF Static
<1>7. FoldedInv'
  BY <1>1, <1>6 DEF FoldedInv, Folding
<1>8. CarryInv'
  BY <1>1, <1>2, <1>4, CarryBegins
<1>9. ScratchInv'
  BY <1>6 DEF ScratchInv
<1> QED
  BY <1>5, <1>7, <1>8, <1>9, Assembled

\* decode_planar_kernel.c, frow.
LEMMA FRowStep ==
  ASSUME IInv, FRow, UNCHANGED <<build, weights>>
  PROVE  IInv'
<1>1. PICK first : first = Plus(src[at], dst[at - width])
  OBVIOUS
<1>2. /\ phase = "run" /\ codec = "planar" /\ Interior
      /\ Store(at, first) /\ Begin(1, first)
  BY <1>1 DEF FRow
<1>3. /\ UNCHANGED Static /\ UNCHANGED <<at, corrupt, inPlace>>
      /\ phase' = "row" /\ n' = RunLength /\ i' = 1 /\ carry' = first
      /\ scratch' = scratch
  BY <1>2, BeginFacts
<1>4. /\ TypeOK /\ Tiled /\ at \in Positions /\ at \in Nat
      /\ original \in [Positions -> Sample] /\ src \in [Positions -> Sample]
      /\ RunLength \in Nat \ {0} /\ Column(at) = 0 /\ build \in Builds
  BY <1>2, KernelFacts, RunFacts, NothingWest DEF IInv, TypeOK
<1>5. dst[at - width] \in Sample /\ (~corrupt => dst[at - width] = North(original, at))
  <2>1. 0 \in 0 .. RunLength - 1 /\ at + 0 = at
    BY <1>4
  <2> QED
    BY <1>2, <2>1, NorthDecoded
<1>6. first \in Sample /\ (~corrupt => first = original[at])
  <2>1. first \in Sample
    BY <1>1, <1>4, <1>5, SampleClosed
  <2>2. ASSUME ~corrupt PROVE first = original[at]
    <3>1. src[at] = Encoded(original, at)
      BY <1>2, <1>4, <2>2, StillEncoded DEF Reached, Folding
    <3>2. Residual(src[at]) = src[at]
      BY <1>2 DEF Residual, Zigzags
    <3> QED
      BY <1>1, <1>2, <1>4, <1>5, <2>2, <3>1, <3>2, PlanarRestores
  <2> QED
    BY <2>1, <2>2
<1>7. Wrote(1, at + 1)
  <2>1. at = Reached /\ 1 \in 1 .. RunLength
    BY <1>2, <1>4 DEF Reached
  <2> QED
    BY <1>2, <1>4, <1>6, <2>1, SampleWritten
<1>8. Common'
  <2>1. scratch' = NoScratch \/ DOMAIN scratch' = 0 .. width - 1
    BY <1>3, <1>4 DEF TypeOK
  <2> QED
    BY <1>2, <1>3, <1>6, <1>7, <2>1, RowStep
<1>9. CarryInv'
  <2>1. ASSUME ~corrupt, 1 < RunLength PROVE first = West(original, at + 1)
    <3>1. West(original, at + 1) = original[at + 1 - 1] /\ at + 1 - 1 = at
      BY <1>2, <1>4, <2>1, SecondWest
    <3> QED
      BY <1>6, <2>1, <3>1
  <2> QED
    BY <1>2, <1>3, <1>4, <2>1, CarryBegins
<1> QED
  BY <1>2, <1>3, <1>8, <1>9, Elsewhere, Assembled DEF Static

\* decode_planar_zigzag_kernel.c and the blocks of PFOR, in the first row of a
\* plane.
LEMMA ZScanStep ==
  ASSUME IInv, ZScan, UNCHANGED <<build, weights>>
  PROVE  IInv'
<1>1. /\ phase = "run" /\ Begin(0, Initial) /\ UNCHANGED <<src, dst>>
      /\ codec \in Zigzags /\ ~Interior
  BY DEF ZScan
<1>2. /\ UNCHANGED Static /\ UNCHANGED <<at, corrupt, inPlace>>
      /\ phase' = "row" /\ n' = RunLength /\ i' = 0 /\ carry' = Initial
      /\ scratch' = scratch
  BY <1>1, BeginFacts
<1>3. Wrote(0, at)
  BY <1>1, NothingWritten
<1>4. Initial \in Sample /\ (~corrupt => Initial = West(original, at))
  BY <1>1, InitialFacts
<1>5. Common'
  <2>1. scratch' = NoScratch \/ DOMAIN scratch' = 0 .. width - 1
    BY <1>2 DEF IInv, TypeOK
  <2> QED
    BY <1>1, <1>2, <1>3, <1>4, <2>1, RowStep
<1>6. CarryInv'
  <2>1. at + 0 = at /\ build \in Builds
    BY <1>1, KernelFacts DEF IInv, TypeOK
  <2> QED
    BY <1>1, <1>2, <1>4, <2>1, CarryBegins
<1> QED
  BY <1>1, <1>2, <1>5, <1>6, Elsewhere, Assembled DEF Static, Zigzags

\* decode_planar_zigzag_kernel.c, zfrow: the first sample of a run below the
\* first row.
LEMMA ZFRowStep ==
  ASSUME IInv, ZFRow, UNCHANGED <<build, weights>>
  PROVE  IInv'
<1>1. PICK first :
        first = IF Column(at) = 0
                  THEN Plus(Unzigzag(src[at]), dst[at - width])
                  ELSE Minus(Plus(Plus(Initial, Unzigzag(src[at])),
                                  dst[at - width]), dst[at - width - 1])
  OBVIOUS
<1>2. /\ phase = "run" /\ codec \in Zigzags /\ Interior
      /\ Store(at, first) /\ Begin(1, first)
  BY <1>1 DEF ZFRow
<1>3. /\ UNCHANGED Static /\ UNCHANGED <<at, corrupt, inPlace>>
      /\ phase' = "row" /\ n' = RunLength /\ i' = 1 /\ carry' = first
      /\ scratch' = scratch
  BY <1>2, BeginFacts
<1>4. /\ TypeOK /\ Tiled /\ at \in Positions /\ at \in Nat
      /\ original \in [Positions -> Sample] /\ src \in [Positions -> Sample]
      /\ RunLength \in Nat \ {0} /\ Column(at) \in 0 .. width - 1
      /\ build \in Builds
  BY <1>2, KernelFacts, RunFacts DEF IInv, TypeOK
<1>5. PICK d, a, b, c :
        /\ d = Residual(src[at]) /\ d = Unzigzag(src[at]) /\ a = Initial
        /\ b = dst[at - width] /\ c = dst[at - width - 1]
  BY <1>2 DEF Residual
<1>6. /\ b \in Sample /\ (~corrupt => b = North(original, at))
      /\ Column(at) > 0 =>
           c \in Sample /\ (~corrupt => c = NorthWest(original, at))
  <2>1. 0 \in 0 .. RunLength - 1 /\ at + 0 = at
    BY <1>4
  <2> QED
    BY <1>2, <1>5, <2>1, NorthDecoded
<1>7. a \in Sample /\ (~corrupt => a = West(original, at))
  BY <1>2, <1>5, InitialFacts
<1>8. d \in Sample
  BY <1>4, <1>5, ZigzagUndone
<1>9. ASSUME ~corrupt
      PROVE  /\ Column(at) = 0 => Plus(d, b) = original[at]
             /\ Column(at) > 0 => Minus(Plus(Plus(a, d), b), c) = original[at]
  <2>1. src[at] = Encoded(original, at)
    BY <1>2, <1>4, <1>9, StillEncoded DEF Reached, Folding
  <2> QED
    BY <1>2, <1>4, <1>5, <1>6, <1>7, <1>9, <2>1, PlanarRestores
<1>10. first \in Sample /\ (~corrupt => first = original[at])
  <2>1. CASE Column(at) = 0
    <3>1. first = Plus(d, b)
      BY <1>1, <1>5, <2>1
    <3> QED
      BY <1>6, <1>8, <1>9, <2>1, <3>1, SampleClosed
  <2>2. CASE Column(at) # 0
    <3>1. first = Minus(Plus(Plus(a, d), b), c) /\ Column(at) > 0
      BY <1>1, <1>4, <1>5, <2>2
    <3> QED
      BY <1>6, <1>7, <1>8, <1>9, <3>1, SampleClosed
  <2> QED
    BY <2>1, <2>2
<1>11. Wrote(1, at + 1)
  <2>1. at = Reached /\ 1 \in 1 .. RunLength
    BY <1>2, <1>4 DEF Reached
  <2> QED
    BY <1>2, <1>4, <1>10, <2>1, SampleWritten
<1>12. Common'
  <2>1. scratch' = NoScratch \/ DOMAIN scratch' = 0 .. width - 1
    BY <1>3, <1>4 DEF TypeOK
  <2> QED
    BY <1>2, <1>3, <1>10, <1>11, <2>1, RowStep
<1>13. CarryInv'
  <2>1. ASSUME ~corrupt, 1 < RunLength PROVE first = West(original, at + 1)
    <3>1. West(original, at + 1) = original[at + 1 - 1] /\ at + 1 - 1 = at
      BY <1>2, <1>4, <2>1, SecondWest
    <3> QED
      BY <1>10, <2>1, <3>1
  <2> QED
    BY <1>2, <1>3, <1>4, <2>1, CarryBegins
<1> QED
  BY <1>2, <1>3, <1>12, <1>13, Elsewhere, Assembled DEF Static, Zigzags

\* wp_static: what the rows above say is what they said to the encoder.
LEMMA FoldDecoded ==
  ASSUME IInv, phase = "run", Interior, ~corrupt, NEW k \in 0 .. RunLength - 1
  PROVE  Weighted(dst, at + k) = Weighted(original, at + k)
<1>1. /\ Tiled /\ at \in Positions /\ at \in Nat /\ width \in Nat \ {0}
      /\ Column(at) \in 0 .. width - 1 /\ nbElts \in Nat
      /\ Positions = 0 .. nbElts - 1 /\ Row(at) \in Nat
  BY KernelFacts
<1>2. PICK q \in Positions :
        /\ q = at + k /\ q \in Nat /\ Column(q) = Column(at) + k
        /\ Row(q) = Row(at)
  BY InRun
<1>3. /\ Row(q) > 0 /\ Column(q) \in Nat
      /\ q - width \in 0 .. at - 1 /\ dst[q - width] = North(original, q)
      /\ Column(q) > 0 => dst[q - width - 1] = NorthWest(original, q)
  <2>1. Column(q) \in Nat /\ Row(q) > 0
    BY <1>1, <1>2 DEF Interior
  <2> QED
    BY <1>2, <2>1, NorthDecoded
<1>4. \A p \in 0 .. at - 1 : dst[p] = original[p]
  <2>1. Reached = at
    BY <1>1 DEF Reached
  <2>2. \A p \in 0 .. Reached - 1 : dst[p] = original[p]
    BY DEF IInv, DecodedInv, Kernel
  <2> QED
    BY <1>1, <2>1, <2>2
<1>5. North(dst, q) = North(original, q) /\ NorthWest(dst, q) = NorthWest(original, q)
  BY <1>3 DEF North, NorthWest
<1>6. NorthEast(dst, q) = NorthEast(original, q)
  <2>1. CASE Column(q) + 1 < width
    <3>1. q - width \in Positions /\ Column(q - width) = Column(q)
      BY <1>1, <1>2, <1>3, Above
    <3>2. k + 1 <= width - 1 /\ k \in Nat
      BY <1>1, <1>2, <2>1
    <3>3. q - width + 1 \in 0 .. at - 1
      BY <1>1, <1>2, <1>3, <3>2
    <3> QED
      BY <1>4, <3>3 DEF NorthEast
  <2>2. CASE ~(Column(q) + 1 < width)
    BY <2>2 DEF NorthEast
  <2> QED
    BY <2>1, <2>2
<1>7. NorthNorth(dst, q) = NorthNorth(original, q)
  <2>1. CASE Row(q) > 1
    <3>1. PICK r \in Positions : r = q - width /\ Row(r) = Row(q) - 1
      BY <1>1, <1>2, <1>3, Above
    <3>2. Row(r) > 0
      BY <1>1, <1>2, <2>1, <3>1
    <3>3. r - width \in Positions
      BY <1>1, <3>1, <3>2, Above
    <3>4. q - 2 * width = r - width /\ q - 2 * width \in 0 .. at - 1
      BY <1>1, <1>2, <1>3, <3>1, <3>3
    <3> QED
      BY <1>4, <3>4 DEF NorthNorth
  <2>2. CASE ~(Row(q) > 1)
    BY <2>2 DEF NorthNorth
  <2> QED
    BY <2>1, <2>2
<1> QED
  BY <1>2, <1>5, <1>6, <1>7 DEF Weighted

\* What is added to a residual leaves the difference to the west.
LEMMA WestLeft ==
  ASSUME NEW v \in Sample, NEW a \in Sample, NEW b \in Sample
  PROVE  Plus(Minus(v, Plus(a, b)), b) = Minus(v, a)
BY ModulusAssumption, SMT DEF Sample, Plus, Minus

\* decode_wp_static_kernel.c, krow: the row is folded as a whole, with 32 bits
\* where they are enough.
LEMMA KRowStep ==
  ASSUME IInv, KRow, UNCHANGED <<build, weights>>
  PROVE  IInv'
<1> DEFINE Bits(q) == IF FoldsShort(Column(q)) THEN 2 * SampleBits ELSE FoldBits
           Folded(q) == Plus(src[q], Fold(dst, q, Bits(q)))
           InRow(q) == q \in at .. at + width - 1
<1>1. /\ phase = "run" /\ codec = "wp_static" /\ Interior /\ Begin(0, 0)
      /\ dst' = [q \in Positions |-> IF InRow(q) THEN Folded(q) ELSE dst[q]]
      /\ src' = IF inPlace
                  THEN [q \in Positions |-> IF InRow(q) THEN Folded(q) ELSE src[q]]
                  ELSE src
  BY DEF KRow
<1>2. /\ UNCHANGED Static /\ UNCHANGED <<at, corrupt, inPlace>>
      /\ phase' = "row" /\ n' = RunLength /\ i' = 0 /\ carry' = 0
      /\ scratch' = scratch
  BY <1>1, BeginFacts
<1>3. /\ TypeOK /\ Tiled /\ SessionInv /\ at \in Positions /\ at \in Nat
      /\ original \in [Positions -> Sample] /\ src \in [Positions -> Sample]
      /\ dst \in [Positions -> Sample \cup {NoSample}]
      /\ RunLength \in Nat \ {0} /\ build \in Builds
      /\ Column(at) = 0 /\ RunLength = width /\ West(original, at) = 0
      /\ 0 \in Sample /\ at + RunLength <= nbElts /\ nbElts \in Nat
      /\ Positions = 0 .. nbElts - 1 /\ (inPlace => src = dst)
  BY <1>1, KernelFacts, RunFacts, NothingWest DEF IInv, TypeOK, SessionInv
<1>4. dst \in [Positions -> Int] /\ original \in [Positions -> Int]
  BY <1>3, ModulusAssumption DEF Sample, NoSample
<1>5. \A q \in Positions : Fold(dst, q, Bits(q)) = Fold(dst, q, FoldBits)
  <2>1. ASSUME NEW q \in Positions, FoldsShort(Column(q))
        PROVE  Fold(dst, q, 2 * SampleBits) = Fold(dst, q, FoldBits)
    <3>1. PICK c : c = Column(q)
      OBVIOUS
    <3> QED
      BY <1>1, <1>3, <1>4, <2>1, <3>1, FoldAgrees
  <2> QED
    BY <2>1
<1>6. \A q \in Positions : Folded(q) \in Sample
  <2>1. ASSUME NEW q \in Positions PROVE Folded(q) \in Sample
    <3>1. FoldBits \in 0 .. 4 * SampleBits
      BY PowerFacts DEF FoldBits
    <3>2. Fold(dst, q, FoldBits) \in Sample
      BY <1>1, <1>3, <1>4, <3>1, FoldType
    <3> QED
      BY <1>3, <1>5, <3>2, SampleClosed
  <2> QED
    BY <2>1
<1>7. ASSUME ~corrupt, NEW q \in Positions, InRow(q)
      PROVE  Folded(q) = Minus(original[q], West(original, q))
  <2>1. PICK k \in 0 .. RunLength - 1 : q = at + k
    <3>1. q - at \in 0 .. RunLength - 1 /\ q = at + (q - at)
      BY <1>3, <1>7
    <3> QED
      BY <3>1
  <2>2. Weighted(dst, q) = Weighted(original, q)
    BY <1>1, <1>7, <2>1, FoldDecoded
  <2>3. PICK f : f = Fold(original, q, FoldBits) /\ f = Fold(dst, q, FoldBits)
    BY <2>2, FoldForm
  <2>4. q >= Reached
    BY <1>1, <1>3, <1>7 DEF Reached
  <2>5. src[q] = Encoded(original, q)
    BY <1>1, <1>7, <2>4, StillEncoded DEF Folding
  <2>6. Encoded(original, q) = Minus(original[q], Plus(West(original, q), f))
    BY <1>1, <2>3 DEF Encoded, EncodeWpStatic
  <2>7. original[q] \in Sample /\ West(original, q) \in Sample /\ f \in Sample
    <3>1. FoldBits \in 0 .. 4 * SampleBits
      BY PowerFacts DEF FoldBits
    <3>2. Fold(original, q, FoldBits) \in Sample
      BY <1>1, <1>3, <1>4, <3>1, FoldType
    <3>3. original[q] \in Sample /\ West(original, q) \in Sample
      BY <1>3, NeighbourTypes
    <3> QED
      BY <2>3, <3>2, <3>3
  <2> QED
    BY <1>5, <2>3, <2>5, <2>6, <2>7, WestLeft
<1> HIDE DEF Folded
<1>8. /\ dst' \in [Positions -> Sample \cup {NoSample}]
      /\ \A q \in Positions : ~InRow(q) => dst'[q] = dst[q]
      /\ \A q \in Positions : InRow(q) => dst'[q] = Folded(q)
      /\ src' = IF inPlace THEN dst' ELSE src
  BY <1>1, <1>3, <1>6
<1>9. \A q : InRow(q) => q \in Positions
  BY <1>3
<1>10. Wrote(0, at + width)
  <2>1. Reached = at
    BY <1>1, <1>3 DEF Reached
  <2>2. Reached .. at + width - 1 = at .. at + width - 1 /\ Reached .. at + 0 - 1 = {}
    BY <1>3, <2>1
  <2>3. /\ 0 \in 0 .. RunLength /\ at + width \in Reached .. nbElts
        /\ Reached <= at + 0 /\ at + 0 <= at + width
    BY <1>3, <2>1
  <2>4. \A q \in at .. at + width - 1 : dst'[q] \in Sample
    BY <1>6, <1>8, <1>9
  <2>5. codec \notin {"planar"} \cup Zigzags
    BY <1>1 DEF Zigzags
  <2>6. /\ \A q \in Positions : q \notin Reached .. at + width - 1 => dst'[q] = dst[q]
        /\ \A q \in Reached .. at + width - 1 : dst'[q] \in Sample
        /\ \A q \in Reached .. at + 0 - 1 : dst'[q] = original[q]
    BY <1>8, <2>2, <2>4
  <2>7. at + width <= IF codec = "wp_static" /\ Interior THEN at + RunLength
                       ELSE at + 0
    BY <1>1, <1>3
  <2>8. PICK j, hi : j = 0 /\ hi = at + width
    OBVIOUS
  <2>9. /\ j \in 0 .. RunLength /\ hi \in Reached .. nbElts
        /\ Reached <= at + j /\ at + j <= hi
        /\ hi <= IF codec = "wp_static" /\ Interior THEN at + RunLength ELSE at + j
    BY <2>3, <2>7, <2>8
  <2>10. /\ \A q \in Positions : q \notin Reached .. hi - 1 => dst'[q] = dst[q]
         /\ \A q \in Reached .. hi - 1 : dst'[q] \in Sample
         /\ \A q \in Reached .. at + j - 1 : dst'[q] = original[q]
    <3>1. hi - 1 = at + width - 1 /\ at + j - 1 = at + 0 - 1
      BY <1>3, <2>8
    <3> QED
      BY <2>6, <3>1
  <2>11. Wrote(j, hi)
    BY <1>8, <2>5, <2>9, <2>10 DEF Wrote
  <2> QED
    BY <2>8, <2>11
<1>11. Common'
  <2>1. scratch' = NoScratch \/ DOMAIN scratch' = 0 .. width - 1
    BY <1>2, <1>3 DEF TypeOK
  <2> QED
    BY <1>1, <1>2, <1>3, <1>10, <2>1, RowStep
<1>12. CarryInv'
  <2>1. at + 0 = at
    BY <1>3
  <2> QED
    BY <1>1, <1>2, <1>3, <2>1, CarryBegins
<1>13. FoldedInv'
  <2>1. \A q \in at .. at + width - 1 :
          /\ dst'[q] \in Sample
          /\ ~corrupt => dst'[q] = Minus(original[q], West(original, q))
    BY <1>6, <1>7, <1>8, <1>9
  <2>2. \A q : West(original, q)' = West(original, q)
    BY <1>2, ResidualsKept
  <2>3. at' + i' .. at' + n' - 1 = at .. at + width - 1
    BY <1>2, <1>3
  <2> QED
    BY <1>2, <2>1, <2>2, <2>3 DEF FoldedInv, Static
<1> QED
  BY <1>1, <1>2, <1>11, <1>12, <1>13, Elsewhere, Assembled DEF Static

\* A range of samples is stored, from the next one of the run on.
Overwritten(lo, hi, f) ==
  LET Out(s) == [q \in Positions |-> IF q \in lo .. hi - 1 THEN f[q] ELSE s[q]] IN
  dst' = Out(dst) /\ src' = IF inPlace THEN Out(src) ELSE src

\* A decoder that wrote so many samples of the run, and all of them right, is
\* that much further.
LEMMA RangeWritten ==
  ASSUME IInv, phase \in {"run", "row"}, NEW lo, lo = Reached,
         NEW j \in 1 .. RunLength, NEW hi, hi = at + j, lo <= hi,
         NEW f \in [lo .. hi - 1 -> Sample],
         ~corrupt => \A q \in lo .. hi - 1 : f[q] = original[q],
         Overwritten(lo, hi, f)
  PROVE  Wrote(j, hi)
<1>1. /\ at \in Nat /\ nbElts \in Nat /\ Positions = 0 .. nbElts - 1
      /\ src \in [Positions -> Sample]
      /\ dst \in [Positions -> Sample \cup {NoSample}]
      /\ RunLength \in Nat \ {0} /\ (inPlace => src = dst)
      /\ at + RunLength <= nbElts
  BY KernelFacts, RunFacts DEF IInv, SessionInv
<1>2. lo \in Nat
  <2>1. CASE phase = "row"
    BY <1>1, <2>1 DEF Reached, IInv, PlaceInv
  <2>2. CASE phase = "run"
    BY <1>1, <2>2 DEF Reached
  <2> QED
    BY <2>1, <2>2
<1>3. j \in Nat /\ hi \in Nat /\ hi <= nbElts /\ hi <= at + RunLength /\ j >= 1
      /\ j \in 0 .. RunLength /\ hi \in lo .. nbElts
  BY <1>1, <1>2
<1>4. src' = IF inPlace THEN dst' ELSE src
  BY <1>1 DEF Overwritten
<1>5. \A q \in lo .. hi - 1 : q \in Positions
  BY <1>1, <1>2, <1>3
<1>6. /\ dst' \in [Positions -> Sample \cup {NoSample}]
      /\ \A q \in Positions : q \notin lo .. hi - 1 => dst'[q] = dst[q]
      /\ \A q \in lo .. hi - 1 : dst'[q] \in Sample
      /\ ~corrupt => \A q \in lo .. hi - 1 : dst'[q] = original[q]
  BY <1>1, <1>5 DEF Overwritten
<1>7. hi <= IF codec = "wp_static" /\ Interior THEN at + RunLength ELSE at + j
  BY <1>3
<1>8. Reached = lo /\ at + j = hi
  OBVIOUS
<1>9. /\ hi \in Reached .. nbElts /\ Reached <= at + j /\ at + j <= hi
      /\ \A q \in Positions : q \notin Reached .. hi - 1 => dst'[q] = dst[q]
      /\ \A q \in Reached .. hi - 1 : dst'[q] \in Sample
  BY <1>3, <1>6, <1>8
<1>10. ~corrupt => \A q \in Reached .. at + j - 1 : dst'[q] = original[q]
  <2>1. at + j - 1 = hi - 1
    BY <1>1, <1>3
  <2> QED
    BY <1>6, <1>8, <2>1
<1> QED
  BY <1>3, <1>4, <1>6, <1>7, <1>9, <1>10 DEF Wrote

\* decode_delta_n_kernel.c: the row above is added.
LEMMA NorthRowStep ==
  ASSUME IInv, NorthRow, UNCHANGED <<build, weights>>
  PROVE  IInv'
<1>1. /\ phase = "run" /\ codec = "delta_n" /\ Begin(width, 0) /\ src' = src
      /\ dst' = [q \in Positions |->
                   IF q \in at .. at + width - 1
                     THEN Plus(src[q], North(dst, q)) ELSE dst[q]]
  BY DEF NorthRow
<1>2. /\ UNCHANGED Static /\ UNCHANGED <<at, corrupt, inPlace>>
      /\ phase' = "row" /\ n' = RunLength /\ i' = width /\ carry' = 0
      /\ scratch' = scratch
  BY <1>1, BeginFacts
<1>3. /\ TypeOK /\ Tiled /\ at \in Positions /\ at \in Nat
      /\ original \in [Positions -> Sample] /\ src \in [Positions -> Sample]
      /\ RunLength = width /\ width \in Nat \ {0} /\ 0 \in Sample
      /\ at + RunLength <= nbElts /\ nbElts \in Nat /\ Row(at) \in Nat
      /\ Positions = 0 .. nbElts - 1
  BY <1>1, KernelFacts, RunFacts, NothingWest DEF IInv
<1>4. ~inPlace
  BY <1>1 DEF IInv, SessionInv, Decoding, Kernel, DecodesInPlace
<1>5. PICK hi \in Nat : hi = at + width
  BY <1>3
<1>6. ASSUME NEW q \in at .. hi - 1
      PROVE  /\ Plus(src[q], North(dst, q)) \in Sample
             /\ ~corrupt => Plus(src[q], North(dst, q)) = original[q]
  <2>1. PICK k \in 0 .. RunLength - 1 : q = at + k
    <3>1. q - at \in 0 .. RunLength - 1 /\ q = at + (q - at)
      BY <1>3, <1>5
    <3> QED
      BY <3>1
  <2>2. q \in Positions /\ Row(q) = Row(at)
    BY <1>1, <2>1, InRun
  <2>3. North(dst, q) \in Sample /\ (~corrupt => North(dst, q) = North(original, q))
    <3>1. CASE Interior
      <4>1. Row(q) > 0
        BY <2>2, <3>1 DEF Interior
      <4>2. dst[q - width] \in Sample
            /\ (~corrupt => dst[q - width] = North(original, q))
        BY <1>1, <2>1, <3>1, NorthDecoded
      <4> QED
        BY <4>1, <4>2 DEF North
    <3>2. CASE ~Interior
      BY <1>3, <2>2, <3>2 DEF North, Interior
    <3> QED
      BY <3>1, <3>2
  <2>4. Plus(src[q], North(dst, q)) \in Sample
    BY <1>3, <2>2, <2>3, SampleClosed
  <2>5. ASSUME ~corrupt PROVE Plus(src[q], North(dst, q)) = original[q]
    <3>1. q >= Reached
      BY <1>1, <1>3 DEF Reached
    <3>2. src[q] = Encoded(original, q)
      BY <1>1, <2>2, <2>5, <3>1, StillEncoded DEF Folding
    <3>3. Encoded(original, q) = Minus(original[q], North(original, q))
      BY <1>1 DEF Encoded, EncodeDeltaN
    <3>4. original[q] \in Sample
      BY <1>3, <2>2
    <3> QED
      BY <2>3, <2>5, <3>2, <3>3, <3>4, Restores
  <2> QED
    BY <2>4, <2>5
<1>7. Wrote(width, at + width)
  <2>1. PICK lo, j : lo = at /\ j = width
    OBVIOUS
  <2>2. PICK f : f = [q \in lo .. hi - 1 |-> Plus(src[q], North(dst, q))]
    OBVIOUS
  <2>3. lo = Reached /\ j \in 1 .. RunLength /\ lo <= hi /\ hi = at + j
    BY <1>1, <1>3, <1>5, <2>1 DEF Reached
  <2>4. f \in [lo .. hi - 1 -> Sample]
        /\ (~corrupt => \A q \in lo .. hi - 1 : f[q] = original[q])
    BY <1>6, <2>1, <2>2
  <2>5. dst' = [q \in Positions |-> IF q \in lo .. hi - 1 THEN f[q] ELSE dst[q]]
    BY <1>1, <1>3, <1>5, <2>1, <2>2
  <2>6. Overwritten(lo, hi, f)
    BY <1>1, <1>4, <2>5 DEF Overwritten
  <2>7. Wrote(j, hi)
    BY <1>1, <2>3, <2>4, <2>6, RangeWritten
  <2> QED
    BY <1>5, <2>1, <2>7
<1>8. Common'
  <2>1. scratch' = NoScratch \/ DOMAIN scratch' = 0 .. width - 1
    BY <1>2, <1>3 DEF TypeOK
  <2> QED
    BY <1>1, <1>2, <1>3, <1>7, <2>1, RowStep
<1> QED
  BY <1>1, <1>2, <1>8, Elsewhere, Assembled DEF Static, Summed

\* decode_average_kernel.c: what does not depend on the west is computed ahead.
LEMMA AverageRowStep ==
  ASSUME IInv, AverageRow, UNCHANGED <<build, weights>>
  PROVE  IInv'
<1>1. /\ phase = "run" /\ codec = "average" /\ UNCHANGED Static
      /\ UNCHANGED <<at, corrupt, inPlace>> /\ UNCHANGED <<src, dst>>
      /\ phase' = "row" /\ n' = width /\ i' = 0 /\ carry' = carry
  BY DEF AverageRow, Static
<1>2. /\ TypeOK /\ Tiled /\ at \in Nat
      /\ original \in [Positions -> Sample] /\ src \in [Positions -> Sample]
      /\ RunLength = width /\ width \in Nat \ {0} /\ Column(at) = 0
  BY <1>1, KernelFacts, RunFacts, NothingWest DEF IInv
<1>3. Wrote(0, at)
  BY <1>1, NothingWritten DEF Zigzags
<1>4. scratch' = NoScratch \/ DOMAIN scratch' = 0 .. width - 1
  <2>1. CASE scratch = NoScratch \/ ~Interior
    BY <1>2, <2>1 DEF AverageRow, TypeOK
  <2>2. CASE ~(scratch = NoScratch \/ ~Interior)
    BY <2>2 DEF AverageRow
  <2> QED
    BY <2>1, <2>2
<1>5. Common'
  <2>1. n' = RunLength /\ carry' \in Sample
    BY <1>1, <1>2 DEF TypeOK
  <2> QED
    BY <1>1, <1>3, <1>4, <2>1, RowStep
<1>6. ScratchInv'
  <2> SUFFICES ASSUME scratch' # NoScratch, Interior'
               PROVE  \A c \in 0 .. width' - 1 :
                        /\ scratch'[c].b \in Sample /\ scratch'[c].l \in {0, 1}
                        /\ ~corrupt' =>
                             LET up == original'[at' + c - width'] IN
                             /\ scratch'[c].b =
                                  Plus(Encoded(original, at + c)', up \div 2)
                             /\ scratch'[c].l = up % 2
    BY DEF ScratchInv
  <2>1. Interior /\ width' = width
    BY <1>1, RunKept, GeometryKept
  <2>2. scratch # NoScratch
    BY <2>1 DEF AverageRow
  <2>3. scratch' = [c \in 0 .. width - 1 |->
                      [b |-> Plus(src[at + c], dst[at + c - width] \div 2),
                       l |-> dst[at + c - width] % 2]]
    BY <2>1, <2>2 DEF AverageRow
  <2>4. \A p : Encoded(original, p)' = Encoded(original, p)
    BY <1>1, ResidualsKept
  <2>5. ASSUME NEW c \in 0 .. width - 1
        PROVE  /\ scratch'[c].b \in Sample /\ scratch'[c].l \in {0, 1}
               /\ ~corrupt =>
                    /\ scratch'[c].b = Plus(Encoded(original, at + c),
                                            original[at + c - width] \div 2)
                    /\ scratch'[c].l = original[at + c - width] % 2
    <3>1. c \in 0 .. RunLength - 1 /\ c \in Nat
      BY <1>2
    <3>2. PICK q \in Positions : q = at + c /\ q \in Nat /\ Row(q) = Row(at)
      BY <1>1, <3>1, InRun
    <3>3. /\ dst[q - width] \in Sample
          /\ ~corrupt => dst[q - width] = North(original, q)
      BY <1>1, <2>1, <3>1, <3>2, NorthDecoded
    <3>4. North(original, q) = original[q - width]
      BY <2>1, <3>2 DEF North, Interior
    <3>5. PICK up \in Sample : up = dst[q - width]
      BY <3>3
    <3>6. up \div 2 \in Sample /\ up % 2 \in {0, 1}
      BY ModulusAssumption, Halves DEF Sample
    <3>7. /\ scratch'[c].b = Plus(src[q], up \div 2) /\ scratch'[c].l = up % 2
      <4>1. scratch'[c] = [b |-> Plus(src[at + c], dst[at + c - width] \div 2),
                           l |-> dst[at + c - width] % 2]
        BY <2>3
      <4>2. at + c - width = q - width
        BY <1>2, <3>1, <3>2
      <4> QED
        BY <3>2, <3>5, <4>1, <4>2
    <3>8. Plus(src[q], up \div 2) \in Sample
      BY <1>2, <3>2, <3>6, SampleClosed
    <3>9. ~corrupt => src[q] = Encoded(original, q)
      <4>1. q >= Reached
        BY <1>1, <1>2, <3>1, <3>2 DEF Reached
      <4> QED
        BY <1>1, <4>1, StillEncoded DEF Folding
    <3>10. q - width = at + c - width
      BY <1>2, <3>1, <3>2
    <3> QED
      BY <3>2, <3>3, <3>4, <3>5, <3>6, <3>7, <3>8, <3>9, <3>10
  <2>6. ASSUME NEW c \in 0 .. width - 1
        PROVE  Encoded(original, at + c)' = Encoded(original, at + c)
    <3>1. PICK q : q = at + c
      OBVIOUS
    <3>2. Encoded(original, q)' = Encoded(original, q)
      BY <2>4
    <3> QED
      BY <1>1, <3>1, <3>2
  <2>7. original' = original /\ at' = at /\ corrupt' = corrupt
    BY <1>1 DEF Static
  <2> QED
    BY <2>1, <2>5, <2>6, <2>7
<1> QED
  BY <1>1, <1>5, <1>6, Elsewhere, Assembled DEF Static, Summed

-----------------------------------------------------------------------------
(* The samples of a row                                                    *)

\* Where the kernel is within a row.
LEMMA RowFacts ==
  ASSUME IInv, phase = "row"
  PROVE  /\ n = RunLength /\ n \in Nat \ {0} /\ i \in 0 .. n /\ i \in Nat
         /\ at \in Nat /\ Reached = at + i
         /\ Interior /\ codec \in {"planar"} \cup Zigzags => i >= 1
BY KernelFacts, RunFacts DEF IInv, PlaceInv, Reached

\* geozl_vscan and decode_*_kernel.c: the rest of a run, one sample at a time.
LEMMA RunTailStep ==
  ASSUME IInv, RunTail, UNCHANGED <<build, weights>>
  PROVE  IInv'
<1>1. PICK acc, v :
        /\ acc = IF i > 0 THEN dst[at + i - 1] ELSE Initial
        /\ v = Plus(acc, Term(at + i))
  OBVIOUS
<1>2. /\ phase = "row" /\ codec \notin {"average", "delta_n"}
      /\ i < n /\ i + Lanes > n /\ Store(at + i, v) /\ i' = i + 1
      /\ UNCHANGED Static /\ UNCHANGED <<at, corrupt, inPlace>>
      /\ phase' = "row" /\ n' = n /\ carry' = carry /\ scratch' = scratch
  BY <1>1 DEF RunTail, Static
<1>3. /\ TypeOK /\ Tiled /\ original \in [Positions -> Sample]
      /\ n = RunLength /\ n \in Nat \ {0} /\ i \in Nat /\ at \in Nat
      /\ Reached = at + i /\ build \in Builds
  BY <1>2, KernelFacts, RowFacts DEF IInv, TypeOK
<1>4. i \in 0 .. RunLength - 1 /\ i \in i .. n - 1
  BY <1>2, <1>3
<1>5. PICK p \in Positions : p = at + i /\ p \in Nat
  BY <1>2, <1>4, InRun
<1>6. acc \in Sample /\ (~corrupt => acc = West(original, p))
  BY <1>1, <1>2, <1>5, WestDecoded
<1>7. /\ Term(p) \in Sample
      /\ ~corrupt => Plus(West(original, p), Term(p)) = original[p]
  <2>1. Summed
    BY <1>2 DEF Summed
  <2> QED
    BY <1>2, <1>4, <1>5, <2>1, TermFacts
<1>8. v \in Sample /\ (~corrupt => v = original[p])
  BY <1>1, <1>5, <1>6, <1>7, SampleClosed
<1>9. Wrote(i + 1, p + 1)
  <2>1. PICK j \in 1 .. RunLength : j = i + 1 /\ p + 1 = at + j
    BY <1>3, <1>4, <1>5
  <2>2. Store(p, v) /\ p = Reached
    BY <1>2, <1>3, <1>5
  <2>3. Wrote(j, p + 1)
    BY <1>2, <1>8, <2>1, <2>2, SampleWritten
  <2> QED
    BY <2>1, <2>3
<1>10. Common'
  <2>1. /\ scratch' = NoScratch \/ DOMAIN scratch' = 0 .. width - 1
        /\ carry' \in Sample
    BY <1>2, <1>3 DEF TypeOK
  <2>2. n' = RunLength
    BY <1>2, <1>3
  <2> QED
    BY <1>2, <1>9, <2>1, <2>2, RowStep
<1>11. CarryInv'
  <2>1. Lanes' = Lanes
    BY <1>2, GeometryKept
  <2>2. Lanes \in Nat
    BY <1>3, PredictorAssumption DEF IsBuild, Lanes
  <2>3. ~(i' + Lanes' <= n')
    BY <1>2, <1>3, <2>1, <2>2
  <2> QED
    BY <2>3 DEF CarryInv
<1>12. FoldedInv'
  <2> SUFFICES ASSUME Folding'
               PROVE  \A q \in at' + i' .. at' + n' - 1 :
                        /\ dst'[q] \in Sample
                        /\ ~corrupt' => dst'[q] = Minus(original'[q],
                                                   West(original, q)')
    BY DEF FoldedInv
  <2>1. Folding
    BY <1>2, RunKept DEF Folding, Static
  <2>2. \A q : West(original, q)' = West(original, q)
    BY <1>2, ResidualsKept
  <2>3. ASSUME NEW q \in at' + i' .. at' + n' - 1
        PROVE  q \in at + i .. at + n - 1 /\ dst'[q] = dst[q]
    <3>1. q \in at + i + 1 .. at + n - 1
      BY <1>2, <1>3
    <3>2. dst' = [dst EXCEPT ![at + i] = v]
      BY <1>2 DEF Store
    <3>3. q # at + i
      BY <1>3, <3>1
    <3>4. q \in Positions
      BY <1>3, <1>2, <3>1, KernelFacts, RunFacts
    <3>5. dst'[q] = dst[q]
      BY <1>3, <3>2, <3>3, <3>4 DEF TypeOK
    <3> QED
      BY <1>3, <3>1, <3>5
  <2> QED
    BY <1>2, <2>1, <2>2, <2>3 DEF IInv, FoldedInv, Static
<1> QED
  BY <1>2, <1>10, <1>11, <1>12, Elsewhere, Assembled DEF Static

\* decode_average_kernel.c: the chain from west to east, with the part that was
\* computed ahead or without.
LEMMA AverageSampleStep ==
  ASSUME IInv, AverageSample, UNCHANGED <<build, weights>>
  PROVE  IInv'
<1>1. PICK prev, v :
        /\ prev = IF i = 0 THEN 0 ELSE dst[(at + i) - 1]
        /\ v = IF scratch # NoScratch /\ Interior THEN Chained(i, prev)
               ELSE Plus(src[at + i], Average(prev, North(dst, at + i)))
  OBVIOUS
<1>2. /\ phase = "row" /\ codec = "average" /\ i < n
      /\ Store(at + i, v) /\ i' = i + 1
      /\ UNCHANGED Static /\ UNCHANGED <<at, corrupt, inPlace>>
      /\ phase' = "row" /\ n' = n /\ carry' = carry /\ scratch' = scratch
  <2> DEFINE w == IF i = 0 THEN 0 ELSE dst[(at + i) - 1]
             u == IF scratch # NoScratch /\ Interior THEN Chained(i, w)
                  ELSE Plus(src[at + i], Average(w, North(dst, at + i)))
  <2>1. prev = w /\ v = u
    BY <1>1
  <2>2. Store(at + i, u)
    BY DEF AverageSample
  <2> HIDE DEF u
  <2>3. Store(at + i, v)
    BY <2>1, <2>2
  <2> QED
    BY <2>3 DEF AverageSample, Static
<1>3. /\ TypeOK /\ Tiled /\ original \in [Positions -> Sample]
      /\ src \in [Positions -> Sample] /\ Row(at) \in Nat
      /\ n = RunLength /\ n \in Nat \ {0} /\ i \in Nat /\ at \in Nat
      /\ Reached = at + i /\ Column(at) = 0 /\ RunLength = width
  BY <1>2, KernelFacts, RowFacts, NothingWest DEF IInv
<1>4. i \in 0 .. RunLength - 1
  BY <1>2, <1>3
<1>5. PICK p \in Positions : p = at + i /\ p \in Nat /\ Row(p) = Row(at)
  BY <1>2, <1>4, InRun
<1>6. prev \in Sample /\ (~corrupt => prev = West(original, p))
  <2>1. (at + i) - 1 = at + i - 1
    BY <1>3
  <2>2. prev = IF i > 0 THEN dst[at + i - 1] ELSE Initial
    BY <1>1, <1>3, <2>1 DEF Initial
  <2> QED
    BY <1>2, <1>5, <2>2, WestDecoded
<1>7. North(dst, p) \in Sample /\ (~corrupt => North(dst, p) = North(original, p))
  <2>1. CASE Interior
    <3>1. Row(p) > 0
      BY <1>5, <2>1 DEF Interior
    <3>2. dst[p - width] \in Sample
          /\ (~corrupt => dst[p - width] = North(original, p))
      BY <1>2, <1>4, <1>5, <2>1, NorthDecoded
    <3> QED
      BY <3>1, <3>2 DEF North
  <2>2. CASE ~Interior
    BY <1>3, <1>5, <2>2, SampleClosed DEF North, Interior
  <2> QED
    BY <2>1, <2>2
<1>8. src[p] \in Sample
      /\ (~corrupt => src[p] = Minus(original[p], Average(West(original, p),
                                                         North(original, p))))
  <2>1. ASSUME ~corrupt PROVE src[p] = Encoded(original, p)
    <3>1. p >= Reached
      BY <1>3, <1>5
    <3> QED
      BY <1>2, <2>1, <3>1, StillEncoded DEF Folding
  <2>2. Encoded(original, p) = Minus(original[p], Average(West(original, p),
                                                         North(original, p)))
    BY <1>2 DEF Encoded, EncodeAverage
  <2> QED
    BY <1>3, <2>1, <2>2
<1>9. PICK o \in Sample, w \in Sample, u \in Sample :
        o = original[p] /\ w = West(original, p) /\ u = North(original, p)
  BY <1>3, NeighbourTypes
<1>10. Average(w, u) \in Sample
       /\ Plus(Minus(o, Average(w, u)), Average(w, u)) = o
       /\ Minus(o, Average(w, u)) \in Sample
  BY AverageIsFloor, SampleClosed, Restores
<1>11. v \in Sample /\ (~corrupt => v = original[p])
  <2>1. CASE ~(scratch # NoScratch /\ Interior)
    <3>1. v = Plus(src[p], Average(prev, North(dst, p)))
      BY <1>1, <1>5, <2>1
    <3>2. Average(prev, North(dst, p)) \in Sample
      BY <1>6, <1>7, AverageIsFloor
    <3> QED
      BY <1>6, <1>7, <1>8, <1>9, <1>10, <3>1, <3>2, SampleClosed
  <2>2. CASE scratch # NoScratch /\ Interior
    <3>1. PICK b, l : b = scratch[i].b /\ l = scratch[i].l
      OBVIOUS
    <3>2. i \in 0 .. width - 1
      BY <1>3, <1>4
    <3>3. /\ b \in Sample /\ l \in {0, 1}
          /\ ~corrupt =>
               LET up == original[at + i - width] IN
               /\ b = Plus(Encoded(original, at + i), up \div 2)
               /\ l = up % 2
      BY <1>2, <2>2, <3>1, <3>2 DEF IInv, ScratchInv
    <3>4. v = Plus(Plus(b, prev \div 2), IF prev % 2 = 1 THEN l ELSE 0)
      BY <1>1, <2>2, <3>1 DEF Chained
    <3>5. v \in Sample
      <4>1. prev \div 2 \in Sample /\ 0 \in Sample /\ 1 \in Sample
        BY <1>6, ModulusAssumption DEF Sample
      <4>2. PICK z \in Sample : z = IF prev % 2 = 1 THEN l ELSE 0
        BY <3>3, <4>1
      <4> QED
        BY <3>3, <3>4, <4>1, <4>2, SampleClosed
    <3>6. ASSUME ~corrupt PROVE v = original[p]
      <4>1. original[at + i - width] = u
        <5>1. Row(p) > 0
          BY <1>5, <2>2 DEF Interior
        <5>2. p - width = at + i - width
          BY <1>3, <1>5
        <5> QED
          BY <1>9, <5>1, <5>2 DEF North
      <4>2. Encoded(original, at + i) = Minus(o, Average(w, u))
        BY <1>2, <1>5, <1>9 DEF Encoded, EncodeAverage
      <4>3. PICK r \in Sample : r = Minus(o, Average(w, u))
        BY <1>10
      <4>4. b = Plus(r, u \div 2) /\ l = u % 2 /\ prev = w
        BY <1>6, <1>9, <3>3, <3>6, <4>1, <4>2, <4>3
      <4>5. v = Plus(Plus(Plus(r, u \div 2), w \div 2),
                     IF w % 2 = 1 THEN u % 2 ELSE 0)
        BY <3>4, <4>4
      <4>6. v = Plus(r, Average(w, u))
        BY <4>5, SplitAverageAgrees
      <4> QED
        BY <1>9, <1>10, <4>3, <4>6
    <3> QED
      BY <3>5, <3>6
  <2> QED
    BY <2>1, <2>2
<1>12. Wrote(i + 1, p + 1)
  <2>1. PICK j \in 1 .. RunLength : j = i + 1 /\ p + 1 = at + j
    BY <1>3, <1>4, <1>5
  <2>2. Store(p, v) /\ p = Reached
    BY <1>2, <1>3, <1>5
  <2>3. Wrote(j, p + 1)
    BY <1>2, <1>11, <2>1, <2>2, SampleWritten
  <2> QED
    BY <2>1, <2>3
<1>13. Common'
  <2>1. /\ scratch' = NoScratch \/ DOMAIN scratch' = 0 .. width - 1
        /\ carry' \in Sample /\ n' = RunLength
    BY <1>2, <1>3 DEF TypeOK
  <2> QED
    BY <1>2, <1>12, <2>1, RowStep
<1>14. ScratchInv'
  <2> SUFFICES ASSUME scratch # NoScratch, Interior', NEW c \in 0 .. width' - 1
               PROVE  /\ scratch'[c].b \in Sample /\ scratch'[c].l \in {0, 1}
                      /\ ~corrupt' =>
                           LET up == original'[at' + c - width'] IN
                           /\ scratch'[c].b =
                                Plus(Encoded(original, at + c)', up \div 2)
                           /\ scratch'[c].l = up % 2
    BY <1>2 DEF ScratchInv
  <2>1. Interior /\ width' = width
    BY <1>2, RunKept, GeometryKept
  <2>2. PICK q : q = at + c
    OBVIOUS
  <2>3. Encoded(original, q)' = Encoded(original, q)
    BY <1>2, ResidualsKept
  <2>4. Encoded(original, at + c)' = Encoded(original, at + c)
    BY <1>2, <2>2, <2>3
  <2>5. c \in 0 .. width - 1
    BY <2>1
  <2>6. /\ scratch[c].b \in Sample /\ scratch[c].l \in {0, 1}
        /\ ~corrupt =>
             LET up == original[at + c - width] IN
             /\ scratch[c].b = Plus(Encoded(original, at + c), up \div 2)
             /\ scratch[c].l = up % 2
    BY <1>2, <2>1, <2>5 DEF IInv, ScratchInv
  <2>7. original' = original
    BY <1>2 DEF Static
  <2> QED
    BY <1>2, <2>1, <2>4, <2>6, <2>7
<1> QED
  BY <1>2, <1>13, <1>14, Elsewhere, Assembled DEF Static, Summed

\* Sums of samples are samples, whatever is summed.
LEMMA RungType ==
  ASSUME NEW m \in Nat \ {0}, NEW y \in [0 .. m - 1 -> Sample],
         NEW k \in Nat \ {0}, NEW part \in Nat \ {0}
  PROVE  Rung(y, k, part) \in [0 .. m - 1 -> Sample]
<1>1. CASE k >= part
  BY <1>1 DEF Rung
<1>2. CASE k < part
  <2>1. Rung(y, k, part) =
          [l \in 0 .. m - 1 |->
             IF l % part >= k THEN Plus(y[l], y[l - k]) ELSE y[l]]
    BY <1>2 DEF Rung
  <2>2. ASSUME NEW l \in 0 .. m - 1, l % part >= k
        PROVE  Plus(y[l], y[l - k]) \in Sample
    <3>1. l \in Nat /\ k \in Nat /\ l % part \in Int
      OBVIOUS
    <3>2. l - k \in Nat
      BY <2>2, <3>1, RemainderDown
    <3>3. l - k \in 0 .. m - 1
      BY <3>1, <3>2
    <3> QED
      BY <3>3, SampleClosed
  <2> QED
    BY <2>1, <2>2
<1> QED
  BY <1>1, <1>2

\* The rungs of a register give a register of samples.
LEMMA LadderType ==
  ASSUME NEW m \in Nat \ {0}, NEW y \in [0 .. m - 1 -> Sample],
         NEW part \in Nat \ {0}
  PROVE  Ladder(y, part) \in [0 .. m - 1 -> Sample]
<1>1. PICK x2, x4, x8, x16 :
        /\ x2 = Rung(y, 1, part) /\ x4 = Rung(x2, 2, part)
        /\ x8 = Rung(x4, 4, part) /\ x16 = Rung(x8, 8, part)
  OBVIOUS
<1>2. x2 \in [0 .. m - 1 -> Sample]
  BY <1>1, RungType
<1>3. x4 \in [0 .. m - 1 -> Sample]
  BY <1>1, <1>2, RungType
<1>4. x8 \in [0 .. m - 1 -> Sample]
  BY <1>1, <1>3, RungType
<1>5. x16 \in [0 .. m - 1 -> Sample]
  BY <1>1, <1>4, RungType
<1>6. Rung(x16, 16, part) \in [0 .. m - 1 -> Sample]
  BY <1>5, RungType
<1>7. Ladder(y, part) = Rung(x16, 16, part)
  BY <1>1 DEF Ladder
<1> QED
  BY <1>6, <1>7

\* geozl_vprefix: so do its halves, put together.
LEMMA PrefixType ==
  ASSUME build \in Builds, NEW y \in [0 .. Lanes - 1 -> Sample]
  PROVE  VPrefix(y) \in [0 .. Lanes - 1 -> Sample]
<1>1. Lanes \in {2, 4, 8, 16, 32} /\ build.halves \in BOOLEAN
  BY PredictorAssumption DEF IsBuild, Lanes
<1>2. PICK m \in Nat \ {0}, h \in Nat \ {0} :
        m = Lanes /\ h = Lanes \div 2 /\ h <= m
  BY <1>1
<1>3. CASE ~build.halves
  <2>1. Ladder(y, m) \in [0 .. m - 1 -> Sample]
    BY <1>2, LadderType
  <2> QED
    BY <1>2, <1>3, <2>1 DEF VPrefix
<1>4. CASE build.halves
  <2>1. PICK z \in [0 .. m - 1 -> Sample] : z = Ladder(y, h)
    BY <1>2, LadderType
  <2>2. VPrefix(y) =
          [l \in 0 .. m - 1 |-> IF l < h THEN z[l] ELSE Plus(z[l], z[h - 1])]
    BY <1>2, <1>4, <2>1 DEF VPrefix
  <2>3. h - 1 \in 0 .. m - 1
    BY <1>2
  <2> QED
    BY <1>2, <2>1, <2>2, <2>3, SampleClosed
<1> QED
  BY <1>3, <1>4

\* geozl_vscan: the sums of a register, on top of the carry.
LEMMA RegisterSums ==
  ASSUME IInv, phase = "row", Summed, i + Lanes <= n,
         NEW x, x = VPrefix([l \in 0 .. Lanes - 1 |-> Term(at + i + l)])
  PROVE  /\ Lanes \in Nat \ {0} /\ x \in [0 .. Lanes - 1 -> Sample]
         /\ carry \in Sample
         /\ ~corrupt => \A l \in 0 .. Lanes - 1 :
              Plus(carry, x[l]) = original[at + i + l]
<1>1. /\ TypeOK /\ build \in Builds /\ carry \in Sample
      /\ n = RunLength /\ n \in Nat \ {0} /\ i \in Nat /\ at \in Nat
      /\ Tiled /\ original \in [Positions -> Sample]
      /\ Column(at) \in 0 .. width - 1 /\ width \in Nat
  BY KernelFacts, RowFacts DEF IInv, TypeOK
<1>2. Lanes \in {2, 4, 8, 16, 32}
  BY <1>1, PredictorAssumption DEF IsBuild, Lanes
<1>3. PICK m \in Nat \ {0} : m = Lanes
  BY <1>2
<1>4. PICK y : y = [l \in 0 .. m - 1 |-> Term(at + i + l)]
  OBVIOUS
<1>5. ASSUME NEW l \in 0 .. m - 1
      PROVE  /\ at + i + l \in Positions /\ i + l \in 0 .. RunLength - 1
             /\ Term(at + i + l) \in Sample
             /\ ~corrupt => Plus(West(original, at + i + l), Term(at + i + l))
                              = original[at + i + l]
  <2>1. PICK k : k = i + l /\ k \in i .. n - 1 /\ k \in 0 .. RunLength - 1
    BY <1>1, <1>3
  <2>2. at + i + l = at + k
    BY <1>1, <2>1
  <2>3. /\ Term(at + k) \in Sample
        /\ ~corrupt => Plus(West(original, at + k), Term(at + k)) = original[at + k]
    BY <2>1, TermFacts
  <2> QED
    BY <2>1, <2>2, <2>3, InRun
<1>6. y \in [0 .. Lanes - 1 -> Sample] /\ x = VPrefix(y)
  BY <1>3, <1>4, <1>5
<1>7. x \in [0 .. Lanes - 1 -> Sample]
  BY <1>1, <1>6, PrefixType
<1>8. ASSUME ~corrupt
      PROVE  \A l \in 0 .. m - 1 : Plus(carry, x[l]) = original[at + i + l]
  <2>1. carry = West(original, at + i)
    BY <1>8 DEF IInv, CarryInv
  <2>2. PICK t : t = [l \in 0 .. m |-> IF l = 0 THEN carry
                                       ELSE original[at + i + (l - 1)]]
    OBVIOUS
  <2>3. t \in [0 .. Lanes -> Sample]
    <3>1. ASSUME NEW l \in 0 .. m, l # 0
          PROVE  original[at + i + (l - 1)] \in Sample
      <4>1. l - 1 \in 0 .. m - 1
        BY <3>1
      <4> QED
        BY <1>1, <1>5, <4>1
    <3> QED
      BY <1>1, <1>3, <2>2, <3>1
  <2>4. \A l \in 0 .. m - 1 : t[l + 1] = original[at + i + l]
    BY <1>1, <2>2
  <2>5. t[0] = carry
    BY <2>2
  <2>6. ASSUME NEW l \in 0 .. m - 1
        PROVE  t[l] = West(original, at + i + l)
    <3>1. CASE l = 0
      BY <1>1, <2>1, <2>5, <3>1
    <3>2. CASE l # 0
      <4>1. PICK k \in Nat \ {0} : k = i + l /\ k <= RunLength - 1
        BY <1>1, <1>5, <3>2
      <4>2. West(original, at + k) = original[at + k - 1]
        BY <4>1, SecondWest
      <4>3. at + k - 1 = at + i + (l - 1) /\ at + k = at + i + l
        BY <1>1, <4>1
      <4>4. t[l] = original[at + i + (l - 1)]
        BY <2>2, <3>2
      <4> QED
        BY <4>2, <4>3, <4>4
    <3> QED
      BY <3>1, <3>2
  <2>7. ASSUME NEW l \in 0 .. m - 1 PROVE y[l] = Minus(t[l + 1], t[l])
    <3>1. t[l] \in Sample /\ y[l] \in Sample
      BY <1>3, <1>6, <2>3
    <3>2. y[l] = Term(at + i + l)
      BY <1>4
    <3>3. t[l + 1] = Plus(t[l], y[l])
      BY <1>5, <1>8, <2>4, <2>6, <3>2
    <3> QED
      BY <3>1, <3>3, Difference
  <2>8. \A l \in 0 .. Lanes - 1 : y[l] = Minus(t[l + 1], t[l])
    BY <1>3, <2>7
  <2>9. \A l \in 0 .. Lanes - 1 : x[l] = Minus(t[l + 1], t[0])
    BY <1>1, <1>6, <2>3, <2>8, PrefixSums
  <2>10. ASSUME NEW l \in 0 .. m - 1
         PROVE  Plus(carry, x[l]) = original[at + i + l]
    <3>1. l + 1 \in 0 .. Lanes
      BY <1>3
    <3>2. t[l + 1] \in Sample
      BY <2>3, <3>1
    <3>3. x[l] = Minus(t[l + 1], carry)
      BY <1>3, <2>5, <2>9
    <3> QED
      BY <1>1, <2>4, <3>2, <3>3, Restores
  <2> QED
    BY <2>10
<1> QED
  BY <1>1, <1>3, <1>7, <1>8

\* A sum of samples does not depend on their order.
LEMMA PlusCommutes ==
  ASSUME NEW a \in Sample, NEW b \in Sample
  PROVE  Plus(a, b) = Plus(b, a)
BY ModulusAssumption DEF Sample, Plus

\* geozl_vscan: a register of samples at once.
LEMMA VectorStep ==
  ASSUME IInv, Vector, UNCHANGED <<build, weights>>
  PROVE  IInv'
<1>1. PICK x : x = VPrefix([l \in 0 .. Lanes - 1 |-> Term(at + i + l)])
  OBVIOUS
<1> DEFINE In(q) == q \in at + i .. at + i + Lanes - 1
<1>2. /\ phase = "row" /\ codec \notin {"average", "delta_n"} /\ i + Lanes <= n
      /\ dst' = [q \in Positions |->
                   IF In(q) THEN Plus(x[q - at - i], carry) ELSE dst[q]]
      /\ src' = IF inPlace
                  THEN [q \in Positions |->
                          IF In(q) THEN Plus(x[q - at - i], carry) ELSE src[q]]
                  ELSE src
      /\ carry' = Plus(carry, x[Lanes - 1]) /\ i' = i + Lanes
      /\ UNCHANGED Static /\ UNCHANGED <<at, corrupt, inPlace>>
      /\ phase' = "row" /\ n' = n /\ scratch' = scratch
  BY <1>1 DEF Vector, Static
<1>3. Summed
  BY <1>2 DEF Summed
<1>4. /\ Lanes \in Nat \ {0} /\ x \in [0 .. Lanes - 1 -> Sample]
      /\ carry \in Sample
      /\ ~corrupt => \A l \in 0 .. Lanes - 1 :
           Plus(carry, x[l]) = original[at + i + l]
  BY <1>1, <1>2, <1>3, RegisterSums
<1>5. /\ TypeOK /\ build \in Builds /\ n = RunLength /\ n \in Nat \ {0}
      /\ i \in Nat /\ at \in Nat /\ Reached = at + i
      /\ Positions = 0 .. nbElts - 1 /\ nbElts \in Nat
      /\ at + RunLength <= nbElts
  BY <1>2, KernelFacts, RowFacts, RunFacts DEF IInv, TypeOK
<1>6. PICK lo \in Nat, m \in Nat \ {0}, hi \in Nat, j \in 1 .. RunLength :
        /\ lo = at + i /\ m = Lanes /\ hi = at + j /\ j = i + Lanes
        /\ hi = lo + m
  <2>1. i + Lanes \in 1 .. RunLength
    BY <1>2, <1>4, <1>5
  <2>2. PICK j \in 1 .. RunLength : j = i + Lanes
    BY <2>1
  <2>3. at + j \in Nat /\ at + j = (at + i) + Lanes /\ at + i \in Nat
    BY <1>4, <1>5, <2>2
  <2> QED
    BY <1>4, <2>2, <2>3
<1>7. \A q : In(q) <=> q \in lo .. hi - 1
  <2>1. at + i + (Lanes - 1) = hi - 1
    BY <1>4, <1>5, <1>6
  <2> QED
    BY <1>6, <2>1
<1>8. PICK f : f = [q \in lo .. hi - 1 |-> Plus(x[q - at - i], carry)]
  OBVIOUS
<1>9. ASSUME NEW q \in lo .. hi - 1
      PROVE  /\ f[q] \in Sample /\ (~corrupt => f[q] = original[q])
             /\ f[q] = Plus(x[q - at - i], carry)
  <2>1. PICK l \in 0 .. m - 1 : q - at - i = l /\ q = at + i + l
    <3>1. q - lo \in 0 .. m - 1 /\ q - at - i = q - lo /\ q = at + i + (q - lo)
      BY <1>5, <1>6
    <3> QED
      BY <3>1
  <2>2. x[l] \in Sample
    BY <1>4, <1>6
  <2>3. f[q] = Plus(x[l], carry)
    BY <1>8, <2>1
  <2>4. f[q] = Plus(carry, x[l])
    BY <1>4, <2>2, <2>3, PlusCommutes
  <2> QED
    BY <1>4, <1>6, <1>8, <2>1, <2>2, <2>3, <2>4, SampleClosed
<1>10. Overwritten(lo, hi, f)
  <2>1. dst' = [q \in Positions |-> IF q \in lo .. hi - 1 THEN f[q] ELSE dst[q]]
    BY <1>2, <1>7, <1>9
  <2>2. inPlace =>
          src' = [q \in Positions |-> IF q \in lo .. hi - 1 THEN f[q] ELSE src[q]]
    BY <1>2, <1>7, <1>9
  <2> QED
    BY <1>2, <2>1, <2>2 DEF Overwritten
<1>11. Wrote(j, hi)
  <2>1. lo = Reached /\ lo <= hi /\ hi = at + j
    BY <1>5, <1>6
  <2>2. f \in [lo .. hi - 1 -> Sample]
        /\ (~corrupt => \A q \in lo .. hi - 1 : f[q] = original[q])
    BY <1>8, <1>9
  <2> QED
    BY <1>2, <1>10, <2>1, <2>2, RangeWritten
<1>12. Lanes - 1 \in 0 .. Lanes - 1 /\ x[Lanes - 1] \in Sample
  BY <1>4
<1>13. Common'
  <2>1. /\ scratch' = NoScratch \/ DOMAIN scratch' = 0 .. width - 1
        /\ carry' \in Sample /\ n' = RunLength /\ i' = j
    BY <1>2, <1>4, <1>5, <1>6, <1>12, SampleClosed DEF TypeOK
  <2> QED
    BY <1>2, <1>11, <2>1, RowStep
<1>14. CarryInv'
  <2>1. ASSUME ~corrupt, j < RunLength PROVE carry' = West(original, at + j)
    <3>1. carry' = original[at + i + (Lanes - 1)]
      BY <1>2, <1>4, <1>12, <2>1
    <3>2. j \in Nat \ {0} /\ j <= RunLength - 1
      BY <1>5, <2>1
    <3>3. West(original, at + j) = original[at + j - 1]
      BY <1>2, <3>2, SecondWest
    <3>4. at + j - 1 = at + i + (Lanes - 1)
      BY <1>4, <1>5, <1>6
    <3> QED
      BY <3>1, <3>3, <3>4
  <2>2. j \in Nat /\ n' = RunLength /\ i' = j
    BY <1>2, <1>5, <1>6
  <2> QED
    BY <1>2, <1>5, <2>1, <2>2, CarryBegins
<1>15. FoldedInv'
  <2> SUFFICES ASSUME Folding'
               PROVE  \A q \in at' + i' .. at' + n' - 1 :
                        /\ dst'[q] \in Sample
                        /\ ~corrupt' => dst'[q] = Minus(original'[q],
                                                   West(original, q)')
    BY DEF FoldedInv
  <2>1. Folding
    BY <1>2, RunKept DEF Folding, Static
  <2>2. \A q : West(original, q)' = West(original, q)
    BY <1>2, ResidualsKept
  <2>3. ASSUME NEW q \in at' + i' .. at' + n' - 1
        PROVE  q \in at + i .. at + n - 1 /\ dst'[q] = dst[q]
    <3>1. q \in hi .. at + n - 1
      BY <1>2, <1>6
    <3>2. q \notin lo .. hi - 1 /\ q \in at + i .. at + n - 1 /\ q \in Positions
      BY <1>5, <1>6, <3>1
    <3> QED
      BY <1>2, <1>7, <3>2
  <2> QED
    BY <1>2, <2>1, <2>2, <2>3 DEF IInv, FoldedInv, Static
<1> QED
  BY <1>2, <1>13, <1>14, <1>15, Elsewhere, Assembled DEF Static

-----------------------------------------------------------------------------
(* From run to run                                                         *)

\* The kernel is called for as many planes as there are, and every run but the
\* last one is followed by another.
LEMMA EndRunStep ==
  ASSUME IInv, EndRun, UNCHANGED <<build, weights>>
  PROVE  IInv'
<1>1. /\ phase = "row" /\ i = n /\ at' = at + n
      /\ phase' = IF at + n = planes * planeElts THEN "done"
                  ELSE IF (at + n) % planeElts = 0 /\ codec # "planar_zigzag_pfor"
                    THEN "plane" ELSE "run"
      /\ scratch' = NoScratch \/ scratch' = scratch
      /\ UNCHANGED Static /\ UNCHANGED <<corrupt, inPlace, src, dst, i, n, carry>>
  BY DEF EndRun, Static
<1>2. /\ TypeOK /\ SessionInv /\ HeaderInv /\ DecodedInv /\ StreamInv
  BY DEF IInv
<1>3. /\ Tiled /\ at \in Positions /\ n = RunLength /\ n \in Nat \ {0}
      /\ i \in Nat /\ at \in Nat /\ Reached = at + i
      /\ nbElts \in Nat \ {0} /\ Positions = 0 .. nbElts - 1
      /\ at + RunLength <= nbElts /\ nbElts = planes * planeElts
  BY <1>1, KernelFacts, RowFacts, RunFacts DEF Tiled
<1>4. /\ phase' = "done" => at' = nbElts
      /\ phase' \in {"plane", "run"} => at' < nbElts
      /\ phase' \in {"plane", "run", "done"} /\ at' \in Nat /\ at' > 0
      /\ at' <= nbElts /\ phase' \in Kernel
  BY <1>1, <1>3 DEF Kernel
<1>5. /\ width' = width /\ planes' = planes /\ nbElts' = nbElts
      /\ planeElts' = planeElts /\ Positions' = Positions
      /\ WholeRows' = WholeRows /\ FoldBits' = FoldBits
      /\ Accepted' = Accepted /\ Asked' = Asked
      /\ \A p : Column(p)' = Column(p)
  BY <1>1, GeometryKept, HeaderKept
<1>6. codec # "planar_zigzag_pfor" /\ at' < nbElts => Column(at)' = 0
  <2> SUFFICES ASSUME codec # "planar_zigzag_pfor", at' < nbElts
               PROVE  Column(at)' = 0
    OBVIOUS
  <2>1. RunLength = width /\ Column(at) = 0 /\ width \in Nat
    BY <1>1, RunFacts, KernelFacts
  <2>2. PICK q : q = at + (width - Column(at))
    OBVIOUS
  <2>3. q = nbElts \/ Column(q) = 0
    BY <1>3, <2>2, NextRow
  <2>4. q = at'
    BY <1>1, <1>3, <2>1, <2>2
  <2>5. Column(q)' = Column(q)
    BY <1>5
  <2>6. Column(at') = 0
    BY <1>3, <1>4, <2>3, <2>4
  <2>7. Column(at)' = (at' % planeElts') % width'
    BY DEF Column
  <2>8. Column(at') = (at' % planeElts) % width
    BY DEF Column
  <2> QED
    BY <1>5, <2>6, <2>7, <2>8
<1>7. TypeOK'
  <2>1. /\ build' \in Builds /\ codec' \in Codecs /\ original' \in Rasters
        /\ header' \in Headers /\ corrupt' \in BOOLEAN /\ inPlace' \in BOOLEAN
        /\ weights' \in Weights \cup {<<>>} /\ carry' \in Sample
        /\ i' \in 0 .. n' /\ n' \in 0 .. nbElts'
    BY <1>1, <1>2, <1>5 DEF TypeOK, Static
  <2>2. /\ src' \in [Positions' -> Sample \cup {NoSample}]
        /\ dst' \in [Positions' -> Sample \cup {NoSample}]
    BY <1>1, <1>2, <1>5 DEF TypeOK
  <2>3. scratch' = NoScratch \/ DOMAIN scratch' = 0 .. width' - 1
    BY <1>1, <1>2, <1>5 DEF TypeOK
  <2>4. at' \in 0 .. nbElts'
    BY <1>3, <1>4, <1>5
  <2> QED
    BY <1>4, <2>1, <2>2, <2>3, <2>4 DEF TypeOK
<1>8. SessionInv'
  BY <1>1, <1>2, <1>4, <1>5 DEF SessionInv, Static, Decoding, Kernel, DecodesInPlace
<1>9. HeaderInv' /\ UnwrittenInv' /\ EncodeInv'
  <2>1. Accepted /\ WholeRows
    BY <1>1, <1>2 DEF HeaderInv, Kernel
  <2> QED
    BY <1>4, <1>5, <2>1 DEF HeaderInv, UnwrittenInv, EncodeInv
<1>10. PlaceInv'
  <2>1. codec' = codec
    BY <1>1 DEF Static
  <2> QED
    BY <1>4, <1>5, <1>6, <2>1 DEF PlaceInv
<1>11. Reached' = Reached /\ Unread' = Reached' /\ Unread = Reached
  BY <1>1, <1>3, <1>4 DEF Reached, Unread, Folding
<1>12. DecodedInv'
  BY <1>1, <1>2, <1>11 DEF DecodedInv, Kernel, Static
<1>13. StreamInv'
  <2>1. src' \in [Positions' -> Sample]
    BY <1>1, <1>2, <1>5 DEF StreamInv, Decoding, Kernel
  <2>2. \A p : Encoded(original, p)' = Encoded(original, p)
    BY <1>1, ResidualsKept
  <2>3. ~corrupt => \A p \in Positions :
          p >= Unread \/ ~inPlace => src[p] = Encoded(original, p)
    BY <1>1, <1>2 DEF StreamInv, Decoding, Kernel
  <2> QED
    BY <1>1, <1>5, <1>11, <2>1, <2>2, <2>3 DEF StreamInv
<1>14. FoldedInv' /\ CarryInv' /\ ScratchInv'
  BY <1>4 DEF FoldedInv, Folding, CarryInv, ScratchInv
<1> QED
  BY <1>7, <1>8, <1>9, <1>10, <1>12, <1>13, <1>14, Assembled DEF Common

\* The kernel looks at the geometry before it writes.
LEMMA PlaneStep ==
  ASSUME IInv, Plane, UNCHANGED <<build, weights>>
  PROVE  IInv'
<1>1. /\ phase = "plane" /\ UNCHANGED Static
      /\ UNCHANGED <<corrupt, inPlace, src, dst, at, i, n, carry>>
      /\ phase' = IF WholeRows THEN "run" ELSE "error"
      /\ scratch' \in {NoScratch, Allocated, scratch}
  BY DEF Plane, Static, WholeRows
<1>2. /\ TypeOK /\ SessionInv /\ HeaderInv /\ UnwrittenInv /\ PlaceInv
      /\ DecodedInv /\ StreamInv
  BY DEF IInv
<1>3. /\ nbElts \in Nat \ {0} /\ Positions = 0 .. nbElts - 1
      /\ at \in Nat /\ at < nbElts
  BY <1>1, <1>2, StreamFacts DEF PlaceInv, TypeOK
<1>4. /\ width' = width /\ planes' = planes /\ nbElts' = nbElts
      /\ planeElts' = planeElts /\ Positions' = Positions
      /\ WholeRows' = WholeRows /\ FoldBits' = FoldBits
      /\ Accepted' = Accepted /\ Asked' = Asked
      /\ Column(at)' = Column(at)
  BY <1>1, GeometryKept, HeaderKept, RunKept
<1>5. TypeOK'
  <2>1. scratch' = NoScratch \/ DOMAIN scratch' = 0 .. width' - 1
    BY <1>1, <1>2, <1>4 DEF TypeOK, Allocated
  <2>2. phase' \in {"run", "error"}
    BY <1>1
  <2> QED
    BY <1>1, <1>2, <1>4, <2>1, <2>2 DEF TypeOK, Static
<1>6. SessionInv'
  BY <1>1, <1>2, <1>4 DEF SessionInv, Static, Decoding, Kernel, DecodesInPlace
<1>7. HeaderInv'
  BY <1>1, <1>2, <1>4 DEF HeaderInv, Decoding, Kernel
<1>8. UnwrittenInv'
  <2>1. ~WholeRows => at = 0 /\ corrupt
    BY <1>1, <1>2, <1>3 DEF HeaderInv, Decoding, Kernel
  <2>2. Untouched' = Untouched
    BY <1>4 DEF Untouched
  <2> QED
    BY <1>1, <1>2, <2>1, <2>2 DEF UnwrittenInv
<1>9. PlaceInv'
  <2>1. WholeRows /\ at = 0 => Column(at) = 0
    <3> SUFFICES ASSUME WholeRows, at = 0 PROVE Column(at) = 0
      OBVIOUS
    <3>1. Tiled
      BY <1>1, <1>2, HeaderTiled DEF HeaderInv, Kernel
    <3>2. PICK u \in Nat \ {0}, e \in Nat \ {0} : u = width /\ e = planeElts
      BY <3>1 DEF Tiled
    <3>3. 0 % e = 0 /\ 0 % u = 0
      OBVIOUS
    <3> QED
      BY <3>2, <3>3 DEF Column
  <2>2. codec' = codec
    BY <1>1 DEF Static
  <2> QED
    BY <1>1, <1>2, <1>3, <1>4, <2>1, <2>2 DEF PlaceInv
<1>10. Reached' = Reached /\ Unread' = Reached' /\ Unread = Reached
  BY <1>1 DEF Reached, Unread, Folding
<1>11. DecodedInv'
  BY <1>1, <1>2, <1>10 DEF DecodedInv, Kernel, Static
<1>12. StreamInv'
  <2>1. src' \in [Positions' -> Sample]
    BY <1>1, <1>2, <1>4 DEF StreamInv, Decoding, Kernel
  <2>2. \A p : Encoded(original, p)' = Encoded(original, p)
    BY <1>1, ResidualsKept
  <2>3. ~corrupt => \A p \in Positions :
          p >= Unread \/ ~inPlace => src[p] = Encoded(original, p)
    BY <1>1, <1>2 DEF StreamInv, Decoding, Kernel
  <2> QED
    BY <1>1, <1>4, <1>10, <2>1, <2>2, <2>3 DEF StreamInv
<1>13. EncodeInv' /\ FoldedInv' /\ CarryInv' /\ ScratchInv'
  BY <1>1 DEF EncodeInv, FoldedInv, Folding, CarryInv, ScratchInv
<1> QED
  BY <1>5, <1>6, <1>7, <1>8, <1>9, <1>11, <1>12, <1>13, Assembled DEF Common

\* DI_*: what an encoder declared is accepted.
LEMMA DecodeHeaderStep ==
  ASSUME IInv, DecodeHeader, UNCHANGED <<build, weights>>
  PROVE  IInv'
<1>1. /\ phase = "header" /\ UNCHANGED Static
      /\ UNCHANGED <<corrupt, inPlace, src, dst, at, i, n, carry, scratch>>
      /\ phase' = IF Accepted THEN "plane" ELSE "error"
  BY DEF DecodeHeader, Static
<1>2. /\ TypeOK /\ SessionInv /\ HeaderInv /\ UnwrittenInv /\ PlaceInv
      /\ StreamInv
  BY DEF IInv
<1>3. /\ nbElts \in Nat \ {0} /\ Positions = 0 .. nbElts - 1 /\ at = 0
  BY <1>1, <1>2, StreamFacts DEF PlaceInv
<1>4. /\ width' = width /\ planes' = planes /\ nbElts' = nbElts
      /\ planeElts' = planeElts /\ Positions' = Positions
      /\ WholeRows' = WholeRows /\ FoldBits' = FoldBits
      /\ Accepted' = Accepted /\ Asked' = Asked
  BY <1>1, GeometryKept, HeaderKept
<1>5. TypeOK'
  <2>1. phase' \in {"plane", "error"}
    BY <1>1
  <2> QED
    BY <1>1, <1>2, <1>4, <2>1 DEF TypeOK, Static
<1>6. SessionInv'
  BY <1>1, <1>2, <1>4 DEF SessionInv, Static, Decoding, Kernel, DecodesInPlace
<1>7. HeaderInv'
  BY <1>1, <1>2, <1>3, <1>4 DEF HeaderInv, Decoding, Kernel
<1>8. UnwrittenInv'
  <2>1. ~corrupt => Accepted
    BY <1>1, <1>2, AskedAccepted DEF SessionInv, HeaderInv, Decoding
  <2>2. Untouched' = Untouched
    BY <1>4 DEF Untouched
  <2> QED
    BY <1>1, <1>2, <2>1, <2>2 DEF UnwrittenInv
<1>9. PlaceInv'
  BY <1>1, <1>3, <1>4 DEF PlaceInv
<1>10. DecodedInv'
  <2>1. Reached' = 0
    BY <1>1, <1>3 DEF Reached
  <2>2. 0 .. Reached' - 1 = {}
    BY <2>1
  <2> QED
    BY <2>2 DEF DecodedInv
<1>11. StreamInv'
  <2>1. src' \in [Positions' -> Sample]
    BY <1>1, <1>2, <1>4 DEF StreamInv, Decoding
  <2>2. \A p : Encoded(original, p)' = Encoded(original, p)
    BY <1>1, ResidualsKept
  <2>3. ~corrupt => \A p \in Positions :
          p >= Unread \/ ~inPlace => src[p] = Encoded(original, p)
    BY <1>1, <1>2 DEF StreamInv, Decoding
  <2>4. Unread' = Unread
    BY <1>1 DEF Unread, Folding, Reached
  <2> QED
    BY <1>1, <1>4, <2>1, <2>2, <2>3, <2>4 DEF StreamInv
<1>12. EncodeInv' /\ FoldedInv' /\ CarryInv' /\ ScratchInv'
  BY <1>1 DEF EncodeInv, FoldedInv, Folding, CarryInv, ScratchInv
<1> QED
  BY <1>5, <1>6, <1>7, <1>8, <1>9, <1>10, <1>11, <1>12, Assembled DEF Common

-----------------------------------------------------------------------------
(* The header and the encoder                                              *)

\* Another header is met by a decoder that has not written yet.
LEMMA CorruptStep ==
  ASSUME IInv, Corrupt, UNCHANGED <<build, weights>>
  PROVE  IInv'
<1>1. /\ phase = "header" /\ phase' = "header" /\ corrupt' = TRUE
      /\ header' \in Corruptions[original]
      /\ UNCHANGED <<build, codec, original, weights, inPlace, src, dst, at, i,
                     n, carry, scratch>>
  BY DEF Corrupt
<1>2. /\ TypeOK /\ SessionInv /\ HeaderInv /\ UnwrittenInv /\ PlaceInv
      /\ StreamInv
  BY DEF IInv
<1>3. header' \in Headers
  BY <1>1, <1>2, PredictorAssumption DEF TypeOK
<1>4. /\ Positions' = Positions /\ nbElts' = nbElts /\ FoldBits' = FoldBits
      /\ Untouched' = Untouched
  BY <1>1 DEF Positions, nbElts, FoldBits, Untouched
<1>5. scratch' = NoScratch /\ at' = 0
  BY <1>1, <1>2 DEF PlaceInv
<1>6. TypeOK'
  BY <1>1, <1>2, <1>3, <1>4, <1>5 DEF TypeOK
<1>7. SessionInv'
  BY <1>1, <1>2, <1>4 DEF SessionInv, Decoding, Kernel, DecodesInPlace
<1>8. HeaderInv'
  BY <1>1 DEF HeaderInv, Decoding, Kernel
<1>9. UnwrittenInv'
  BY <1>1, <1>2, <1>4 DEF UnwrittenInv
<1>10. PlaceInv'
  BY <1>1, <1>5 DEF PlaceInv
<1>11. StreamInv'
  <2>1. src' \in [Positions' -> Sample]
    BY <1>1, <1>2, <1>4 DEF StreamInv, Decoding
  <2> QED
    BY <1>1, <2>1 DEF StreamInv
<1>12. /\ EncodeInv' /\ DecodedInv' /\ FoldedInv' /\ CarryInv' /\ ScratchInv'
  BY <1>1 DEF EncodeInv, DecodedInv, Kernel, FoldedInv, Folding, CarryInv,
       ScratchInv
<1> QED
  BY <1>6, <1>7, <1>8, <1>9, <1>10, <1>11, <1>12, Assembled DEF Common

\* While a stream of whole rows is encoded, its planes are those of the header.
LEMMA EncodeFacts ==
  ASSUME IInv, phase = "encode"
  PROVE  /\ TypeOK /\ SessionInv /\ ~corrupt /\ Asked /\ at \in Nat
         /\ nbElts \in Nat \ {0} /\ Positions = 0 .. nbElts - 1
         /\ original \in [Positions -> Sample]
         /\ WholeRows => Tiled
BY StreamFacts, HeaderTiled DEF IInv, SessionInv, TypeOK

\* Every sample has been encoded when the stream is passed on.
LEMMA TransmitStep ==
  ASSUME IInv, Transmit, UNCHANGED <<build, weights>>
  PROVE  IInv'
<1>1. /\ phase = "encode" /\ at = nbElts /\ phase' = "header" /\ at' = 0
      /\ inPlace' \in BOOLEAN /\ (inPlace' => DecodesInPlace(codec))
      /\ src' = dst /\ dst' = IF inPlace' THEN dst ELSE Untouched
      /\ UNCHANGED Static /\ UNCHANGED <<corrupt, i, n, carry, scratch>>
  BY DEF Transmit, Static
<1>2. /\ TypeOK /\ SessionInv /\ HeaderInv /\ PlaceInv /\ EncodeInv
  BY DEF IInv
<1>3. /\ ~corrupt /\ Asked /\ nbElts \in Nat \ {0}
      /\ Positions = 0 .. nbElts - 1 /\ original \in [Positions -> Sample]
      /\ WholeRows => Tiled
  BY <1>1, EncodeFacts
<1>4. WholeRows /\ Tiled
  BY <1>1, <1>2, <1>3 DEF HeaderInv
<1>5. /\ width' = width /\ planes' = planes /\ nbElts' = nbElts
      /\ planeElts' = planeElts /\ Positions' = Positions
      /\ WholeRows' = WholeRows /\ FoldBits' = FoldBits
      /\ Accepted' = Accepted /\ Asked' = Asked
  BY <1>1, GeometryKept, HeaderKept
<1>6. ASSUME NEW p \in Positions PROVE dst[p] = Encoded(original, p)
  <2>1. PICK k \in Positions : k = EncodeOrder(p) /\ EncodeOrder(k) = p
    BY <1>4, OrderInverts
  <2>2. k \in 0 .. nbElts - 1 /\ k < at
    BY <1>1, <1>3
  <2> QED
    BY <1>1, <1>2, <1>4, <2>1, <2>2 DEF EncodeInv
<1>7. \A p \in Positions : Encoded(original, p) \in Sample
  BY <1>2, <1>3, <1>4, EncodedType
<1>8. dst \in [Positions -> Sample]
  BY <1>2, <1>6, <1>7 DEF TypeOK
<1>9. Untouched' = Untouched /\ Untouched \in [Positions -> Sample \cup {NoSample}]
  BY <1>5 DEF Untouched
<1>10. scratch' = NoScratch
  BY <1>1, <1>2 DEF PlaceInv
<1>11. TypeOK'
  <2>1. /\ src' \in [Positions' -> Sample \cup {NoSample}]
        /\ dst' \in [Positions' -> Sample \cup {NoSample}]
    BY <1>1, <1>5, <1>8, <1>9
  <2>2. at' \in 0 .. nbElts'
    BY <1>1, <1>3, <1>5
  <2> QED
    BY <1>1, <1>2, <1>5, <1>10, <2>1, <2>2 DEF TypeOK, Static
<1>12. SessionInv'
  BY <1>1, <1>2, <1>5 DEF SessionInv, Static, Decoding, Kernel, DecodesInPlace
<1>13. HeaderInv'
  BY <1>1, <1>4, <1>5 DEF HeaderInv, Decoding, Kernel
<1>14. UnwrittenInv' /\ PlaceInv'
  BY <1>1, <1>9, <1>10 DEF UnwrittenInv, PlaceInv
<1>15. StreamInv'
  <2>1. \A p : Encoded(original, p)' = Encoded(original, p)
    BY <1>1, ResidualsKept
  <2>2. src' \in [Positions' -> Sample]
    BY <1>1, <1>5, <1>8
  <2>3. \A p \in Positions' : src'[p] = Encoded(original, p)'
    BY <1>1, <1>5, <1>6, <2>1
  <2> QED
    BY <2>2, <2>3 DEF StreamInv
<1>16. /\ EncodeInv' /\ DecodedInv' /\ FoldedInv' /\ CarryInv' /\ ScratchInv'
  BY <1>1 DEF EncodeInv, DecodedInv, Kernel, FoldedInv, Folding, CarryInv,
       ScratchInv
<1> QED
  BY <1>11, <1>12, <1>13, <1>14, <1>15, <1>16, Assembled DEF Common

\* An encoder fails for the width only.
LEMMA EncodeRejectStep ==
  ASSUME IInv, EncodeReject, UNCHANGED <<build, weights>>
  PROVE  IInv'
<1>1. /\ phase = "encode" /\ at = 0 /\ ~WholeRows /\ phase' = "error"
      /\ UNCHANGED Static
      /\ UNCHANGED <<corrupt, inPlace, src, dst, at, i, n, carry, scratch>>
  BY DEF EncodeReject, Static, WholeRows
<1>2. /\ TypeOK /\ SessionInv /\ UnwrittenInv
  BY DEF IInv
<1>3. /\ width' = width /\ planes' = planes /\ nbElts' = nbElts
      /\ planeElts' = planeElts /\ Positions' = Positions
      /\ WholeRows' = WholeRows /\ FoldBits' = FoldBits
      /\ Accepted' = Accepted /\ Asked' = Asked
  BY <1>1, GeometryKept, HeaderKept
<1>4. TypeOK'
  BY <1>1, <1>2, <1>3 DEF TypeOK, Static
<1>5. SessionInv'
  BY <1>1, <1>2, <1>3 DEF SessionInv, Static, Decoding, Kernel
<1>6. HeaderInv' /\ PlaceInv'
  BY <1>1 DEF HeaderInv, Decoding, Kernel, PlaceInv
<1>7. UnwrittenInv'
  <2>1. RowWidth(width, nbElts) = 0
    BY <1>1, <1>2, AskedRefused DEF SessionInv
  <2>2. RowWidth(width, nbElts)' = RowWidth(width, nbElts)
    BY <1>3 DEF RowWidth
  <2>3. Untouched' = Untouched
    BY <1>3 DEF Untouched
  <2> QED
    BY <1>1, <1>2, <2>1, <2>2, <2>3 DEF UnwrittenInv
<1>8. /\ EncodeInv' /\ DecodedInv' /\ FoldedInv' /\ CarryInv' /\ ScratchInv'
      /\ StreamInv'
  BY <1>1 DEF EncodeInv, DecodedInv, Decoding, Kernel, FoldedInv, Folding,
       CarryInv, ScratchInv, StreamInv
<1> QED
  BY <1>4, <1>5, <1>6, <1>7, <1>8, Assembled DEF Common

\* encode_*_kernel.c: in place too, a sample is predicted from what was there
\* before anything was encoded.
LEMMA EncodedUnspoilt ==
  ASSUME IInv, Encode
  PROVE  LET p == EncodeOrder(at) IN
         p \in Positions /\ Encoded(src, p) = Encoded(original, p)
<1>1. phase = "encode" /\ at < nbElts /\ WholeRows
  BY DEF Encode, WholeRows
<1>2. /\ Tiled /\ nbElts \in Nat \ {0} /\ Positions = 0 .. nbElts - 1
      /\ at \in Nat /\ at \in Positions /\ SessionInv
      /\ original \in [Positions -> Sample]
      /\ src \in [Positions -> Sample \cup {NoSample}]
  BY <1>1, EncodeFacts DEF TypeOK
<1>3. PICK p \in Positions : p = EncodeOrder(at) /\ EncodeOrder(p) = at
  BY <1>2, OrderInverts
<1>4. \A k \in Positions :
        /\ k >= at => src[EncodeOrder(k)] = original[EncodeOrder(k)]
        /\ ~inPlace => src[EncodeOrder(k)] = original[EncodeOrder(k)]
  BY <1>1, <1>2 DEF IInv, EncodeInv
<1>5. src[p] = original[p]
  BY <1>2, <1>3, <1>4
<1>6. CASE ~inPlace
  <2>1. \A q \in Positions : src[q] = original[q]
    BY <1>2, <1>4, <1>6, OrderInverts
  <2>2. src = original
    BY <1>2, <2>1
  <2> QED
    BY <1>3, <2>2
<1>7. CASE inPlace /\ codec = "delta_w"
  <2>1. West(src, p) = West(original, p)
    <3>1. CASE Column(p) > 0
      <4>1. PICK k \in Positions : k = at + 1 /\ EncodeOrder(k) = p - 1
        BY <1>2, <1>3, <1>7, <3>1, OrderKeeps
      <4>2. src[p - 1] = original[p - 1]
        BY <1>2, <1>4, <4>1
      <4> QED
        BY <3>1, <4>2 DEF West
    <3>2. CASE ~(Column(p) > 0)
      BY <3>2 DEF West
    <3> QED
      BY <3>1, <3>2
  <2> QED
    BY <1>3, <1>5, <1>7, <2>1 DEF Encoded, EncodeDeltaW
<1>8. CASE inPlace /\ codec = "delta_n"
  <2>1. North(src, p) = North(original, p)
    <3>1. CASE Row(p) > 0
      <4>1. PICK k \in Positions : k = at + width /\ EncodeOrder(k) = p - width
        BY <1>2, <1>3, <1>8, <3>1, OrderKeeps
      <4>2. width \in Nat
        BY <1>2 DEF Tiled
      <4>3. src[p - width] = original[p - width]
        BY <1>2, <1>4, <4>1, <4>2
      <4> QED
        BY <3>1, <4>3 DEF North
    <3>2. CASE ~(Row(p) > 0)
      BY <3>2 DEF North
    <3> QED
      BY <3>1, <3>2
  <2> QED
    BY <1>3, <1>5, <1>8, <2>1 DEF Encoded, EncodeDeltaN
<1>9. inPlace => codec \in {"delta_w", "delta_n"}
  BY <1>1, <1>2 DEF SessionInv, EncodesInPlace
<1> QED
  BY <1>3, <1>6, <1>7, <1>8, <1>9

\* The encoders: the next sample in their order.
LEMMA EncodeStep ==
  ASSUME IInv, Encode, UNCHANGED <<build, weights>>
  PROVE  IInv'
<1>1. PICK p, v : p = EncodeOrder(at) /\ v = Encoded(src, p)
  OBVIOUS
<1>2. /\ phase = "encode" /\ phase' = "encode" /\ at < nbElts /\ WholeRows
      /\ Store(p, v) /\ at' = at + 1 /\ UNCHANGED Static
      /\ UNCHANGED <<corrupt, inPlace, i, n, carry, scratch>>
  BY <1>1 DEF Encode, Static, WholeRows
<1>3. /\ TypeOK /\ SessionInv /\ HeaderInv /\ PlaceInv /\ EncodeInv
  BY DEF IInv
<1>4. /\ Tiled /\ nbElts \in Nat \ {0} /\ Positions = 0 .. nbElts - 1
      /\ at \in Nat /\ at \in Positions
      /\ original \in [Positions -> Sample]
      /\ src \in [Positions -> Sample \cup {NoSample}]
      /\ dst \in [Positions -> Sample \cup {NoSample}]
      /\ inPlace \in BOOLEAN
  BY <1>2, EncodeFacts DEF TypeOK
<1>5. p \in Positions /\ v = Encoded(original, p)
  BY <1>1, EncodedUnspoilt
<1>6. v \in Sample
  BY <1>3, <1>4, <1>5, EncodedType
<1>7. /\ dst' = [dst EXCEPT ![p] = v]
      /\ src' = IF inPlace THEN [src EXCEPT ![p] = v] ELSE src
      /\ inPlace => src' = dst'
  BY <1>2, <1>3 DEF Store, SessionInv
<1>8. /\ dst' \in [Positions -> Sample \cup {NoSample}]
      /\ src' \in [Positions -> Sample \cup {NoSample}]
      /\ dst'[p] = v
      /\ \A q \in Positions : q # p => dst'[q] = dst[q] /\ src'[q] = src[q]
      /\ ~inPlace => src' = src
  BY <1>4, <1>5, <1>6, <1>7
<1>9. /\ width' = width /\ planes' = planes /\ nbElts' = nbElts
      /\ planeElts' = planeElts /\ Positions' = Positions
      /\ WholeRows' = WholeRows /\ FoldBits' = FoldBits
      /\ Accepted' = Accepted /\ Asked' = Asked
      /\ \A k : EncodeOrder(k)' = EncodeOrder(k)
  BY <1>2, GeometryKept, HeaderKept
<1>10. TypeOK'
  <2>1. at' \in 0 .. nbElts'
    BY <1>2, <1>4, <1>9
  <2>2. /\ src' \in [Positions' -> Sample \cup {NoSample}]
        /\ dst' \in [Positions' -> Sample \cup {NoSample}]
    BY <1>8, <1>9
  <2> QED
    BY <1>2, <1>3, <1>9, <2>1, <2>2 DEF TypeOK, Static
<1>11. SessionInv'
  BY <1>2, <1>3, <1>7, <1>9 DEF SessionInv, Static, EncodesInPlace
<1>12. HeaderInv' /\ UnwrittenInv' /\ PlaceInv'
  <2>1. at' # 0
    BY <1>2, <1>4
  <2> QED
    BY <1>2, <1>3, <1>9, <2>1 DEF HeaderInv, UnwrittenInv, PlaceInv, Kernel,
         Decoding
<1>13. EncodeInv'
  <2>1. ASSUME NEW k \in 0 .. nbElts - 1, NEW q, q = EncodeOrder(k)
        PROVE  /\ k < at + 1 => dst'[q] = Encoded(original, q)
               /\ k >= at + 1 => src'[q] = original[q]
               /\ inPlace \/ src'[q] = original[q]
    <3>1. q \in Positions /\ EncodeOrder(q) = k
      BY <1>4, <2>1, OrderInverts
    <3>2. EncodeOrder(p) = at
      BY <1>1, <1>4, OrderInverts
    <3>3. /\ k < at => dst[q] = Encoded(original, q)
          /\ k >= at => src[q] = original[q]
          /\ inPlace \/ src[q] = original[q]
      BY <1>2, <1>3, <2>1 DEF EncodeInv
    <3>4. CASE k = at
      BY <1>1, <1>4, <1>5, <1>8, <2>1, <3>3, <3>4
    <3>5. CASE k # at
      <4>1. q # p
        BY <3>1, <3>2, <3>5
      <4>2. k \in Int /\ (k < at + 1 => k < at) /\ (k >= at + 1 => k >= at)
        BY <1>4, <3>5
      <4> QED
        BY <1>8, <3>1, <3>3, <4>1, <4>2
    <3> QED
      BY <3>4, <3>5
  <2>2. \A q : Encoded(original, q)' = Encoded(original, q)
    BY <1>2, ResidualsKept
  <2>3. original' = original /\ inPlace' = inPlace
    BY <1>2 DEF Static
  <2> SUFFICES ASSUME NEW k \in 0 .. nbElts' - 1, NEW q, q = EncodeOrder(k)'
               PROVE  /\ k < at' => dst'[q] = Encoded(original, q)'
                      /\ k >= at' => src'[q] = original'[q]
                      /\ inPlace' \/ src'[q] = original'[q]
    BY DEF EncodeInv
  <2>4. q = EncodeOrder(k) /\ k \in 0 .. nbElts - 1
    BY <1>9
  <2> QED
    BY <1>2, <2>1, <2>2, <2>3, <2>4
<1>14. /\ DecodedInv' /\ StreamInv' /\ FoldedInv' /\ CarryInv' /\ ScratchInv'
  BY <1>2 DEF DecodedInv, StreamInv, Decoding, Kernel, FoldedInv, Folding,
       CarryInv, ScratchInv
<1> QED
  BY <1>10, <1>11, <1>12, <1>13, <1>14, Assembled DEF Common

-----------------------------------------------------------------------------
(* The theorems                                                            *)

\* The header an encoder writes.
LEMMA DeclaredType ==
  ASSUME NEW c, NEW asked \in Nat, NEW planesAsked \in Nat, NEW elts \in Nat
  PROVE  Declared(c, asked, planesAsked, elts) \in Headers
<1>1. PICK w \in Nat : w = RowWidthDeclared(asked, elts)
  BY DEF RowWidthDeclared
<1>2. PICK m \in Nat : m = PlanesDeclared(planesAsked, w, elts)
  BY DEF PlanesDeclared
<1>3. DeclaresPlanes(asked, planesAsked, elts) =
        [size |-> IF m > 1 THEN 8 ELSE 4, width |-> w, planes |-> m]
  BY <1>1, <1>2 DEF DeclaresPlanes
<1>4. DeclaresPlanes(asked, planesAsked, elts) \in Headers
  BY <1>3 DEF Headers
<1>5. EI_delta_w(asked, planesAsked, elts) \in Headers
  BY <1>1 DEF EI_delta_w, Headers
<1>6. EI_planar_zigzag_pfor(asked, planesAsked, elts) \in Headers
  BY <1>3 DEF EI_planar_zigzag_pfor, Headers
<1>7. EI_wp_static(asked, planesAsked, elts) \in Headers
  BY <1>3 DEF EI_wp_static, Headers
<1> QED
  BY <1>4, <1>5, <1>6, <1>7 DEF Declared, EI_delta_n, EI_planar, EI_average,
       EI_planar_zigzag

\* Nothing is encoded yet.
LEMMA InitIInv ==
  ASSUME Init
  PROVE  IInv
<1>1. /\ build \in Builds /\ codec \in Codecs /\ original \in Rasters
      /\ corrupt = FALSE /\ inPlace \in BOOLEAN
      /\ inPlace => EncodesInPlace(codec)
      /\ src = original /\ dst = IF inPlace THEN original ELSE Untouched
      /\ phase = "encode" /\ at = 0 /\ i = 0 /\ n = 0 /\ carry = 0
      /\ scratch = NoScratch
  <2>1. inPlace \in BOOLEAN /\ (inPlace => EncodesInPlace(codec))
    <3>1. CASE EncodesInPlace(codec)
      BY <3>1 DEF Init
    <3>2. CASE ~EncodesInPlace(codec)
      BY <3>2 DEF Init
    <3> QED
      BY <3>1, <3>2
  <2> QED
    BY <2>1 DEF Init
<1>2. /\ nbElts \in Nat \ {0} /\ Positions = 0 .. nbElts - 1
      /\ original \in [Positions -> Sample]
  BY <1>1, RasterFacts
<1>3. PICK asked \in 0 .. nbElts + 1, planesAsked \in 0 .. MaxPlanes :
        header = Declared(codec, asked, planesAsked, nbElts)
  BY DEF Init
<1>4. asked \in Nat /\ planesAsked \in Nat /\ nbElts \in Nat
  BY <1>2, PredictorAssumption
<1>5. header \in Headers
  BY <1>3, <1>4, DeclaredType
<1>6. /\ weights \in Weights \cup {<<>>}
      /\ codec = "wp_static" => weights \in Weights /\ weights.shift < FoldBits
  BY DEF Init
<1>7. TypeOK
  <2>1. /\ src \in [Positions -> Sample \cup {NoSample}]
        /\ dst \in [Positions -> Sample \cup {NoSample}]
    BY <1>1, <1>2 DEF Untouched
  <2>2. at \in 0 .. nbElts /\ i \in 0 .. n /\ n \in 0 .. nbElts /\ carry \in Sample
    BY <1>1, <1>2, SampleClosed
  <2> QED
    BY <1>1, <1>5, <1>6, <2>1, <2>2 DEF TypeOK
<1>8. SessionInv
  BY <1>1, <1>3, <1>6 DEF SessionInv, Asked
<1>9. HeaderInv /\ UnwrittenInv /\ PlaceInv
  BY <1>1 DEF HeaderInv, UnwrittenInv, PlaceInv, Kernel, Decoding
<1>10. EncodeInv
  BY <1>1 DEF EncodeInv
<1>11. /\ DecodedInv /\ StreamInv /\ FoldedInv /\ CarryInv /\ ScratchInv
  BY <1>1 DEF DecodedInv, StreamInv, Decoding, Kernel, FoldedInv, Folding,
       CarryInv, ScratchInv
<1> QED
  BY <1>7, <1>8, <1>9, <1>10, <1>11 DEF IInv

\* Nothing happens after the end.
LEMMA StutterStep ==
  ASSUME IInv, UNCHANGED vars
  PROVE  IInv'
<1>1. /\ UNCHANGED Static
      /\ UNCHANGED <<corrupt, inPlace, src, dst, phase, at, i, n, carry, scratch>>
  BY DEF vars, Static
<1>2. /\ width' = width /\ planes' = planes /\ nbElts' = nbElts
      /\ planeElts' = planeElts /\ Positions' = Positions
      /\ WholeRows' = WholeRows /\ FoldBits' = FoldBits /\ Lanes' = Lanes
      /\ Accepted' = Accepted /\ Asked' = Asked /\ Summed' = Summed
      /\ Column(at)' = Column(at) /\ Interior' = Interior
      /\ RunLength' = RunLength
  BY <1>1, GeometryKept, HeaderKept, RunKept
<1>3. \A p : /\ Encoded(original, p)' = Encoded(original, p)
             /\ West(original, p)' = West(original, p)
             /\ EncodeOrder(p)' = EncodeOrder(p)
  BY <1>1, ResidualsKept, GeometryKept
<1>4. /\ Reached' = Reached /\ Folding' = Folding /\ Unread' = Unread
      /\ Untouched' = Untouched /\ RowWidth(width, nbElts)' = RowWidth(width, nbElts)
  BY <1>1, <1>2 DEF Reached, Folding, Unread, Untouched, Static, RowWidth
<1>5. TypeOK /\ SessionInv /\ HeaderInv /\ UnwrittenInv /\ PlaceInv
  BY DEF IInv
<1>6. TypeOK'
  BY <1>1, <1>2, <1>5 DEF TypeOK, Static
<1>7. SessionInv'
  BY <1>1, <1>2, <1>5 DEF SessionInv, Static, EncodesInPlace, DecodesInPlace
<1>8. HeaderInv'
  BY <1>1, <1>2, <1>5 DEF HeaderInv
<1>9. UnwrittenInv'
  BY <1>1, <1>4, <1>5 DEF UnwrittenInv
<1>10. PlaceInv'
  BY <1>1, <1>2, <1>5 DEF PlaceInv, Static, Zigzags
<1>11. EncodeInv'
  <2> SUFFICES ASSUME phase = "encode", WholeRows, NEW k \in 0 .. nbElts - 1,
                      NEW q, q = EncodeOrder(k)'
               PROVE  /\ k < at' => dst'[q] = Encoded(original, q)'
                      /\ k >= at' => src'[q] = original'[q]
                      /\ inPlace' \/ src'[q] = original'[q]
    BY <1>1, <1>2 DEF EncodeInv
  <2>1. q = EncodeOrder(k)
    BY <1>3
  <2>2. Encoded(original, q)' = Encoded(original, q)
    BY <1>3
  <2> QED
    BY <1>1, <2>1, <2>2 DEF IInv, EncodeInv, Static
<1>12. DecodedInv'
  BY <1>1, <1>4 DEF IInv, DecodedInv, Static
<1>13. StreamInv'
  <2>1. StreamInv
    BY DEF IInv
  <2> QED
    BY <1>1, <1>2, <1>3, <1>4, <2>1 DEF StreamInv
<1>14. FoldedInv'
  <2>1. FoldedInv
    BY DEF IInv
  <2> QED
    BY <1>1, <1>3, <1>4, <2>1 DEF FoldedInv, Static
<1>15. CarryInv'
  <2>1. PICK q : q = at + i
    OBVIOUS
  <2>2. West(original, q)' = West(original, q)
    BY <1>3
  <2>3. West(original, at + i)' = West(original, at + i)
    BY <1>1, <2>1, <2>2
  <2>4. CarryInv
    BY DEF IInv
  <2> QED
    BY <1>1, <1>2, <2>3, <2>4 DEF CarryInv
<1>16. ScratchInv'
  <2> SUFFICES ASSUME phase = "row", codec = "average", scratch # NoScratch,
                      Interior, NEW c \in 0 .. width - 1
               PROVE  /\ scratch'[c].b \in Sample /\ scratch'[c].l \in {0, 1}
                      /\ ~corrupt' =>
                           LET up == original'[at' + c - width'] IN
                           /\ scratch'[c].b =
                                Plus(Encoded(original, at + c)', up \div 2)
                           /\ scratch'[c].l = up % 2
    BY <1>1, <1>2 DEF ScratchInv, Static
  <2>1. PICK q : q = at + c
    OBVIOUS
  <2>2. Encoded(original, q)' = Encoded(original, q)
    BY <1>3
  <2>3. Encoded(original, at + c)' = Encoded(original, at + c)
    BY <1>1, <2>1, <2>2
  <2>4. ScratchInv
    BY DEF IInv
  <2> QED
    BY <1>1, <1>2, <2>3, <2>4 DEF ScratchInv, Static
<1> QED
  BY <1>6, <1>7, <1>8, <1>9, <1>10, <1>11, <1>12, <1>13, <1>14, <1>15, <1>16
     DEF IInv

\* Every step keeps the invariant.
LEMMA NextIInv ==
  ASSUME IInv, [Next]_vars
  PROVE  IInv'
<1>1. ASSUME Next PROVE IInv'
  <2>1. UNCHANGED <<build, weights>>
    BY <1>1 DEF Next
  <2>2. CASE EncodeReject \/ Encode \/ Transmit \/ Corrupt
    BY <2>1, <2>2, EncodeRejectStep, EncodeStep, TransmitStep, CorruptStep
  <2>3. CASE DecodeHeader \/ Plane \/ EndRun
    BY <2>1, <2>3, DecodeHeaderStep, PlaneStep, EndRunStep
  <2>4. CASE Scan \/ FRow \/ KRow \/ ZScan \/ ZFRow
    BY <2>1, <2>4, ScanStep, FRowStep, KRowStep, ZScanStep, ZFRowStep
  <2>5. CASE Vector \/ RunTail \/ NorthRow \/ AverageRow \/ AverageSample
    BY <2>1, <2>5, VectorStep, RunTailStep, NorthRowStep, AverageRowStep,
       AverageSampleStep
  <2>6. CASE Ended
    BY <2>6, StutterStep DEF Ended
  <2> QED
    BY <1>1, <2>2, <2>3, <2>4, <2>5, <2>6 DEF Next
<1> QED
  BY <1>1, StutterStep

\* The invariant holds in every state.
LEMMA IInvHolds == Spec => []IInv
BY InitIInv, NextIInv, PTL DEF Spec

\* The values stay in their ranges, and the index of a run in the run.
THEOREM TypeCorrect == Spec => []TypeOK
<1>1. IInv => TypeOK
  BY DEF IInv
<1> QED
  BY <1>1, IInvHolds, PTL

\* Decoders give back what was encoded: whatever the codec, the width, the
\* planes, the lanes, the halves of a register, the size of a block, the weights,
\* the bits of a sample and the place they decode to, every sample that has been
\* reached is the original one, and a stream fails only for its width.
THEOREM RoundTripHolds == Spec => []RoundTrip
<1>1. IInv => RoundTrip
  <2> SUFFICES ASSUME IInv, ~corrupt PROVE RoundTrip
    BY DEF RoundTrip
  <2>1. phase = "error" => RowWidth(width, nbElts) = 0 /\ at = 0
    BY DEF IInv, UnwrittenInv
  <2>2. ASSUME phase \in {"plane", "run", "row", "done"}
        PROVE  \A p \in 0 .. Reached - 1 : dst[p] = original[p]
    BY <2>2 DEF IInv, DecodedInv, Kernel
  <2>3. 0 .. Reached - 1 = 0 .. at + (IF phase = "row" THEN i ELSE 0) - 1
    <3>1. at \in Int /\ n \in Int /\ i \in Int
      BY StreamFacts DEF IInv, TypeOK
    <3> QED
      BY <3>1 DEF Reached
  <2> QED
    BY <2>1, <2>2, <2>3 DEF RoundTrip
<1> QED
  BY <1>1, IInvHolds, PTL

\* DI_*: with the header that was sent or any of Corruptions in its place, a decoder
\* that ends well has written every sample, and one that refuses has written none.
THEOREM AllOrNothingHolds == Spec => []AllOrNothing
<1>1. IInv => AllOrNothing
  <2> SUFFICES ASSUME IInv PROVE AllOrNothing
    OBVIOUS
  <2>1. ASSUME phase = "done" PROVE \A p \in Positions : dst[p] \in Sample
    <3>1. nbElts \in Nat /\ Positions = 0 .. nbElts - 1
      BY StreamFacts DEF IInv
    <3>2. Reached = nbElts
      BY <2>1, <3>1 DEF IInv, PlaceInv, Reached
    <3>3. \A p \in 0 .. Reached - 1 : dst[p] \in Sample
      BY <2>1 DEF IInv, DecodedInv, Kernel
    <3> QED
      BY <3>1, <3>2, <3>3
  <2>2. ASSUME phase = "error"
        PROVE  IF inPlace THEN dst = src ELSE dst = Untouched
    BY <2>2 DEF IInv, UnwrittenInv, SessionInv, TypeOK
  <2> QED
    BY <2>1, <2>2 DEF AllOrNothing
<1> QED
  BY <1>1, IInvHolds, PTL
=============================================================================
