------------------------------- MODULE Samples -------------------------------
(***************************************************************************)
(* Samples and rasters of the lossless predictors.  Samples are unsigned   *)
(* integers of the width of the stream and wrap around: Modulus is 2^B for *)
(* B bits.  A raster is a sequence of planes of whole rows.                *)
(***************************************************************************)
EXTENDS Integers

CONSTANT Modulus

ASSUME ModulusAssumption == Modulus \in Nat /\ Modulus >= 2 /\ Modulus % 2 = 0

Sample == 0 .. Modulus - 1

\* Mutant: the sum is not cut to the width of a sample.
PlusWide(a, b) == a + b

\* (T)(a + b) and (T)(a - b)
Plus(a, b) == IF a + b >= Modulus THEN a + b - Modulus ELSE a + b
Minus(a, b) == IF a >= b THEN a - b ELSE a - b + Modulus

\* (T)(residual << 1) ^ sign: small residuals of either sign become small.
Zigzag(r) ==
  IF r < Modulus \div 2 THEN 2 * r ELSE 2 * (Modulus - r) - 1

\* (z >> 1) ^ -(z & 1)
Unzigzag(z) ==
  IF z % 2 = 0 THEN z \div 2 ELSE Modulus - 1 - (z \div 2)

\* The sample that lies in the plane of its three neighbours.
Planar(W, N, NW) == Minus(Plus(W, N), NW)

\* (W >> 1) + (N >> 1) + (W & N & 1), which needs no wider type.
Average(W, N) ==
  (W \div 2) + (N \div 2) + (IF W % 2 = 1 /\ N % 2 = 1 THEN 1 ELSE 0)

\* The median edge detector: the gradient only where it lies between W and N.
Median(W, N, NW) ==
  LET mn == IF W < N THEN W ELSE N
      mx == IF W < N THEN N ELSE W IN
  IF NW >= mx THEN mn ELSE IF NW <= mn THEN mx ELSE Planar(W, N, NW)

-----------------------------------------------------------------------------
(* common/raster.h                                                         *)

\* geozl_row_width: zero unless the rows fill the stream.
RowWidth(width, elts) ==
  IF elts = 0 \/ width = 0 \/ width > elts \/ elts % width # 0 THEN 0
  ELSE width

\* geozl_row_width_declared: a single row unless a smaller width is asked for.
RowWidthDeclared(width, elts) ==
  IF width = 0 \/ width > elts THEN elts ELSE width

\* Mutant: planes need not be whole rows.
PlanesAsked(planes, width, elts) ==
  IF planes <= 1 \/ width = 0 \/ elts % planes # 0 THEN 1 ELSE planes

\* geozl_planes_declared: one unless every plane is made of whole rows.
PlanesDeclared(planes, width, elts) ==
  IF planes <= 1 \/ width = 0 \/ elts % planes # 0
       \/ (elts \div planes) % width # 0 THEN 1
  ELSE planes
=============================================================================
