------------------------------- MODULE NoData -------------------------------
(***************************************************************************)
(* Holes of a raster (core/src/nodata) around a stage that may be lossy.   *)
(* The encoder splits samples into a mask and values whose holes are       *)
(* filled; the stage returns the values with some error; the decoder puts  *)
(* the pattern back and must not let a rebuilt sample read as a hole.      *)
(*                                                                         *)
(* Samples are bit patterns of one small width, read as unsigned, as       *)
(* signed, or as a float with the fields of IEEE 754.  The radius is kept  *)
(* in half units, so that a radius between two integers exists.            *)
(***************************************************************************)
EXTENDS Integers, Sequences

CONSTANTS
  ExpMax,        \* the exponent with every bit set
  Fractions,     \* values of the fraction field
  Unbounded,     \* a bound that reaches everything (GEOZL_F64_INF, or none known)
  Rasters,       \* sequences of bit patterns
  LossyRasters,  \* those a lossy stage is given
  Widths,        \* row widths the caller may ask for
  Radii,         \* error bounds in half units
  Masks          \* mask bytes that damage may leave

ASSUME FieldsAssumption ==
  ExpMax \in Nat \ {0} /\ Fractions \in Nat \ {0, 1}

INVALID == 0
ABOVE == 1
BELOW == 2
OTHER_ZERO == 3

VARIABLES
  pc,         \* "encode", "stage", "decode", "done" or "corrupt"
  raster,     \* the samples
  dtype,      \* how they are read: "unsigned", "signed" or "float"
  mode,       \* "nan" or "value"
  sentinel,   \* the value that marks a hole in mode "value"
  width,      \* of a row
  radius,     \* the bound of the stage, in half units
  stage,      \* what the stage does: "lossless", "bounded" or "broken"
  header,     \* pattern and replacements: one field, or four
  mask,       \* one code per sample
  values,     \* the samples with filled holes, later what the stage made of them
  marked,     \* the mask as the encoder wrote it
  out         \* the decoded samples

callVars == <<raster, dtype, mode, sentinel, width, radius, stage>>
vars == <<pc, callVars, header, mask, values, marked, out>>

-----------------------------------------------------------------------------
(* Layout of an element                                                    *)

Sign == (ExpMax + 1) * Fractions
All == 2 * Sign - 1
Element == 0 .. All

Magnitude(b) == IF b >= Sign THEN b - Sign ELSE b
Exponent(b) == Magnitude(b) \div Fractions
Fraction(b) == Magnitude(b) % Fractions
Infinity == ExpMax * Fractions

\* NODATA_ISNAN: tested on the bits of whatever type.
LooksNaN(b) == Magnitude(b) > Infinity

IsNaN(b) == dtype = "float" /\ LooksNaN(b)

\* What a fraction is worth with each exponent, in units of the smallest float.
Scale[e \in 1 .. ExpMax] == IF e = 1 THEN 1 ELSE 2 * Scale[e - 1]

\* The number a pattern stands for but for its sign; an infinity is further away
\* than any finite bound.
Absolute(b) ==
  IF Magnitude(b) = Infinity THEN Unbounded \div 4
  ELSE IF Exponent(b) = 0 THEN Fraction(b)
  ELSE (Fractions + Fraction(b)) * Scale[Exponent(b)]

Number(b) ==
  CASE dtype = "unsigned" -> b
    [] dtype = "signed"   -> IF b >= Sign THEN b - 2 * Sign ELSE b
    [] dtype = "float"    -> IF b >= Sign THEN 0 - Absolute(b) ELSE Absolute(b)

Distance(a, b) ==
  IF Number(a) > Number(b) THEN Number(a) - Number(b) ELSE Number(b) - Number(a)

Within(a, b, halves) == 2 * Distance(a, b) <= halves

ASSUME CallAssumption ==
  /\ Unbounded \in Nat
  /\ \A b \in 0 .. Infinity - 1 : Absolute(b) < Unbounded \div 4
  /\ Rasters \subseteq Seq(Element) /\ LossyRasters \subseteq Seq(Element)
  /\ Widths \subseteq Nat /\ Radii \subseteq Nat /\ Masks \subseteq Nat

-----------------------------------------------------------------------------
(* nodata_guard_values                                                     *)

IntTop == IF dtype = "signed" THEN Sign - 1 ELSE All
IntBottom == IF dtype = "signed" THEN Sign ELSE 0

\* Mutants: the ends of an integer type wrap; a zero has no other zero; a
\* negative float moves with its bits.
NeighboursWrap(s) == <<(s + 1) % (All + 1), (s + All) % (All + 1), s>>
NeighboursOneZero(s) ==
  IF dtype # "float" THEN <<IF s = IntTop THEN s ELSE (s + 1) % (All + 1),
                            IF s = IntBottom THEN s ELSE (s + All) % (All + 1),
                            s>>
  ELSE IF Magnitude(s) = 0 THEN <<1, Sign + 1, s>>
  ELSE <<IF s >= Sign THEN s - 1 ELSE IF s = Infinity THEN s ELSE s + 1,
         IF s < Sign THEN s - 1
         ELSE IF Magnitude(s) = Infinity THEN s ELSE s + 1, s>>
NeighboursUnsigned(s) ==
  IF dtype # "float" THEN <<IF s = All THEN s ELSE s + 1,
                            IF s = 0 THEN s ELSE s - 1, s>>
  ELSE IF Magnitude(s) = 0 THEN <<1, Sign + 1, (s + Sign) % (All + 1)>>
  ELSE <<IF Magnitude(s) = Infinity THEN s ELSE s + 1, s - 1, s>>

\* The values next to the sentinel, above and below, and the other zero of a
\* float; the sentinel itself where the type has none.
Neighbours(s) ==
  IF dtype # "float" THEN <<IF s = IntTop THEN s ELSE (s + 1) % (All + 1),
                            IF s = IntBottom THEN s ELSE (s + All) % (All + 1),
                            s>>
  ELSE IF Magnitude(s) = 0 THEN <<1, Sign + 1, (s + Sign) % (All + 1)>>
  ELSE <<IF s >= Sign THEN s - 1 ELSE IF s = Infinity THEN s ELSE s + 1,
         IF s < Sign THEN s - 1
         ELSE IF Magnitude(s) = Infinity THEN s ELSE s + 1, s>>

-----------------------------------------------------------------------------
(* Marks                                                                   *)

MarkValue(p) ==
  [i \in DOMAIN raster |-> IF raster[i] = p THEN INVALID ELSE ABOVE]

MarkNaN ==
  [i \in DOMAIN raster |-> IF LooksNaN(raster[i]) THEN INVALID ELSE ABOVE]

NaNs == {i \in DOMAIN raster : LooksNaN(raster[i])}

\* nodata_find_nan: the first one.
FirstNaN == raster[CHOOSE i \in NaNs : \A k \in NaNs : i <= k]

\* The code of a sample that the stage cannot bring to the sentinel.
Default(s) == IF Neighbours(s)[1] # s THEN ABOVE ELSE BELOW

\* Mutant: the radius is taken to be smaller by a half unit.
ReachesShort(b, s) == 2 * Distance(b, s) < radius

\* Only the samples within the radius need their own side.
Reaches(b, s) == Within(b, s, radius)

\* Mutant: a radius of zero needs no codes at all.
ConstantAlways(s) == radius = 0

\* With no error to come one code serves all samples, but for the other zero.
Constant(s) == radius = 0 /\ ~(dtype = "float" /\ Magnitude(s) = 0)

Guard(b, s) ==
  CASE b = s                                -> INVALID
    [] b # s /\ (Constant(s) \/ IsNaN(b))   -> Default(s)
    [] OTHER ->
         IF Number(b) = Number(s) THEN OTHER_ZERO
         ELSE IF ~Reaches(b, s) THEN Default(s)
         ELSE IF Number(b) > Number(s) THEN ABOVE ELSE BELOW

MarkGuarded(s) == [i \in DOMAIN raster |-> Guard(raster[i], s)]

-----------------------------------------------------------------------------
(* nodata_fill                                                             *)

RowWidth ==
  IF width = 0 \/ width > Len(raster) \/ Len(raster) % width # 0
    THEN Len(raster) ELSE width

\* Samples of the row up to i that are no holes.
MeasuredBefore(m, i) ==
  {k \in 1 .. i : m[k] # INVALID /\ (k - 1) \div RowWidth = (i - 1) \div RowWidth}

\* The places from i upwards where a row was measured before that column.
MeasuredAbove(m, i) ==
  {k \in 1 .. i : (i - k) % RowWidth = 0 /\ MeasuredBefore(m, k) # {}}

Last(S) == CHOOSE k \in S : \A l \in S : l <= k

\* A hole takes the last sample of its row, or what is above it, or zero.
Filled(m) ==
  [i \in DOMAIN raster |->
     IF MeasuredAbove(m, i) = {} THEN 0
     ELSE raster[Last(MeasuredBefore(m, Last(MeasuredAbove(m, i))))]]

-----------------------------------------------------------------------------
Init ==
  /\ pc = "encode"
  /\ dtype \in {"unsigned", "signed", "float"}
  /\ mode \in {"nan", "value"}
  /\ sentinel \in IF mode = "nan" THEN {0} ELSE Element
  /\ width \in Widths
  /\ stage \in {"lossless", "bounded", "broken"}
  /\ raster \in IF stage = "lossless" THEN Rasters ELSE LossyRasters
  /\ radius \in IF stage = "lossless" THEN {0} ELSE
                  IF mode = "nan" THEN {Unbounded} ELSE Radii
  /\ mode = "nan" /\ stage # "lossless" => dtype = "float"
  /\ header = <<>> /\ mask = <<>> /\ values = <<>> /\ marked = <<>> /\ out = <<>>

\* EI_geozl_nodata writes header, mask and values.
Write(h, m) ==
  /\ header' = h /\ mask' = m /\ marked' = m
  /\ values' = Filled(m)
  /\ pc' = "stage"
  /\ UNCHANGED <<callVars, out>>

\* Holes are NaNs: a lossless path marks those with the payload of the first.
EncodeNaN ==
  /\ pc = "encode" /\ mode = "nan"
  /\ \/ NaNs # {} /\ radius = 0 /\ Write(<<FirstNaN>>, MarkValue(FirstNaN))
     \/ NaNs # {} /\ radius # 0 /\ Write(<<FirstNaN>>, MarkNaN)
     \/ NaNs = {} /\ Write(<<0>>, MarkNaN)

\* Holes are a value: a NaN among the values needs no guard.
EncodeValue ==
  /\ pc = "encode" /\ mode = "value"
  /\ \/ IsNaN(sentinel) /\ Write(<<sentinel>>, MarkValue(sentinel))
     \/ ~IsNaN(sentinel)
        /\ Write(<<sentinel>> \o Neighbours(sentinel), MarkGuarded(sentinel))

\* What a stage may make of a value.  A quantizer has no index for a NaN or an
\* infinity and rebuilds some number; it never makes a NaN.  A broken one is off
\* by any amount.
Rebuilt(v) ==
  {u \in Element :
     /\ ~IsNaN(u)
     /\ \/ stage = "broken"
        \/ dtype = "float" /\ Magnitude(v) >= Infinity
        \/ Within(u, v, radius)}

Stage ==
  /\ pc = "stage"
  /\ \/ stage = "lossless" /\ UNCHANGED values
     \/ /\ stage # "lossless"
        /\ \E u \in [DOMAIN values -> Element] :
             /\ \A i \in DOMAIN values : u[i] \in Rebuilt(values[i])
             /\ values' = u
  /\ pc' = "decode"
  /\ UNCHANGED <<callVars, header, mask, marked, out>>

\* The mask or the header may be damaged on its way to the decoder.
Damage ==
  /\ pc = "decode" /\ mask = marked /\ stage = "lossless"
  /\ \/ /\ \E i \in DOMAIN mask, c \in Masks : mask' = [mask EXCEPT ![i] = c]
        /\ UNCHANGED header
     \/ /\ \E n \in {0, 2, 3, 5} : header' = [k \in 1 .. n |-> 0]
        /\ UNCHANGED mask
  /\ UNCHANGED <<pc, callVars, values, marked, out>>

-----------------------------------------------------------------------------
(* Decoder                                                                 *)

\* Mutant: a missing replacement is accepted.
BadCodeLarge(c) == c > 3

\* A code that the header has no replacement for.
BadCode(c) == c > 3 \/ (c # 0 /\ header[c + 1] = header[1])

\* Mutant: a collision is left alone.
RestoredPlain(i) == IF mask[i] = 0 THEN header[1] ELSE values[i]

Restored(i) ==
  IF mask[i] = 0 THEN header[1]
  ELSE IF Len(header) = 4 /\ mask[i] <= 3 /\ values[i] = header[1]
    THEN header[mask[i] + 1]
    ELSE values[i]

\* DI_geozl_nodata: the length of the header tells the form.
Acceptable ==
  \/ Len(header) = 1
  \/ Len(header) = 4 /\ \A i \in DOMAIN mask : ~BadCode(mask[i])

Decode ==
  /\ pc = "decode" /\ Acceptable
  /\ out' = [i \in DOMAIN values |-> Restored(i)]
  /\ pc' = "done"
  /\ UNCHANGED <<callVars, header, mask, values, marked>>

Refuse ==
  /\ pc = "decode" /\ ~Acceptable
  /\ pc' = "corrupt"
  /\ UNCHANGED <<callVars, header, mask, values, marked, out>>

Ended == pc \in {"done", "corrupt"} /\ UNCHANGED vars

Next == EncodeNaN \/ EncodeValue \/ Stage \/ Damage \/ Decode \/ Refuse \/ Ended

Spec == Init /\ [][Next]_vars

-----------------------------------------------------------------------------
(* Properties                                                              *)

Undamaged == mask = marked /\ Len(header) \in {1, 4}

\* Is the sample a hole to the caller?
Hole(b) == IF mode = "nan" THEN LooksNaN(b) ELSE b = sentinel

\* A reader who sees only decoded samples finds the holes where they were: a
\* hole comes back as one, and no sample that was measured reads as one, even if
\* the stage broke its bound.  Nothing the encoder wrote is refused.
HolesStay ==
  Undamaged =>
    /\ pc # "corrupt"
    /\ pc = "done" => \A i \in DOMAIN raster : Hole(out[i]) <=> Hole(raster[i])

\* Moving a sample away from the sentinel keeps the bound of the stage, and a
\* lossless stage gives back every bit, NaN payloads and signed zeros included.
BoundKept ==
  pc = "done" /\ Undamaged /\ stage # "broken" =>
    \A i \in DOMAIN raster :
      \/ out[i] = raster[i]
      \/ Hole(raster[i]) /\ mode = "nan" /\ radius # 0
      \/ /\ stage # "lossless"
         /\ \/ Within(out[i], raster[i], radius)
            \/ dtype = "float" /\ Magnitude(raster[i]) >= Infinity

\* With its mask as it was sent, or one byte of it changed, a guarded stream that
\* is accepted has the pattern at the holes of its mask and nowhere else.
MaskDecides ==
  pc = "done" /\ Len(header) = 4 =>
    \A i \in DOMAIN mask : out[i] = header[1] <=> mask[i] = 0
=============================================================================
