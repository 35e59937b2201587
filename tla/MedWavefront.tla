---------------------------- MODULE MedWavefront ----------------------------
(***************************************************************************)
(* The decoder of med and med_zigzag (med/decode_med_wavefront.h).  A      *)
(* sample is predicted from its neighbours to the west, north and          *)
(* northwest, so a row cannot be decoded at once; four rows are decoded    *)
(* side by side instead, each a column behind the one above, and the lower *)
(* three read the row above from registers and not from memory.  Rows that *)
(* are left over, narrow rows and short planes are decoded one by one.     *)
(*                                                                         *)
(* One plane is modelled: the bindings call the kernel for each plane.     *)
(* dst may be src.                                                         *)
(***************************************************************************)
EXTENDS Samples, Sequences

CONSTANTS
  Codecs,    \* "med", "med_zigzag"
  Widths,    \* row widths
  Heights,   \* numbers of rows
  Values(_)  \* the rasters of so many samples, functions on 0 .. n - 1

ASSUME WavefrontAssumption ==
  /\ Codecs \subseteq {"med", "med_zigzag"}
  /\ Widths \subseteq Nat \ {0} /\ Heights \subseteq Nat \ {0}
  /\ \A w \in Widths, h \in Heights :
       Values(w * h) \subseteq [0 .. w * h - 1 -> Sample]

VARIABLES
  codec, w, rows,
  original,   \* what was encoded
  inPlace,    \* dst is src
  src, dst,
  phase,      \* "first", "rows", "wave", "serial", "done"
  r,          \* the row, or the top row of the four
  c,          \* the column, or the step of the wave
  W, P, nw    \* registers: the last sample of each of the four rows, the one
              \* before it, and the last northwest neighbour of the top row

vars == <<codec, w, rows, original, inPlace, src, dst, phase, r, c, W, P, nw>>

MedRows == 4   \* GEOZL_MED_ROWS
NoSample == -1
Positions == 0 .. w * rows - 1
At(row, col) == row * w + col

\* The neighbours of a sample, zero outside of the plane.
West(s, row, col) == IF col > 0 THEN s[At(row, col - 1)] ELSE 0
North(s, row, col) == IF row > 0 THEN s[At(row - 1, col)] ELSE 0
NorthWest(s, row, col) ==
  IF row > 0 /\ col > 0 THEN s[At(row - 1, col - 1)] ELSE 0

-----------------------------------------------------------------------------
(* Encoding, which reads src only                                          *)

EncodeMed(s, row, col) ==
  Minus(s[At(row, col)],
        Median(West(s, row, col), North(s, row, col), NorthWest(s, row, col)))

EncodeMedZigzag(s, row, col) == Zigzag(EncodeMed(s, row, col))

Stream(s) ==
  [p \in Positions |->
     IF codec = "med" THEN EncodeMed(s, p \div w, p % w)
     ELSE EncodeMedZigzag(s, p \div w, p % w)]

\* MED_RES, MED_ZIGZAG_RES
RES(v) == IF codec = "med" THEN v ELSE Unzigzag(v)

Init ==
  /\ codec \in Codecs /\ w \in Widths /\ rows \in Heights
  /\ original \in Values(w * rows)
  /\ inPlace \in BOOLEAN
  /\ src = Stream(original)
  /\ dst = IF inPlace THEN src ELSE [p \in Positions |-> NoSample]
  /\ phase = "first" /\ r = 0 /\ c = 0
  /\ W = <<0, 0, 0, 0>> /\ P = <<0, 0, 0, 0>> /\ nw = 0

-----------------------------------------------------------------------------
(* Decoding                                                                *)

Store(row, col, v) ==
  /\ dst' = [dst EXCEPT ![At(row, col)] = v]
  /\ src' = IF inPlace THEN [src EXCEPT ![At(row, col)] = v] ELSE src

\* The first row has no row above: each sample continues the one before.
FirstRow ==
  /\ phase = "first"
  /\ Store(0, c, Plus(RES(src[At(0, c)]), West(dst, 0, c)))
  /\ IF c + 1 < w THEN c' = c + 1 /\ UNCHANGED <<phase, r>>
     ELSE c' = 0 /\ phase' = "rows" /\ r' = 1
  /\ UNCHANGED <<codec, w, rows, original, inPlace, W, P, nw>>

\* The wave needs room to fill and to drain inside of a row.
TakesWave == w >= 2 * MedRows /\ rows > MedRows /\ r + MedRows <= rows

\* The first column of four rows is decoded top down.
BeginWave ==
  LET V0 == Plus(RES(src[At(r, 0)]), dst[At(r - 1, 0)])
      V1 == Plus(RES(src[At(r + 1, 0)]), V0)
      V2 == Plus(RES(src[At(r + 2, 0)]), V1)
      V3 == Plus(RES(src[At(r + 3, 0)]), V2)
      V == <<V0, V1, V2, V3>>
      Out(s) == [p \in Positions |->
                   IF p % w = 0 /\ (p \div w) \in r .. r + 3
                     THEN V[(p \div w) - r + 1] ELSE s[p]] IN
  /\ phase = "rows" /\ TakesWave
  /\ dst' = Out(dst) /\ src' = IF inPlace THEN Out(src) ELSE src
  /\ W' = V /\ P' = <<0, 0, 0, 0>> /\ nw' = dst[At(r - 1, 0)]
  /\ phase' = "wave" /\ c' = 0
  /\ UNCHANGED <<codec, w, rows, original, inPlace, r>>

\* Mutant: the front goes from top to bottom.
FrontDown(t) == << <<0, t>>, <<1, t - 1>>, <<2, t - 2>>, <<3, t - 3>> >>

\* The rows and columns of a wave, one step after the other: the rows enter one
\* at a time, go on a column apart from bottom to top, and leave one at a time.
Fill == << <<0, 1>>, <<1, 1>>, <<0, 2>>, <<2, 1>>, <<1, 2>>, <<0, 3>> >>
Front(t) == << <<3, t - 3>>, <<2, t - 2>>, <<1, t - 1>>, <<0, t>> >>
Drain == << <<3, w - 3>>, <<2, w - 2>>, <<1, w - 1>>, <<3, w - 2>>,
            <<2, w - 1>>, <<3, w - 1>> >>

Steps == 4 * (w - MedRows) + 12

StepAt(j) ==
  IF j < 6 THEN Fill[j + 1]
  ELSE IF j < Steps - 6 THEN Front(MedRows + ((j - 6) \div 4))[((j - 6) % 4) + 1]
  ELSE Drain[j - (Steps - 6) + 1]

\* Mutant: the register of the sample before takes the new one.
LaggedNew(k, v) == [P EXCEPT ![k + 1] = v]

\* (Pv) = (Wv): the sample before the last one.
Lagged(k, v) == [P EXCEPT ![k + 1] = W[k + 1]]

NextStep ==
  IF c + 1 < Steps THEN c' = c + 1 /\ UNCHANGED <<phase, r>>
  ELSE c' = 0 /\ phase' = "rows" /\ r' = r + MedRows

\* GEOZL_MED_TOP: the top row reads the row above from memory.
Top ==
  LET col == StepAt(c)[2]
      up == dst[At(r - 1, col)]
      v == Plus(RES(src[At(r, col)]), Median(W[1], up, nw)) IN
  /\ phase = "wave" /\ StepAt(c)[1] = 0
  /\ Store(r, col, v)
  /\ nw' = up /\ P' = Lagged(0, v) /\ W' = [W EXCEPT ![1] = v]
  /\ NextStep
  /\ UNCHANGED <<codec, w, rows, original, inPlace>>

\* GEOZL_MED_STEP: the others read it from the registers of the row above.
Step ==
  LET k == StepAt(c)[1]
      col == StepAt(c)[2]
      v == Plus(RES(src[At(r + k, col)]), Median(W[k + 1], W[k], P[k])) IN
  /\ phase = "wave" /\ k > 0
  /\ Store(r + k, col, v)
  /\ P' = Lagged(k, v) /\ W' = [W EXCEPT ![k + 1] = v]
  /\ NextStep
  /\ UNCHANGED <<codec, w, rows, original, inPlace, nw>>

\* What is left is decoded row by row.
EndWaves ==
  /\ phase = "rows" /\ ~TakesWave
  /\ phase' = IF r < rows THEN "serial" ELSE "done"
  /\ UNCHANGED <<codec, w, rows, original, inPlace, src, dst, r, c, W, P, nw>>

Serial ==
  LET predicted == IF c = 0 THEN dst[At(r - 1, 0)]
                   ELSE Median(dst[At(r, c - 1)], dst[At(r - 1, c)],
                               dst[At(r - 1, c - 1)]) IN
  /\ phase = "serial"
  /\ Store(r, c, Plus(RES(src[At(r, c)]), predicted))
  /\ c' = IF c + 1 < w THEN c + 1 ELSE 0
  /\ r' = IF c + 1 < w THEN r ELSE r + 1
  /\ phase' = IF c + 1 = w /\ r + 1 = rows THEN "done" ELSE phase
  /\ UNCHANGED <<codec, w, rows, original, inPlace, W, P, nw>>

Ended == phase = "done" /\ UNCHANGED vars

Next ==
  \/ FirstRow \/ BeginWave \/ Top \/ Step \/ EndWaves \/ Serial \/ Ended

Spec == Init /\ [][Next]_vars

-----------------------------------------------------------------------------
(* Properties                                                              *)

TypeOK ==
  /\ codec \in Codecs /\ w \in Widths /\ rows \in Heights
  /\ inPlace \in BOOLEAN
  /\ src \in [Positions -> Sample]
  /\ dst \in [Positions -> Sample \cup {NoSample}]
  /\ phase \in {"first", "rows", "wave", "serial", "done"}
  /\ r \in 0 .. rows /\ c \in Nat
  /\ W \in [1 .. 4 -> Sample] /\ P \in [1 .. 4 -> Sample] /\ nw \in Sample

\* decode_med_wavefront.h: at every step of a wave the registers hold what a
\* decoder without them would read from memory, the neighbours of the very
\* column that is decoded, in a row above that has got that far.
RegistersAreNeighbours ==
  phase = "wave" =>
    LET k == StepAt(c)[1]
        col == StepAt(c)[2] IN
    /\ W[k + 1] = dst[At(r + k, col - 1)]
    /\ IF k = 0 THEN nw = dst[At(r - 1, col - 1)]
       ELSE /\ W[k] = dst[At(r + k - 1, col)]
            /\ P[k] = dst[At(r + k - 1, col - 1)]

\* Every row above the one at work is decoded, whatever the order in which its
\* samples were, and also when the residuals were in the same place; at the end
\* that is the whole plane.
RowsDecoded ==
  phase # "first" =>
    \A p \in 0 .. r * w - 1 : dst[p] = original[p]
=============================================================================
