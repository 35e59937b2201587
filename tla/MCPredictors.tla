---------------------------- MODULE MCPredictors ----------------------------
EXTENDS Predictors

\* Rasters of so many samples that rise, fall and bend, so that the sums wrap
\* around and the residuals are not all the same.
Bent(elts) ==
  {[p \in 0 .. elts - 1 |-> (a * p * p + b * p + c) % Modulus] :
     a \in {0, 1, 3}, b \in {1, 6}, c \in {0, 5}}

\* Every raster of one and two samples, and of four whose samples are small or
\* large; one raster meets any header.
MCSmall ==
  [0 .. 0 -> Sample] \cup [0 .. 1 -> Sample] \cup [0 .. 3 -> {0, 1, 6}]
MCOne == [p \in 0 .. 11 |-> (3 * p * p + 6 * p + 5) % Modulus]

MCRasters == Bent(16) \cup Bent(12) \cup Bent(9) \cup MCSmall \cup {MCOne}

MCBuilds == {[lanes |-> 4, halves |-> TRUE, narrow |-> TRUE],
             [lanes |-> 16, halves |-> FALSE, narrow |-> FALSE]}

W(north, northWest, northEast, northNorth, shift) ==
  [n |-> north, nw |-> northWest, ne |-> northEast, nn |-> northNorth,
   shift |-> shift]

\* The weights of planar, and sums that need all bits of one shift or another.
MCWeights == {W(1, -1, 0, 0, 0), W(7, -9, 5, 3, 2), W(8, 6, -3, -7, 3),
              W(17, -5, 12, 9, 4)}

AllCodecs == {"delta_w", "delta_n", "planar", "planar_zigzag",
              "planar_zigzag_pfor", "average", "wp_static"}

AnyHeader == [size : {4, 8, 13, 17}, width : 0 .. 13, planes : 0 .. 5]
MCCorruptions == [s \in MCRasters |-> IF s = MCOne THEN AnyHeader ELSE {}]
=============================================================================
