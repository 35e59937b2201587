--------------------------- MODULE MCMedWavefront ---------------------------
EXTENDS MedWavefront

\* Rasters that rise, fall, wrap around and jump, so that the median takes each
\* of its three values.
MCValues(elts) ==
  {[p \in 0 .. elts - 1 |-> (a * p * p + b * p + (p \div d)) % Modulus] :
     a \in {0, 1, 3}, b \in {1, 5, 6}, d \in {3, 7}}
=============================================================================
