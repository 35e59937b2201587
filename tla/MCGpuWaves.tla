---------------------------- MODULE MCGpuWaves ----------------------------
(* Small instances of GpuWaves.                                            *)
EXTENDS GpuWaves

CONSTANTS s1, s2

P(kinds, direct, bytes) ==
  [kinds |-> kinds, direct |-> direct, bytes |-> bytes]

\* PFOR through the scratch, PivCo direct with a larger temporary, and samples
\* that the host decoded.
MCPlans ==
  {P({"pfor", "device", "host"}, FALSE, 4), P({"pivco", "fallback"}, TRUE, 6)}
===========================================================================
