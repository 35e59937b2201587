--------------------------- MODULE MCPlanParallel ---------------------------
(* Small instances of PlanParallel.                                        *)
EXTENDS PlanParallel

\* Trees of one and of three nodes.
Tree(nodes) ==
  IF nodes = 1 THEN <<[level |-> 0, right |-> 0]>>
  ELSE <<[level |-> 0, right |-> 3], [level |-> 1, right |-> 0],
         [level |-> 1, right |-> 0]>>

F(samples, lanes, block, nodes, out, bad) ==
  [count |-> samples, lanes |-> lanes, block |-> block, tree |-> Tree(nodes),
   leaf |-> [k \in 1 .. samples |-> IF nodes = 1 THEN 1 ELSE 2 + (k % 2)],
   out |-> out, planar |-> samples > 3, bad |-> bad]

\* Frames of one to three blocks, of which some do not check out.
PforKinds ==
  {F(1, <<"pfor">>, 1, 1, 0, "no"), F(5, <<"pfor">>, 1, 1, 7, "no"),
   F(4, <<"pfor">>, 1, 1, 2, "header"), F(2, <<"pfor">>, 1, 1, 3, "block")}

\* Lanes of either kind and of both, of one and two strides, with trees and
\* blocks of several sizes.
PivcoKinds ==
  {F(3, <<"pfor", "pfor">>, 2, 1, 0, "no"),
   F(5, <<"pivco", "pfor">>, 3, 3, 7, "no"),
   F(2, <<"pivco", "pivco">>, 2, 1, 2, "no"),
   F(2, <<"pfor", "pivco">>, 1, 3, 3, "block"),
   F(1, <<"pfor">>, 2, 1, 1, "no"), F(1, <<"pivco">>, 2, 1, 1, "header")}

MCKinds == [pfor |-> PforKinds, pivco |-> PivcoKinds]
=============================================================================
