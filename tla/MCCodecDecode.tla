--------------------------- MODULE MCCodecDecode ---------------------------
(* Small instances of CodecDecode.                                         *)
EXTENDS CodecDecode

\* Trees of one, three and five nodes.
Tree(nodes) ==
  LET leaf(level) == [level |-> level, right |-> 0] IN
  CASE nodes = 1 -> <<leaf(0)>>
    [] nodes = 3 -> <<[level |-> 0, right |-> 3], leaf(1), leaf(1)>>
    [] nodes = 5 -> <<[level |-> 0, right |-> 5], [level |-> 1, right |-> 4],
                      leaf(2), leaf(2), leaf(1)>>

\* The leaves that the samples of a frame alternate between.
Leaves(nodes) ==
  CASE nodes = 1 -> <<1>> [] nodes = 3 -> <<3, 2>> [] nodes = 5 -> <<5, 3, 4>>

\* A codec frame of samples of two bytes; shape is width, rows and planes, or
\* <<>> where the samples are not residuals.
F(samples, shape, payload, lns, blk, nodes) ==
  [form |-> "codec", size |-> 3, output |-> 2 * samples, count |-> samples,
   bytes |-> 2, planar |-> shape # <<>>,
   width |-> IF shape = <<>> THEN 0 ELSE shape[1],
   planes |-> IF shape = <<>> THEN 0 ELSE shape[2],
   root |-> TRUE, payload |-> payload, lanes |-> lns, block |-> blk,
   tree |-> Tree(nodes),
   leaf |-> [k \in 1 .. samples |->
               Leaves(nodes)[1 + (k % Len(Leaves(nodes)))]],
   bad |-> "no"]

One == <<"pfor">>
Low == <<"pivco", "pfor">>
High == <<"pfor", "pivco">>
Raw(samples) == [F(samples, <<>>, 0, One, 2, 1) EXCEPT !.form = "raw"]

\* Raw frames, planes wide and narrow, tall and low, and no planes.
Good(lns, others, nodes) ==
  {Raw(1), F(3, <<>>, 5, others, 2, nodes), F(3, <<3, 1>>, 9, lns, 4, IF nodes = 1 THEN 1 ELSE 5),
   F(9, <<3, 1>>, 4, lns, 3, nodes), F(4, <<2, 1>>, 4, lns, 2, 1),
   F(4, <<1, 2>>, 7, lns, 2, nodes)}

\* Frames that do not fit their header, their decoder or their slot.
Bad(lns) ==
  LET f == F(2, <<2, 1>>, 4, lns, 2, 1) IN
  {[f EXCEPT !.count = 3], [f EXCEPT !.width = 3], [f EXCEPT !.planes = 0],
   [f EXCEPT !.bytes = 1, !.count = 4], [f EXCEPT !.root = FALSE],
   [f EXCEPT !.form = "other"], [f EXCEPT !.form = "corrupt"],
   [f EXCEPT !.output = 3], [f EXCEPT !.bad = "block"],
   [f EXCEPT !.payload = 10], [f EXCEPT !.payload = 18], [f EXCEPT !.block = 1],
   [Raw(1) EXCEPT !.bytes = 1]}

MCKinds == [pfor |-> Good(One, One, 1) \cup Bad(One),
            pivco |-> Good(Low, High, 3) \cup Bad(Low)]
MCLimits == {0, 16}
=============================================================================
