--------------------------- MODULE MCBatchLayout ---------------------------
(* Calls for BatchLayout: words of 5 bits, a size_t of 7.                   *)
EXTENDS BatchLayout

F(size, bytes, kind) == [size |-> size, decoded |-> bytes, kind |-> kind]

\* A copy in samples of s bytes.
C(s, frame, from, row, step, to, toRow, toStep, width, rows) ==
  [frame |-> frame, source |-> s * from, sourceRow |-> s * row,
   sourceStep |-> s * step, destination |-> s * to,
   destinationRow |-> s * toRow, destinationStep |-> s * toStep,
   width |-> width, rows |-> rows]

\* CUDA with and without an aligned target, and Metal.
Places ==
  {[backend |-> "cuda", memory |-> 8, offset |-> 4],
   [backend |-> "cuda", memory |-> 8, offset |-> 2],
   [backend |-> "metal", memory |-> 3, offset |-> 4]}

Call(place, s, element, bytes, frames, copies) ==
  [backend |-> place.backend, memory |-> place.memory,
   offset |-> place.offset, sample |-> s, element |-> element,
   bytes |-> bytes, frames |-> frames, copies |-> copies]

Routed == {"host", "pfor", "pivco"}

\* Each frame copied whole, one behind the other from sample `to` on, each
\* `lap` samples into the one before.
Tiles(s, frames, to, lap) ==
  LET at[k \in 0 .. Len(frames)] ==
        IF k = 0 THEN to ELSE at[k - 1] + frames[k].decoded \div s - lap
      Row(k) == frames[k].decoded \div s
  IN [k \in 1 .. Len(frames) |->
        C(s, k, 0, Row(k), 1, at[k - 1], Row(k), 1, Row(k), 1)]

\* Three frames, small and large, on every route: budgets, slots and bases.
Tiled ==
  {Call(place, s, s, 60, frames, Tiles(s, frames, t[1], t[2])) :
     place \in Places, s \in {1, 2}, t \in {<<0, 0>>, <<4, 0>>, <<3, 1>>},
     frames \in [1 .. 3 -> {F(3, 2, r) : r \in Routed}
                             \cup {F(9, 10, r) : r \in Routed}]}

\* Copies of one frame of 12 bytes: whole, in rows, down a column, a part of
\* it, strided, repeated, past the end, wrapping, too wide, and past 2^32.
Shapes(s, f, to) ==
  <<C(s, f, 0, 0, 1, to, 0, 1, 12 \div s, 1),
    C(s, f, 0, 2, 1, to, 2, 1, 2, 6 \div s),
    C(s, f, 0, 1, 0, to, 2, 0, 1, 12 \div s),
    C(s, f, 1, 2, 1, to, 3, 1, 2, 2),
    C(s, f, 0, 0, 2, to, 0, 1, 3, 1),
    C(s, f, 2, 0, 1, to, 2, 1, 2, 7),
    C(s, f, 0, 0, 1, to, 0, 1, 12 \div s + 1, 1),
    C(s, f, 0, 0, 0, to, 64 \div s, 0, 1, 3),
    C(s, f, 0, 64 \div s, 0, to, 1, 0, 1, 3),
    C(s, f, 0, 0, 0, to, 0, 1, 29, 1),
    C(s, f, 3, 0, 0, to, 5, 1, 1, 7)>>

\* Two copies of two frames.
Copied ==
  {Call(place, s, element, 96, <<F(5, 12, r), F(8, 12, q)>>,
        <<Shapes(s, 1, 0)[c], Shapes(s, d[1][1], d[1][2])[d[2]]>>) :
     place \in Places, s \in {1, 2}, element \in {1, 2},
     r \in {"pfor", "pivco"}, q \in Routed,
     c \in 1 .. 11, d \in {<<1, 6>>, <<2, 12>>} \X (1 .. 11)}

\* Frames too large for the device, and copies of them past 2^32 samples.
Large ==
  {Call(place, 1, 1, 96, <<F(20, 20, r), F(40, n, "pfor")>>,
        <<C(1, 1, 0, 0, 1, 0, 0, 1, 5, 1), C(1, 2, m, 1, 1, 20, 1, 1, 1, 6)>>) :
     place \in Places, r \in Routed, n \in {16, 20, 28}, m \in 0 .. 14}

\* Calls that are refused for other reasons, or ask for nothing.
Odd ==
  {Call(place, s, e, b, <<F(5, n, "pfor")>>, <<>>) :
     place \in Places \cup {[backend |-> "cuda", memory |-> 100, offset |-> 100]},
     s \in {2, 3, 4}, e \in {0, 1, 2}, b \in {0, 8}, n \in {0, 3, 4, 100}}

\* Copies of 31 rows, eight pieces each: four have more pieces than a word
\* counts.
Many ==
  {Call(place, 1, 1, 60, <<F(5, 12, r)>>,
        [k \in 1 .. n |-> C(1, 1, 0, 0, 0, 0, 1, 0, 1, 31)]) :
     place \in Places, r \in Routed, n \in {3, 4}}

MCCalls == Tiled \cup Copied \cup Large \cup Odd \cup Many
=============================================================================
