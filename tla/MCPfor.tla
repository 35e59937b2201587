------------------------------- MODULE MCPfor -------------------------------
(* Blocks around every boundary of PFOR.                                   *)
EXTENDS Pfor

\* n samples: those at the places have so many bits, the others at most base.
Samples(width, n, base, high, places) ==
  [width |-> width,
   elts |-> [i \in 1 .. n |->
               IF i \in places /\ high > 0
                 THEN 2 ^ (high - 1) + ((37 * i) % 2 ^ (high - 1))
                 ELSE (91 * i + 5) % 2 ^ base]]

\* Exceptions at the front, at the back, or spread over the block.
First(n) == 1 .. n
Rear(n) == 257 - n .. 256
Spread(n) == {1 + (i * 256) \div n : i \in 0 .. n - 1}

Bytes1 == {Samples(1, 256, b, h, First(n)) :
             b \in 0 .. 8, h \in {1, 3, 7, 8},
             n \in {0, 1, 31, 32, 33, 254, 255, 256}}
Bytes2 == {Samples(2, 256, b, h, Spread(n)) :
             b \in 0 .. 15, h \in {7, 9, 10, 15, 16}, n \in {1, 3, 33, 100}}
Odd == {Samples(w, n, 3, 8, Rear(40)) : w \in {1, 2}, n \in {0, 1, 255, 257, 513}}

Listed == Samples(1, 256, 2, 8, Spread(3))
Mapped == Samples(2, 200, 4, 13, Spread(60))
Plain == Samples(1, 300, 4, 4, {})

MCSources == Bytes1 \cup Bytes2 \cup Odd \cup {Listed, Mapped, Plain}

Byte(k, v) == [kind |-> "byte", at |-> k, value |-> v]
Cut(n) == [kind |-> "cut", at |-> n, value |-> 0]
More(n) == [kind |-> "more", at |-> n, value |-> 0]
Header(c, w) == [kind |-> "header", at |-> c, value |-> w]

MCDamage(src) ==
  IF src \notin {Listed, Mapped, Plain} THEN {} ELSE
    {Byte(k, v) : k \in 1 .. 6, v \in {0, 1, 3, 8, 13, 16, 60, 134, 200}}
      \cup {Cut(n) : n \in {1, 16, 60}} \cup {More(n) : n \in {1, 2, 300}}
      \cup {Header(c, w) : c \in {0, 1, 255, 256, 257, 299, 512, 40000},
                           w \in {1, 2, 3}}
=============================================================================
