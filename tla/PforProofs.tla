----------------------------- MODULE PforProofs -----------------------------
(***************************************************************************)
(* Proofs about the PFOR codec, for every wide word, every width of the    *)
(* samples, every stream and whatever happens to its bytes on the way: a   *)
(* stream comes back as it was written, it fits its bound, and a block     *)
(* that is accepted is read as spec.md lays it out.                        *)
(*                                                                         *)
(* Induction over data is not to be had here.  In its place a set of the   *)
(* numbers for which a claim fails has a least one, and that number does   *)
(* not fail: what a recursive function computes, from Power to the lanes   *)
(* after every slot, is shown in this way.                                 *)
(*                                                                         *)
(* A lane of the packed body holds one number, the samples of the lane one *)
(* after another, and a group of bytes holds a digit of the number of      *)
(* every lane.  Packing keeps this from slot to slot (PackedTo), unpacking *)
(* takes the digits off again (YieldsMore), by two halves as well as in    *)
(* one walk, and spec.md places single bits in the same numbers            *)
(* (LaneBitIs).  The exceptions are rows of bits; the body and the rows of *)
(* a block are put together in DecodeReturns for what was encoded and in   *)
(* DecodedAsSpecified for whatever is accepted.                            *)
(*                                                                         *)
(* The invariant follows the session.  What is sent are the blocks of the  *)
(* source, one behind the other, each at an offset (Laid); when they       *)
(* arrive as they were sent, the decoder is at one of these offsets with   *)
(* the samples of the blocks before it (Following); and a stream that is   *)
(* being decoded lacks samples and has whole blocks (Phases).              *)
(***************************************************************************)
EXTENDS Pfor, FiniteSetTheorems, WellFoundedInduction, SequenceTheorems, TLAPS

-----------------------------------------------------------------------------
(* Numbers                                                                 *)

\* A set of numbers has a least one.  Taken of the numbers for which a claim
\* fails, it stands for induction.
LEMMA LeastNumber ==
  ASSUME NEW T, T \subseteq Nat, T # {}
  PROVE  \E x \in T : \A y \in T : x <= y
<1> DEFINE Below(n) == 0 .. n
           F == {Below(n) : n \in T}
<1>1. F \subseteq FiniteSubsetsOf(Nat) /\ F # {}
  <2>1. ASSUME NEW n \in T
        PROVE  Below(n) \in SUBSET Nat /\ IsFiniteSet(Below(n))
    BY FS_Interval
  <2> QED
    BY <2>1 DEF FiniteSubsetsOf
<1>2. PICK U \in F : \A V \in F : <<V, U>> \notin StrictSubsetOrdering(Nat)
  BY <1>1, FS_StrictSubsetOrderingWellFounded, WFMin
<1>3. PICK x \in T : U = Below(x)
  OBVIOUS
<1>4. ASSUME NEW y \in T PROVE x <= y
  <2> SUFFICES ASSUME y < x PROVE FALSE
    OBVIOUS
  <2>1. Below(y) \in SUBSET Nat /\ U \in SUBSET Nat /\ Below(y) \subseteq U
    BY <1>3
  <2>2. x \in U /\ x \notin Below(y)
    BY <1>3
  <2> HIDE DEF Below
  <2>3. <<Below(y), U>> \in StrictSubsetOrdering(Nat)
    BY <2>1, <2>2 DEF StrictSubsetOrdering
  <2> QED
    BY <1>2, <2>3
<1> QED
  BY <1>4

\* Every number has a quotient and a remainder.
LEMMA Divided ==
  ASSUME NEW v \in Nat, NEW w \in Nat \ {0}
  PROVE  /\ v \div w \in Nat /\ v % w \in 0 .. w - 1
         /\ v = (v \div w) * w + (v % w)
<1>1. /\ v \div w \in Int /\ v \div w >= 0
      /\ v % w \in 0 .. w - 1
  OBVIOUS
<1>2. PICK a \in Int, x \in Int : a = v \div w /\ x = v % w
  BY <1>1
<1>3. v = w * a + x
  BY <1>2
<1>4. w * a = a * w
  OBVIOUS
<1>5. v = a * w + x
  BY <1>2, <1>3, <1>4
<1>6. a * w + x = (v \div w) * w + (v % w)
  BY <1>2
<1>8. v = (v \div w) * w + (v % w)
  BY <1>5, <1>6, Zenon
<1>7. v \div w \in Nat
  BY <1>1
<1> QED
  BY <1>1, <1>7, <1>8, Zenon

\* Quotient and remainder of a number that is given by them.
LEMMA Composed ==
  ASSUME NEW w \in Nat \ {0}, NEW a \in Nat, NEW x \in 0 .. w - 1
  PROVE  (a * w + x) \div w = a /\ (a * w + x) % w = x
OBVIOUS

\* To divide twice is to divide by the product.
LEMMA DividedTwice ==
  ASSUME NEW v \in Nat, NEW a \in Nat \ {0}, NEW b \in Nat \ {0}
  PROVE  /\ a * b \in Nat \ {0}
         /\ v \div (a * b) = (v \div a) \div b
         /\ v % (a * b) = ((v \div a) % b) * a + (v % a)
<1>1. PICK q \in Nat, x \in 0 .. a - 1 : q = v \div a /\ x = v % a
  BY Divided
<1>2. PICK p \in Nat, y \in 0 .. b - 1 : p = q \div b /\ y = q % b
  BY <1>1, Divided
<1>3. v = q * a + x /\ q = p * b + y
  BY <1>1, <1>2, Divided
<1>4. a * b \in Nat \ {0} /\ y * a \in Nat /\ p * (a * b) \in Nat
  OBVIOUS
<1>5. y * a + x \in 0 .. a * b - 1
  <2>1. PICK d \in Nat : d = b - 1 - y
    OBVIOUS
  <2>2. b = y + 1 + d
    BY <2>1
  <2>3. a * b = y * a + a + d * a /\ d * a \in Nat
    BY <2>2
  <2> QED
    BY <1>4, <2>3
<1>6. v = p * (a * b) + (y * a + x)
  <2>1. (p * b + y) * a = p * (a * b) + y * a
    OBVIOUS
  <2>2. q * a = p * (a * b) + y * a
    BY <1>3, <2>1
  <2> QED
    BY <1>3, <1>4, <2>2
<1>7. v \div (a * b) = p /\ v % (a * b) = y * a + x
  BY <1>4, <1>5, <1>6, Composed
<1>8. (v \div a) \div b = p /\ ((v \div a) % b) * a + (v % a) = y * a + x
  <2>1. (v \div a) \div b = p
    BY <1>1, <1>2, Zenon
  <2>2. (v \div a) % b = y
    BY <1>1, <1>2, Zenon
  <2> QED
    BY <1>1, <2>1, <2>2
<1>9. v \div (a * b) = (v \div a) \div b
  BY <1>7, <1>8, Zenon
<1>10. v % (a * b) = ((v \div a) % b) * a + (v % a)
  BY <1>7, <1>8, Zenon
<1> QED
  BY <1>4, <1>9, <1>10, Zenon

\* The low digits of the low digits.
LEMMA LowOfLow ==
  ASSUME NEW v \in Nat, NEW a \in Nat \ {0}, NEW b \in Nat \ {0}
  PROVE  /\ (v % (a * b)) % a = v % a
         /\ (v % (a * b)) \div a = (v \div a) % b
<1>0. v \div a \in Nat /\ v % a \in 0 .. a - 1
  BY Divided
<1>1. /\ v \div a \in Nat /\ v % a \in 0 .. a - 1 /\ (v \div a) % b \in Nat
  BY <1>0, Divided
<1>2. v % (a * b) = ((v \div a) % b) * a + (v % a)
  BY DividedTwice
<1>3. PICK y \in Nat, x \in 0 .. a - 1 : y = (v \div a) % b /\ x = v % a
  BY <1>1
<1>4. v % (a * b) = y * a + x
  BY <1>2, <1>3
<1>5. (v % (a * b)) \div a = y /\ (v % (a * b)) % a = x
  <2>1. (y * a + x) \div a = y /\ (y * a + x) % a = x
    BY Composed
  <2> QED
    BY <1>4, <2>1, Zenon
<1> QED
  BY <1>3, <1>5, Zenon

-----------------------------------------------------------------------------
(* Recursion                                                               *)

\* Steps from one value to the next.
Steps(step, S, n) == step \in [1 .. n -> [S -> S]]

\* f computes each value from the one before.
Computes(f, S, n, base, step) ==
  /\ f \in [0 .. n -> S]
  /\ f[0] = base /\ \A k \in 1 .. n : f[k] = step[k][f[k - 1]]

\* A function that computes each value from the one before it exists.
LEMMA Recursion ==
  ASSUME NEW S, NEW n \in Nat, NEW base \in S, NEW step, Steps(step, S, n)
  PROVE  \E f : Computes(f, S, n, base, step)
<1> USE DEF Steps
<1> DEFINE Has(m) == \E f \in [0 .. m -> S] :
             \A k \in 0 .. m : f[k] = IF k = 0 THEN base ELSE step[k][f[k - 1]]
           T == {m \in 0 .. n : ~Has(m)}
<1>1. Has(0)
  <2>1. PICK f : f = [k \in 0 .. 0 |-> base]
    OBVIOUS
  <2>2. f \in [0 .. 0 -> S] /\ \A k \in 0 .. 0 : k = 0 /\ f[k] = base
    BY <2>1
  <2> QED
    BY <2>2
<1>2. ASSUME NEW m \in Nat, m + 1 \in 0 .. n, Has(m) PROVE Has(m + 1)
  <2>1. PICK f \in [0 .. m -> S] :
          \A k \in 0 .. m : f[k] = IF k = 0 THEN base ELSE step[k][f[k - 1]]
    BY <1>2
  <2> DEFINE last == step[m + 1][f[m]]
             g == [k \in 0 .. m + 1 |-> IF k <= m THEN f[k] ELSE last]
  <2>2. last \in S
    <3>1. m + 1 \in 1 .. n /\ f[m] \in S
      BY <1>2
    <3> QED
      BY <3>1
  <2>3. g \in [0 .. m + 1 -> S]
    <3> HIDE DEF last
    <3> QED
      BY <2>2
  <2>4. ASSUME NEW k \in 0 .. m + 1
        PROVE  g[k] = IF k = 0 THEN base ELSE step[k][g[k - 1]]
    <3>1. CASE k \in 0 .. m
      <4>1. g[k] = f[k] /\ (k # 0 => g[k - 1] = f[k - 1])
        BY <3>1
      <4> QED
        BY <2>1, <3>1, <4>1
    <3>2. CASE k = m + 1
      <4>1. g[k] = last /\ g[k - 1] = f[m] /\ k # 0
        BY <3>2
      <4> QED
        BY <3>2, <4>1
    <3> QED
      BY <3>1, <3>2
  <2> HIDE DEF g
  <2> QED
    BY <2>3, <2>4
<1> HIDE DEF Has
<1>3. T = {}
  <2> SUFFICES ASSUME T # {} PROVE FALSE
    OBVIOUS
  <2>1. PICK m \in T : \A j \in T : m <= j
    BY T \subseteq Nat, LeastNumber
  <2>2. m # 0 /\ m \in 0 .. n
    BY <1>1
  <2>3. m - 1 \in Nat /\ m - 1 \in 0 .. n /\ m - 1 \notin T /\ m - 1 + 1 = m
    BY <2>1, <2>2
  <2>4. Has(m)
    BY <1>2, <2>2, <2>3
  <2> QED
    BY <2>4
<1>4. PICK f \in [0 .. n -> S] :
        \A k \in 0 .. n : f[k] = IF k = 0 THEN base ELSE step[k][f[k - 1]]
  BY <1>3 DEF Has
<1> QED
  BY <1>4 DEF Computes

-----------------------------------------------------------------------------
(* Powers of two                                                           *)

\* 2 to the power of k: Power, as far as a whole block has bits.
Pow[k \in Nat] == IF k = 0 THEN 1 ELSE 2 * Pow[k - 1]

\* Each number doubles the power of the one before.
Doubles(u, n) ==
  /\ u \in [0 .. n -> Nat \ {0}]
  /\ u = [k \in 0 .. n |-> IF k = 0 THEN 1 ELSE 2 * u[k - 1]]

\* There is such a function.
LEMMA DoublesExist ==
  ASSUME NEW n \in Nat
  PROVE  \E u : Doubles(u, n)
<1> DEFINE S == Nat \ {0}
           step == [k \in 1 .. n |-> [x \in S |-> 2 * x]]
<1>1. Steps(step, S, n) /\ 1 \in S
  BY DEF Steps
<1>2. \A k \in 1 .. n : \A x \in S : step[k][x] = 2 * x
  OBVIOUS
<1> HIDE DEF step, S
<1>3. PICK u : Computes(u, S, n, 1, step)
  BY <1>1, Recursion
<1>4. ASSUME NEW k \in 0 .. n
      PROVE  u[k] = IF k = 0 THEN 1 ELSE 2 * u[k - 1]
  <2>1. CASE k \in 1 .. n
    <3>1. u[k] = step[k][u[k - 1]] /\ u[k - 1] \in S
      BY <1>3, <2>1 DEF Computes
    <3> QED
      BY <1>2, <2>1, <3>1
  <2> QED
    BY <1>3, <2>1 DEF Computes
<1>5. u = [k \in 0 .. n |-> IF k = 0 THEN 1 ELSE 2 * u[k - 1]]
  BY <1>3, <1>4 DEF Computes
<1> QED
  BY <1>3, <1>5 DEF Doubles, Computes, S

\* All of them are the same as far as they go.
LEMMA DoublesAgree ==
  ASSUME NEW n \in Nat, NEW u, Doubles(u, n),
         NEW m \in Nat, NEW v, Doubles(v, m), NEW k \in 0 .. n, k <= m
  PROVE  u[k] = v[k]
<1> DEFINE T == {j \in 0 .. n : j <= m /\ u[j] # v[j]}
<1> SUFFICES ASSUME T # {} PROVE FALSE
  OBVIOUS
<1>1. PICK j \in T : \A i \in T : j <= i
  BY T \subseteq Nat, LeastNumber
<1>2. /\ j \in 0 .. n /\ j \in 0 .. m /\ u[j] # v[j]
      /\ u[j] = IF j = 0 THEN 1 ELSE 2 * u[j - 1]
      /\ v[j] = IF j = 0 THEN 1 ELSE 2 * v[j - 1]
  BY <1>1 DEF Doubles
<1>3. j # 0
  BY <1>2
<1>4. j - 1 \in 0 .. n /\ j - 1 <= m /\ j - 1 \notin T
  BY <1>1, <1>2, <1>3
<1>5. u[j - 1] = v[j - 1]
  BY <1>4
<1> QED
  BY <1>2, <1>3, <1>5

\* What Pow computes.
LEMMA PowFacts ==
  /\ Pow[0] = 1
  /\ \A k \in Nat : Pow[k] \in Nat \ {0} /\ Pow[k + 1] = 2 * Pow[k]
<1> DEFINE Solution(n) == CHOOSE u : Doubles(u, n)
           f == [k \in Nat |-> Solution(k)[k]]
<1>1. ASSUME NEW n \in Nat PROVE Doubles(Solution(n), n)
  BY DoublesExist
<1>2. ASSUME NEW k \in Nat, NEW n \in Nat, k <= n PROVE f[k] = Solution(n)[k]
  <2>1. Doubles(Solution(k), k) /\ Doubles(Solution(n), n)
    BY <1>1
  <2> HIDE DEF Solution
  <2>2. k \in 0 .. k /\ k <= n
    BY <1>2
  <2>3. Solution(k)[k] = Solution(n)[k]
    BY <2>1, <2>2, DoublesAgree
  <2> QED
    BY <2>3
<1>3. ASSUME NEW k \in Nat
      PROVE  f[k] \in Nat \ {0} /\ f[k] = IF k = 0 THEN 1 ELSE 2 * f[k - 1]
  <2>1. Doubles(Solution(k), k)
    BY <1>1
  <2>2. f[k] = Solution(k)[k] /\ (k # 0 => f[k - 1] = Solution(k)[k - 1])
    BY <1>2
  <2> HIDE DEF f, Solution
  <2>3. k \in 0 .. k
    OBVIOUS
  <2>4. /\ Solution(k)[k] \in Nat \ {0}
        /\ Solution(k)[k] = IF k = 0 THEN 1 ELSE 2 * Solution(k)[k - 1]
    BY <2>1, <2>3 DEF Doubles
  <2> QED
    BY <2>2, <2>4
<1>4. f = [k \in Nat |-> IF k = 0 THEN 1 ELSE 2 * f[k - 1]]
  <2>1. f = [k \in Nat |-> f[k]]
    OBVIOUS
  <2> HIDE DEF f
  <2> QED
    BY <1>3, <2>1
<1> HIDE DEF f
<1>5. Pow = [k \in Nat |-> IF k = 0 THEN 1 ELSE 2 * Pow[k - 1]]
  BY <1>4 DEF Pow
<1>6. \A k \in Nat : Pow[k] = IF k = 0 THEN 1 ELSE 2 * Pow[k - 1]
  BY <1>5
<1>7. Pow[0] = 1
  BY <1>6
<1>8. ASSUME NEW k \in Nat PROVE Pow[k + 1] = 2 * Pow[k]
  <2>1. k + 1 \in Nat /\ k + 1 # 0 /\ k + 1 - 1 = k
    OBVIOUS
  <2> QED
    BY <1>6, <2>1
<1>9. \A k \in Nat : Pow[k] \in Nat \ {0}
  <2> DEFINE T == {k \in Nat : Pow[k] \notin Nat \ {0}}
  <2> SUFFICES ASSUME T # {} PROVE FALSE
    OBVIOUS
  <2>1. PICK k \in T : \A j \in T : k <= j
    BY T \subseteq Nat, LeastNumber
  <2>2. k # 0
    BY <1>7
  <2>3. k - 1 \in Nat /\ k - 1 \notin T /\ k - 1 + 1 = k
    BY <2>1, <2>2
  <2>4. Pow[k - 1] \in Nat \ {0} /\ Pow[k] = 2 * Pow[k - 1]
    BY <1>8, <2>3
  <2> QED
    BY <2>4
<1> QED
  BY <1>7, <1>8, <1>9

\* Powers multiply.
LEMMA PowSum ==
  ASSUME NEW a \in Nat, NEW b \in Nat
  PROVE  Pow[a + b] = Pow[a] * Pow[b]
<1> DEFINE T == {k \in Nat : Pow[a + k] # Pow[a] * Pow[k]}
<1> SUFFICES ASSUME T # {} PROVE FALSE
  OBVIOUS
<1>1. PICK k \in T : \A j \in T : k <= j
  BY T \subseteq Nat, LeastNumber
<1>2. k # 0
  <2>1. a + 0 = a /\ Pow[a] * 1 = Pow[a]
    BY PowFacts
  <2> QED
    BY <2>1, PowFacts
<1>3. PICK j \in Nat : k = j + 1 /\ Pow[a + j] = Pow[a] * Pow[j]
  <2>1. k - 1 \in Nat /\ k - 1 \notin T /\ k = k - 1 + 1
    BY <1>1, <1>2
  <2> QED
    BY <2>1
<1>4. a + j \in Nat /\ a + k = a + j + 1
  BY <1>3
<1>5. Pow[a + k] = 2 * Pow[a + j] /\ Pow[k] = 2 * Pow[j]
  BY <1>3, <1>4, PowFacts
<1>6. Pow[a] \in Nat /\ Pow[j] \in Nat
  BY PowFacts
<1>7. Pow[a] * (2 * Pow[j]) = 2 * (Pow[a] * Pow[j])
  BY <1>6
<1>8. Pow[a + k] = Pow[a] * Pow[k]
  BY <1>3, <1>5, <1>7
<1> QED
  BY <1>8

\* Bits of a byte and of the samples.
LEMMA BitsFacts ==
  /\ MaxWidth \in {1, 2, 4, 8} /\ 8 * MaxWidth \in Nat
  /\ \A w \in Widths : w \in {1, 2, 4, 8} /\ 8 * w \in 8 .. 8 * MaxWidth
BY PforAssumption DEF Widths

\* Power is Pow, as far as a sample has bits.
LEMMA PowerIsPow ==
  \A k \in 0 .. 8 * MaxWidth : Power[k] = Pow[k] /\ Power[k] \in Nat \ {0}
<1> DEFINE n == 8 * MaxWidth
<1>1. n \in Nat
  BY BitsFacts
<1> HIDE DEF n
<1>2. \E u : u = [k \in 0 .. n |-> IF k = 0 THEN 1 ELSE 2 * u[k - 1]]
  BY <1>1, DoublesExist DEF Doubles
<1>3. Power = [k \in 0 .. n |-> IF k = 0 THEN 1 ELSE 2 * Power[k - 1]]
  BY <1>2 DEF Power, n
<1>4. \A k \in 0 .. n : Power[k] = IF k = 0 THEN 1 ELSE 2 * Power[k - 1]
  BY <1>3
<1> DEFINE T == {k \in 0 .. n : Power[k] # Pow[k]}
<1>5. T = {}
  <2> SUFFICES ASSUME T # {} PROVE FALSE
    OBVIOUS
  <2>1. PICK k \in T : \A j \in T : k <= j
    BY T \subseteq Nat, LeastNumber
  <2>2. k # 0 /\ k \in 0 .. n
    BY <1>1, <1>4, PowFacts
  <2>3. k - 1 \in 0 .. n /\ k - 1 \in Nat /\ k - 1 \notin T /\ k - 1 + 1 = k
    BY <1>1, <2>1, <2>2
  <2>4. Power[k - 1] = Pow[k - 1] /\ Pow[k] = 2 * Pow[k - 1]
    BY <2>3, PowFacts
  <2> QED
    BY <1>4, <2>2, <2>4
<1>6. \A k \in 0 .. n : Power[k] = Pow[k] /\ Power[k] \in Nat \ {0}
  BY <1>1, <1>5, PowFacts
<1> QED
  BY <1>6 DEF n

-----------------------------------------------------------------------------
(* Digits                                                                  *)

\* d has n digits of b bits.
Digits(d, n, b) == \A k \in 0 .. n - 1 : d[k] \in 0 .. Pow[b] - 1

\* What the first digits of d stand for.
Sums(s, d, n, b) ==
  /\ s \in [0 .. n -> Nat] /\ s[0] = 0
  /\ \A k \in 0 .. n - 1 : s[k + 1] = s[k] + d[k] * Pow[b * k]

\* There are such sums.
LEMMA SumsExist ==
  ASSUME NEW n \in Nat, NEW b \in Nat, NEW d, Digits(d, n, b)
  PROVE  \E s : Sums(s, d, n, b)
<1> DEFINE step == [k \in 1 .. n |->
                      [x \in Nat |-> x + d[k - 1] * Pow[b * (k - 1)]]]
<1>1. ASSUME NEW k \in 1 .. n
      PROVE  d[k - 1] * Pow[b * (k - 1)] \in Nat
  <2>1. k - 1 \in 0 .. n - 1 /\ k - 1 \in Nat /\ b * (k - 1) \in Nat
    OBVIOUS
  <2>2. d[k - 1] \in Nat /\ Pow[b * (k - 1)] \in Nat
    BY <2>1, PowFacts DEF Digits
  <2> QED
    BY <2>2
<1>2. Steps(step, Nat, n)
  <2>1. ASSUME NEW k \in 1 .. n
        PROVE  [x \in Nat |-> x + d[k - 1] * Pow[b * (k - 1)]] \in [Nat -> Nat]
    <3>1. PICK c \in Nat : c = d[k - 1] * Pow[b * (k - 1)]
      BY <1>1
    <3>2. [x \in Nat |-> x + c] \in [Nat -> Nat]
      OBVIOUS
    <3> QED
      BY <3>1, <3>2
  <2> QED
    BY <2>1 DEF Steps
<1>3. \A k \in 1 .. n : \A x \in Nat :
        step[k][x] = x + d[k - 1] * Pow[b * (k - 1)]
  OBVIOUS
<1> HIDE DEF step
<1>4. PICK s : Computes(s, Nat, n, 0, step)
  BY <1>2, Recursion
<1>5. ASSUME NEW k \in 0 .. n - 1
      PROVE  s[k + 1] = s[k] + d[k] * Pow[b * k]
  <2>1. k + 1 \in 1 .. n /\ k + 1 - 1 = k /\ k \in 0 .. n
    OBVIOUS
  <2>2. s[k + 1] = step[k + 1][s[k]] /\ s[k] \in Nat
    BY <1>4, <2>1 DEF Computes
  <2> QED
    BY <1>3, <2>1, <2>2
<1>6. s \in [0 .. n -> Nat] /\ s[0] = 0
  BY <1>4 DEF Computes
<1> QED
  BY <1>5, <1>6 DEF Sums

\* Value sums up the digits.
LEMMA ValueSums ==
  ASSUME NEW n \in Nat, NEW b \in Nat, NEW d, Digits(d, n, b),
         b * n <= 8 * MaxWidth
  PROVE  \E s : Sums(s, d, n, b) /\ Value(d, n, b) = s[n]
<1> DEFINE Is(sum) ==
             sum = [k \in 0 .. n |->
                      IF k = 0 THEN 0
                      ELSE sum[k - 1] + d[k - 1] * Power[b * (k - 1)]]
           v == CHOOSE sum : Is(sum)
<1>1. ASSUME NEW k \in 0 .. n - 1
      PROVE  /\ Power[b * k] = Pow[b * k] /\ Pow[b * k] \in Nat
             /\ d[k] \in Nat /\ d[k] * Pow[b * k] \in Nat
  <2>1. b * k \in Nat /\ b * k <= b * n
    <3>1. PICK c \in Nat : n = k + c
      <4>1. n - k \in Nat /\ n = k + (n - k)
        OBVIOUS
      <4> QED
        BY <4>1
    <3>2. b * n = b * k + b * c /\ b * c \in Nat /\ b * k \in Nat
      BY <3>1
    <3> QED
      BY <3>2
  <2>2. b * k \in 0 .. 8 * MaxWidth
    BY <2>1, BitsFacts
  <2>3. Power[b * k] = Pow[b * k] /\ Pow[b * k] \in Nat
    BY <2>1, <2>2, PowerIsPow, PowFacts
  <2>4. d[k] \in Nat
    BY PowFacts DEF Digits
  <2> QED
    BY <2>3, <2>4
<1>2. PICK s : Sums(s, d, n, b)
  BY SumsExist
<1>3. Is(s)
  <2>1. ASSUME NEW k \in 0 .. n
        PROVE  s[k] = IF k = 0 THEN 0
                      ELSE s[k - 1] + d[k - 1] * Power[b * (k - 1)]
    <3>1. CASE k = 0
      BY <1>2, <3>1 DEF Sums
    <3>2. CASE k # 0
      <4>1. k - 1 \in 0 .. n - 1 /\ k - 1 + 1 = k
        BY <3>2
      <4>2. s[k] = s[k - 1] + d[k - 1] * Pow[b * (k - 1)]
        BY <1>2, <4>1 DEF Sums
      <4> QED
        BY <1>1, <3>2, <4>1, <4>2
    <3> QED
      BY <3>1, <3>2
  <2>2. s = [k \in 0 .. n |-> s[k]]
    BY <1>2 DEF Sums
  <2> QED
    BY <2>1, <2>2
<1>4. Is(v)
  BY <1>3
<1>5. Value(d, n, b) = v[n]
  BY DEF Value
<1>6. \A k \in 0 .. n :
        v[k] = IF k = 0 THEN 0
               ELSE v[k - 1] + d[k - 1] * Power[b * (k - 1)]
  BY <1>4
<1> HIDE DEF v
<1>7. v[n] = s[n]
  <2> DEFINE T == {k \in 0 .. n : v[k] # s[k]}
  <2> SUFFICES ASSUME T # {} PROVE FALSE
    OBVIOUS
  <2>1. PICK k \in T : \A j \in T : k <= j
    BY T \subseteq Nat, LeastNumber
  <2>2. k # 0
    BY <1>2, <1>6 DEF Sums
  <2>3. /\ k - 1 \in 0 .. n - 1 /\ k - 1 + 1 = k /\ k \in 0 .. n
        /\ k - 1 \notin T
    BY <2>1, <2>2
  <2>4. v[k - 1] = s[k - 1]
    BY <2>3
  <2>5. v[k] = v[k - 1] + d[k - 1] * Power[b * (k - 1)]
    BY <1>6, <2>2, <2>3
  <2>6. s[k] = s[k - 1] + d[k - 1] * Pow[b * (k - 1)]
    BY <1>2, <2>3 DEF Sums
  <2>7. Power[b * (k - 1)] = Pow[b * (k - 1)]
    BY <1>1, <2>3
  <2> QED
    BY <2>1, <2>4, <2>5, <2>6, <2>7
<1> QED
  BY <1>2, <1>5, <1>7

\* The next digit is worth the power of the digits before.
LEMMA PowNext ==
  ASSUME NEW b \in Nat, NEW k \in Nat
  PROVE  /\ b * k \in Nat /\ b * (k + 1) = b * k + b
         /\ Pow[b] \in Nat \ {0} /\ Pow[b * k] \in Nat \ {0}
         /\ Pow[b * (k + 1)] = Pow[b * k] * Pow[b]
<1>1. b * k \in Nat /\ b * (k + 1) = b * k + b
  OBVIOUS
<1> QED
  BY <1>1, PowSum, PowFacts, ZenonT(60)

\* Sums of the digits of a number are its low digits.
LEMMA SumsOfNumber ==
  ASSUME NEW n \in Nat, NEW b \in Nat, NEW d, NEW s, Sums(s, d, n, b),
         NEW v \in Nat,
         \A k \in 0 .. n - 1 : d[k] = (v \div Pow[b * k]) % Pow[b]
  PROVE  \A k \in 0 .. n : s[k] = v % Pow[b * k]
<1> DEFINE T == {k \in 0 .. n : s[k] # v % Pow[b * k]}
<1> SUFFICES ASSUME T # {} PROVE FALSE
  OBVIOUS
<1>1. PICK k \in T : \A j \in T : k <= j
  BY T \subseteq Nat, LeastNumber
<1>2. k # 0
  <2>1. b * 0 = 0 /\ Pow[0] = 1 /\ v % 1 = 0 /\ s[0] = 0
    BY PowFacts DEF Sums
  <2> QED
    BY <1>1, <2>1
<1>3. PICK j \in 0 .. n - 1 : k = j + 1 /\ s[j] = v % Pow[b * j]
  <2>1. /\ k - 1 \in 0 .. n - 1 /\ k - 1 \in 0 .. n /\ k - 1 + 1 = k
        /\ k - 1 \notin T
    BY <1>1, <1>2
  <2> QED
    BY <2>1
<1>4. PICK p \in Nat \ {0}, q \in Nat \ {0} :
        p = Pow[b * j] /\ q = Pow[b] /\ Pow[b * k] = p * q
  <2>1. j \in Nat /\ k = j + 1
    BY <1>3
  <2>2. /\ Pow[b] \in Nat \ {0} /\ Pow[b * j] \in Nat \ {0}
        /\ Pow[b * (j + 1)] = Pow[b * j] * Pow[b]
    BY <2>1, PowNext
  <2> QED
    BY <2>1, <2>2
<1>5. s[k] = (v % p) + ((v \div p) % q) * p
  BY <1>3, <1>4 DEF Sums
<1>6. v % (p * q) = ((v \div p) % q) * p + (v % p)
  BY DividedTwice
<1>7. v % p \in Nat /\ v \div p \in Nat
  <2>1. v \div p \in Nat /\ v % p \in 0 .. p - 1
    BY Divided
  <2> QED
    BY <2>1
<1>8. (v \div p) % q \in Nat
  BY <1>7, Divided
<1>9. PICK x \in Nat, y \in Nat : x = v % p /\ y = (v \div p) % q
  BY <1>7, <1>8
<1>10. x + y * p = y * p + x
  OBVIOUS
<1>11. s[k] = v % Pow[b * k]
  BY <1>4, <1>5, <1>6, <1>9, <1>10
<1> QED
  BY <1>11

\* Sums are as wide as the digits, and show them.
LEMMA SumsShow ==
  ASSUME NEW n \in Nat, NEW b \in Nat, NEW d, Digits(d, n, b),
         NEW s, Sums(s, d, n, b)
  PROVE  /\ \A k \in 0 .. n : s[k] \in 0 .. Pow[b * k] - 1
         /\ \A k \in 0 .. n - 1 : (s[n] \div Pow[b * k]) % Pow[b] = d[k]
<1>1. ASSUME NEW k \in 0 .. n - 1
      PROVE  /\ s[k] \in Nat /\ s[k + 1] = s[k] + d[k] * Pow[b * k]
             /\ d[k] \in 0 .. Pow[b] - 1 /\ d[k] \in Nat
             /\ b * k \in Nat
             /\ Pow[b * k] \in Nat \ {0} /\ Pow[b] \in Nat \ {0}
             /\ Pow[b * (k + 1)] = Pow[b * k] * Pow[b]
  <2>1. k \in Nat /\ d[k] \in 0 .. Pow[b] - 1 /\ Pow[b] \in Nat \ {0}
    BY PowFacts DEF Digits
  <2>2. d[k] \in Nat
    BY <2>1
  <2> QED
    BY <2>1, <2>2, PowNext DEF Sums
<1>2. \A k \in 0 .. n : s[k] \in 0 .. Pow[b * k] - 1
  <2> DEFINE T == {k \in 0 .. n : s[k] \notin 0 .. Pow[b * k] - 1}
  <2> SUFFICES ASSUME T # {} PROVE FALSE
    OBVIOUS
  <2>1. PICK k \in T : \A j \in T : k <= j
    BY T \subseteq Nat, LeastNumber
  <2>2. k # 0
    <3>1. b * 0 = 0 /\ Pow[0] = 1 /\ s[0] = 0
      BY PowFacts DEF Sums
    <3> QED
      BY <2>1, <3>1
  <2>3. PICK j \in 0 .. n - 1 : k = j + 1 /\ s[j] \in 0 .. Pow[b * j] - 1
    <3>1. /\ k - 1 \in 0 .. n - 1 /\ k - 1 \in 0 .. n /\ k - 1 + 1 = k
          /\ k - 1 \notin T
      BY <2>1, <2>2
    <3> QED
      BY <3>1
  <2>4. PICK p \in Nat \ {0}, q \in Nat \ {0}, x \in Nat :
          p = Pow[b * j] /\ q = Pow[b] /\ x = d[j] /\ x < q
    <3>1. /\ d[j] \in 0 .. Pow[b] - 1 /\ d[j] \in Nat
          /\ Pow[b * j] \in Nat \ {0} /\ Pow[b] \in Nat \ {0}
      BY <1>1
    <3>2. d[j] < Pow[b]
      BY <3>1
    <3> QED
      BY <3>1, <3>2
  <2>5. PICK c \in Nat : q = x + 1 + c
    <3>1. q - (x + 1) \in Nat /\ q = x + 1 + (q - (x + 1))
      BY <2>4
    <3> QED
      BY <3>1
  <2>6. p * q = x * p + p + c * p /\ c * p \in Nat /\ x * p \in Nat
    BY <2>5
  <2>7. s[k] = s[j] + x * p /\ Pow[b * k] = p * q
    BY <1>1, <2>3, <2>4
  <2>8. s[k] \in 0 .. Pow[b * k] - 1
    BY <2>3, <2>4, <2>6, <2>7
  <2> QED
    BY <2>8
<1>3. ASSUME NEW k \in 0 .. n - 1
      PROVE  \A m \in k + 1 .. n :
               \E r \in Nat : s[m] = s[k + 1] + r * Pow[b * (k + 1)]
  <2> DEFINE H(m) == \E r \in Nat : s[m] = s[k + 1] + r * Pow[b * (k + 1)]
             T == {m \in k + 1 .. n : ~H(m)}
  <2> SUFFICES ASSUME T # {} PROVE FALSE
    OBVIOUS
  <2>1. PICK m \in T : \A j \in T : m <= j
    BY T \subseteq Nat, LeastNumber
  <2>2. PICK p \in Nat \ {0} : p = Pow[b * (k + 1)]
    BY PowNext
  <2>3. m # k + 1
    <3>1. s[k + 1] = s[k + 1] + 0 * p
      BY <2>2 DEF Sums
    <3> QED
      BY <2>1, <2>2, <3>1
  <2>4. PICK j \in k + 1 .. n - 1 : m = j + 1 /\ H(j)
    <3>1. /\ m - 1 \in k + 1 .. n - 1 /\ m - 1 \in k + 1 .. n
          /\ m - 1 + 1 = m /\ m - 1 \notin T
      BY <2>1, <2>3
    <3> QED
      BY <3>1
  <2>5. PICK r \in Nat : s[j] = s[k + 1] + r * p
    BY <2>2, <2>4
  <2>6. PICK c \in Nat : j = k + 1 + c
    <3>1. j - (k + 1) \in Nat /\ j = k + 1 + (j - (k + 1))
      OBVIOUS
    <3> QED
      BY <3>1
  <2>7. Pow[b * j] = p * Pow[b * c] /\ Pow[b * c] \in Nat
    <3>1. /\ b * j = b * (k + 1) + b * c /\ b * (k + 1) \in Nat
          /\ b * c \in Nat
      BY <2>6
    <3>2. PICK e \in Nat, f \in Nat : e = b * (k + 1) /\ f = b * c
      BY <3>1
    <3>3. Pow[e + f] = Pow[e] * Pow[f] /\ Pow[f] \in Nat
      BY PowSum, PowFacts
    <3> QED
      BY <2>2, <3>1, <3>2, <3>3
  <2>8. PICK q \in Nat, x \in Nat : q = Pow[b * c] /\ x = d[j]
    BY <1>1, <2>7
  <2>9. s[m] = s[k + 1] + r * p + x * (p * q)
    BY <1>1, <2>4, <2>5, <2>7, <2>8
  <2>10. r * p + x * (p * q) = (r + x * q) * p /\ r + x * q \in Nat
    OBVIOUS
  <2>11. s[m] = s[k + 1] + (r + x * q) * p
    <3>1. s[k + 1] \in Nat
      BY DEF Sums
    <3> QED
      BY <2>9, <2>10, <3>1
  <2>12. H(m)
    BY <2>2, <2>10, <2>11
  <2> QED
    BY <2>12
<1>4. ASSUME NEW k \in 0 .. n - 1
      PROVE  (s[n] \div Pow[b * k]) % Pow[b] = d[k]
  <2>1. PICK r \in Nat : s[n] = s[k + 1] + r * Pow[b * (k + 1)]
    <3>1. n \in k + 1 .. n
      OBVIOUS
    <3> QED
      BY <1>3, <3>1
  <2>2. PICK p \in Nat \ {0}, q \in Nat \ {0}, x \in Nat, y \in Nat :
          /\ p = Pow[b * k] /\ q = Pow[b] /\ x = d[k] /\ y = s[k]
          /\ x < q /\ y < p
    <3>1. s[k] \in 0 .. Pow[b * k] - 1
      BY <1>2
    <3> QED
      BY <1>1, <3>1, SMTT(40)
  <2>3. s[n] = (r * q + x) * p + y
    <3>1. s[n] = y + x * p + r * (p * q)
      BY <1>1, <2>1, <2>2
    <3>2. (r * q + x) * p = r * (p * q) + x * p
      OBVIOUS
    <3>3. r * (p * q) \in Nat /\ x * p \in Nat
      OBVIOUS
    <3> QED
      BY <3>1, <3>2, <3>3
  <2>4. r * q + x \in Nat /\ y \in 0 .. p - 1 /\ x \in 0 .. q - 1
    BY <2>2
  <2>5. s[n] \div p = r * q + x
    <3>1. PICK a \in Nat : a = r * q + x
      BY <2>4
    <3>2. (a * p + y) \div p = a
      BY <2>4, Composed
    <3> QED
      BY <2>3, <3>1, <3>2
  <2>6. (r * q + x) % q = x
    BY <2>4, Composed
  <2> QED
    BY <2>2, <2>5, <2>6
<1> QED
  BY <1>2, <1>4

-----------------------------------------------------------------------------
(* Lanes and slots                                                         *)

\* The numbers of the widths.
LEMMA Shape ==
  ASSUME NEW w \in Widths
  PROVE  /\ w \in {1, 2, 4, 8} /\ Bits(w) = 8 * w /\ 8 * w <= 8 * MaxWidth
         /\ Lanes(w) \in Nat \ {0} /\ Lanes(w) * w = 16 /\ Slots(w) = 16 * w
<1>1. w \in {1, 2, 4, 8} /\ 8 * w <= 8 * MaxWidth
  BY BitsFacts
<1>2. CASE w = 1
  BY <1>1, <1>2 DEF Bits, Lanes, Slots, Group, Block
<1>3. CASE w = 2
  BY <1>1, <1>3 DEF Bits, Lanes, Slots, Group, Block
<1>4. CASE w = 4
  BY <1>1, <1>4 DEF Bits, Lanes, Slots, Group, Block
<1>5. CASE w = 8
  BY <1>1, <1>5 DEF Bits, Lanes, Slots, Group, Block
<1> QED
  BY <1>1, <1>2, <1>3, <1>4, <1>5

\* Sample l of slot s has its place in the block.
LEMMA PlaceInBlock ==
  ASSUME NEW w \in Widths, NEW s \in 0 .. Slots(w) - 1,
         NEW l \in 0 .. Lanes(w) - 1
  PROVE  s * Lanes(w) + l + 1 \in 1 .. Block
<1>1. w \in {1, 2, 4, 8} /\ Lanes(w) * w = 16 /\ Slots(w) = 16 * w
  BY Shape
<1>2. CASE w = 1
  BY <1>1, <1>2 DEF Lanes, Group, Block
<1>3. CASE w = 2
  BY <1>1, <1>3 DEF Lanes, Group, Block
<1>4. CASE w = 4
  BY <1>1, <1>4 DEF Lanes, Group, Block
<1>5. CASE w = 8
  BY <1>1, <1>5 DEF Lanes, Group, Block
<1> QED
  BY <1>1, <1>2, <1>3, <1>4, <1>5

\* Powers of the bits of a sample.
LEMMA PowerFits ==
  ASSUME NEW w \in Widths, NEW k \in 0 .. 8 * w
  PROVE  Power[k] = Pow[k] /\ Pow[k] \in Nat \ {0}
<1>1. k \in 0 .. 8 * MaxWidth
  BY Shape, BitsFacts
<1> QED
  BY <1>1, PowerIsPow, PowFacts

\* Low bits: those of low bits, and those that are put together.
LEMMA LowBits ==
  ASSUME NEW x \in Nat, NEW a \in Nat, NEW b \in Nat
  PROVE  /\ x \div Pow[a] \in Nat /\ x % Pow[a] \in 0 .. Pow[a] - 1
         /\ (x \div Pow[a]) \div Pow[b] = x \div Pow[a + b]
         /\ (x % Pow[a + b]) % Pow[a] = x % Pow[a]
         /\ (x % Pow[a + b]) \div Pow[a] = (x \div Pow[a]) % Pow[b]
         /\ (x % Pow[a]) + ((x \div Pow[a]) % Pow[b]) * Pow[a]
              = x % Pow[a + b]
<1>1. PICK p \in Nat \ {0}, q \in Nat \ {0} :
        p = Pow[a] /\ q = Pow[b] /\ Pow[a + b] = p * q
  BY PowSum, PowFacts
<1>2. x \div p \in Nat /\ x % p \in 0 .. p - 1
  BY Divided
<1>3. (x \div p) \div q = x \div (p * q)
  <2>1. x \div (p * q) = (x \div p) \div q
    OBVIOUS
  <2> QED
    BY <2>1, Zenon
<1>4. x % (p * q) = ((x \div p) % q) * p + (x % p)
  BY DividedTwice
<1>5. (x % (p * q)) % p = x % p /\ (x % (p * q)) \div p = (x \div p) % q
  BY LowOfLow
<1>6. (x % p) + ((x \div p) % q) * p = x % (p * q)
  <2>1. (x \div p) % q \in 0 .. q - 1
    BY <1>2, Divided
  <2>2. PICK y \in Nat, z \in Nat : y = x % p /\ z = (x \div p) % q
    BY <1>2, <2>1
  <2>3. y + z * p = z * p + y
    OBVIOUS
  <2> QED
    BY <1>4, <2>2, <2>3
<1> QED
  BY <1>1, <1>2, <1>3, <1>5, <1>6, Zenon

\* High bits of high bits.
LEMMA HighTwice ==
  ASSUME NEW x \in Nat, NEW a \in Nat, NEW b \in Nat
  PROVE  (x \div Pow[a]) \div Pow[b] = x \div Pow[a + b]
BY LowBits

\* Low bits of low bits.
LEMMA LowTwice ==
  ASSUME NEW x \in Nat, NEW a \in Nat, NEW b \in Nat
  PROVE  (x % Pow[a + b]) % Pow[a] = x % Pow[a]
<1>1. PICK p \in Nat \ {0}, q \in Nat \ {0} :
        p = Pow[a] /\ q = Pow[b] /\ Pow[a + b] = p * q
  BY PowSum, PowFacts
<1>2. (x % (p * q)) % p = x % p
  BY LowOfLow
<1> QED
  BY <1>1, <1>2, Zenon

\* High bits of low bits.
LEMMA HighOfLow ==
  ASSUME NEW x \in Nat, NEW a \in Nat, NEW b \in Nat
  PROVE  (x % Pow[a + b]) \div Pow[a] = (x \div Pow[a]) % Pow[b]
BY LowBits

\* Low bits are put together.
LEMMA LowJoined ==
  ASSUME NEW x \in Nat, NEW a \in Nat, NEW b \in Nat
  PROVE  (x % Pow[a]) + ((x \div Pow[a]) % Pow[b]) * Pow[a] = x % Pow[a + b]
BY LowBits

\* High and low bits are numbers.
LEMMA HighIsNat ==
  ASSUME NEW x \in Nat, NEW a \in Nat
  PROVE  x \div Pow[a] \in Nat /\ x % Pow[a] \in Nat /\ x % Pow[a] < Pow[a]
<1>1. x \div Pow[a] \in Nat /\ x % Pow[a] \in 0 .. Pow[a] - 1
  BY LowBits
<1>2. Pow[a] \in Nat
  BY PowFacts
<1> QED
  BY <1>1, <1>2

\* A number of fewer bits is its low bits.
LEMMA LowOfFew ==
  ASSUME NEW a \in Nat, NEW b \in Nat, a <= b, NEW x \in 0 .. Pow[a] - 1
  PROVE  x \in 0 .. Pow[b] - 1 /\ x % Pow[b] = x
<1>1. PICK c \in Nat : b = a + c
  <2>1. b - a \in Nat /\ b = a + (b - a)
    OBVIOUS
  <2> QED
    BY <2>1
<1>2. PICK p \in Nat \ {0}, q \in Nat \ {0} :
        p = Pow[a] /\ q = Pow[c] /\ Pow[b] = p * q
  BY <1>1, PowSum, PowFacts, ZenonT(60)
<1>3. PICK e \in Nat : q = e + 1
  <2>1. q - 1 \in Nat /\ q = q - 1 + 1
    OBVIOUS
  <2> QED
    BY <2>1
<1>4. p * q = p * e + p /\ p * e \in Nat
  BY <1>3
<1>5. x \in 0 .. p * q - 1 /\ p * q \in Nat \ {0}
  BY <1>2, <1>4
<1>6. x % (p * q) = x
  <2>1. PICK m \in Nat \ {0} : m = p * q
    BY <1>5
  <2>2. x % m = x
    BY <1>5, <2>1
  <2> QED
    BY <2>1, <2>2
<1> QED
  BY <1>2, <1>5, <1>6, Zenon

-----------------------------------------------------------------------------
(* The body of a block is packed                                           *)

\* A byte of a word.
LEMMA WordByte ==
  ASSUME NEW w \in Widths, NEW k \in 0 .. 15
  PROVE  /\ k \div w \in 0 .. Lanes(w) - 1 /\ k % w \in 0 .. w - 1
         /\ k = (k \div w) * w + (k % w)
<1>1. w \in {1, 2, 4, 8} /\ Lanes(w) * w = 16 /\ Lanes(w) \in Nat
  BY Shape
<1>2. w \in Nat \ {0} /\ k \in Nat
  BY <1>1
<1>3. PICK q \in Nat, x \in 0 .. w - 1 : q = k \div w /\ x = k % w
  BY <1>2, Divided
<1>4. k = q * w + x
  BY <1>2, <1>3, Divided
<1>5. q <= Lanes(w) - 1
  <2>1. CASE w = 1
    BY <1>1, <1>4, <2>1
  <2>2. CASE w = 2
    BY <1>1, <1>4, <2>2
  <2>3. CASE w = 4
    BY <1>1, <1>4, <2>3
  <2>4. CASE w = 8
    BY <1>1, <1>4, <2>4
  <2> QED
    BY <1>1, <2>1, <2>2, <2>3, <2>4
<1>6. q \in 0 .. Lanes(w) - 1
  BY <1>1, <1>5
<1> QED
  BY <1>3, <1>4, <1>6

\* Byte j of word l has its place in a group.
LEMMA ByteOfWord ==
  ASSUME NEW w \in Widths, NEW l \in 0 .. Lanes(w) - 1, NEW j \in 0 .. w - 1
  PROVE  /\ l * w + j \in 0 .. 15
         /\ (l * w + j) \div w = l /\ (l * w + j) % w = j
<1>1. w \in {1, 2, 4, 8} /\ Lanes(w) * w = 16 /\ Lanes(w) \in Nat
  BY Shape
<1>2. l * w + j \in 0 .. 15
  <2>1. CASE w = 1
    BY <1>1, <2>1
  <2>2. CASE w = 2
    BY <1>1, <2>2
  <2>3. CASE w = 4
    BY <1>1, <2>3
  <2>4. CASE w = 8
    BY <1>1, <2>4
  <2> QED
    BY <1>1, <2>1, <2>2, <2>3, <2>4
<1>3. w \in Nat \ {0} /\ l \in Nat
  BY <1>1
<1> QED
  BY <1>2, <1>3, Composed

\* A byte is eight bits.
LEMMA ByteRange == Pow[8] = 256
<1>1. /\ Pow[0 + 1] = 2 * Pow[0] /\ Pow[1 + 1] = 2 * Pow[1]
      /\ Pow[2 + 1] = 2 * Pow[2] /\ Pow[3 + 1] = 2 * Pow[3]
      /\ Pow[4 + 1] = 2 * Pow[4] /\ Pow[5 + 1] = 2 * Pow[5]
      /\ Pow[6 + 1] = 2 * Pow[6] /\ Pow[7 + 1] = 2 * Pow[7]
  BY PowFacts
<1>2. Pow[0] = 1
  BY PowFacts
<1> QED
  BY <1>1, <1>2

\* A group holds the bytes of its words.
LEMMA GroupHolds ==
  ASSUME NEW w \in Widths, NEW words \in [0 .. Lanes(w) - 1 -> Nat]
  PROVE  /\ GroupBytes(w, words) \in Seq(0 .. 255)
         /\ Len(GroupBytes(w, words)) = Group
         /\ \A l \in 0 .. Lanes(w) - 1, j \in 0 .. w - 1 :
              GroupBytes(w, words)[l * w + j + 1]
                = (words[l] \div Pow[8 * j]) % 256
<1> DEFINE At(k) == (words[(k - 1) \div w] \div Power[8 * ((k - 1) % w)]) % 256
           g == [k \in 1 .. 16 |-> At(k)]
<1>1. GroupBytes(w, words) = g
  BY DEF GroupBytes, Group
<1>2. ASSUME NEW k \in 1 .. 16
      PROVE  /\ words[(k - 1) \div w] \in Nat
             /\ Power[8 * ((k - 1) % w)] = Pow[8 * ((k - 1) % w)]
             /\ Power[8 * ((k - 1) % w)] \in Nat \ {0}
  <2>1. PICK l \in 0 .. Lanes(w) - 1, j \in 0 .. w - 1 :
          l = (k - 1) \div w /\ j = (k - 1) % w
    <3>1. k - 1 \in 0 .. 15
      OBVIOUS
    <3> QED
      BY <3>1, WordByte
  <2>2. 8 * j \in 0 .. 8 * w
    BY Shape
  <2>3. Power[8 * j] = Pow[8 * j] /\ Pow[8 * j] \in Nat \ {0}
    BY <2>2, PowerFits
  <2> QED
    BY <2>1, <2>3
<1>3. ASSUME NEW k \in 1 .. 16 PROVE At(k) \in 0 .. 255
  <2>1. PICK x \in Nat, p \in Nat \ {0} :
          x = words[(k - 1) \div w] /\ p = Power[8 * ((k - 1) % w)]
    BY <1>2
  <2>2. x \div p \in Nat
    BY Divided
  <2>3. (x \div p) % 256 \in 0 .. 255
    BY <2>2
  <2> QED
    BY <2>1, <2>3
<1>4. g \in Seq(0 .. 255) /\ Len(g) = 16
  <2> HIDE DEF At
  <2> QED
    BY <1>3
<1>5. ASSUME NEW l \in 0 .. Lanes(w) - 1, NEW j \in 0 .. w - 1
      PROVE  g[l * w + j + 1] = (words[l] \div Pow[8 * j]) % 256
  <2>1. PICK i \in 0 .. 15 : i = l * w + j /\ i \div w = l /\ i % w = j
    BY ByteOfWord
  <2>2. i + 1 \in 1 .. 16 /\ i + 1 - 1 = i
    OBVIOUS
  <2>3. g[i + 1] = At(i + 1)
    BY <2>2
  <2>4. At(i + 1) = (words[l] \div Power[8 * j]) % 256
    BY <2>1, <2>2
  <2>5. 8 * j \in 0 .. 8 * w
    BY Shape
  <2>6. Power[8 * j] = Pow[8 * j]
    BY <2>5, PowerFits
  <2> QED
    BY <2>1, <2>3, <2>4, <2>6
<1> HIDE DEF g
<1> QED
  BY <1>1, <1>4, <1>5 DEF Group

\* The lanes while a block is packed.
PackState(w) ==
  [acc : [0 .. Lanes(w) - 1 -> Nat], nb : 0 .. 8 * w - 1, out : Seq(0 .. 255)]

\* Sample l of slot s, its low bits.
LowSample(src, w, bits, s, l) == src[s * Lanes(w) + l + 1] % Pow[bits]

\* The words that the samples of a slot have joined.
Joined(src, w, bits, s, st) ==
  [l \in 0 .. Lanes(w) - 1 |->
     st.acc[l]
       + (LowSample(src, w, bits, s, l) % Pow[8 * w - st.nb]) * Pow[st.nb]]

\* What has become of the lanes st when a slot has joined them.
SlotPacked(t, st, word, src, s, w, bits) ==
  /\ t \in PackState(w) /\ word \in [0 .. Lanes(w) - 1 -> Nat]
  /\ st.nb + bits < 8 * w =>
       t.acc = word /\ t.nb = st.nb + bits /\ t.out = st.out
  /\ st.nb + bits >= 8 * w =>
       /\ t.nb = st.nb + bits - 8 * w
       /\ t.out = st.out \o GroupBytes(w, word)
       /\ \A l \in 0 .. Lanes(w) - 1 :
            t.acc[l] = LowSample(src, w, bits, s, l)
                         \div Pow[8 * w - st.nb]

\* One slot joins the words; a full word is written.
LEMMA PackSlotDoes ==
  ASSUME NEW w \in Widths, NEW bits \in 1 .. 8 * w,
         NEW src \in [1 .. Block -> Nat], NEW s \in 0 .. Slots(w) - 1,
         NEW st \in PackState(w),
         NEW t, t = PackSlot(st, src, s, w, bits),
         NEW word, word = Joined(src, w, bits, s, st)
  PROVE  SlotPacked(t, st, word, src, s, w, bits)
<1> USE DEF SlotPacked
<1> DEFINE lanes == 0 .. Lanes(w) - 1
           rest == 8 * w - st.nb
           v(l) == LowSample(src, w, bits, s, l)
           high == [l \in lanes |-> v(l) \div Pow[rest]]
<1>1. /\ w \in {1, 2, 4, 8} /\ Bits(w) = 8 * w /\ Lanes(w) \in Nat \ {0}
  BY Shape
<1>2. /\ st.acc \in [lanes -> Nat] /\ st.nb \in 0 .. 8 * w - 1
      /\ st.out \in Seq(0 .. 255)
      /\ st = [acc |-> st.acc, nb |-> st.nb, out |-> st.out]
  BY DEF PackState
<1>3. /\ Power[bits] = Pow[bits] /\ Pow[bits] \in Nat \ {0}
      /\ rest \in 1 .. 8 * w
      /\ Power[rest] = Pow[rest] /\ Pow[rest] \in Nat \ {0}
      /\ Power[st.nb] = Pow[st.nb] /\ Pow[st.nb] \in Nat \ {0}
  <2>1. rest \in 1 .. 8 * w /\ rest \in 0 .. 8 * w
    BY <1>1, <1>2
  <2>2. bits \in 0 .. 8 * w /\ st.nb \in 0 .. 8 * w
    BY <1>1, <1>2
  <2> HIDE DEF rest
  <2> QED
    BY <2>1, <2>2, PowerFits
<1>4. ASSUME NEW l \in lanes
      PROVE  /\ Low(src[s * Lanes(w) + l + 1], bits) = v(l) /\ v(l) \in Nat
             /\ st.acc[l] + (v(l) % Pow[rest]) * Pow[st.nb] \in Nat
             /\ v(l) \div Pow[rest] \in Nat
  <2>1. src[s * Lanes(w) + l + 1] \in Nat
    BY PlaceInBlock
  <2>2. Low(src[s * Lanes(w) + l + 1], bits) = v(l)
    BY <1>3 DEF Low, LowSample
  <2>3. v(l) \in Nat
    <3>1. PICK x \in Nat, p \in Nat \ {0} :
            x = src[s * Lanes(w) + l + 1] /\ p = Pow[bits]
      BY <1>3, <2>1
    <3>2. x % p \in Nat
      <4>1. x % p \in 0 .. p - 1
        BY Divided
      <4> QED
        BY <4>1
    <3> QED
      BY <3>1, <3>2 DEF LowSample
  <2>4. PICK y \in Nat, q \in Nat \ {0}, p \in Nat \ {0}, a \in Nat :
          y = v(l) /\ q = Pow[rest] /\ p = Pow[st.nb] /\ a = st.acc[l]
    BY <1>2, <1>3, <2>3
  <2>5. y \div q \in Nat /\ y % q \in 0 .. q - 1
    BY Divided
  <2>6. y % q \in Nat /\ a + (y % q) * p \in Nat
    BY <2>5
  <2> QED
    BY <2>2, <2>4, <2>5, <2>6
<1>5. word \in [lanes -> Nat] /\ high \in [lanes -> Nat]
  <2>1. word = [l \in lanes |->
                  st.acc[l] + (v(l) % Pow[rest]) * Pow[st.nb]]
    BY DEF Joined
  <2> HIDE DEF v, rest, lanes
  <2> QED
    BY <1>4, <2>1
<1>6. t = IF st.nb + bits < 8 * w
            THEN [st EXCEPT !.acc = word, !.nb = st.nb + bits]
            ELSE [acc |-> high, nb |-> st.nb + bits - 8 * w,
                  out |-> st.out \o GroupBytes(w, word)]
  <2> DEFINE vs == [l \in lanes |-> Low(src[s * Lanes(w) + l + 1], bits)]
             r == st.nb + bits - Bits(w)
             joined == [l \in lanes |->
                st.acc[l] + Low(vs[l], Bits(w) - st.nb) * Power[st.nb]]
             left == [l \in lanes |-> vs[l] \div Power[bits - r]]
  <2>1. t = IF st.nb + bits < Bits(w)
              THEN [st EXCEPT !.acc = joined, !.nb = st.nb + bits]
              ELSE [acc |-> left, nb |-> r,
                    out |-> st.out \o GroupBytes(w, joined)]
    BY DEF PackSlot
  <2>2. \A l \in lanes : vs[l] = v(l)
    <3> HIDE DEF v
    <3> QED
      BY <1>4
  <2>3. Bits(w) - st.nb = rest /\ bits - r = rest
    BY <1>1, <1>2
  <2>6. word = [l \in lanes |->
                  st.acc[l] + (v(l) % Pow[rest]) * Pow[st.nb]]
    BY DEF Joined
  <2> HIDE DEF vs, v, rest
  <2>4. joined = word
    BY <1>3, <2>2, <2>3, <2>6 DEF Low
  <2>5. left = high
    BY <1>3, <2>2, <2>3
  <2> HIDE DEF joined, left, high
  <2> QED
    BY <1>1, <2>1, <2>4, <2>5
<1>7. CASE st.nb + bits < 8 * w
  <2>1. t = [acc |-> word, nb |-> st.nb + bits, out |-> st.out]
    <3> HIDE DEF high
    <3> QED
      BY <1>2, <1>6, <1>7
  <2>2. st.nb + bits \in 0 .. 8 * w - 1
    BY <1>1, <1>2, <1>7
  <2>3. t \in PackState(w)
    <3> HIDE DEF high
    <3> QED
      BY <1>2, <1>5, <2>1, <2>2 DEF PackState
  <2>4. t.acc = word /\ t.nb = st.nb + bits /\ t.out = st.out
    <3> HIDE DEF high
    <3> QED
      BY <2>1
  <2>5. ~(st.nb + bits >= 8 * w)
    BY <1>1, <1>2, <1>7
  <2> QED
    BY <1>5, <1>7, <2>3, <2>4, <2>5
<1>8. CASE ~(st.nb + bits < 8 * w)
  <2> DEFINE out == st.out \o GroupBytes(w, word)
  <2>1. t = [acc |-> high, nb |-> st.nb + bits - 8 * w, out |-> out]
    <3> HIDE DEF high
    <3> QED
      BY <1>2, <1>6, <1>8
  <2>2. st.nb + bits - 8 * w \in 0 .. 8 * w - 1
    <3>1. PICK n \in 0 .. 8 * w - 1 : n = st.nb
      BY <1>2
    <3> QED
      BY <1>1, <1>8, <3>1
  <2>3. out \in Seq(0 .. 255)
    <3>1. GroupBytes(w, word) \in Seq(0 .. 255)
      BY <1>5, GroupHolds
    <3> QED
      BY <1>2, <3>1, ConcatProperties
  <2>4. t \in PackState(w)
    <3> HIDE DEF high, out
    <3> QED
      BY <1>2, <1>5, <2>1, <2>2, <2>3 DEF PackState
  <2>5. t.acc = high /\ t.nb = st.nb + bits - 8 * w /\ t.out = out
    <3> HIDE DEF high, out
    <3> QED
      BY <2>1
  <2>6. \A l \in lanes : t.acc[l] = v(l) \div Pow[rest]
    <3> HIDE DEF v, rest
    <3> QED
      BY <2>5
  <2> QED
    BY <1>5, <1>8, <2>4, <2>5, <2>6
<1> QED
  BY <1>7, <1>8

\* Bits that follow low bits join them.
LEMMA BitsJoined ==
  ASSUME NEW x \in Nat, NEW n \in Nat, NEW b \in Nat, NEW r \in Nat, b <= r,
         NEW d, d = (x \div Pow[n]) % Pow[b]
  PROVE  (x % Pow[n]) + (d % Pow[r]) * Pow[n] = x % Pow[n + b]
<1>1. d \in 0 .. Pow[b] - 1
  <2>1. x \div Pow[n] \in Nat
    BY HighIsNat
  <2> QED
    BY <2>1, LowBits
<1>2. d % Pow[r] = d
  BY <1>1, LowOfFew
<1>3. (x % Pow[n]) + ((x \div Pow[n]) % Pow[b]) * Pow[n] = x % Pow[n + b]
  BY LowJoined
<1> QED
  BY <1>2, <1>3, Zenon

\* More bits than there is room for: those that have room join, the others are
\* left over.
LEMMA BitsLeft ==
  ASSUME NEW x \in Nat, NEW n \in Nat, NEW b \in Nat, NEW r \in Nat, r <= b,
         NEW d, d = (x \div Pow[n]) % Pow[b]
  PROVE  /\ (x % Pow[n]) + (d % Pow[r]) * Pow[n] = x % Pow[n + r]
         /\ d \div Pow[r] = (x \div Pow[n + r]) % Pow[b - r]
<1>1. PICK y \in Nat : y = x \div Pow[n]
  BY HighIsNat
<1>2. PICK c \in Nat : c = b - r /\ b = r + c
  OBVIOUS
<1>3. /\ (y % Pow[r + c]) % Pow[r] = y % Pow[r]
      /\ (y % Pow[r + c]) \div Pow[r] = (y \div Pow[r]) % Pow[c]
  <2>1. (y % Pow[r + c]) % Pow[r] = y % Pow[r]
    BY LowTwice
  <2>2. (y % Pow[r + c]) \div Pow[r] = (y \div Pow[r]) % Pow[c]
    BY HighOfLow
  <2> QED
    BY <2>1, <2>2
<1>4. (x % Pow[n]) + ((x \div Pow[n]) % Pow[r]) * Pow[n] = x % Pow[n + r]
  BY LowJoined
<1>5. (x \div Pow[n]) \div Pow[r] = x \div Pow[n + r]
  BY HighTwice
<1>6. (x % Pow[n]) + (d % Pow[r]) * Pow[n] = x % Pow[n + r]
  BY <1>1, <1>2, <1>3, <1>4, Zenon
<1>7. d \div Pow[r] = (x \div Pow[n + r]) % Pow[b - r]
  BY <1>1, <1>2, <1>3, <1>5, Zenon
<1> QED
  BY <1>6, <1>7

\* The digits that the samples of a block give the lanes, as numbers.
Numbers(V, src, w, bits) ==
  /\ V \in [0 .. Lanes(w) - 1 -> Nat]
  /\ \A l \in 0 .. Lanes(w) - 1, s \in 0 .. Slots(w) - 1 :
       LowSample(src, w, bits, s, l) = (V[l] \div Pow[bits * s]) % Pow[bits]

\* There are such numbers.
LEMMA NumbersExist ==
  ASSUME NEW w \in Widths, NEW bits \in Nat, NEW src \in [1 .. Block -> Nat]
  PROVE  \E V : Numbers(V, src, w, bits)
<1> DEFINE Is(l, v) ==
             /\ v \in Nat
             /\ \A s \in 0 .. Slots(w) - 1 :
                  LowSample(src, w, bits, s, l)
                    = (v \div Pow[bits * s]) % Pow[bits]
<1>1. ASSUME NEW l \in 0 .. Lanes(w) - 1 PROVE \E v : Is(l, v)
  <2> DEFINE n == Slots(w)
             d == [s \in 0 .. n - 1 |-> LowSample(src, w, bits, s, l)]
  <2>1. n \in Nat
    BY Shape
  <2>2. Digits(d, n, bits)
    <3> SUFFICES ASSUME NEW s \in 0 .. n - 1
                 PROVE  d[s] \in 0 .. Pow[bits] - 1
      BY DEF Digits
    <3>1. src[s * Lanes(w) + l + 1] \in Nat
      BY PlaceInBlock
    <3>2. d[s] = src[s * Lanes(w) + l + 1] % Pow[bits]
      BY DEF LowSample
    <3> QED
      BY <3>1, <3>2, LowBits
  <2> HIDE DEF n, d
  <2>3. PICK u : Sums(u, d, n, bits)
    BY <2>1, <2>2, SumsExist
  <2>4. \A s \in 0 .. n - 1 : (u[n] \div Pow[bits * s]) % Pow[bits] = d[s]
    BY <2>1, <2>2, <2>3, SumsShow
  <2>5. u[n] \in Nat
    BY <2>1, <2>3 DEF Sums
  <2>6. \A s \in 0 .. n - 1 : d[s] = LowSample(src, w, bits, s, l)
    BY DEF d
  <2>7. Is(l, u[n])
    BY <2>4, <2>5, <2>6 DEF n
  <2> QED
    BY <2>7
<1> DEFINE V == [l \in 0 .. Lanes(w) - 1 |-> CHOOSE v : Is(l, v)]
<1>2. \A l \in 0 .. Lanes(w) - 1 : Is(l, V[l])
  <2> HIDE DEF Is
  <2> QED
    BY <1>1
<1>3. V \in [0 .. Lanes(w) - 1 -> Nat]
  <2>1. \A l \in 0 .. Lanes(w) - 1 : V[l] \in Nat
    <3> HIDE DEF V
    <3> QED
      BY <1>2
  <2> QED
    BY <2>1
<1> HIDE DEF V
<1>4. Numbers(V, src, w, bits)
  BY <1>2, <1>3 DEF Numbers
<1> QED
  BY <1>4

\* n groups of out, the first behind from bytes, hold the low bits of U.
Holds(out, from, n, w, U) ==
  \A k \in 0 .. n - 1, l \in 0 .. Lanes(w) - 1, j \in 0 .. w - 1 :
    out[from + 16 * k + l * w + j + 1] = (U[l] \div Pow[8 * (w * k + j)]) % 256

\* s slots are packed, g groups of them written.
PackedTo(st, w, bits, V, s, g) ==
  /\ st \in PackState(w) /\ g \in Nat /\ s * bits = g * (8 * w) + st.nb
  /\ \A l \in 0 .. Lanes(w) - 1 :
       st.acc[l] = (V[l] \div Pow[g * (8 * w)]) % Pow[st.nb]
  /\ Len(st.out) = 16 * g /\ Holds(st.out, 0, g, w, V)

\* A byte of a word that is written is a byte of the lane's number.
LEMMA ByteOfNumber ==
  ASSUME NEW w \in Widths, NEW v \in Nat, NEW g \in Nat, NEW j \in 0 .. w - 1
  PROVE  (((v \div Pow[g * (8 * w)]) % Pow[8 * w]) \div Pow[8 * j]) % 256
           = (v \div Pow[8 * (w * g + j)]) % 256
<1>1. w \in {1, 2, 4, 8}
  BY Shape
<1>2. PICK a \in Nat, c \in Nat, e \in Nat, f \in Nat :
        /\ a = g * (8 * w) /\ c = 8 * j /\ e = 8 * w - 8 * j - 8
        /\ f = 8 * (w * g + j)
  <2>1. g * (8 * w) \in Nat /\ 8 * (w * g + j) \in Nat /\ 8 * j \in Nat
    BY <1>1
  <2>2. 8 * w - 8 * j - 8 \in Nat
    BY <1>1
  <2> QED
    BY <2>1, <2>2
<1>3. 8 * w = c + (8 + e) /\ f = a + c
  <2>1. CASE w = 1
    BY <1>2, <2>1
  <2>2. CASE w = 2
    BY <1>2, <2>2
  <2>3. CASE w = 4
    BY <1>2, <2>3
  <2>4. CASE w = 8
    BY <1>2, <2>4
  <2> QED
    BY <1>1, <2>1, <2>2, <2>3, <2>4
<1>4. PICK x \in Nat : x = v \div Pow[a]
  BY LowBits
<1>5. PICK m \in Nat : m = 8 + e
  OBVIOUS
<1>6. (x % Pow[c + m]) \div Pow[c] = (x \div Pow[c]) % Pow[m]
  BY LowBits
<1>7. PICK y \in Nat : y = x \div Pow[c]
  BY LowBits
<1>8. (y % Pow[8 + e]) % Pow[8] = y % Pow[8]
  <2>1. 8 \in Nat
    OBVIOUS
  <2> QED
    BY <2>1, LowTwice
<1>9. y = v \div Pow[f]
  <2>1. (v \div Pow[a]) \div Pow[c] = v \div Pow[a + c]
    BY LowBits
  <2> QED
    BY <1>3, <1>4, <1>7, <2>1, Zenon
<1>10. 8 * w = c + m
  BY <1>3, <1>5
<1>11. ((x % Pow[8 * w]) \div Pow[c]) % Pow[8] = y % Pow[8]
  BY <1>5, <1>6, <1>7, <1>8, <1>10, Zenon
<1>12. ((x % Pow[8 * w]) \div Pow[c]) % 256 = (v \div Pow[f]) % 256
  BY <1>9, <1>11, ByteRange, Zenon
<1> QED
  BY <1>2, <1>4, <1>12, Zenon

\* A slot is packed after others.
LEMMA PackSlotKeeps ==
  ASSUME NEW w \in Widths, NEW bits \in 1 .. 8 * w,
         NEW src \in [1 .. Block -> Nat], NEW V, Numbers(V, src, w, bits),
         NEW s \in 0 .. Slots(w) - 1, NEW st, NEW g,
         PackedTo(st, w, bits, V, s, g)
  PROVE  \E h : PackedTo(PackSlot(st, src, s, w, bits), w, bits, V, s + 1, h)
<1> DEFINE lanes == 0 .. Lanes(w) - 1
<1>1. PICK B \in Nat : B = 8 * w /\ B \in 8 .. 64 /\ w \in {1, 2, 4, 8}
  BY Shape
<1>2. /\ st \in PackState(w) /\ g \in Nat /\ s * bits = g * B + st.nb
      /\ \A l \in lanes : st.acc[l] = (V[l] \div Pow[g * B]) % Pow[st.nb]
      /\ Len(st.out) = 16 * g /\ Holds(st.out, 0, g, w, V)
  BY <1>1 DEF PackedTo
<1>3. PICK t, word : /\ t = PackSlot(st, src, s, w, bits)
                     /\ word = Joined(src, w, bits, s, st)
  OBVIOUS
<1>4. /\ t \in PackState(w) /\ word \in [lanes -> Nat]
      /\ st.nb + bits < B =>
           t.acc = word /\ t.nb = st.nb + bits /\ t.out = st.out
      /\ st.nb + bits >= B =>
           /\ t.nb = st.nb + bits - B
           /\ t.out = st.out \o GroupBytes(w, word)
           /\ \A l \in lanes :
                t.acc[l] = LowSample(src, w, bits, s, l) \div Pow[B - st.nb]
  <2>1. st \in PackState(w)
    BY <1>2
  <2> HIDE DEF lanes
  <2>2. SlotPacked(t, st, word, src, s, w, bits)
    BY <1>3, <2>1, PackSlotDoes
  <2> QED
    BY <1>1, <2>2 DEF lanes, SlotPacked
<1>5. PICK nb \in 0 .. B - 1, r \in 1 .. B, a \in Nat :
        nb = st.nb /\ r = B - nb /\ a = g * B
  <2>1. st.nb \in 0 .. B - 1 /\ g * B \in Nat
    BY <1>1, <1>2 DEF PackState
  <2>2. B - st.nb \in 1 .. B
    BY <1>1, <2>1
  <2> QED
    BY <2>1, <2>2
<1>6. PICK c \in Nat : c = s * bits /\ bits * s = c /\ c = a + nb
                         /\ (s + 1) * bits = c + bits
  <2>1. /\ s * bits \in Nat /\ bits * s = s * bits
        /\ (s + 1) * bits = s * bits + bits
    BY Shape
  <2> QED
    BY <1>2, <1>5, <2>1
<1>7. ASSUME NEW l \in lanes
      PROVE  \E x \in Nat, d \in Nat :
               /\ x = V[l] \div Pow[a]
               /\ d = LowSample(src, w, bits, s, l)
               /\ d = (x \div Pow[nb]) % Pow[bits]
               /\ st.acc[l] = x % Pow[nb]
               /\ word[l] = (x % Pow[nb]) + (d % Pow[r]) * Pow[nb]
  <2>1. V[l] \in Nat /\ LowSample(src, w, bits, s, l)
                          = (V[l] \div Pow[c]) % Pow[bits]
    BY <1>6 DEF Numbers
  <2>2. PICK v \in Nat : v = V[l]
    BY <2>1
  <2>3. PICK x \in Nat : x = v \div Pow[a]
    BY LowBits
  <2>4. (v \div Pow[a]) \div Pow[nb] = v \div Pow[a + nb]
    BY LowBits
  <2>5. PICK y \in Nat : y = x \div Pow[nb]
    <3>1. nb \in Nat
      BY <1>5
    <3> QED
      BY <3>1, LowBits
  <2>6. PICK d \in Nat : d = y % Pow[bits]
    <3>1. bits \in Nat
      BY <1>1
    <3>2. y % Pow[bits] \in 0 .. Pow[bits] - 1 /\ Pow[bits] \in Nat
      BY <3>1, LowBits, PowFacts
    <3> QED
      BY <3>2
  <2>7. d = LowSample(src, w, bits, s, l)
    BY <1>6, <2>1, <2>2, <2>3, <2>4, <2>5, <2>6, Zenon
  <2>8. st.acc[l] = x % Pow[nb]
    BY <1>2, <1>5, <2>2, <2>3, Zenon
  <2>9. word[l] = st.acc[l]
                   + (LowSample(src, w, bits, s, l) % Pow[8 * w - st.nb])
                       * Pow[st.nb]
    BY <1>3 DEF Joined
  <2>10. word[l] = (x % Pow[nb]) + (d % Pow[r]) * Pow[nb]
    BY <1>1, <1>5, <2>7, <2>8, <2>9, Zenon
  <2> QED
    BY <2>2, <2>3, <2>5, <2>6, <2>7, <2>8, <2>10
<1>8. CASE nb + bits < B
  <2>1. t.acc = word /\ t.nb = nb + bits /\ t.out = st.out
    BY <1>4, <1>5, <1>8
  <2>2. ASSUME NEW l \in lanes
        PROVE  t.acc[l] = (V[l] \div Pow[a]) % Pow[nb + bits]
    <3>1. PICK x \in Nat, d \in Nat :
            /\ x = V[l] \div Pow[a] /\ d = (x \div Pow[nb]) % Pow[bits]
            /\ word[l] = (x % Pow[nb]) + (d % Pow[r]) * Pow[nb]
      BY <1>7
    <3>2. bits <= r
      BY <1>5, <1>8
    <3>3. word[l] = x % Pow[nb + bits]
      BY <3>1, <3>2, BitsJoined
    <3> QED
      BY <2>1, <3>1, <3>3
  <2>3. PackedTo(t, w, bits, V, s + 1, g)
    <3>1. (s + 1) * bits = a + (nb + bits)
      BY <1>6
    <3> QED
      BY <1>1, <1>2, <1>4, <1>5, <2>1, <2>2, <3>1 DEF PackedTo
  <2> QED
    BY <1>3, <2>3
<1>9. CASE ~(nb + bits < B)
  <2>0. PICK m \in Nat : m = nb + bits - B /\ m = bits - r /\ r <= bits
    BY <1>5, <1>9, SMTT(40)
  <2>1. /\ t.nb = m /\ t.out = st.out \o GroupBytes(w, word)
        /\ \A l \in lanes :
             t.acc[l] = LowSample(src, w, bits, s, l) \div Pow[r]
    <3>1. st.nb + bits >= B
      BY <1>1, <1>5, <1>9
    <3> QED
      BY <1>4, <1>5, <2>0, <3>1
  <2>2. PICK h \in Nat : h = g + 1 /\ h * B = a + B /\ a + B = a + (nb + r)
    <3>1. g + 1 \in Nat /\ (g + 1) * B = g * B + B
      BY <1>2
    <3>2. nb + r = B
      BY <1>5
    <3> QED
      BY <1>5, <3>1, <3>2
  <2>3. ASSUME NEW l \in lanes
        PROVE  /\ word[l] = (V[l] \div Pow[a]) % Pow[B]
               /\ t.acc[l] = (V[l] \div Pow[h * B]) % Pow[m]
    <3>1. PICK x \in Nat, d \in Nat :
            /\ x = V[l] \div Pow[a] /\ d = (x \div Pow[nb]) % Pow[bits]
            /\ d = LowSample(src, w, bits, s, l)
            /\ word[l] = (x % Pow[nb]) + (d % Pow[r]) * Pow[nb]
      BY <1>7
    <3>2. /\ word[l] = x % Pow[nb + r]
          /\ d \div Pow[r] = (x \div Pow[nb + r]) % Pow[bits - r]
      <4>1. nb \in Nat /\ bits \in Nat /\ r \in Nat
        BY <1>1, <1>5
      <4>2. (x % Pow[nb]) + (d % Pow[r]) * Pow[nb] = x % Pow[nb + r]
        BY <2>0, <3>1, <4>1, BitsLeft
      <4>3. d \div Pow[r] = (x \div Pow[nb + r]) % Pow[bits - r]
        BY <2>0, <3>1, <4>1, BitsLeft
      <4> QED
        BY <3>1, <4>2, <4>3, Zenon
    <3>3. nb + r = B
      BY <1>5
    <3>4. (V[l] \div Pow[a]) \div Pow[B] = V[l] \div Pow[a + B]
      <4>1. V[l] \in Nat
        BY DEF Numbers
      <4> QED
        BY <4>1, HighTwice, ZenonT(60)
    <3>5. t.acc[l] = (x \div Pow[B]) % Pow[m]
      BY <2>0, <2>1, <3>1, <3>2, <3>3, Zenon
    <3>6. t.acc[l] = (V[l] \div Pow[h * B]) % Pow[m]
      BY <2>2, <3>1, <3>4, <3>5, Zenon
    <3>7. word[l] = (V[l] \div Pow[a]) % Pow[B]
      BY <3>1, <3>2, <3>3, Zenon
    <3> QED
      BY <3>6, <3>7
  <2>4. /\ GroupBytes(w, word) \in Seq(0 .. 255)
        /\ Len(GroupBytes(w, word)) = 16
        /\ \A l \in lanes, j \in 0 .. w - 1 :
             GroupBytes(w, word)[l * w + j + 1] =
               (word[l] \div Pow[8 * j]) % 256
    BY <1>4, GroupHolds DEF Group
  <2>5. PICK grp \in Seq(0 .. 255) : grp = GroupBytes(w, word)
    BY <2>4
  <2>6. /\ Len(t.out) = 16 * h
        /\ \A i \in 1 .. 16 * g : t.out[i] = st.out[i]
        /\ \A i \in 1 .. 16 : t.out[16 * g + i] = grp[i]
    <3>1. st.out \in Seq(0 .. 255) /\ Len(grp) = 16
      BY <1>2, <2>4, <2>5 DEF PackState
    <3>2. /\ Len(st.out \o grp) = Len(st.out) + Len(grp)
          /\ \A i \in 1 .. Len(st.out) + Len(grp) :
               (st.out \o grp)[i] = IF i <= Len(st.out) THEN st.out[i]
                                    ELSE grp[i - Len(st.out)]
      BY <3>1, ConcatProperties, ZenonT(60)
    <3>3. t.out = st.out \o grp
      BY <2>1, <2>5
    <3>4. Len(t.out) = 16 * h
      BY <1>2, <2>2, <3>1, <3>2, <3>3
    <3>5. ASSUME NEW i \in 1 .. 16 * g PROVE t.out[i] = st.out[i]
      <4>1. i \in 1 .. Len(st.out) + Len(grp) /\ i <= Len(st.out)
        BY <1>2, <3>1
      <4>2. (st.out \o grp)[i] = st.out[i]
        BY <3>2, <4>1
      <4> QED
        BY <3>3, <4>2
    <3>6. ASSUME NEW i \in 1 .. 16 PROVE t.out[16 * g + i] = grp[i]
      <4>1. /\ 16 * g + i \in 1 .. Len(st.out) + Len(grp)
            /\ ~(16 * g + i <= Len(st.out)) /\ 16 * g + i - Len(st.out) = i
        BY <1>2, <3>1
      <4>2. (st.out \o grp)[16 * g + i] = grp[i]
        <5>1. PICK k \in Nat : k = 16 * g + i
          BY <1>2
        <5>2. (st.out \o grp)[k] = IF k <= Len(st.out) THEN st.out[k]
                                  ELSE grp[k - Len(st.out)]
          BY <3>2, <4>1, <5>1
        <5>3. ~(k <= Len(st.out)) /\ k - Len(st.out) = i
          BY <1>2, <5>1
        <5>4. (st.out \o grp)[k] = grp[k - Len(st.out)]
          BY <5>2, <5>3
        <5> QED
          BY <5>1, <5>3, <5>4
      <4> QED
        BY <3>3, <4>2
    <3> QED
      BY <3>4, <3>5, <3>6
  <2>7. Holds(t.out, 0, h, w, V)
    <3> SUFFICES ASSUME NEW k \in 0 .. h - 1, NEW l \in lanes,
                        NEW j \in 0 .. w - 1
                 PROVE  t.out[0 + 16 * k + l * w + j + 1]
                          = (V[l] \div Pow[8 * (w * k + j)]) % 256
      BY DEF Holds
    <3>1. PICK i \in 0 .. 15 : i = l * w + j
      BY ByteOfWord
    <3>2. 0 + 16 * k + l * w + j + 1 = 16 * k + (i + 1)
      <4>1. l * w \in Nat
        BY <1>1, Shape
      <4> QED
        BY <1>1, <3>1, <4>1
    <3>3. CASE k < g
      <4>1. 16 * k + (i + 1) \in 1 .. 16 * g
        <5>1. g \in Nat
          BY <1>2
        <5> QED
          BY <3>3, <5>1
      <4>2. k \in 0 .. g - 1
        BY <1>2, <3>3
      <4>3. st.out[0 + 16 * k + l * w + j + 1]
              = (V[l] \div Pow[8 * (w * k + j)]) % 256
        BY <1>2, <4>2 DEF Holds
      <4> QED
        BY <2>6, <3>2, <4>1, <4>3
    <3>4. CASE k = g
      <4>1. grp[i + 1] = (word[l] \div Pow[8 * j]) % 256
        BY <2>4, <2>5, <3>1
      <4>2. t.out[16 * g + (i + 1)] = grp[i + 1]
        <5>1. i + 1 \in 1 .. 16
          OBVIOUS
        <5> QED
          BY <2>6, <5>1
      <4>3. word[l] = (V[l] \div Pow[g * (8 * w)]) % Pow[8 * w]
        BY <1>1, <1>5, <2>3
      <4>4. (((V[l] \div Pow[g * (8 * w)]) % Pow[8 * w]) \div Pow[8 * j]) % 256
              = (V[l] \div Pow[8 * (w * g + j)]) % 256
        <5>1. V[l] \in Nat
          BY DEF Numbers
        <5> QED
          BY <1>2, <5>1, ByteOfNumber
      <4> QED
        BY <3>2, <3>4, <4>1, <4>2, <4>3, <4>4, ZenonT(60)
    <3> QED
      BY <1>2, <2>2, <3>3, <3>4
  <2>8. PackedTo(t, w, bits, V, s + 1, h)
    <3>1. (s + 1) * bits = h * (8 * w) + m
      <4>1. (s + 1) * bits = a + nb + bits /\ h * B = a + B
        BY <1>6, <2>2
      <4>3. PICK z \in Nat, y \in Nat : z = h * B /\ y = bits
        BY <1>1, <2>2
      <4>4. a + nb + y = a + B + (nb + y - B)
        OBVIOUS
      <4>2. (s + 1) * bits = h * B + m
        BY <2>0, <4>1, <4>3, <4>4
      <4> QED
        BY <1>1, <4>2
    <3> QED
      BY <1>1, <1>4, <2>1, <2>2, <2>3, <2>6, <2>7, <3>1 DEF PackedTo
  <2> QED
    BY <1>3, <2>8
<1> QED
  BY <1>8, <1>9

\* The lanes before the first slot.
PackBegin(w) ==
  [acc |-> [l \in 0 .. Lanes(w) - 1 |-> 0], nb |-> 0, out |-> <<>>]

\* f has the lanes after every slot.
Packs(f, src, w, bits) ==
  /\ f[0] = PackBegin(w)
  /\ \A s \in 1 .. Slots(w) : f[s] = PackSlot(f[s - 1], src, s - 1, w, bits)

\* Packing computes them.
LEMMA PackingComputes ==
  ASSUME NEW w \in Widths, NEW bits \in 1 .. 8 * w,
         NEW src \in [1 .. Block -> Nat]
  PROVE  Packs(Packing(src, w, bits), src, w, bits)
<1> DEFINE n == Slots(w)
           S == PackState(w)
           step == [k \in 1 .. n |->
                      [st \in S |-> PackSlot(st, src, k - 1, w, bits)]]
           Is(f) == f = [s \in 0 .. n |->
                           IF s = 0 THEN PackBegin(w)
                           ELSE PackSlot(f[s - 1], src, s - 1, w, bits)]
           p == CHOOSE f : Is(f)
<1>1. n \in Nat /\ 8 * w \in Nat \ {0}
  BY Shape
<1>2. PackBegin(w) \in S
  <2>1. 0 \in 0 .. 8 * w - 1
    BY <1>1
  <2>2. [l \in 0 .. Lanes(w) - 1 |-> 0] \in [0 .. Lanes(w) - 1 -> Nat]
    OBVIOUS
  <2>3. <<>> \in Seq(0 .. 255)
    OBVIOUS
  <2> QED
    BY <2>1, <2>2, <2>3 DEF PackBegin, PackState
<1>3. ASSUME NEW k \in 1 .. n, NEW st \in S
      PROVE  PackSlot(st, src, k - 1, w, bits) \in S
  <2>1. k - 1 \in 0 .. Slots(w) - 1
    BY <1>1
  <2>2. PICK t, word : /\ t = PackSlot(st, src, k - 1, w, bits)
                       /\ word = Joined(src, w, bits, k - 1, st)
    OBVIOUS
  <2>3. SlotPacked(t, st, word, src, k - 1, w, bits)
    BY <2>1, <2>2, PackSlotDoes
  <2> QED
    BY <2>2, <2>3 DEF SlotPacked
<1>4. Steps(step, S, n)
  <2> HIDE DEF S, n
  <2> QED
    BY <1>3 DEF Steps
<1>5. \A k \in 1 .. n : \A st \in S :
        step[k][st] = PackSlot(st, src, k - 1, w, bits)
  OBVIOUS
<1> HIDE DEF S, n, step
<1>6. PICK f : Computes(f, S, n, PackBegin(w), step)
  BY <1>1, <1>2, <1>4, Recursion
<1>7. ASSUME NEW s \in 0 .. n
      PROVE  f[s] = IF s = 0 THEN PackBegin(w)
                    ELSE PackSlot(f[s - 1], src, s - 1, w, bits)
  <2>1. CASE s = 0
    BY <1>6, <2>1 DEF Computes
  <2>2. CASE s # 0
    <3>1. s \in 1 .. n /\ s - 1 \in 0 .. n
      BY <1>1, <2>2
    <3>2. f[s - 1] \in S /\ f[s] = step[s][f[s - 1]]
      BY <1>6, <3>1 DEF Computes
    <3>3. f[s] = PackSlot(f[s - 1], src, s - 1, w, bits)
      BY <1>5, <3>1, <3>2
    <3> QED
      BY <2>2, <3>3
  <2> QED
    BY <2>1, <2>2
<1>8. Is(f)
  <2>1. f = [s \in 0 .. n |-> f[s]]
    BY <1>6 DEF Computes
  <2> QED
    BY <1>7, <2>1
<1>9. Is(p)
  <2> HIDE DEF Is
  <2> QED
    BY <1>8
<1>10. Packing(src, w, bits) = p
  BY DEF Packing, PackBegin, n
<1> HIDE DEF p
<1>11. p[0] = PackBegin(w)
  BY <1>1, <1>9
<1>12. ASSUME NEW s \in 1 .. n
       PROVE  p[s] = PackSlot(p[s - 1], src, s - 1, w, bits)
  <2>1. s \in 0 .. n /\ s # 0
    BY <1>1
  <2> QED
    BY <1>9, <2>1
<1>13. Packs(p, src, w, bits)
  BY <1>11, <1>12 DEF Packs, n
<1> QED
  BY <1>10, <1>13

\* No slot is packed.
LEMMA PackedNone ==
  ASSUME NEW w \in Widths, NEW bits \in 1 .. 8 * w, NEW V,
         V \in [0 .. Lanes(w) - 1 -> Nat]
  PROVE  PackedTo(PackBegin(w), w, bits, V, 0, 0)
<1>1. 8 * w \in Nat \ {0} /\ bits \in Nat
  BY Shape
<1>2. PackBegin(w) \in PackState(w)
  <2>1. 0 \in 0 .. 8 * w - 1
    BY <1>1
  <2>2. [l \in 0 .. Lanes(w) - 1 |-> 0] \in [0 .. Lanes(w) - 1 -> Nat]
    OBVIOUS
  <2>3. <<>> \in Seq(0 .. 255)
    OBVIOUS
  <2> QED
    BY <2>1, <2>2, <2>3 DEF PackBegin, PackState
<1>3. 0 * bits = 0 * (8 * w) + 0
  BY <1>1
<1>4. ASSUME NEW l \in 0 .. Lanes(w) - 1
      PROVE  PackBegin(w).acc[l] = (V[l] \div Pow[0 * (8 * w)]) % Pow[0]
  <2>1. PICK x \in Nat : x = V[l] \div Pow[0 * (8 * w)]
    <3>1. 0 * (8 * w) \in Nat /\ V[l] \in Nat
      BY <1>1
    <3> QED
      BY <3>1, HighIsNat
  <2>2. x % Pow[0] = 0
    BY PowFacts
  <2> QED
    BY <2>1, <2>2 DEF PackBegin
<1>5. Holds(PackBegin(w).out, 0, 0, w, V)
  BY DEF Holds
<1> QED
  BY <1>2, <1>3, <1>4, <1>5 DEF PackedTo, PackBegin

\* The lanes after any number of slots.
LEMMA PackedSlots ==
  ASSUME NEW w \in Widths, NEW bits \in 1 .. 8 * w,
         NEW src \in [1 .. Block -> Nat], NEW V, Numbers(V, src, w, bits),
         NEW f, Packs(f, src, w, bits), NEW s \in 0 .. Slots(w)
  PROVE  \E g : PackedTo(f[s], w, bits, V, s, g)
<1> DEFINE n == Slots(w)
           T == {i \in 0 .. n : ~\E g : PackedTo(f[i], w, bits, V, i, g)}
<1> SUFFICES ASSUME T # {} PROVE FALSE
  OBVIOUS
<1>1. n \in Nat
  BY Shape
<1>2. PICK i \in T : \A j \in T : i <= j
  BY T \subseteq Nat, LeastNumber
<1>3. i # 0
  <2>1. f[0] = PackBegin(w) /\ V \in [0 .. Lanes(w) - 1 -> Nat]
    BY DEF Packs, Numbers
  <2>2. PackedTo(f[0], w, bits, V, 0, 0)
    BY <2>1, PackedNone
  <2> QED
    BY <2>2
<1>4. i - 1 \in 0 .. n /\ i - 1 \notin T /\ i \in 1 .. n
  BY <1>1, <1>2, <1>3
<1>5. PICK g : PackedTo(f[i - 1], w, bits, V, i - 1, g)
  BY <1>4
<1>6. f[i] = PackSlot(f[i - 1], src, i - 1, w, bits)
  BY <1>4 DEF Packs
<1>7. i - 1 \in 0 .. Slots(w) - 1 /\ i - 1 + 1 = i
  BY <1>1, <1>4
<1>8. PICK j \in 0 .. Slots(w) - 1 : j = i - 1
  BY <1>7
<1>9. \E h : PackedTo(PackSlot(f[j], src, j, w, bits), w, bits, V, j + 1, h)
  BY <1>5, <1>8, PackSlotKeeps
<1> QED
  BY <1>6, <1>7, <1>8, <1>9

\* The body of a block: two groups for every bit, with the low bits.
LEMMA PackHolds ==
  ASSUME NEW w \in Widths, NEW bits \in 1 .. 8 * w,
         NEW src \in [1 .. Block -> Nat], NEW V, Numbers(V, src, w, bits)
  PROVE  /\ Pack(src, w, bits) \in Seq(0 .. 255)
         /\ Len(Pack(src, w, bits)) = 32 * bits
         /\ Holds(Pack(src, w, bits), 0, 2 * bits, w, V)
<1> DEFINE f == Packing(src, w, bits)
<1>1. w \in {1, 2, 4, 8} /\ Slots(w) = 16 * w /\ bits \in Nat /\ bits # 0
  BY Shape
<1>2. Packs(f, src, w, bits)
  BY PackingComputes
<1> HIDE DEF f
<1>3. PICK g : PackedTo(f[16 * w], w, bits, V, 16 * w, g)
  <2>1. 16 * w \in 0 .. Slots(w)
    BY <1>1
  <2> QED
    BY <1>2, <2>1, PackedSlots
<1>4. Pack(src, w, bits) = f[16 * w].out
  BY <1>1 DEF Pack, f
<1>5. PICK nb \in 0 .. 8 * w - 1 :
        /\ nb = f[16 * w].nb /\ g \in Nat
        /\ (16 * w) * bits = g * (8 * w) + nb
        /\ f[16 * w].out \in Seq(0 .. 255) /\ Len(f[16 * w].out) = 16 * g
        /\ Holds(f[16 * w].out, 0, g, w, V)
  BY <1>3 DEF PackedTo, PackState
<1>6. g = 2 * bits
  <2>1. CASE w = 1
    <3>1. 16 * bits = g * 8 + nb /\ nb \in 0 .. 8 - 1 /\ g \in Nat
      BY <1>5, <2>1
    <3> QED
      BY <1>1, <3>1
  <2>2. CASE w = 2
    <3>1. 32 * bits = g * 16 + nb /\ nb \in 0 .. 16 - 1 /\ g \in Nat
      BY <1>5, <2>2
    <3> QED
      BY <1>1, <3>1
  <2>3. CASE w = 4
    <3>1. 64 * bits = g * 32 + nb /\ nb \in 0 .. 32 - 1 /\ g \in Nat
      BY <1>5, <2>3
    <3> QED
      BY <1>1, <3>1
  <2>4. CASE w = 8
    <3>1. 128 * bits = g * 64 + nb /\ nb \in 0 .. 64 - 1 /\ g \in Nat
      BY <1>5, <2>4
    <3> QED
      BY <1>1, <3>1
  <2> QED
    BY <1>1, <2>1, <2>2, <2>3, <2>4
<1> QED
  BY <1>1, <1>4, <1>5, <1>6

\* Value puts the digits of a number together.
LEMMA ValueOfNumber ==
  ASSUME NEW n \in Nat, NEW b \in Nat, b * n <= 8 * MaxWidth, NEW v \in Nat,
         NEW d, \A k \in 0 .. n - 1 : d[k] = (v \div Pow[b * k]) % Pow[b]
  PROVE  Value(d, n, b) = v % Pow[b * n]
<1>1. Digits(d, n, b)
  <2> SUFFICES ASSUME NEW k \in 0 .. n - 1 PROVE d[k] \in 0 .. Pow[b] - 1
    BY DEF Digits
  <2>1. PICK j \in Nat, x \in Nat : j = b * k /\ x = v \div Pow[b * k]
    <3>1. PICK i \in Nat : i = b * k
      OBVIOUS
    <3>2. v \div Pow[i] \in Nat
      BY HighIsNat
    <3> QED
      BY <3>1, <3>2
  <2>2. d[k] = x % Pow[b]
    BY <2>1
  <2> QED
    BY <2>2, LowBits
<1>2. PICK s : Sums(s, d, n, b) /\ Value(d, n, b) = s[n]
  BY <1>1, ValueSums
<1>3. \A k \in 0 .. n : s[k] = v % Pow[b * k]
  BY <1>2, SumsOfNumber
<1> QED
  BY <1>2, <1>3

\* The digits of a value.
LEMMA ValueShows ==
  ASSUME NEW n \in Nat, NEW b \in Nat, b * n <= 8 * MaxWidth,
         NEW d, Digits(d, n, b)
  PROVE  /\ Value(d, n, b) \in 0 .. Pow[b * n] - 1
         /\ \A k \in 0 .. n - 1 :
              (Value(d, n, b) \div Pow[b * k]) % Pow[b] = d[k]
<1>1. PICK s : Sums(s, d, n, b) /\ Value(d, n, b) = s[n]
  BY ValueSums
<1>2. s[n] \in 0 .. Pow[b * n] - 1
  BY <1>1, SumsShow
<1>3. \A k \in 0 .. n - 1 : (s[n] \div Pow[b * k]) % Pow[b] = d[k]
  BY <1>1, SumsShow
<1> QED
  BY <1>1, <1>2, <1>3

-----------------------------------------------------------------------------
(* The body of a block is unpacked                                         *)

\* The reservoirs while a block is unpacked.
WalkState(w) ==
  [acc : [0 .. Lanes(w) - 1 -> Nat], res : 0 .. 8 * w - 1, at : Nat,
   out : Seq(Nat)]

\* s slots of samples are the digits of the lanes' numbers.
Yields(out, w, bits, U, s) ==
  /\ out \in Seq(Nat) /\ Len(out) = s * Lanes(w)
  /\ \A t \in 0 .. s - 1, l \in 0 .. Lanes(w) - 1 :
       out[t * Lanes(w) + l + 1] = (U[l] \div Pow[t * bits]) % Pow[bits]

\* s slots are unpacked from the groups behind from bytes, g groups are read.
WalkedTo(st, w, bits, U, from, s, g) ==
  /\ st \in WalkState(w) /\ g \in Nat /\ s * bits + st.res = g * (8 * w)
  /\ st.at = from + 16 * g
  /\ \A l \in 0 .. Lanes(w) - 1 :
       st.acc[l] = (U[l] \div Pow[s * bits]) % Pow[st.res]
  /\ Yields(st.out, w, bits, U, s)

\* The words that a reservoir is refilled with.
Words(at0, body, w) ==
  [l \in 0 .. Lanes(w) - 1 |->
     Value([k \in 0 .. w - 1 |-> body[at0 + l * w + k + 1]], w, 8)]

\* The samples of a slot, of a reservoir that is refilled first and of another.
Refilled(st, words, w, bits) ==
  [k \in 1 .. Lanes(w) |->
     st.acc[k - 1] + (words[k - 1] % Pow[bits - st.res]) * Pow[st.res]]
Drawn(st, w, bits) == [k \in 1 .. Lanes(w) |-> st.acc[k - 1] % Pow[bits]]

\* What has become of the reservoirs st when a slot is unpacked.
SlotUnpacked(t, st, words, w, bits) ==
  /\ st.res < bits =>
       t = [acc |-> [l \in 0 .. Lanes(w) - 1 |->
                       words[l] \div Pow[bits - st.res]],
            res |-> 8 * w - (bits - st.res), at |-> st.at + 16,
            out |-> st.out \o Refilled(st, words, w, bits)]
  /\ st.res >= bits =>
       t = [acc |-> [l \in 0 .. Lanes(w) - 1 |-> st.acc[l] \div Pow[bits]],
            res |-> st.res - bits, at |-> st.at,
            out |-> st.out \o Drawn(st, w, bits)]

\* One slot is unpacked.
LEMMA UnpackSlotDoes ==
  ASSUME NEW w \in Widths, NEW bits \in 1 .. 8 * w, NEW body,
         NEW st \in WalkState(w),
         NEW t, t = UnpackSlot(st, body, w, bits),
         NEW words, words = Words(st.at, body, w)
  PROVE  SlotUnpacked(t, st, words, w, bits)
<1> DEFINE lanes == 0 .. Lanes(w) - 1
           used == bits - st.res
           wd == [l \in lanes |->
              Value([k \in 0 .. w - 1 |-> body[st.at + l * w + k + 1]], w, 8)]
<1>1. PICK B \in 8 .. 64 : B = 8 * w /\ Bits(w) = B
  BY Shape
<1>2. /\ bits \in 1 .. B /\ st.res \in 0 .. B - 1
  BY <1>1 DEF WalkState
<1>3. /\ Power[bits] = Pow[bits] /\ Power[st.res] = Pow[st.res]
      /\ st.res < bits => Power[used] = Pow[used]
  <2>1. /\ bits \in 0 .. 8 * w /\ st.res \in 0 .. 8 * w
        /\ st.res < bits => used \in 0 .. 8 * w
    BY <1>1, <1>2
  <2> HIDE DEF used
  <2> QED
    BY <2>1, PowerFits
<1>4. words = wd
  BY DEF Words
<1>5. /\ st.res < bits =>
           t = [acc |-> [l \in lanes |-> wd[l] \div Power[used]],
                res |-> Bits(w) - used, at |-> st.at + Group,
                out |-> st.out \o
                        [k \in 1 .. Lanes(w) |->
                           st.acc[k - 1]
                             + Low(wd[k - 1], used) * Power[st.res]]]
      /\ ~(st.res < bits) =>
           t = [acc |-> [l \in lanes |-> st.acc[l] \div Power[bits]],
                res |-> st.res - bits, at |-> st.at,
                out |-> st.out \o
                        [k \in 1 .. Lanes(w) |-> Low(st.acc[k - 1], bits)]]
  <2> HIDE DEF used, wd
  <2>1. t = IF st.res < bits
        THEN [acc |-> [l \in lanes |-> wd[l] \div Power[used]],
              res |-> Bits(w) - used, at |-> st.at + Group,
              out |-> st.out \o
                        [k \in 1 .. Lanes(w) |->
                           st.acc[k - 1]
                             + Low(wd[k - 1], used) * Power[st.res]]]
        ELSE [acc |-> [l \in lanes |-> st.acc[l] \div Power[bits]],
              res |-> st.res - bits, at |-> st.at,
              out |-> st.out \o
                        [k \in 1 .. Lanes(w) |-> Low(st.acc[k - 1], bits)]]
    BY DEF UnpackSlot, used, wd
  <2> QED
    BY <2>1
<1>6. CASE st.res < bits
  <2>1. [k \in 1 .. Lanes(w) |->
           st.acc[k - 1] + Low(wd[k - 1], used) * Power[st.res]]
          = Refilled(st, words, w, bits)
    <3> HIDE DEF wd
    <3> QED
      BY <1>3, <1>4, <1>6 DEF Refilled, Low
  <2>2. [l \in lanes |-> wd[l] \div Power[used]]
          = [l \in lanes |-> words[l] \div Pow[used]]
    <3> HIDE DEF wd
    <3> QED
      BY <1>3, <1>4, <1>6
  <2>3. ~(st.res >= bits)
    BY <1>2, <1>6
  <2> HIDE DEF wd
  <2>4. t = [acc |-> [l \in lanes |-> words[l] \div Pow[used]],
             res |-> 8 * w - used, at |-> st.at + 16,
             out |-> st.out \o Refilled(st, words, w, bits)]
    BY <1>1, <1>5, <1>6, <2>1, <2>2 DEF Group
  <2> QED
    BY <2>3, <2>4 DEF SlotUnpacked
<1>7. CASE ~(st.res < bits)
  <2>1. [k \in 1 .. Lanes(w) |-> Low(st.acc[k - 1], bits)]
          = Drawn(st, w, bits)
    BY <1>3 DEF Drawn, Low
  <2>2. [l \in lanes |-> st.acc[l] \div Power[bits]]
          = [l \in lanes |-> st.acc[l] \div Pow[bits]]
    BY <1>3
  <2>4. t = [acc |-> [l \in lanes |-> st.acc[l] \div Pow[bits]],
             res |-> st.res - bits, at |-> st.at,
             out |-> st.out \o Drawn(st, w, bits)]
    <3> HIDE DEF wd
    <3> QED
      BY <1>5, <1>7, <2>1, <2>2
  <2> QED
    BY <1>7, <2>4 DEF SlotUnpacked
<1> QED
  BY <1>6, <1>7

\* The words of a group are those of the lanes' numbers.
LEMMA WordsOfNumbers ==
  ASSUME NEW w \in Widths, NEW body, NEW from \in Nat, NEW n \in Nat,
         NEW U \in [0 .. Lanes(w) - 1 -> Nat], Holds(body, from, n, w, U),
         NEW g \in 0 .. n - 1
  PROVE  \A l \in 0 .. Lanes(w) - 1 :
           Words(from + 16 * g, body, w)[l] =
             (U[l] \div Pow[g * (8 * w)]) % Pow[8 * w]
<1> SUFFICES ASSUME NEW l \in 0 .. Lanes(w) - 1
             PROVE  Words(from + 16 * g, body, w)[l]
                      = (U[l] \div Pow[g * (8 * w)]) % Pow[8 * w]
  OBVIOUS
<1> DEFINE d == [k \in 0 .. w - 1 |-> body[from + 16 * g + l * w + k + 1]]
<1>1. w \in {1, 2, 4, 8} /\ w \in Nat /\ g \in Nat /\ 8 * w <= 8 * MaxWidth
  BY Shape
<1>2. PICK a \in Nat : a = g * (8 * w)
  BY <1>1
<1>3. PICK x \in Nat : x = U[l] \div Pow[a]
  BY HighIsNat
<1>4. ASSUME NEW k \in 0 .. w - 1 PROVE d[k] = (x \div Pow[8 * k]) % Pow[8]
  <2>1. d[k] = body[from + 16 * g + l * w + k + 1]
    OBVIOUS
  <2>2. d[k] = (U[l] \div Pow[8 * (w * g + k)]) % 256
    BY <2>1 DEF Holds
  <2>3. PICK c \in Nat : c = 8 * k
    OBVIOUS
  <2>4. 8 * (w * g + k) = a + c
    <3>1. CASE w = 1
      BY <1>2, <2>3, <3>1
    <3>2. CASE w = 2
      BY <1>2, <2>3, <3>2
    <3>3. CASE w = 4
      BY <1>2, <2>3, <3>3
    <3>4. CASE w = 8
      BY <1>2, <2>3, <3>4
    <3> QED
      BY <1>1, <3>1, <3>2, <3>3, <3>4
  <2>5. (U[l] \div Pow[a]) \div Pow[c] = U[l] \div Pow[a + c]
    <3>1. U[l] \in Nat
      OBVIOUS
    <3> QED
      BY <3>1, HighTwice
  <2> HIDE DEF d
  <2>6. U[l] \div Pow[8 * (w * g + k)] = x \div Pow[8 * k]
    BY <1>3, <2>3, <2>4, <2>5, Zenon
  <2>7. d[k] = (x \div Pow[8 * k]) % 256
    BY <2>2, <2>6, Zenon
  <2> QED
    BY <2>7, ByteRange, Zenon
<1> HIDE DEF d
<1>5. Value(d, w, 8) = x % Pow[8 * w]
  BY <1>1, <1>4, ValueOfNumber
<1>6. Words(from + 16 * g, body, w)[l] = Value(d, w, 8)
  BY DEF Words, d
<1> QED
  BY <1>2, <1>3, <1>5, <1>6, Zenon

\* A sample of an earlier slot, or of this one.
LEMMA PlaceInSlots ==
  ASSUME NEW w \in Widths, NEW s \in Nat, NEW t \in 0 .. s,
         NEW l \in 0 .. Lanes(w) - 1
  PROVE  /\ t * Lanes(w) \in Nat /\ s * Lanes(w) \in Nat
         /\ (s + 1) * Lanes(w) = s * Lanes(w) + Lanes(w)
         /\ t < s => t * Lanes(w) + l + 1 \in 1 .. s * Lanes(w)
<1>1. w \in {1, 2, 4, 8} /\ Lanes(w) * w = 16 /\ Lanes(w) \in Nat
  BY Shape
<1>2. Lanes(w) \in {16, 8, 4, 2}
  <2>1. CASE w = 1
    BY <1>1, <2>1
  <2>2. CASE w = 2
    BY <1>1, <2>2
  <2>3. CASE w = 4
    BY <1>1, <2>3
  <2>4. CASE w = 8
    BY <1>1, <2>4
  <2> QED
    BY <1>1, <2>1, <2>2, <2>3, <2>4
<1>3. CASE Lanes(w) = 16
  BY <1>3
<1>4. CASE Lanes(w) = 8
  BY <1>4
<1>5. CASE Lanes(w) = 4
  BY <1>5
<1>6. CASE Lanes(w) = 2
  BY <1>6
<1> QED
  BY <1>2, <1>3, <1>4, <1>5, <1>6

\* A slot follows others.
LEMMA YieldsMore ==
  ASSUME NEW w \in Widths, NEW bits \in Nat, NEW U, NEW s \in Nat, NEW out,
         Yields(out, w, bits, U, s), NEW slot \in [1 .. Lanes(w) -> Nat],
         \A l \in 0 .. Lanes(w) - 1 :
           slot[l + 1] = (U[l] \div Pow[s * bits]) % Pow[bits]
  PROVE  Yields(out \o slot, w, bits, U, s + 1)
<1>1. PICK L \in Nat \ {0} : L = Lanes(w)
  BY Shape
<1>2. slot \in Seq(Nat) /\ Len(slot) = L /\ slot \in [1 .. L -> Nat]
  <2> DEFINE q == [k \in 1 .. L |-> slot[k]]
  <2>1. /\ slot = q /\ slot \in [1 .. L -> Nat]
        /\ \A k \in 1 .. L : slot[k] \in Nat
    BY <1>1
  <2>2. q \in Seq(Nat) /\ Len(q) = L
    BY <1>1, <2>1
  <2> HIDE DEF q
  <2> QED
    BY <2>1, <2>2
<1>3. out \in Seq(Nat) /\ Len(out) = s * L
  BY <1>1 DEF Yields
<1>4. PICK c \in Nat : c = s * L /\ (s + 1) * L = c + L
  <2>1. s * L \in Nat /\ (s + 1) * L = s * L + L
    OBVIOUS
  <2> QED
    BY <2>1
<1>5. /\ out \o slot \in Seq(Nat) /\ Len(out \o slot) = c + L
      /\ \A i \in 1 .. c + L : (out \o slot)[i] =
           IF i <= c THEN out[i] ELSE slot[i - c]
  <2>1. /\ out \o slot \in Seq(Nat) /\ Len(out \o slot) = Len(out) + Len(slot)
        /\ \A i \in 1 .. Len(out) + Len(slot) : (out \o slot)[i] =
             IF i <= Len(out) THEN out[i] ELSE slot[i - Len(out)]
    BY <1>2, <1>3, ConcatProperties
  <2>2. Len(out) = c /\ Len(slot) = L
    BY <1>2, <1>3, <1>4
  <2> QED
    BY <2>1, <2>2
<1>6. ASSUME NEW t \in 0 .. s, NEW l \in 0 .. L - 1
      PROVE  (out \o slot)[t * L + l + 1]
               = (U[l] \div Pow[t * bits]) % Pow[bits]
  <2>1. CASE t < s
    <3>1. t * L + l + 1 \in 1 .. s * L
      BY <1>1, <2>1, PlaceInSlots
    <3>2. PICK i \in 1 .. c : i = t * L + l + 1
      BY <1>4, <3>1
    <3>3. (out \o slot)[i] = out[i]
      <4>1. i \in 1 .. c + L /\ i <= c
        OBVIOUS
      <4> QED
        BY <1>5, <4>1
    <3>4. t \in 0 .. s - 1
      BY <2>1
    <3>5. out[t * L + l + 1] = (U[l] \div Pow[t * bits]) % Pow[bits]
      BY <1>1, <3>4 DEF Yields
    <3> QED
      BY <3>2, <3>3, <3>5, Zenon
  <2>2. CASE t = s
    <3>1. PICK i \in Nat : i = t * L + l + 1 /\ i = c + (l + 1)
      BY <1>4, <2>2
    <3>2. i \in 1 .. c + L /\ ~(i <= c) /\ i - c = l + 1
      BY <3>1
    <3>3. (out \o slot)[i] = slot[i - c]
      BY <1>5, <3>2
    <3>4. slot[l + 1] = (U[l] \div Pow[s * bits]) % Pow[bits]
      BY <1>1
    <3>5. (out \o slot)[t * L + l + 1] = slot[l + 1]
      BY <3>1, <3>2, <3>3, Zenon
    <3> QED
      BY <2>2, <3>4, <3>5, Zenon
  <2>3. t < s \/ t = s
    OBVIOUS
  <2> QED
    BY <2>1, <2>2, <2>3
<1>7. s + 1 - 1 = s
  OBVIOUS
<1>8. \A t \in 0 .. s + 1 - 1, l \in 0 .. L - 1 :
        (out \o slot)[t * L + l + 1] = (U[l] \div Pow[t * bits]) % Pow[bits]
  BY <1>6, <1>7
<1>9. out \o slot \in Seq(Nat) /\ Len(out \o slot) = (s + 1) * L
  BY <1>4, <1>5
<1>10. PICK r \in Nat : r = s + 1
  OBVIOUS
<1>14. PICK o : o = out \o slot
  OBVIOUS
<1>11. o \in Seq(Nat) /\ Len(o) = r * Lanes(w)
  BY <1>1, <1>9, <1>10, <1>14
<1>12. ASSUME NEW t \in 0 .. r - 1, NEW l \in 0 .. Lanes(w) - 1
       PROVE  o[t * Lanes(w) + l + 1] = (U[l] \div Pow[t * bits]) % Pow[bits]
  <2>1. t \in 0 .. s /\ l \in 0 .. L - 1
    BY <1>1, <1>10
  <2>2. (out \o slot)[t * L + l + 1] = (U[l] \div Pow[t * bits]) % Pow[bits]
    BY <1>6, <2>1
  <2> QED
    BY <1>1, <1>14, <2>2
<1>13. Yields(o, w, bits, U, r)
  BY <1>11, <1>12 DEF Yields
<1> QED
  BY <1>10, <1>13, <1>14

\* n groups have the bits of m slots.
Enough(n, m, w, bits) == m * bits <= n * (8 * w)

\* A slot is unpacked after others.
LEMMA UnpackSlotKeeps ==
  ASSUME NEW w \in Widths, NEW bits \in 1 .. 8 * w, NEW body,
         NEW from \in Nat, NEW n \in Nat,
         NEW U \in [0 .. Lanes(w) - 1 -> Nat], Holds(body, from, n, w, U),
         NEW m \in Nat, Enough(n, m, w, bits), NEW s \in 0 .. m - 1,
         NEW st, NEW g, WalkedTo(st, w, bits, U, from, s, g)
  PROVE  \E h : WalkedTo(UnpackSlot(st, body, w, bits), w, bits, U, from,
                         s + 1, h)
<1>12. ASSUME NEW k \in 0 .. n - 1, NEW l \in 0 .. Lanes(w) - 1
       PROVE  Words(from + 16 * k, body, w)[l]
                = (U[l] \div Pow[k * (8 * w)]) % Pow[8 * w]
  BY WordsOfNumbers, ZenonT(60)
<1> DEFINE lanes == 0 .. Lanes(w) - 1
<1>1. PICK B \in 8 .. 64, b \in Nat \ {0} : B = 8 * w /\ b = bits /\ b <= B
  <2>1. w \in {1, 2, 4, 8} /\ bits \in Nat \ {0}
    BY Shape
  <2> QED
    BY <2>1
<1>2. /\ st \in WalkState(w) /\ g \in Nat /\ s * b + st.res = g * B
      /\ st.at = from + 16 * g
      /\ \A l \in lanes : st.acc[l] = (U[l] \div Pow[s * b]) % Pow[st.res]
      /\ Yields(st.out, w, b, U, s)
  BY <1>1 DEF WalkedTo
<1>3. PICK t, words : /\ t = UnpackSlot(st, body, w, bits)
                      /\ words = Words(st.at, body, w)
  OBVIOUS
<1>4. SlotUnpacked(t, st, words, w, bits)
  BY <1>2, <1>3, UnpackSlotDoes
<1>5. PICK res \in 0 .. B - 1, c \in Nat, e \in Nat :
        res = st.res /\ c = s * b /\ (s + 1) * b = c + b /\ e = g * B
        /\ c + res = e
  <2>1. st.res \in 0 .. B - 1 /\ s * b \in Nat /\ (s + 1) * b = s * b + b
    BY <1>1, <1>2 DEF WalkState
  <2>2. g * B \in Nat
    <3>1. g \in Nat /\ B \in Nat
      BY <1>2
    <3> QED
      BY <3>1
  <2> QED
    BY <1>2, <2>1, <2>2
<1>6. \A l \in lanes : st.acc[l] = (U[l] \div Pow[c]) % Pow[res]
  BY <1>2, <1>5
<1>10. /\ c + res = e /\ res \in Nat /\ s \in Nat /\ b \in Nat /\ B \in Nat
       /\ \A l \in lanes : U[l] \in Nat
  BY <1>5
<1>11. ASSUME NEW l \in lanes, NEW k \in Nat
       PROVE  (U[l] \div Pow[c]) \div Pow[k] = U[l] \div Pow[c + k]
  <2>1. PICK u \in Nat : u = U[l]
    BY <1>10
  <2>2. (u \div Pow[c]) \div Pow[k] = u \div Pow[c + k]
    BY HighTwice
  <2> QED
    BY <2>1, <2>2
<1>7. st.at \in Nat /\ st.out \in Seq(Nat) /\ Lanes(w) \in Nat
  BY <1>2, Shape DEF WalkState
<1>8. CASE res < b
  <2>1. PICK used \in Nat : used = b - res /\ used <= B /\ used >= 1
    BY <1>1, <1>5, <1>8
  <2>2. g < n
    <3>1. c + b <= n * B
      <4>1. (s + 1) * b <= m * b
        <5>1. PICK k \in Nat : m = s + 1 + k
          <6>1. m - (s + 1) \in Nat /\ m = s + 1 + (m - (s + 1))
            OBVIOUS
          <6> QED
            BY <6>1
        <5>2. /\ m * b = (s + 1) * b + k * b
              /\ k * b \in Nat /\ (s + 1) * b \in Nat
          BY <5>1
        <5> QED
          BY <5>2
      <4>2. m * b <= n * B
        BY <1>1 DEF Enough
      <4>3. PICK x \in Nat, y \in Nat, z \in Nat :
              x = (s + 1) * b /\ y = m * b /\ z = n * B
        OBVIOUS
      <4> QED
        BY <1>5, <4>1, <4>2, <4>3, SMTT(40)
    <3>2. g * B < n * B
      <4>1. PICK z \in Nat : z = n * B
        OBVIOUS
      <4> QED
        BY <1>5, <1>8, <3>1, <4>1
    <3>3. ASSUME g >= n PROVE FALSE
      <4>1. PICK k \in Nat : g = n + k
        <5>1. g - n \in Nat /\ g = n + (g - n)
          BY <1>2, <3>3
        <5> QED
          BY <5>1
      <4>2. g * B = n * B + k * B /\ k * B \in Nat /\ n * B \in Nat
        BY <4>1
      <4> QED
        BY <3>2, <4>2
    <3> QED
      BY <1>2, <3>3
  <2>3. \A l \in lanes : words[l] = (U[l] \div Pow[e]) % Pow[B]
    <3>1. PICK k \in 0 .. n - 1 : k = g
      BY <1>2, <2>2
    <3>2. \A l \in lanes :
            Words(from + 16 * k, body, w)[l]
              = (U[l] \div Pow[k * (8 * w)]) % Pow[8 * w]
      BY <1>12
    <3>3. words = Words(from + 16 * k, body, w)
      BY <1>2, <1>3, <3>1
    <3> QED
      BY <1>1, <1>5, <3>1, <3>2, <3>3
  <2>4. ASSUME NEW l \in lanes
        PROVE  /\ words[l] \in Nat
               /\ st.acc[l] + (words[l] % Pow[used]) * Pow[res]
                    = (U[l] \div Pow[c]) % Pow[b]
               /\ words[l] \div Pow[used]
                    = (U[l] \div Pow[c + b]) % Pow[B - used]
    <3>1. PICK x \in Nat : x = U[l] \div Pow[c]
      BY HighIsNat
    <3>2. (U[l] \div Pow[c]) \div Pow[res] = U[l] \div Pow[c + res]
      BY <1>10, <1>11
    <3>3. PICK d : d = words[l] /\ d = (x \div Pow[res]) % Pow[B]
      BY <1>5, <2>3, <3>1, <3>2, Zenon
    <3>4. /\ res \in Nat /\ B \in Nat
      OBVIOUS
    <3>12. PICK k \in Nat : k = B /\ used <= k
      BY <2>1, <3>4
    <3>13. d = (x \div Pow[res]) % Pow[k]
      BY <3>3, <3>12
    <3>5. /\ (x % Pow[res]) + (d % Pow[used]) * Pow[res] = x % Pow[res + used]
          /\ d \div Pow[used] = (x \div Pow[res + used]) % Pow[B - used]
      <4>1. (x % Pow[res]) + (d % Pow[used]) * Pow[res] = x % Pow[res + used]
        BY <3>4, <3>12, <3>13, BitsLeft, SMTT(40)
      <4>2. d \div Pow[used] = (x \div Pow[res + used]) % Pow[k - used]
        BY <3>4, <3>12, <3>13, BitsLeft, SMTT(40)
      <4> QED
        BY <3>12, <4>1, <4>2, Zenon
    <3>6. res + used = b
      BY <2>1
    <3>7. x \div Pow[b] = U[l] \div Pow[c + b]
      <4>1. (U[l] \div Pow[c]) \div Pow[b] = U[l] \div Pow[c + b]
        BY <1>10, <1>11
      <4> QED
        BY <3>1, <4>1, Zenon
    <3>8. st.acc[l] = x % Pow[res]
      BY <1>6, <3>1, Zenon
    <3>9. words[l] \in Nat
      <4>1. PICK y \in Nat : y = x \div Pow[res]
        BY <3>4, HighIsNat
      <4>2. y % Pow[B] \in Nat
        BY <3>4, HighIsNat
      <4> QED
        BY <3>3, <4>1, <4>2, Zenon
    <3>10. st.acc[l] + (words[l] % Pow[used]) * Pow[res]
             = (U[l] \div Pow[c]) % Pow[b]
      BY <3>1, <3>3, <3>5, <3>6, <3>8, Zenon
    <3>11. words[l] \div Pow[used] = (U[l] \div Pow[c + b]) % Pow[B - used]
      BY <3>3, <3>5, <3>6, <3>7, Zenon
    <3> QED
      BY <3>9, <3>10, <3>11
  <2> DEFINE slot == Refilled(st, words, w, bits)
             acc == [l \in lanes |-> words[l] \div Pow[used]]
  <2>5. t = [acc |-> acc, res |-> B - used, at |-> st.at + 16,
             out |-> st.out \o slot]
    BY <1>1, <1>4, <1>5, <1>8, <2>1 DEF SlotUnpacked
  <2>6. ASSUME NEW l \in lanes
        PROVE  slot[l + 1] = (U[l] \div Pow[c]) % Pow[b]
    <3>1. l + 1 \in 1 .. Lanes(w) /\ l + 1 - 1 = l
      BY <1>7
    <3>2. slot[l + 1] = st.acc[l] + (words[l] % Pow[used]) * Pow[res]
      BY <1>1, <1>5, <2>1, <3>1 DEF Refilled
    <3> QED
      BY <2>4, <3>2
  <2>7. slot \in [1 .. Lanes(w) -> Nat]
    <3>1. ASSUME NEW k \in 1 .. Lanes(w) PROVE slot[k] \in Nat
      <4>1. PICK l \in lanes : k = l + 1
        <5>1. k - 1 \in lanes /\ k = k - 1 + 1
          BY <1>7
        <5> QED
          BY <5>1
      <4>2. PICK x \in Nat : x = U[l] \div Pow[c]
        BY HighIsNat
      <4>3. x % Pow[b] \in Nat
        BY HighIsNat
      <4> QED
        BY <2>6, <4>1, <4>2, <4>3
    <3>2. slot = [k \in 1 .. Lanes(w) |-> slot[k]]
      BY DEF Refilled
    <3> HIDE DEF slot
    <3> QED
      BY <3>1, <3>2
  <2> HIDE DEF slot
  <2>8. Yields(st.out \o slot, w, b, U, s + 1)
    <3>1. \A l \in 0 .. Lanes(w) - 1 :
            slot[l + 1] = (U[l] \div Pow[s * b]) % Pow[b]
      BY <1>5, <2>6
    <3> QED
      BY <1>2, <1>10, <2>7, <3>1, YieldsMore
  <2>9. acc \in [lanes -> Nat]
    <3>1. \A l \in lanes : words[l] \div Pow[used] \in Nat
      BY <2>4, HighIsNat
    <3> QED
      BY <3>1
  <2>10. t \in WalkState(w)
    <3>3. B - used \in 0 .. B - 1 /\ st.at + 16 \in Nat
      BY <1>7, <2>1
    <3>1. B - used \in 0 .. 8 * w - 1 /\ st.at + 16 \in Nat
      BY <1>1, <3>3
    <3>2. st.out \o slot \in Seq(Nat)
      BY <2>8 DEF Yields
    <3> HIDE DEF acc
    <3> QED
      BY <2>5, <2>9, <3>1, <3>2 DEF WalkState
  <2>11. \A l \in lanes : t.acc[l] = (U[l] \div Pow[c + b]) % Pow[t.res]
    BY <2>4, <2>5
  <2>12. (s + 1) * b + t.res = (g + 1) * B /\ t.at = from + 16 * (g + 1)
    <3>1. (g + 1) * B = e + B
      BY <1>2, <1>5, SMTT(40)
    <3>2. c + b + (B - used) = e + B
      BY <1>10, <2>1
    <3>3. t.res = B - used /\ t.at = st.at + 16
      BY <2>5
    <3>4. st.at + 16 = from + 16 * (g + 1)
      BY <1>2, SMTT(40)
    <3> QED
      BY <1>5, <3>1, <3>2, <3>3, <3>4
  <2>13. WalkedTo(t, w, bits, U, from, s + 1, g + 1)
    <3>1. t.out = st.out \o slot /\ g + 1 \in Nat
      BY <1>2, <2>5
    <3> HIDE DEF lanes
    <3> QED
      BY <1>1, <1>5, <2>8, <2>10, <2>11, <2>12, <3>1 DEF WalkedTo, lanes
  <2> QED
    BY <1>3, <2>13
<1>9. CASE ~(res < b)
  <2> DEFINE slot == Drawn(st, w, bits)
             acc == [l \in lanes |-> st.acc[l] \div Pow[b]]
  <2>1. PICK r \in Nat : r = res - b /\ res = b + r
    BY <1>9
  <2>2. t = [acc |-> acc, res |-> r, at |-> st.at, out |-> st.out \o slot]
    <3>1. st.res >= bits
      BY <1>1, <1>5, <1>9
    <3> QED
      BY <1>1, <1>4, <1>5, <2>1, <3>1 DEF SlotUnpacked
  <2>3. ASSUME NEW l \in lanes
        PROVE  /\ st.acc[l] % Pow[b] = (U[l] \div Pow[c]) % Pow[b]
               /\ st.acc[l] % Pow[b] \in Nat
               /\ acc[l] = (U[l] \div Pow[c + b]) % Pow[r]
               /\ acc[l] \in Nat
    <3>1. PICK x \in Nat : x = U[l] \div Pow[c]
      BY HighIsNat
    <3>2. st.acc[l] = x % Pow[b + r]
      BY <1>6, <2>1, <3>1, Zenon
    <3>3. (x % Pow[b + r]) % Pow[b] = x % Pow[b]
      BY LowTwice
    <3>4. (x % Pow[b + r]) \div Pow[b] = (x \div Pow[b]) % Pow[r]
      BY HighOfLow
    <3>5. PICK y \in Nat : y = x \div Pow[b]
      BY HighIsNat
    <3>6. y = U[l] \div Pow[c + b]
      <4>1. (U[l] \div Pow[c]) \div Pow[b] = U[l] \div Pow[c + b]
        BY <1>10, <1>11
      <4> QED
        BY <3>1, <3>5, <4>1, Zenon
    <3>7. x % Pow[b] \in Nat /\ y % Pow[r] \in Nat
      BY HighIsNat
    <3>8. acc[l] = y % Pow[r]
      <4>1. acc[l] = st.acc[l] \div Pow[b]
        OBVIOUS
      <4> HIDE DEF acc
      <4> QED
        BY <3>2, <3>4, <3>5, <4>1, Zenon
    <3>9. st.acc[l] % Pow[b] = x % Pow[b]
      BY <3>2, <3>3, Zenon
    <3> HIDE DEF acc
    <3> QED
      BY <3>1, <3>6, <3>7, <3>8, <3>9, Zenon
  <2>4. ASSUME NEW l \in lanes
        PROVE  slot[l + 1] = (U[l] \div Pow[c]) % Pow[b]
    <3>1. l + 1 \in 1 .. Lanes(w) /\ l + 1 - 1 = l
      BY <1>7
    <3>2. slot[l + 1] = st.acc[l] % Pow[b]
      <4>1. slot[l + 1] = st.acc[l + 1 - 1] % Pow[bits]
        BY <3>1 DEF Drawn
      <4> QED
        BY <1>1, <3>1, <4>1
    <3> QED
      BY <2>3, <3>2
  <2>5. slot \in [1 .. Lanes(w) -> Nat]
    <3>1. ASSUME NEW k \in 1 .. Lanes(w) PROVE st.acc[k - 1] % Pow[bits] \in Nat
      <4>1. k - 1 \in lanes
        BY <1>7
      <4> QED
        BY <1>1, <2>3, <4>1
    <3> QED
      BY <3>1 DEF Drawn
  <2>6. acc \in [lanes -> Nat]
    <3>1. \A l \in lanes : acc[l] \in Nat
      BY <2>3
    <3> QED
      BY <3>1
  <2> HIDE DEF slot, acc
  <2>8. Yields(st.out \o slot, w, b, U, s + 1)
    <3>1. \A l \in 0 .. Lanes(w) - 1 :
            slot[l + 1] = (U[l] \div Pow[s * b]) % Pow[b]
      BY <1>5, <2>4
    <3> QED
      BY <1>2, <1>10, <2>5, <3>1, YieldsMore
  <2>10. t \in WalkState(w)
    <3>1. r \in 0 .. 8 * w - 1
      BY <1>1, <1>5, <2>1
    <3>2. st.out \o slot \in Seq(Nat)
      BY <2>8 DEF Yields
    <3> QED
      BY <1>7, <2>2, <2>6, <3>1, <3>2 DEF WalkState
  <2>11. \A l \in lanes : t.acc[l] = (U[l] \div Pow[c + b]) % Pow[t.res]
    BY <2>2, <2>3
  <2>12. (s + 1) * b + t.res = g * B /\ t.at = from + 16 * g
    <3>1. c + b + r = e
      BY <1>5, <2>1
    <3>2. t.res = r /\ t.at = st.at
      BY <2>2
    <3> QED
      BY <1>2, <1>5, <3>1, <3>2
  <2>13. WalkedTo(t, w, bits, U, from, s + 1, g)
    <3>1. t.out = st.out \o slot
      BY <2>2
    <3> HIDE DEF lanes
    <3> QED
      BY <1>1, <1>2, <1>5, <2>8, <2>10, <2>11, <2>12, <3>1 DEF WalkedTo, lanes
  <2> QED
    BY <1>3, <2>13
<1> QED
  BY <1>8, <1>9

\* The reservoirs before the first slot.
WalkBegin(w, from) ==
  [acc |-> [l \in 0 .. Lanes(w) - 1 |-> 0], res |-> 0, at |-> from,
   out |-> <<>>]

\* f has the reservoirs after every slot.
Walks(f, body, from, m, w, bits) ==
  /\ f[0] = WalkBegin(w, from)
  /\ \A s \in 1 .. m : f[s] = UnpackSlot(f[s - 1], body, w, bits)

\* No slot is unpacked.
LEMMA WalkedNone ==
  ASSUME NEW w \in Widths, NEW bits \in 1 .. 8 * w, NEW from \in Nat,
         NEW U \in [0 .. Lanes(w) - 1 -> Nat]
  PROVE  WalkedTo(WalkBegin(w, from), w, bits, U, from, 0, 0)
<1>1. 8 * w \in Nat \ {0} /\ bits \in Nat /\ Lanes(w) \in Nat
  BY Shape
<1>2. WalkBegin(w, from) \in WalkState(w)
  <2>1. 0 \in 0 .. 8 * w - 1
    BY <1>1
  <2>2. [l \in 0 .. Lanes(w) - 1 |-> 0] \in [0 .. Lanes(w) - 1 -> Nat]
    OBVIOUS
  <2>3. <<>> \in Seq(Nat)
    OBVIOUS
  <2> QED
    BY <2>1, <2>2, <2>3 DEF WalkBegin, WalkState
<1>3. 0 * bits = 0 /\ 0 * (8 * w) = 0 /\ 0 * Lanes(w) = 0
  BY <1>1
<1>4. ASSUME NEW l \in 0 .. Lanes(w) - 1
      PROVE  WalkBegin(w, from).acc[l] = (U[l] \div Pow[0 * bits]) % Pow[0]
  <2>1. PICK x \in Nat : x = U[l] \div Pow[0 * bits]
    <3>1. U[l] \in Nat
      OBVIOUS
    <3> QED
      BY <1>3, <3>1, HighIsNat
  <2>2. x % Pow[0] = 0
    BY PowFacts
  <2> QED
    BY <2>1, <2>2 DEF WalkBegin
<1>5. Yields(<<>>, w, bits, U, 0)
  BY <1>3 DEF Yields
<1>6. WalkBegin(w, from).res = 0 /\ WalkBegin(w, from).at = from + 16 * 0
      /\ WalkBegin(w, from).out = <<>>
  BY DEF WalkBegin
<1> QED
  BY <1>2, <1>3, <1>4, <1>5, <1>6 DEF WalkedTo

\* What the lemmas on unpacking are about: m slots, n groups that have them.
Unpacks(w, bits, body, from, n, U, m) ==
  /\ w \in Widths /\ bits \in 1 .. 8 * w /\ from \in Nat /\ n \in Nat
  /\ U \in [0 .. Lanes(w) - 1 -> Nat] /\ Holds(body, from, n, w, U)
  /\ m \in Nat /\ Enough(n, m, w, bits)

\* The reservoirs after any number of slots.
LEMMA WalkedSlots ==
  ASSUME NEW w, NEW bits, NEW body, NEW from, NEW n, NEW U, NEW m,
         Unpacks(w, bits, body, from, n, U, m),
         NEW f, Walks(f, body, from, m, w, bits), NEW s \in 0 .. m
  PROVE  \E g : WalkedTo(f[s], w, bits, U, from, s, g)
<1> DEFINE T == {i \in 0 .. m : ~\E g : WalkedTo(f[i], w, bits, U, from, i, g)}
<1> SUFFICES ASSUME T # {} PROVE FALSE
  OBVIOUS
<1>1. m \in Nat /\ w \in Widths /\ bits \in 1 .. 8 * w /\ from \in Nat
      /\ U \in [0 .. Lanes(w) - 1 -> Nat]
  BY DEF Unpacks
<1>2. PICK i \in T : \A j \in T : i <= j
  BY <1>1, T \subseteq Nat, LeastNumber
<1>3. i # 0
  <2>1. f[0] = WalkBegin(w, from)
    BY DEF Walks
  <2>2. WalkedTo(f[0], w, bits, U, from, 0, 0)
    BY <1>1, <2>1, WalkedNone
  <2> QED
    BY <2>2
<1>4. i - 1 \in 0 .. m /\ i - 1 \notin T /\ i \in 1 .. m
  BY <1>1, <1>2, <1>3
<1>5. PICK g : WalkedTo(f[i - 1], w, bits, U, from, i - 1, g)
  BY <1>4
<1>6. f[i] = UnpackSlot(f[i - 1], body, w, bits)
  BY <1>4 DEF Walks
<1>7. PICK j \in 0 .. m - 1 : j = i - 1 /\ j + 1 = i
  <2>1. i - 1 \in 0 .. m - 1 /\ i - 1 + 1 = i
    BY <1>1, <1>4
  <2> QED
    BY <2>1
<1>8. \E h : WalkedTo(UnpackSlot(f[j], body, w, bits), w, bits, U, from,
                      j + 1, h)
  <2>1. WalkedTo(f[j], w, bits, U, from, j, g)
    BY <1>5, <1>7
  <2> HIDE DEF T
  <2> QED
    BY <2>1, UnpackSlotKeeps DEF Unpacks
<1> QED
  BY <1>6, <1>7, <1>8

\* Walking computes them.
LEMMA WalkingComputes ==
  ASSUME NEW w, NEW bits, NEW body, NEW from, NEW n, NEW U, NEW m,
         Unpacks(w, bits, body, from, n, U, m)
  PROVE  Walks(Walking(body, from, m, w, bits), body, from, m, w, bits)
<1> DEFINE S == WalkState(w)
           begin0 == WalkBegin(w, from)
           Next0(st) == UnpackSlot(st, body, w, bits)
           step == [k \in 1 .. m |->
                      [st \in S |-> IF Next0(st) \in S THEN Next0(st)
                                    ELSE begin0]]
           Is(f) == f = [s \in 0 .. m |->
                           IF s = 0 THEN begin0 ELSE Next0(f[s - 1])]
           p == CHOOSE f : Is(f)
<1>1. m \in Nat /\ w \in Widths /\ bits \in 1 .. 8 * w /\ from \in Nat
      /\ U \in [0 .. Lanes(w) - 1 -> Nat]
  BY DEF Unpacks
<1>2. WalkedTo(begin0, w, bits, U, from, 0, 0) /\ begin0 \in S
  <2>1. WalkedTo(begin0, w, bits, U, from, 0, 0)
    BY <1>1, WalkedNone
  <2> QED
    BY <2>1 DEF WalkedTo
<1>3. Steps(step, S, m)
  <2> HIDE DEF S, Next0, begin0
  <2> QED
    BY <1>2 DEF Steps
<1>4. \A k \in 1 .. m : \A st \in S :
        Next0(st) \in S => step[k][st] = Next0(st)
  <2> HIDE DEF S, Next0, begin0
  <2> QED
    OBVIOUS
<1> HIDE DEF S, step
<1>5. PICK f : Computes(f, S, m, begin0, step)
  <2> HIDE DEF begin0
  <2> QED
    BY <1>1, <1>2, <1>3, Recursion
<1>6. ASSUME NEW i \in 1 .. m,
             \E g : WalkedTo(f[i - 1], w, bits, U, from, i - 1, g)
      PROVE  /\ f[i] = Next0(f[i - 1])
             /\ \E g : WalkedTo(f[i], w, bits, U, from, i, g)
  <2>1. PICK j \in 0 .. m - 1 : j = i - 1 /\ j + 1 = i
    <3>1. i - 1 \in 0 .. m - 1 /\ i - 1 + 1 = i
      BY <1>1
    <3> QED
      BY <3>1
  <2>2. PICK g : WalkedTo(f[j], w, bits, U, from, j, g)
    BY <1>6, <2>1
  <2>3. PICK h : WalkedTo(Next0(f[j]), w, bits, U, from, j + 1, h)
    BY <2>2, UnpackSlotKeeps DEF Unpacks
  <2> HIDE DEF Next0
  <2>4. Next0(f[j]) \in S /\ f[j] \in S
    BY <2>2, <2>3 DEF WalkedTo, S
  <2>5. f[i] = step[i][f[j]]
    BY <1>5, <2>1 DEF Computes
  <2>6. f[i] = Next0(f[j])
    BY <1>4, <2>4, <2>5
  <2> QED
    BY <2>1, <2>3, <2>6
<1>7. ASSUME NEW i \in 0 .. m
      PROVE  \E g : WalkedTo(f[i], w, bits, U, from, i, g)
  <2> DEFINE T == {k \in 0 .. m :
                     ~\E g : WalkedTo(f[k], w, bits, U, from, k, g)}
  <2> SUFFICES ASSUME T # {} PROVE FALSE
    OBVIOUS
  <2>1. PICK k \in T : \A j \in T : k <= j
    BY <1>1, T \subseteq Nat, LeastNumber
  <2>2. k # 0
    <3>1. f[0] = begin0
      BY <1>5 DEF Computes
    <3> QED
      BY <1>2, <3>1
  <2>3. k \in 1 .. m /\ k - 1 \in 0 .. m /\ k - 1 \notin T
    BY <1>1, <2>1, <2>2
  <2>4. \E g : WalkedTo(f[k - 1], w, bits, U, from, k - 1, g)
    BY <2>3
  <2> HIDE DEF Next0
  <2>5. \E g : WalkedTo(f[k], w, bits, U, from, k, g)
    BY <1>6, <2>3, <2>4
  <2> QED
    BY <2>5
<1>8. ASSUME NEW s \in 0 .. m
      PROVE  f[s] = IF s = 0 THEN begin0 ELSE Next0(f[s - 1])
  <2> HIDE DEF Next0, begin0
  <2>1. CASE s = 0
    BY <1>5, <2>1 DEF Computes
  <2>2. CASE s # 0
    <3>1. s \in 1 .. m /\ s - 1 \in 0 .. m
      BY <1>1, <2>2
    <3>2. \E g : WalkedTo(f[s - 1], w, bits, U, from, s - 1, g)
      BY <1>7, <3>1
    <3>3. f[s] = Next0(f[s - 1])
      BY <1>6, <3>1, <3>2
    <3> QED
      BY <2>2, <3>3
  <2> QED
    BY <2>1, <2>2
<1> HIDE DEF Next0, begin0
<1>9. Is(f)
  <2>1. f = [s \in 0 .. m |-> f[s]]
    BY <1>5 DEF Computes
  <2> QED
    BY <1>8, <2>1
<1>10. Is(p)
  <2> HIDE DEF Is
  <2> QED
    BY <1>9
<1>11. Walking(body, from, m, w, bits) = p
  BY DEF Walking, WalkBegin, Next0, begin0
<1> HIDE DEF p
<1>12. p[0] = begin0
  BY <1>1, <1>10
<1>13. ASSUME NEW s \in 1 .. m PROVE p[s] = Next0(p[s - 1])
  <2>1. s \in 0 .. m /\ s # 0
    BY <1>1
  <2> QED
    BY <1>10, <2>1
<1>14. Walks(p, body, from, m, w, bits)
  BY <1>12, <1>13 DEF Walks, Next0, begin0
<1> QED
  BY <1>11, <1>14

\* What is unpacked are the digits of the lanes' numbers.
LEMMA WalkHolds ==
  ASSUME NEW w, NEW bits, NEW body, NEW from, NEW n, NEW U, NEW m,
         Unpacks(w, bits, body, from, n, U, m)
  PROVE  Yields(Walk(body, from, m, w, bits), w, bits, U, m)
<1>1. m \in Nat
  BY DEF Unpacks
<1>2. PICK f : f = Walking(body, from, m, w, bits)
               /\ Walks(f, body, from, m, w, bits)
  BY WalkingComputes
<1>3. m \in 0 .. m
  BY <1>1
<1>4. PICK g : WalkedTo(f[m], w, bits, U, from, m, g)
  BY <1>2, <1>3, WalkedSlots
<1>5. Walk(body, from, m, w, bits) = f[m].out
  BY <1>2 DEF Walk
<1> QED
  BY <1>4, <1>5 DEF WalkedTo

\* The numbers of the second half of a body.
Rear(U, w, bits) ==
  [l \in 0 .. Lanes(w) - 1 |-> U[l] \div Pow[bits * (8 * w)]]

\* The halves of a body hold the halves of the numbers.
LEMMA HalvesHold ==
  ASSUME NEW w \in Widths, NEW bits \in 1 .. 8 * w, NEW body,
         NEW U \in [0 .. Lanes(w) - 1 -> Nat],
         Holds(body, 0, 2 * bits, w, U)
  PROVE  /\ Holds(body, 0, bits, w, U)
         /\ Holds(body, bits * Group, bits, w, Rear(U, w, bits))
         /\ Rear(U, w, bits) \in [0 .. Lanes(w) - 1 -> Nat]
<1>1. w \in {1, 2, 4, 8} /\ bits \in Nat \ {0} /\ Lanes(w) \in Nat
  BY Shape
<1>2. PICK a \in Nat : a = bits * (8 * w)
  BY <1>1
<1>3. Holds(body, 0, bits, w, U)
  <2> SUFFICES ASSUME NEW k \in 0 .. bits - 1, NEW l \in 0 .. Lanes(w) - 1,
                      NEW j \in 0 .. w - 1
               PROVE  body[0 + 16 * k + l * w + j + 1]
                        = (U[l] \div Pow[8 * (w * k + j)]) % 256
    BY DEF Holds
  <2>1. k \in 0 .. 2 * bits - 1
    BY <1>1
  <2> QED
    BY <2>1 DEF Holds
<1>4. Holds(body, bits * Group, bits, w, Rear(U, w, bits))
  <2> SUFFICES ASSUME NEW k \in 0 .. bits - 1, NEW l \in 0 .. Lanes(w) - 1,
                      NEW j \in 0 .. w - 1
               PROVE  body[bits * Group + 16 * k + l * w + j + 1]
                        = (Rear(U, w, bits)[l] \div Pow[8 * (w * k + j)]) % 256
    BY DEF Holds
  <2>1. PICK i \in 0 .. 2 * bits - 1 : i = bits + k
    BY <1>1
  <2>2. body[0 + 16 * i + l * w + j + 1]
          = (U[l] \div Pow[8 * (w * i + j)]) % 256
    BY DEF Holds
  <2>3. 0 + 16 * i + l * w + j + 1 = bits * Group + 16 * k + l * w + j + 1
    <3>1. PICK c \in Nat : c = l * w
      BY <1>1
    <3>2. 16 * i = bits * 16 + 16 * k
      BY <1>1, <2>1
    <3>3. PICK e \in Nat : e = bits * 16
      BY <1>1
    <3> QED
      BY <1>1, <3>1, <3>2, <3>3 DEF Group
  <2>4. PICK c \in Nat : c = 8 * (w * k + j)
    BY <1>1
  <2>5. 8 * (w * i + j) = a + c
    <3>1. CASE w = 1
      BY <1>1, <1>2, <2>1, <2>4, <3>1
    <3>2. CASE w = 2
      BY <1>1, <1>2, <2>1, <2>4, <3>2
    <3>3. CASE w = 4
      BY <1>1, <1>2, <2>1, <2>4, <3>3
    <3>4. CASE w = 8
      BY <1>1, <1>2, <2>1, <2>4, <3>4
    <3> QED
      BY <1>1, <3>1, <3>2, <3>3, <3>4
  <2>6. U[l] \div Pow[a + c] = (U[l] \div Pow[a]) \div Pow[c]
    <3>1. PICK u \in Nat : u = U[l]
      OBVIOUS
    <3>2. (u \div Pow[a]) \div Pow[c] = u \div Pow[a + c]
      BY HighTwice
    <3> QED
      BY <3>1, <3>2, Zenon
  <2>7. Rear(U, w, bits)[l] = U[l] \div Pow[a]
    BY <1>2 DEF Rear
  <2>8. U[l] \div Pow[8 * (w * i + j)]
          = Rear(U, w, bits)[l] \div Pow[8 * (w * k + j)]
    BY <2>4, <2>5, <2>6, <2>7, Zenon
  <2> QED
    BY <2>2, <2>3, <2>8, Zenon
<1>5. ASSUME NEW l \in 0 .. Lanes(w) - 1
      PROVE  U[l] \div Pow[bits * (8 * w)] \in Nat
  <2>1. PICK u \in Nat : u = U[l]
    OBVIOUS
  <2>2. u \div Pow[a] \in Nat
    BY HighIsNat
  <2> QED
    BY <1>2, <2>1, <2>2, Zenon
<1>6. Rear(U, w, bits) \in [0 .. Lanes(w) - 1 -> Nat]
  BY <1>5 DEF Rear
<1> QED
  BY <1>3, <1>4, <1>6

\* The samples of two halves follow one another.
LEMMA YieldsBoth ==
  ASSUME NEW w \in Widths, NEW bits \in 1 .. 8 * w,
         NEW U \in [0 .. Lanes(w) - 1 -> Nat], NEW p, NEW q,
         Yields(p, w, bits, U, 8 * w),
         Yields(q, w, bits, Rear(U, w, bits), 8 * w)
  PROVE  Yields(p \o q, w, bits, U, 16 * w)
<1>1. PICK L \in Nat \ {0}, h \in Nat :
        L = Lanes(w) /\ h = 8 * w /\ w \in {1, 2, 4, 8} /\ w * L = 16
  <2>1. Lanes(w) \in Nat \ {0} /\ w \in {1, 2, 4, 8} /\ 8 * w \in Nat
        /\ Lanes(w) * w = 16
    BY Shape
  <2>2. w * Lanes(w) = 16
    BY <2>1
  <2> QED
    BY <2>1, <2>2
<1>2. PICK b \in Nat : b = bits
  BY <1>1
<1>3. h * L = 128 /\ (16 * w) * L = 256 /\ 16 * w = h + h
  <2>1. CASE w = 1
    BY <1>1, <2>1
  <2>2. CASE w = 2
    BY <1>1, <2>2
  <2>3. CASE w = 4
    BY <1>1, <2>3
  <2>4. CASE w = 8
    BY <1>1, <2>4
  <2> QED
    BY <1>1, <2>1, <2>2, <2>3, <2>4
<1>4. /\ p \in Seq(Nat) /\ Len(p) = 128 /\ q \in Seq(Nat) /\ Len(q) = 128
  BY <1>1, <1>3 DEF Yields
<1>5. /\ p \o q \in Seq(Nat) /\ Len(p \o q) = 256
      /\ \A i \in 1 .. 256 :
           (p \o q)[i] = IF i <= 128 THEN p[i] ELSE q[i - 128]
  <2>1. /\ p \o q \in Seq(Nat) /\ Len(p \o q) = Len(p) + Len(q)
        /\ \A i \in 1 .. Len(p) + Len(q) : (p \o q)[i] =
             IF i <= Len(p) THEN p[i] ELSE q[i - Len(p)]
    <3>1. p \in Seq(Nat) /\ q \in Seq(Nat)
      BY <1>4
    <3> QED
      BY <3>1, ConcatProperties
  <2>2. PICK n \in Nat, m \in Nat :
          Len(p) = n /\ Len(q) = m /\ n = 128 /\ m = 128
    BY <1>4
  <2>3. /\ p \o q \in Seq(Nat) /\ Len(p \o q) = n + m
        /\ \A i \in 1 .. n + m :
             (p \o q)[i] = IF i <= n THEN p[i] ELSE q[i - n]
    <3>1. Len(p) = n /\ Len(q) = m
      BY <2>2
    <3> QED
      BY <2>1, <3>1
  <2>4. n + m = 256
    BY <2>2
  <2> HIDE <2>2
  <2>5. p \o q \in Seq(Nat) /\ Len(p \o q) = 256
    BY <2>3, <2>4
  <2>6. ASSUME NEW i \in 1 .. 256
        PROVE  (p \o q)[i] = IF i <= 128 THEN p[i] ELSE q[i - 128]
    <3>1. (p \o q)[i] = IF i <= n THEN p[i] ELSE q[i - n]
      BY <2>3, <2>4
    <3>2. n = 128
      BY <2>2
    <3>3. CASE i <= 128
      BY <3>1, <3>2, <3>3
    <3>4. CASE ~(i <= 128)
      BY <3>1, <3>2, <3>4
    <3> QED
      BY <3>3, <3>4
  <2> QED
    BY <2>5, <2>6
<1>6. ASSUME NEW t \in 0 .. 16 * w - 1, NEW l \in 0 .. Lanes(w) - 1
      PROVE  (p \o q)[t * Lanes(w) + l + 1]
               = (U[l] \div Pow[t * bits]) % Pow[bits]
  <2>1. t \in Nat /\ t < h + h
    BY <1>3
  <2>2. CASE t < h
    <3>1. PICK i \in Nat : i = t * L + l + 1 /\ i <= 128 /\ i >= 1
      <4>1. t \in 0 .. h
        BY <2>1, <2>2
      <4>2. t * Lanes(w) + l + 1 \in 1 .. h * Lanes(w)
        BY <2>2, <4>1, PlaceInSlots
      <4> QED
        BY <1>1, <1>3, <4>2
    <3>2. (p \o q)[i] = p[i]
      <4>1. i \in 1 .. 256
        BY <3>1
      <4> QED
        BY <1>5, <3>1, <4>1
    <3>3. t \in 0 .. 8 * w - 1
      BY <1>1, <2>1, <2>2
    <3>4. p[t * Lanes(w) + l + 1] = (U[l] \div Pow[t * bits]) % Pow[bits]
      BY <3>3 DEF Yields
    <3> QED
      BY <1>1, <3>1, <3>2, <3>4, Zenon
  <2>3. CASE ~(t < h)
    <3>1. PICK r \in Nat : r = t - h /\ t = h + r /\ r < h
      BY <2>1, <2>3
    <3>2. r \in 0 .. h /\ r \in 0 .. 8 * w - 1
      BY <1>1, <3>1
    <3>3. PICK i \in Nat : i = r * L + l + 1 /\ i <= 128 /\ i >= 1
      <4>1. r * Lanes(w) + l + 1 \in 1 .. h * Lanes(w)
        BY <3>1, <3>2, PlaceInSlots
      <4> QED
        BY <1>1, <1>3, <4>1
    <3>4. t * L + l + 1 = 128 + i
      <4>1. t * L = h * L + r * L /\ r * L \in Nat
        BY <3>1
      <4>2. PICK x \in Nat, y \in Nat : x = t * L /\ y = r * L /\ x = 128 + y
        BY <1>3, <2>1, <4>1
      <4>3. PICK z \in Nat : z = l
        BY <1>1
      <4>4. i = y + z + 1 /\ t * L + l + 1 = x + z + 1
        BY <3>3, <4>2, <4>3
      <4> QED
        BY <4>2, <4>4
    <3>5. (p \o q)[128 + i] = q[i]
      <4>1. PICK k \in 1 .. 256 : k = 128 + i
        BY <3>3
      <4>2. ~(k <= 128) /\ k - 128 = i
        BY <3>3, <4>1
      <4>3. (p \o q)[k] = q[k - 128]
        BY <1>5, <4>2
      <4> QED
        BY <4>1, <4>2, <4>3
    <3>6. q[r * Lanes(w) + l + 1]
            = (Rear(U, w, bits)[l] \div Pow[r * bits]) % Pow[bits]
      BY <3>2 DEF Yields
    <3>7. PICK a \in Nat, c \in Nat :
            a = bits * (8 * w) /\ c = r * bits /\ t * bits = a + c
      <4>1. b * h \in Nat /\ r * b \in Nat /\ (h + r) * b = b * h + r * b
        OBVIOUS
      <4> QED
        BY <1>1, <1>2, <3>1, <4>1
    <3>8. Rear(U, w, bits)[l] \div Pow[c] = U[l] \div Pow[a + c]
      <4>1. PICK u \in Nat : u = U[l]
        OBVIOUS
      <4>2. (u \div Pow[a]) \div Pow[c] = u \div Pow[a + c]
        BY HighTwice
      <4>3. Rear(U, w, bits)[l] = U[l] \div Pow[a]
        BY <3>7 DEF Rear
      <4> QED
        BY <4>1, <4>2, <4>3, Zenon
    <3>9. (p \o q)[t * Lanes(w) + l + 1] = q[r * Lanes(w) + l + 1]
      BY <1>1, <3>3, <3>4, <3>5, Zenon
    <3> QED
      BY <3>6, <3>7, <3>8, <3>9, Zenon
  <2> QED
    BY <2>2, <2>3
<1>7. PICK o, s : o = p \o q /\ s = 16 * w
  OBVIOUS
<1>8. Len(o) = s * Lanes(w) /\ o \in Seq(Nat)
  BY <1>1, <1>3, <1>5, <1>7
<1>9. \A t \in 0 .. s - 1, l \in 0 .. Lanes(w) - 1 :
        o[t * Lanes(w) + l + 1] = (U[l] \div Pow[t * bits]) % Pow[bits]
  BY <1>6, <1>7
<1>10. Yields(o, w, bits, U, s)
  BY <1>8, <1>9 DEF Yields
<1> QED
  BY <1>7, <1>10

\* Either way of unpacking gives the digits of the lanes' numbers.
LEMMA UnpackHolds ==
  ASSUME NEW w \in Widths, NEW bits \in 1 .. 8 * w, NEW body,
         NEW U \in [0 .. Lanes(w) - 1 -> Nat],
         Holds(body, 0, 2 * bits, w, U)
  PROVE  Yields(Unpack(body, w, bits), w, bits, U, 16 * w)
<1>1. w \in {1, 2, 4, 8} /\ bits \in Nat \ {0} /\ Slots(w) = 16 * w
  BY Shape
<1>2. (8 * w) * bits = bits * (8 * w) /\ (16 * w) * bits = (2 * bits) * (8 * w)
      /\ Slots(w) \div 2 = 8 * w
  <2>1. CASE w = 1
    BY <1>1, <2>1
  <2>2. CASE w = 2
    BY <1>1, <2>2
  <2>3. CASE w = 4
    BY <1>1, <2>3
  <2>4. CASE w = 8
    BY <1>1, <2>4
  <2> QED
    BY <1>1, <2>1, <2>2, <2>3, <2>4
<1>3. PICK h \in Nat, s \in Nat, n \in Nat, g \in Nat :
        h = 8 * w /\ s = 16 * w /\ n = 2 * bits /\ g = bits * Group
  <2>1. bits * 16 \in Nat /\ 2 * bits \in Nat /\ 8 * w \in Nat
        /\ 16 * w \in Nat
    BY <1>1
  <2> QED
    BY <2>1 DEF Group
<1>4. Enough(bits, h, w, bits) /\ Enough(n, s, w, bits)
  <2>1. PICK x \in Nat, y \in Nat :
          x = bits * (8 * w) /\ y = (2 * bits) * (8 * w)
    BY <1>1
  <2> QED
    BY <1>2, <1>3, <2>1, SMTT(40) DEF Enough
<1>5. CASE halves
  <2>1. /\ Holds(body, 0, bits, w, U)
        /\ Holds(body, g, bits, w, Rear(U, w, bits))
        /\ Rear(U, w, bits) \in [0 .. Lanes(w) - 1 -> Nat]
    BY <1>3, HalvesHold
  <2>2. /\ Unpacks(w, bits, body, 0, bits, U, h)
        /\ Unpacks(w, bits, body, g, bits, Rear(U, w, bits), h)
    BY <1>1, <1>3, <1>4, <2>1 DEF Unpacks
  <2>3. PICK p, q : /\ p = Walk(body, 0, h, w, bits)
                    /\ q = Walk(body, g, h, w, bits)
    OBVIOUS
  <2>4. Yields(p, w, bits, U, h) /\ Yields(q, w, bits, Rear(U, w, bits), h)
    BY <2>2, <2>3, WalkHolds
  <2>5. Yields(p \o q, w, bits, U, 16 * w)
    BY <1>3, <2>4, YieldsBoth
  <2>6. Unpack(body, w, bits) = p \o q
    BY <1>1, <1>2, <1>3, <1>5, <2>3 DEF Unpack
  <2> QED
    BY <2>5, <2>6
<1>6. CASE ~halves
  <2>1. Unpacks(w, bits, body, 0, n, U, s)
    BY <1>1, <1>3, <1>4 DEF Unpacks
  <2>2. Yields(Walk(body, 0, s, w, bits), w, bits, U, s)
    BY <2>1, WalkHolds
  <2>3. Unpack(body, w, bits) = Walk(body, 0, s, w, bits)
    BY <1>1, <1>3, <1>6 DEF Unpack
  <2> QED
    BY <1>3, <2>2, <2>3
<1> QED
  BY <1>5, <1>6

-----------------------------------------------------------------------------
(* Places in ascending order                                               *)

\* o ascends.
Ascends(o) == \A e, f \in 1 .. Len(o) : e < f => o[e] < o[f]

\* o lists the members of P in ascending order.
Lists(o, P) ==
  /\ o \in Seq(Nat) /\ Ascends(o)
  /\ \A i : i \in P <=> \E e \in 1 .. Len(o) : o[e] = i

\* It has as many members, and each is preceded by those below it.
LEMMA ListsCounts ==
  ASSUME NEW o, NEW P, Lists(o, P)
  PROVE  /\ IsFiniteSet(P) /\ Cardinality(P) = Len(o)
         /\ \A e \in 1 .. Len(o) : Cardinality({i \in P : i < o[e]}) = e - 1
<1>1. ASSUME NEW n \in 0 .. Len(o), NEW Q, Q = {o[e] : e \in 1 .. n}
      PROVE  IsFiniteSet(Q) /\ Cardinality(Q) = n
  <2>1. o \in Seq(Nat) /\ Len(o) \in Nat /\ n \in Nat
    BY DEF Lists
  <2> DEFINE b == [e \in 1 .. n |-> o[e]]
  <2>2. ASSUME NEW e \in 1 .. n, NEW f \in 1 .. n, e # f
        PROVE  o[e] # o[f]
    <3>1. e \in 1 .. Len(o) /\ f \in 1 .. Len(o) /\ o[e] \in Nat /\ o[f] \in Nat
      BY <2>1
    <3>2. e < f \/ f < e
      BY <2>2
    <3>3. (e < f => o[e] < o[f]) /\ (f < e => o[f] < o[e])
      BY <3>1 DEF Lists, Ascends
    <3> QED
      BY <3>1, <3>2, <3>3
  <2>3. b \in Bijection(1 .. n, Q)
    <3>1. b \in [1 .. n -> Q]
      BY <1>1
    <3>2. \A e, f \in 1 .. n : b[e] = b[f] => e = f
      BY <2>2
    <3>3. \A q \in Q : \E e \in 1 .. n : b[e] = q
      BY <1>1
    <3> HIDE DEF b
    <3>4. b \in Injection(1 .. n, Q)
      BY <3>1, <3>2 DEF Injection, IsInjective
    <3>5. b \in Surjection(1 .. n, Q)
      BY <3>1, <3>3 DEF Surjection
    <3> QED
      BY <3>4, <3>5 DEF Bijection
  <2>4. ExistsBijection(1 .. n, Q)
    BY <2>3 DEF ExistsBijection
  <2> QED
    BY <2>1, <2>4, FS_CountingElements, FS_NatBijection
<1>2. Len(o) \in Nat /\ o \in Seq(Nat) /\ Ascends(o)
  BY DEF Lists
<1>3. IsFiniteSet(P) /\ Cardinality(P) = Len(o)
  <2>1. P = {o[e] : e \in 1 .. Len(o)}
    BY DEF Lists
  <2>2. Len(o) \in 0 .. Len(o)
    BY <1>2
  <2> QED
    BY <1>1, <2>1, <2>2
<1>4. ASSUME NEW e \in 1 .. Len(o)
      PROVE  Cardinality({i \in P : i < o[e]}) = e - 1
  <2>1. PICK n \in 0 .. Len(o) : n = e - 1
    BY <1>2
  <2>2. {i \in P : i < o[e]} = {o[f] : f \in 1 .. n}
    <3>1. ASSUME NEW i \in P, i < o[e] PROVE i \in {o[f] : f \in 1 .. n}
      <4>1. PICK f \in 1 .. Len(o) : o[f] = i
        BY DEF Lists
      <4>2. ~(f = e) /\ ~(e < f)
        <5>1. o[e] \in Nat /\ o[f] \in Nat
          BY <1>2
        <5>2. e < f => o[e] < o[f]
          BY <1>2 DEF Ascends
        <5> QED
          BY <3>1, <4>1, <5>1, <5>2
      <4>3. f \in 1 .. n
        BY <1>2, <2>1, <4>2
      <4> QED
        BY <4>1, <4>3
    <3>2. ASSUME NEW f \in 1 .. n PROVE o[f] \in P /\ o[f] < o[e]
      <4>1. f \in 1 .. Len(o) /\ f < e
        BY <1>2, <2>1
      <4>2. o[f] < o[e]
        BY <1>2, <4>1 DEF Ascends
      <4> QED
        BY <4>1, <4>2 DEF Lists
    <3> QED
      BY <3>1, <3>2
  <2> QED
    BY <1>1, <2>1, <2>2
<1> QED
  BY <1>3, <1>4

\* Ordered lists the places of a block: each has its own number of places
\* below it, and these numbers are all those less than the number of places.
LEMMA OrderedLists ==
  ASSUME NEW places, places \subseteq 0 .. 255
  PROVE  Lists(Ordered(places), places)
<1> DEFINE n == Cardinality(places)
           under(i) == {j \in places : j < i}
           below == [i \in places |-> Cardinality(under(i))]
           o == [e \in 1 .. n |-> CHOOSE i \in places : below[i] = e - 1]
<1>0. \A i \in places : i \in Nat
  OBVIOUS
<1>1. IsFiniteSet(places) /\ n \in Nat
  <2>1. IsFiniteSet(0 .. 255)
    <3>1. 0 \in Int /\ 255 \in Int
      OBVIOUS
    <3> QED
      BY <3>1, FS_Interval
  <2>2. IsFiniteSet(places)
    BY <2>1, FS_Subset
  <2> QED
    BY <2>2, FS_CardinalityType
<1>2. ASSUME NEW i \in places PROVE below[i] \in 0 .. n - 1
  <2>1. under(i) \subseteq places /\ under(i) # places
    <3>1. i \in Nat /\ i \notin under(i)
      OBVIOUS
    <3> QED
      BY <3>1
  <2>2. /\ IsFiniteSet(under(i)) /\ Cardinality(under(i)) \in Nat
        /\ Cardinality(under(i)) < n
    <3>1. IsFiniteSet(under(i))
      BY <1>1, <2>1, FS_Subset
    <3>2. Cardinality(under(i)) \in Nat
      BY <3>1, FS_CardinalityType
    <3> HIDE DEF under
    <3>3. Cardinality(under(i)) <= n
      BY <1>1, <2>1, FS_Subset
    <3>4. Cardinality(under(i)) # n
      BY <1>1, <2>1, FS_Subset
    <3> QED
      BY <1>1, <3>1, <3>2, <3>3, <3>4
  <2> HIDE DEF under, n
  <2> QED
    BY <1>1, <2>2
<1>3. ASSUME NEW i \in places, NEW k \in places, i < k
      PROVE  below[i] < below[k]
  <2>1. under(i) \subseteq under(k) /\ under(i) # under(k)
    <3>1. i \in Nat /\ k \in Nat
      OBVIOUS
    <3>2. i \in under(k) /\ i \notin under(i)
      BY <1>3, <3>1
    <3>3. ASSUME NEW j \in under(i) PROVE j \in under(k)
      <4>1. j \in places /\ j < i /\ j \in Nat
        OBVIOUS
      <4>2. j < k
        BY <1>3, <3>1, <4>1
      <4> QED
        BY <4>1, <4>2
    <3> QED
      BY <3>2, <3>3
  <2>2. IsFiniteSet(under(k))
    <3>1. under(k) \subseteq places
      OBVIOUS
    <3> QED
      BY <1>1, <3>1, FS_Subset
  <2>3. IsFiniteSet(under(i)) /\ Cardinality(under(i)) <= Cardinality(under(k))
        /\ Cardinality(under(i)) # Cardinality(under(k))
    <3> HIDE DEF under
    <3> QED
      BY <2>1, <2>2, FS_Subset
  <2>4. Cardinality(under(i)) \in Nat /\ Cardinality(under(k)) \in Nat
    BY <2>2, <2>3, FS_CardinalityType
  <2> HIDE DEF under
  <2> QED
    BY <2>3, <2>4
<1> HIDE DEF under
<1>4. below \in [places -> 0 .. n - 1]
  BY <1>2
<1>5. below \in Injection(places, 0 .. n - 1)
  <2>1. ASSUME NEW i \in places, NEW k \in places, below[i] = below[k]
        PROVE  i = k
    <3>1. i \in Nat /\ k \in Nat /\ below[i] \in Nat /\ below[k] \in Nat
      <4> HIDE DEF below
      <4> QED
        BY <1>1, <1>2
    <3>2. i < k \/ k < i \/ i = k
      BY <3>1
    <3> HIDE DEF below
    <3> QED
      BY <1>3, <2>1, <3>1, <3>2
  <2> HIDE DEF below
  <2> QED
    BY <1>4, <2>1 DEF Injection, IsInjective
<1>6. below \in Surjection(places, 0 .. n - 1)
  <2>1. IsFiniteSet(0 .. n - 1) /\ Cardinality(0 .. n - 1) = n
    <3> HIDE DEF n
    <3>1. Cardinality(0 .. n - 1) = IF 0 > n - 1 THEN 0 ELSE n - 1 - 0 + 1
      BY <1>1, FS_Interval
    <3> QED
      BY <1>1, <3>1, FS_Interval
  <2> HIDE DEF below
  <2> QED
    BY <1>1, <1>5, <2>1, FS_Injection DEF n
<1> HIDE DEF below
<1>7. ASSUME NEW e \in 1 .. n
      PROVE  o[e] \in places /\ below[o[e]] = e - 1
  <2>1. e - 1 \in 0 .. n - 1
    <3> HIDE DEF n
    <3> QED
      BY <1>1
  <2>2. \E i \in places : below[i] = e - 1
    BY <1>6, <2>1 DEF Surjection
  <2> QED
    BY <2>2
<1>8. Ordered(places) = o
  BY DEF Ordered, below, under
<1> HIDE DEF o
<1>9. o \in Seq(Nat) /\ Len(o) = n
  <2>1. o = [e \in 1 .. n |-> o[e]]
    BY DEF o
  <2>2. ASSUME NEW e \in 1 .. n PROVE o[e] \in Nat
    <3>1. o[e] \in places
      BY <1>7
    <3> QED
      BY <1>0, <3>1, Zenon
  <2> HIDE DEF n
  <2>3. [e \in 1 .. n |-> o[e]] \in Seq(Nat)
        /\ Len([e \in 1 .. n |-> o[e]]) = n
    BY <1>1, <2>2
  <2> QED
    BY <2>1, <2>3
<1>10. Ascends(o)
  <2>1. ASSUME NEW e \in 1 .. n, NEW f \in 1 .. n, e < f
        PROVE  o[e] < o[f]
    <3>1. o[e] \in places /\ o[f] \in places
          /\ below[o[e]] = e - 1 /\ below[o[f]] = f - 1
      BY <1>7
    <3>2. o[e] \in Nat /\ o[f] \in Nat
      BY <1>0, <3>1, Zenon
    <3>3. ~(o[e] = o[f]) /\ ~(o[f] < o[e])
      <4>1. e - 1 < f - 1 /\ ~(f - 1 < e - 1) /\ e - 1 # f - 1
        BY <1>1, <2>1
      <4>2. o[f] < o[e] => f - 1 < e - 1
        BY <1>3, <3>1
      <4> QED
        BY <3>1, <4>1, <4>2
    <3> QED
      BY <3>2, <3>3
  <2> QED
    BY <1>9, <2>1 DEF Ascends
<1>11. ASSUME NEW i \in places PROVE \E e \in 1 .. n : o[e] = i
  <2>1. below[i] \in 0 .. n - 1
    BY <1>4
  <2>2. PICK e \in 1 .. n : e = below[i] + 1 /\ below[i] = e - 1
    <3> HIDE DEF n
    <3> QED
      BY <1>1, <2>1
  <2>3. o[e] \in places /\ below[o[e]] = below[i]
    BY <1>7, <2>2
  <2>4. o[e] = i
    BY <1>5, <2>3 DEF Injection, IsInjective
  <2> QED
    BY <2>4
<1>12. \A i : i \in places <=> \E e \in 1 .. Len(o) : o[e] = i
  BY <1>7, <1>9, <1>11
<1> QED
  BY <1>8, <1>9, <1>10, <1>12 DEF Lists

\* Sample i of a block is one of a slot and a lane.
LEMMA SlotOfPlace ==
  ASSUME NEW w \in Widths, NEW i \in 0 .. 255
  PROVE  /\ i \div Lanes(w) \in 0 .. 16 * w - 1
         /\ i % Lanes(w) \in 0 .. Lanes(w) - 1
         /\ i + 1 = (i \div Lanes(w)) * Lanes(w) + (i % Lanes(w)) + 1
<1>1. w \in {1, 2, 4, 8} /\ Lanes(w) * w = 16 /\ Lanes(w) \in Nat \ {0}
  BY Shape
<1>2. PICK n \in Nat \ {0} : n = Lanes(w)
  BY <1>1
<1>3. i \in Nat
  OBVIOUS
<1>4. PICK q \in Nat, r \in 0 .. n - 1 : q = i \div n /\ r = i % n
  BY <1>3, Divided
<1>5. i = q * n + r
  BY <1>3, <1>4, Divided
<1>6. q \in 0 .. 16 * w - 1
  <2>1. CASE w = 1
    <3>1. n = 16
      BY <1>1, <1>2, <2>1
    <3> QED
      BY <1>5, <2>1, <3>1
  <2>2. CASE w = 2
    <3>1. n = 8
      BY <1>1, <1>2, <2>2
    <3> QED
      BY <1>5, <2>2, <3>1
  <2>3. CASE w = 4
    <3>1. n = 4
      BY <1>1, <1>2, <2>3
    <3> QED
      BY <1>5, <2>3, <3>1
  <2>4. CASE w = 8
    <3>1. n = 2
      BY <1>1, <1>2, <2>4
    <3> QED
      BY <1>5, <2>4, <3>1
  <2> QED
    BY <1>1, <2>1, <2>2, <2>3, <2>4
<1>7. i + 1 = q * n + r + 1
  BY <1>5
<1> QED
  BY <1>2, <1>4, <1>6, <1>7, Zenon

\* The low bits of the samples of a block.
Lows(out, src, bits) ==
  /\ out \in Seq(Nat) /\ Len(out) = 256
  /\ \A i \in 1 .. 256 : out[i] = src[i] % Pow[bits]

\* What is packed is unpacked.
LEMMA BodyReturns ==
  ASSUME NEW w \in Widths, NEW bits \in 0 .. 8 * w,
         NEW src \in [1 .. Block -> Nat], NEW body,
         \A k \in 1 .. 32 * bits : body[k] = Pack(src, w, bits)[k]
  PROVE  Lows(Unpack(body, w, bits), src, bits)
<1>1. w \in {1, 2, 4, 8} /\ Slots(w) = 16 * w /\ Lanes(w) * w = 16
      /\ Lanes(w) \in Nat
  BY Shape
<1>2. \A i \in 1 .. 256 : src[i] \in Nat
  BY DEF Block
<1>3. CASE bits = 0
  <2>1. Unpack(body, w, bits) = [i \in 1 .. 256 |-> 0]
    BY <1>3 DEF Unpack, Block
  <2>2. ASSUME NEW i \in 1 .. 256 PROVE src[i] % Pow[bits] = 0
    <3>1. Pow[bits] = 1 /\ src[i] \in Nat
      BY <1>2, <1>3, PowFacts
    <3> QED
      BY <3>1
  <2>3. PICK p : p = [i \in 1 .. 256 |-> 0]
    OBVIOUS
  <2>4. p \in Seq(Nat) /\ Len(p) = 256 /\ \A i \in 1 .. 256 : p[i] = 0
    BY <2>3
  <2>5. Lows(p, src, bits)
    <3>1. ASSUME NEW i \in 1 .. 256 PROVE p[i] = src[i] % Pow[bits]
      <4>1. p[i] = 0 /\ src[i] % Pow[bits] = 0
        BY <2>2, <2>4
      <4> QED
        BY <4>1, Zenon
    <3> QED
      BY <2>4, <3>1, Zenon DEF Lows
  <2> QED
    BY <2>1, <2>3, <2>5, Zenon
<1>4. CASE bits # 0
  <2>1. bits \in 1 .. 8 * w /\ bits \in Nat
    BY <1>1, <1>4
  <2>2. PICK V : Numbers(V, src, w, bits)
    BY <2>1, NumbersExist
  <2>3. V \in [0 .. Lanes(w) - 1 -> Nat]
    BY <2>2 DEF Numbers
  <2>4. Holds(Pack(src, w, bits), 0, 2 * bits, w, V)
    BY <2>1, <2>2, PackHolds
  <2>5. Holds(body, 0, 2 * bits, w, V)
    <3> SUFFICES ASSUME NEW k \in 0 .. 2 * bits - 1,
                        NEW l \in 0 .. Lanes(w) - 1, NEW j \in 0 .. w - 1
                 PROVE  body[0 + 16 * k + l * w + j + 1]
                          = (V[l] \div Pow[8 * (w * k + j)]) % 256
      BY DEF Holds
    <3>1. 0 + 16 * k + l * w + j + 1 \in 1 .. 32 * bits
      <4>1. PICK x \in 0 .. 15 : x = l * w + j
        BY ByteOfWord
      <4>2. l * w \in Nat
        BY <1>1
      <4>3. 0 + 16 * k + l * w + j + 1 = 16 * k + x + 1
        BY <1>1, <4>1, <4>2
      <4> QED
        BY <2>1, <4>3
    <3> QED
      BY <2>4, <3>1 DEF Holds
  <2>6. PICK p : p = Unpack(body, w, bits)
    OBVIOUS
  <2>7. Yields(p, w, bits, V, 16 * w)
    BY <2>1, <2>3, <2>5, <2>6, UnpackHolds
  <2>8. p \in Seq(Nat) /\ Len(p) = 256
    <3>1. (16 * w) * Lanes(w) = 256
      <4>1. (16 * w) * Lanes(w) = 16 * (Lanes(w) * w)
        BY <1>1
      <4> QED
        BY <1>1, <4>1
    <3> QED
      BY <2>7, <3>1 DEF Yields
  <2>9. ASSUME NEW i \in 1 .. 256 PROVE p[i] = src[i] % Pow[bits]
    <3>1. PICK k \in 0 .. 255 : k = i - 1 /\ i = k + 1
      OBVIOUS
    <3>2. PICK t \in 0 .. 16 * w - 1, l \in 0 .. Lanes(w) - 1 :
            i = t * Lanes(w) + l + 1
      BY <3>1, SlotOfPlace
    <3>3. p[i] = (V[l] \div Pow[t * bits]) % Pow[bits]
      BY <2>7, <3>2 DEF Yields
    <3>4. src[i] % Pow[bits] = (V[l] \div Pow[bits * t]) % Pow[bits]
      BY <1>1, <2>2, <3>2 DEF Numbers, LowSample
    <3>5. bits * t = t * bits
      BY <1>1, <2>1
    <3> QED
      BY <3>3, <3>4, <3>5
  <2> QED
    BY <2>6, <2>8, <2>9 DEF Lows
<1> QED
  BY <1>3, <1>4

-----------------------------------------------------------------------------
(* The widths of a block and the choice of the body's                      *)

\* More bits, a higher power.
LEMMA PowMonotone ==
  ASSUME NEW a \in Nat, NEW b \in Nat, a <= b
  PROVE  Pow[a] <= Pow[b]
<1>1. PICK p \in Nat \ {0}, q \in Nat \ {0} : p = Pow[a] /\ q = Pow[b]
  BY PowFacts
<1>2. p - 1 \in 0 .. Pow[a] - 1
  BY <1>1
<1>3. p - 1 \in 0 .. Pow[b] - 1
  BY <1>2, LowOfFew
<1> QED
  BY <1>1, <1>3

\* A sample fits its width, and that is not more than the samples'.
LEMMA WidthFits ==
  ASSUME NEW w \in Widths, NEW v \in 0 .. Pow[8 * w] - 1
  PROVE  Width(v) \in 0 .. 8 * w /\ v < Pow[Width(v)]
<1> DEFINE Fits(n) == v < Power[n] /\ (n = 0 \/ v >= Power[n - 1])
           T == {n \in 0 .. 8 * MaxWidth : v < Power[n]}
<1>1. PICK m \in Nat, c \in Nat : m = 8 * MaxWidth /\ c = 8 * w /\ c <= m
  BY Shape, BitsFacts
<1>2. \A n \in 0 .. m : Power[n] = Pow[n] /\ Power[n] \in Nat
  BY <1>1, PowerIsPow
<1>3. v \in Nat /\ v < Pow[c]
  <2>1. Pow[c] \in Nat
    BY PowFacts
  <2> QED
    BY <1>1, <2>1
<1>4. \E n \in 0 .. m : Fits(n)
  <2>1. c \in T /\ T \subseteq Nat
    BY <1>1, <1>2, <1>3
  <2>2. PICK n \in T : \A k \in T : n <= k
    BY <2>1, LeastNumber
  <2>3. n \in 0 .. m /\ v < Power[n]
    BY <1>1, <2>2
  <2>4. CASE n = 0
    BY <2>3, <2>4
  <2>5. CASE n # 0
    <3>1. n - 1 \in 0 .. m /\ n - 1 \notin T
      BY <1>1, <2>2, <2>3, <2>5
    <3>2. v >= Power[n - 1]
      BY <1>1, <1>2, <1>3, <3>1
    <3> QED
      BY <2>3, <3>2
  <2> QED
    BY <2>4, <2>5
<1>5. Width(v) \in 0 .. m /\ Fits(Width(v))
  BY <1>1, <1>4 DEF Width
<1>6. PICK n \in 0 .. m : n = Width(v) /\ v < Pow[n] /\ Fits(n)
  BY <1>2, <1>5
<1>7. n <= c
  <2> SUFFICES ASSUME ~(n <= c) PROVE FALSE
    OBVIOUS
  <2>1. n - 1 \in Nat /\ n - 1 \in 0 .. m /\ c <= n - 1 /\ n # 0
    BY <1>1
  <2>2. Pow[c] <= Pow[n - 1]
    BY <2>1, PowMonotone
  <2>3. v >= Pow[n - 1] /\ Pow[n - 1] \in Nat /\ Pow[c] \in Nat
    BY <1>2, <1>6, <2>1, PowFacts
  <2> QED
    BY <1>3, <2>2, <2>3
<1> QED
  BY <1>1, <1>6, <1>7

\* The samples that do not fit a body.
LEMMA OutliersCounted ==
  ASSUME NEW widths, NEW b
  PROVE  /\ Outliers(widths, b) \subseteq 0 .. 255
         /\ IsFiniteSet(Outliers(widths, b))
         /\ Cardinality(Outliers(widths, b)) \in Nat
<1>1. Outliers(widths, b) \subseteq 0 .. 255
  BY DEF Outliers, Block
<1>2. IsFiniteSet(0 .. 255)
  <2>1. 0 \in Int /\ 255 \in Int
    OBVIOUS
  <2> QED
    BY <2>1, FS_Interval
<1>3. IsFiniteSet(Outliers(widths, b))
  BY <1>1, <1>2, FS_Subset
<1> QED
  BY <1>1, <1>3, FS_CardinalityType

\* The bytes that the high bits take.
LEMMA HighBytesHold ==
  ASSUME NEW n \in Nat, NEW eb \in Nat
  PROVE  /\ n * eb \in Nat /\ HighBytes(n, eb) \in Nat
         /\ n * eb <= 8 * HighBytes(n, eb)
         /\ 8 * HighBytes(n, eb) < n * eb + 8
<1>1. PICK a \in Nat : a = n * eb
  OBVIOUS
<1>2. PICK h : h = (a + 8 - 1) \div 8
  OBVIOUS
<1>3. h \in Nat /\ a <= 8 * h /\ 8 * h < a + 8
  BY <1>2
<1>4. HighBytes(n, eb) = h
  BY <1>1, <1>2 DEF HighBytes, CeilDiv
<1> QED
  BY <1>1, <1>3, <1>4, Zenon

\* The bytes of exceptions are counted.
LEMMA ExcBytesCount ==
  ASSUME NEW n \in Nat, NEW eb \in Nat, NEW mode
  PROVE  ExcBytes(n, eb, mode) \in Nat
<1>1. PICK h \in Nat : h = HighBytes(n, eb)
  BY HighBytesHold
<1> QED
  BY <1>1 DEF ExcBytes, PositionBytes, BitmapBytes, Block

\* What the choice of the body's width gives.
Selects(sel, widths, w) ==
  /\ sel.bits \in 0 .. 8 * w /\ sel.eb \in 0 .. 8 * w
  /\ sel.bits + sel.eb <= 8 * w
  /\ \A i \in 1 .. Block : widths[i] <= sel.bits + sel.eb
  /\ sel.nexc = Cardinality(Outliers(widths, sel.bits))
  /\ sel.nexc \in 0 .. 255 /\ sel.mode \in {LIST, BITMAP}
  /\ sel.nexc # 0 => sel.eb # 0
  /\ 32 * sel.bits + ExcBytes(sel.nexc, sel.eb, sel.mode) <= 256 * w

\* Of the widths that are able there is a cheapest.
LEMMA CheapestExists ==
  ASSUME NEW m \in Nat, NEW able, able \subseteq 0 .. m, able # {},
         NEW size, \A b \in able : size[b] \in Nat
  PROVE  \E b \in able : \A c \in able : Cheapest(size, b, c)
<1> DEFINE T == {size[b] : b \in able}
<1>1. T \subseteq Nat /\ T # {}
  OBVIOUS
<1>2. PICK x \in T : \A y \in T : x <= y
  BY <1>1, LeastNumber
<1> DEFINE U == {m - b : b \in {c \in able : size[c] = x}}
<1>3. U \subseteq Nat /\ U # {}
  <2>1. PICK b \in able : size[b] = x
    OBVIOUS
  <2>2. m - b \in U
    BY <2>1
  <2>3. ASSUME NEW c \in able PROVE m - c \in Nat
    <3>1. c \in 0 .. m
      BY able \subseteq 0 .. m, Zenon
    <3> QED
      BY <3>1
  <2> QED
    BY <2>2, <2>3
<1>4. PICK u \in U : \A y \in U : u <= y
  BY <1>3, LeastNumber
<1>5. PICK b \in able : size[b] = x /\ u = m - b
  OBVIOUS
<1>6. ASSUME NEW c \in able PROVE Cheapest(size, b, c)
  <2>1. size[c] \in T /\ size[c] \in Nat /\ x \in Nat
    BY <1>1
  <2>2. x <= size[c]
    BY <1>2, <2>1
  <2>3. CASE size[c] = x
    <3>1. m - c \in U
      BY <2>3
    <3>2. m - b <= m - c
      BY <1>4, <1>5, <3>1
    <3>3. b \in Nat /\ c \in Nat
      OBVIOUS
    <3>4. b >= c
      BY <3>2, <3>3
    <3> QED
      BY <1>5, <2>3, <3>4 DEF Cheapest
  <2>4. CASE size[c] # x
    <3>1. x < size[c]
      BY <2>1, <2>2, <2>4
    <3> QED
      BY <1>5, <3>1 DEF Cheapest
  <2> QED
    BY <2>3, <2>4
<1> QED
  BY <1>6

\* The widest of a block.
LEMMA WidestExists ==
  ASSUME NEW m \in Nat, NEW widths \in [1 .. Block -> 0 .. m]
  PROVE  /\ Max(ToSet(widths)) \in 0 .. m
         /\ \A i \in 1 .. Block : widths[i] <= Max(ToSet(widths))
<1> DEFINE S == {widths[i] : i \in 1 .. Block}
           T == {m - x : x \in S}
<1>1. ToSet(widths) = S
  BY DEF ToSet
<1>2. S \subseteq 0 .. m
  OBVIOUS
<1>3. widths[1] \in S
  BY DEF Block
<1> HIDE DEF S
<1>4. T \subseteq Nat /\ T # {}
  <2>1. ASSUME NEW x \in S PROVE m - x \in Nat
    <3>1. x \in 0 .. m
      BY <1>2, Zenon
    <3> QED
      BY <3>1
  <2> QED
    BY <1>3, <2>1
<1>5. PICK t \in T : \A y \in T : t <= y
  BY <1>4, LeastNumber
<1>6. PICK x \in S : t = m - x
  OBVIOUS
<1>7. ASSUME NEW y \in S PROVE x >= y
  <2>1. m - y \in T /\ x \in 0 .. m /\ y \in 0 .. m
    BY <1>2, Zenon
  <2>2. t <= m - y
    BY <1>5, <2>1, Zenon
  <2>3. m - x <= m - y
    BY <1>6, <2>2, Zenon
  <2> HIDE DEF T
  <2> QED
    BY <2>1, <2>3
<1>8. Max(S) \in S /\ \A y \in S : Max(S) >= y
  BY <1>7 DEF Max
<1>9. ASSUME NEW i \in 1 .. Block PROVE widths[i] <= Max(S)
  <2>1. widths[i] \in S
    BY DEF S
  <2>2. widths[i] \in 0 .. m /\ Max(S) \in 0 .. m /\ Max(S) >= widths[i]
    BY <1>2, <1>8, <2>1, Zenon
  <2>3. PICK v \in 0 .. m, y \in 0 .. m : v = widths[i] /\ y = Max(S)
    BY <2>2, Zenon
  <2>4. v <= y
    BY <2>2, <2>3
  <2> QED
    BY <2>3, <2>4
<1> QED
  BY <1>1, <1>2, <1>8, <1>9

\* The bytes of a body.
LEMMA BodyCounts ==
  ASSUME NEW b \in Nat
  PROVE  BodyBytes(b) = 32 * b
BY DEF BodyBytes, Block

\* The body's width and the number of exceptions that come with it fit what the
\* block records, and cost no more than a body of all bits.
LEMMA SelectSelects ==
  ASSUME NEW w \in Widths, NEW widths \in [1 .. Block -> 0 .. 8 * w]
  PROVE  Selects(Select(widths), widths, w)
<1> DEFINE most == Max(ToSet(widths))
           nexc == [b \in 0 .. most |-> Cardinality(Outliers(widths, b))]
           mode(b) == IF nexc[b] < BitmapBytes THEN LIST ELSE BITMAP
           size == [b \in 0 .. most |->
                      2 + BodyBytes(b) + ExcBytes(nexc[b], most - b, mode(b))
                        + (nexc[b] * ExcCostBits) \div 8]
           able == {b \in 0 .. most : Able(nexc[b])}
           best == CHOOSE b \in able : \A c \in able : Cheapest(size, b, c)
           sel == [bits |-> best, nexc |-> nexc[best], eb |-> most - best,
                   mode |-> mode(best)]
<1>1. Select(widths) = sel
  BY DEF Select
<1>2. PICK c \in Nat : c = 8 * w /\ c = w * 8
  BY Shape
<1>3. most \in 0 .. c /\ \A i \in 1 .. Block : widths[i] <= most
  BY <1>2, WidestExists
<1> HIDE DEF most
<1>4. most \in Nat /\ most <= c
  BY <1>2, <1>3
<1>5. ASSUME NEW b \in 0 .. most
      PROVE  /\ nexc[b] = Cardinality(Outliers(widths, b)) /\ nexc[b] \in Nat
             /\ mode(b) \in {LIST, BITMAP}
  <2>1. nexc[b] = Cardinality(Outliers(widths, b))
    OBVIOUS
  <2> HIDE DEF nexc
  <2> QED
    BY <2>1, OutliersCounted
<1>6. ASSUME NEW b \in 0 .. most
      PROVE  /\ size[b] = 2 + 32 * b + ExcBytes(nexc[b], most - b, mode(b))
                            + (nexc[b] * 4) \div 8
             /\ ExcBytes(nexc[b], most - b, mode(b)) \in Nat
             /\ (nexc[b] * 4) \div 8 \in Nat /\ size[b] \in Nat
  <2> DEFINE x == nexc[b]
             e == ExcBytes(x, most - b, mode(b))
  <2>1. b \in Nat /\ most - b \in Nat /\ x \in Nat
    BY <1>4, <1>5
  <2>2. size[b] = 2 + BodyBytes(b) + e + (x * ExcCostBits) \div 8
    OBVIOUS
  <2>3. BodyBytes(b) = 32 * b
    BY <2>1, BodyCounts
  <2>4. e \in Nat
    <3> HIDE DEF x, mode
    <3> QED
      BY <2>1, ExcBytesCount
  <2> HIDE DEF size, nexc, mode
  <2>5. (x * 4) \div 8 \in Nat
    BY <2>1
  <2>6. size[b] = 2 + 32 * b + e + (x * 4) \div 8
    BY <2>2, <2>3 DEF ExcCostBits
  <2> HIDE DEF e, x
  <2>7. size[b] \in Nat
    BY <2>1, <2>4, <2>5, <2>6
  <2> QED
    BY <2>4, <2>5, <2>6, <2>7 DEF e, x
<1>7. nexc[most] = 0 /\ most \in able /\ size[most] = 2 + 32 * most
  <2>1. most \in 0 .. most
    BY <1>4
  <2>2. Outliers(widths, most) = {}
    <3> SUFFICES ASSUME NEW i \in 0 .. Block - 1, widths[i + 1] > most
                 PROVE  FALSE
      BY DEF Outliers
    <3>1. i + 1 \in 1 .. Block
      BY DEF Block
    <3>2. widths[i + 1] \in 0 .. c
      BY <1>2, <3>1
    <3> QED
      BY <1>3, <1>4, <3>1, <3>2
  <2>3. nexc[most] = 0
    BY <1>5, <2>1, <2>2, FS_EmptySet
  <2>4. most \in able
    BY <2>1, <2>3 DEF Able
  <2>5. most - most = 0 /\ (0 * 4) \div 8 = 0
    BY <1>4
  <2>6. ExcBytes(0, 0, mode(most)) = 0
    BY DEF ExcBytes
  <2> HIDE DEF nexc, size, able, mode
  <2>7. size[most] = 2 + 32 * most + 0 + 0
    BY <1>6, <2>1, <2>3, <2>5, <2>6
  <2> QED
    BY <1>4, <2>3, <2>4, <2>7
<1>8. best \in able /\ Cheapest(size, best, most)
  <2>1. able \subseteq 0 .. most /\ able # {}
    BY <1>7
  <2>2. \A b \in able : size[b] \in Nat
    <3>1. \A b \in able : b \in 0 .. most
      OBVIOUS
    <3> HIDE DEF size, able
    <3> QED
      BY <1>6, <3>1
  <2> HIDE DEF size, able
  <2>3. \E b \in able : \A k \in able : Cheapest(size, b, k)
    BY <1>4, <2>1, <2>2, CheapestExists
  <2>4. best \in able /\ \A k \in able : Cheapest(size, best, k)
    BY <2>3
  <2> QED
    BY <1>7, <2>4
<1> HIDE DEF best
<1>9. best \in 0 .. most /\ Able(nexc[best])
  BY <1>8
<1>10. PICK b \in Nat, x \in Nat, e \in Nat, y \in Nat :
         /\ b = best /\ x = nexc[best] /\ b <= most
         /\ e = ExcBytes(nexc[best], most - best, mode(best))
         /\ y = (nexc[best] * 4) \div 8
         /\ size[best] = 2 + 32 * b + e + y
  <2> HIDE DEF size, nexc, mode
  <2>1. best \in Nat /\ best <= most
    BY <1>4, <1>9
  <2> QED
    BY <1>5, <1>6, <1>9, <2>1
<1>11. 32 * b + e <= 32 * most
  <2>1. size[best] <= size[most]
    <3>1. size[best] \in Nat /\ size[most] \in Nat
      <4>1. most \in 0 .. most
        BY <1>4
      <4> HIDE DEF size
      <4> QED
        BY <1>6, <1>9, <4>1
    <3> HIDE DEF size
    <3> QED
      BY <1>8, <3>1 DEF Cheapest
  <2> HIDE DEF size, nexc
  <2> QED
    BY <1>4, <1>7, <1>10, <2>1
<1>12. /\ sel.bits = b /\ sel.nexc = x /\ sel.eb = most - b
       /\ sel.mode = mode(best)
  BY <1>10
<1>13. 32 * most <= 256 * w
  BY <1>2, <1>4, Shape
<1>14. x = Cardinality(Outliers(widths, b)) /\ x \in 0 .. 255
       /\ mode(best) \in {LIST, BITMAP}
  <2>1. x <= 255
    BY <1>9, <1>10 DEF Able
  <2>2. x \in 0 .. 255
    BY <2>1
  <2> HIDE DEF nexc, mode
  <2>3. mode(best) \in {LIST, BITMAP}
        /\ nexc[best] = Cardinality(Outliers(widths, best))
    BY <1>5, <1>9
  <2> QED
    BY <1>10, <2>2, <2>3, Zenon
<1>15. x # 0 => most - b # 0
  <2>1. most - b = 0 => b = most
    BY <1>4, <1>10
  <2> HIDE DEF nexc
  <2> QED
    BY <1>7, <1>10, <2>1
<1> HIDE DEF sel, nexc, size, able, mode
<1>16. b \in 0 .. 8 * w /\ most - b \in 0 .. 8 * w /\ b + (most - b) = most
       /\ b + (most - b) <= 8 * w
  <2>3. b <= most
    BY <1>10, Zenon
  <2>1. most - b \in Nat /\ b + (most - b) = most /\ b <= c /\ most - b <= c
    BY <1>2, <1>4, <2>3
  <2>2. b \in 0 .. c /\ most - b \in 0 .. c /\ b + (most - b) <= c
    BY <1>2, <1>4, <2>1, <2>3
  <2> QED
    BY <1>2, <2>1, <2>2, Zenon
<1>17. 32 * b + e <= 256 * w
  <2>1. 256 * w \in Nat
    BY Shape
  <2> QED
    BY <1>4, <1>11, <1>13, <2>1
<1>18. e = ExcBytes(sel.nexc, sel.eb, sel.mode)
  BY <1>10, <1>12, Zenon
<1>19. Selects(sel, widths, w)
  <2>1. sel.bits \in 0 .. 8 * w /\ sel.eb \in 0 .. 8 * w
        /\ sel.bits + sel.eb <= 8 * w
    BY <1>12, <1>16
  <2>2. \A i \in 1 .. Block : widths[i] <= sel.bits + sel.eb
    BY <1>3, <1>12, <1>16
  <2>3. /\ sel.nexc = Cardinality(Outliers(widths, sel.bits))
        /\ sel.nexc \in 0 .. 255 /\ sel.mode \in {LIST, BITMAP}
        /\ sel.nexc # 0 => sel.eb # 0
    BY <1>12, <1>14, <1>15
  <2>4. 32 * sel.bits + ExcBytes(sel.nexc, sel.eb, sel.mode) <= 256 * w
    BY <1>12, <1>17, <1>18
  <2> QED
    BY <2>1, <2>2, <2>3, <2>4 DEF Selects
<1> QED
  BY <1>1, <1>19, Zenon

-----------------------------------------------------------------------------
(* The exceptions of a block                                               *)

\* Powers of one bit and of none.
LEMMA SmallPowers == Pow[0] = 1 /\ Pow[1] = 2
<1>1. Pow[0] = 1
  BY PowFacts
<1>2. 0 \in Nat /\ Pow[0 + 1] = 2 * Pow[0]
  BY PowFacts
<1> QED
  BY <1>1, <1>2

\* Bit j of a number.
LEMMA BitIs ==
  ASSUME NEW v \in Nat, NEW j \in 0 .. 8 * MaxWidth
  PROVE  /\ Bit(v, j) = (v \div Pow[1 * j]) % Pow[1]
         /\ Bit(v, j) \in {0, 1}
<1>1. Power[j] = Pow[j] /\ Pow[j] \in Nat \ {0} /\ j \in Nat
  BY BitsFacts, PowerIsPow
<1>2. Bit(v, j) = (v \div Pow[j]) % 2
  BY <1>1 DEF Bit
<1>3. PICK q \in Nat : q = v \div Pow[j]
  BY <1>1, HighIsNat
<1>4. 1 * j = j
  BY <1>1
<1>5. q % 2 \in {0, 1}
  BY <1>3
<1> QED
  BY <1>2, <1>3, <1>4, <1>5, SmallPowers, Zenon

\* Digits of one bit.
OneBit(d, n) == \A j \in 0 .. n - 1 : d[j] \in {0, 1}

\* Bits are put together in a byte.
LEMMA ByteShows ==
  ASSUME NEW d, OneBit(d, 8)
  PROVE  /\ Value(d, 8, 1) \in 0 .. 255
         /\ \A j \in 0 .. 7 : Bit(Value(d, 8, 1), j) = d[j]
<1>1. Digits(d, 8, 1)
  <2>1. \A j \in 0 .. 7 : d[j] \in {0, 1}
    BY DEF OneBit
  <2> QED
    BY <2>1, SmallPowers DEF Digits
<1>2. 8 \in Nat /\ 1 \in Nat /\ 1 * 8 <= 8 * MaxWidth /\ 1 * 8 = 8
  BY BitsFacts
<1>3. PICK v : v = Value(d, 8, 1)
  OBVIOUS
<1>4. /\ v \in 0 .. Pow[1 * 8] - 1
      /\ \A j \in 0 .. 8 - 1 : (v \div Pow[1 * j]) % Pow[1] = d[j]
  BY <1>1, <1>2, <1>3, ValueShows
<1>5. v \in 0 .. 255
  BY <1>2, <1>4, ByteRange
<1>6. ASSUME NEW j \in 0 .. 7 PROVE Bit(v, j) = d[j]
  <2>1. v \in Nat /\ j \in 0 .. 8 * MaxWidth /\ j \in 0 .. 8 - 1
    BY <1>2, <1>5, BitsFacts
  <2>2. Bit(v, j) = (v \div Pow[1 * j]) % Pow[1]
    BY <2>1, BitIs
  <2> QED
    BY <1>4, <2>1, <2>2
<1> QED
  BY <1>3, <1>5, <1>6

\* Whatever way an exception is read or written, all its bits are.
LEMMA AllMoved ==
  ASSUME NEW e \in Nat, NEW n \in Nat, NEW eb \in Nat
  PROVE  Moved(e, n, eb) = 0 .. eb - 1
<1>1. CASE ~Wide(e, n, eb)
  BY <1>1 DEF Moved
<1>2. CASE Wide(e, n, eb)
  <2>1. WideBytes \in Nat \ {0}
    BY PforAssumption
  <2>2. eb <= 8 * WideBytes - 7
    BY <1>2 DEF Wide, WideMax
  <2>3. PICK r \in 0 .. 7 : r = (e * eb) % 8
    <3>1. PICK x \in Nat : x = e * eb
      OBVIOUS
    <3>2. x % 8 \in 0 .. 7
      OBVIOUS
    <3> QED
      BY <3>1, <3>2
  <2>4. \A j \in 0 .. eb - 1 : r + j < 8 * WideBytes
    BY <2>1, <2>2
  <2>5. Moved(e, n, eb) = {j \in 0 .. eb - 1 : r + j < 8 * WideBytes}
    BY <1>2, <2>3 DEF Moved
  <2> QED
    BY <2>4, <2>5
<1> QED
  BY <1>1, <1>2

\* A block of samples.
IsBlock(src, w) == src \in [1 .. 256 -> 0 .. Pow[8 * w] - 1]

\* The samples that are exceptions, in order.
Where(sel, widths) == Ordered(Outliers(widths, sel.bits))

\* They are as many as are counted.
LEMMA WhereLists ==
  ASSUME NEW w, NEW widths, NEW sel, Selects(sel, widths, w)
  PROVE  /\ Lists(Where(sel, widths), Outliers(widths, sel.bits))
         /\ Len(Where(sel, widths)) = sel.nexc
         /\ Where(sel, widths) \in Seq(0 .. 255)
<1>1. Outliers(widths, sel.bits) \subseteq 0 .. 255
  BY OutliersCounted
<1>2. PICK o, P : o = Where(sel, widths) /\ P = Outliers(widths, sel.bits)
  OBVIOUS
<1>3. Lists(o, P) /\ P \subseteq 0 .. 255
  BY <1>1, <1>2, OrderedLists DEF Where
<1>4. Cardinality(P) = Len(o)
  BY <1>3, ListsCounts
<1>5. Len(o) = sel.nexc
  BY <1>2, <1>4 DEF Selects
<1>6. o \in Seq(Nat) /\ \A e \in 1 .. Len(o) : o[e] \in 0 .. 255
  BY <1>3 DEF Lists
<1>7. o \in Seq(0 .. 255)
  <2>1. PICK n \in Nat : n = Len(o)
    BY <1>6
  <2>2. o \in [1 .. n -> Nat]
    BY <1>6, <2>1
  <2>3. o = [k \in 1 .. n |-> o[k]]
    BY <2>2
  <2>4. \A k \in 1 .. n : o[k] \in 0 .. 255
    BY <1>6, <2>1
  <2>5. o \in [1 .. n -> 0 .. 255]
    BY <2>3, <2>4
  <2> QED
    BY <2>5
<1> QED
  BY <1>2, <1>3, <1>5, <1>7

\* A bit of the exceptions is a bit.
LEMMA HighBitIs ==
  ASSUME NEW w \in Widths, NEW src, IsBlock(src, w), NEW widths,
         NEW sel, Selects(sel, widths, w), sel.nexc # 0, NEW k \in Nat
  PROVE  HighBit(src, sel, Where(sel, widths), k) \in {0, 1}
<1>1. sel.eb \in Nat \ {0} /\ sel.bits \in 0 .. 8 * w /\ sel.nexc \in Nat
      /\ sel.eb \in 0 .. 8 * w
  BY Shape DEF Selects
<1>2. PICK e \in Nat, j \in Nat : e = k \div sel.eb /\ j = k % sel.eb
  <2>1. PICK m \in Nat \ {0} : m = sel.eb
    BY <1>1
  <2>2. k \div m \in Nat /\ k % m \in Nat
    BY Divided
  <2> QED
    BY <2>1, <2>2
<1>3. PICK where : where = Where(sel, widths)
  OBVIOUS
<1>4. CASE e < sel.nexc /\ j \in Moved(e, sel.nexc, sel.eb)
  <2>1. where[e + 1] \in 0 .. 255
    <3>1. e + 1 \in 1 .. sel.nexc
      BY <1>1, <1>4
    <3>2. where \in Seq(0 .. 255) /\ Len(where) = sel.nexc
      BY <1>3, WhereLists
    <3>3. where \in [1 .. Len(where) -> 0 .. 255]
      BY <3>2, LenProperties
    <3> QED
      BY <3>1, <3>2, <3>3, Zenon
  <2>2. PICK i \in 1 .. 256 : i = where[e + 1] + 1
    BY <2>1
  <2>3. src[i] \in Nat
    <3>1. src[i] \in 0 .. Pow[8 * w] - 1
      BY DEF IsBlock
    <3> QED
      BY <3>1
  <2>4. PICK v \in Nat : v = src[i] \div Power[sel.bits]
    <3>1. Power[sel.bits] = Pow[sel.bits] /\ sel.bits \in Nat
      BY <1>1, PowerFits
    <3> QED
      BY <2>3, <3>1, HighIsNat
  <2>5. j \in 0 .. 8 * MaxWidth
    <3>3. PICK n \in Nat, m \in Nat : n = sel.nexc /\ m = sel.eb
      BY <1>1
    <3>4. Moved(e, n, m) = 0 .. m - 1
      BY AllMoved
    <3>1. j \in 0 .. sel.eb - 1
      BY <1>4, <3>3, <3>4, Zenon
    <3>2. 8 * w <= 8 * MaxWidth /\ 8 * w \in Nat /\ 8 * MaxWidth \in Nat
      BY Shape, BitsFacts
    <3> QED
      BY <1>1, <3>1, <3>2
  <2>6. Bit(v, j) \in {0, 1}
    BY <2>5, BitIs
  <2>7. HighBit(src, sel, where, k) = Bit(v, j)
    BY <1>2, <1>4, <2>2, <2>4 DEF HighBit
  <2> QED
    BY <1>3, <2>6, <2>7
<1>5. CASE ~(e < sel.nexc /\ j \in Moved(e, sel.nexc, sel.eb))
  <2>1. HighBit(src, sel, where, k) = 0
    BY <1>2, <1>5 DEF HighBit
  <2> QED
    BY <1>3, <2>1
<1> QED
  BY <1>4, <1>5

\* Place k of a row of bytes that hold bits.
LEMMA BitOfByte ==
  ASSUME NEW n \in Nat, NEW k \in Nat, k < 8 * n
  PROVE  /\ k \div 8 \in 0 .. n - 1 /\ k % 8 \in 0 .. 7
         /\ 8 * (k \div 8) + (k % 8) = k
OBVIOUS

\* Three rows, one behind the other.
LEMMA InThreeParts ==
  ASSUME NEW S, NEW a \in Seq(S), NEW b \in Seq(S), NEW c \in Seq(S)
  PROVE  /\ a \o b \o c \in Seq(S)
         /\ Len(a \o b \o c) = Len(a) + Len(b) + Len(c)
         /\ \A k \in 1 .. Len(a) : (a \o b \o c)[k] = a[k]
         /\ \A k \in 1 .. Len(b) : (a \o b \o c)[Len(a) + k] = b[k]
         /\ \A k \in 1 .. Len(c) : (a \o b \o c)[Len(a) + Len(b) + k] = c[k]
<1>1. PICK x \in Nat, y \in Nat, z \in Nat :
        x = Len(a) /\ y = Len(b) /\ z = Len(c)
  BY LenProperties
<1>2. PICK d : d = a \o b
  OBVIOUS
<1>3. /\ d \in Seq(S) /\ Len(d) = x + y
      /\ \A i \in 1 .. x + y : d[i] = IF i <= x THEN a[i] ELSE b[i - x]
  BY <1>1, <1>2, ConcatProperties
<1>4. PICK e : e = d \o c
  OBVIOUS
<1>5. /\ e \in Seq(S) /\ Len(e) = x + y + z
      /\ \A i \in 1 .. x + y + z :
           e[i] = IF i <= x + y THEN d[i] ELSE c[i - (x + y)]
  BY <1>1, <1>3, <1>4, ConcatProperties
<1>6. ASSUME NEW k \in 1 .. x PROVE e[k] = a[k]
  BY <1>3, <1>5
<1>7. ASSUME NEW k \in 1 .. y PROVE e[x + k] = b[k]
  <2>1. PICK i \in Nat : i = x + k /\ i - x = k
    OBVIOUS
  <2>2. i \in 1 .. x + y /\ i \in 1 .. x + y + z /\ i <= x + y /\ ~(i <= x)
    BY <2>1
  <2>3. e[i] = d[i] /\ d[i] = b[i - x]
    BY <1>3, <1>5, <2>2
  <2> QED
    BY <2>1, <2>3
<1>8. ASSUME NEW k \in 1 .. z PROVE e[x + y + k] = c[k]
  <2>1. PICK i \in Nat : i = x + y + k /\ i - (x + y) = k
    OBVIOUS
  <2>2. i \in 1 .. x + y + z /\ ~(i <= x + y)
    BY <2>1
  <2>3. e[i] = c[i - (x + y)]
    BY <1>5, <2>2
  <2> QED
    BY <2>1, <2>3
<1> QED
  BY <1>1, <1>2, <1>4, <1>5, <1>6, <1>7, <1>8

\* The bytes of a row hold its bits, the lowest first.
BytesOf(s, bit, n) ==
  /\ s = [m \in 1 .. n |-> s[m]]
  /\ \A m \in 1 .. n : \E d :
       /\ s[m] = Value(d, 8, 1)
       /\ \A j \in 0 .. 7 : d[j] = bit[8 * (m - 1) + j]

\* Bytes that hold bits.
LEMMA BytesShow ==
  ASSUME NEW n \in Nat, NEW bit \in [0 .. 8 * n - 1 -> {0, 1}], NEW s,
         BytesOf(s, bit, n)
  PROVE  /\ s \in Seq(0 .. 255) /\ Len(s) = n
         /\ \A k \in 0 .. 8 * n - 1 : Bit(s[1 + k \div 8], k % 8) = bit[k]
<1>1. ASSUME NEW m \in 1 .. n
      PROVE  /\ s[m] \in 0 .. 255
             /\ \A j \in 0 .. 7 : Bit(s[m], j) = bit[8 * (m - 1) + j]
  <2>1. PICK d : /\ s[m] = Value(d, 8, 1)
                 /\ \A j \in 0 .. 7 : d[j] = bit[8 * (m - 1) + j]
    BY DEF BytesOf
  <2>2. ASSUME NEW j \in 0 .. 7 PROVE d[j] \in {0, 1}
    <3>1. 8 * (m - 1) + j \in 0 .. 8 * n - 1
      OBVIOUS
    <3> QED
      BY <2>1, <3>1
  <2>4. OneBit(d, 8)
    BY <2>2 DEF OneBit
  <2>6. /\ Value(d, 8, 1) \in 0 .. 255
        /\ \A j \in 0 .. 7 : Bit(Value(d, 8, 1), j) = d[j]
    BY <2>4, ByteShows
  <2> QED
    BY <2>1, <2>6
<1>2. s \in Seq(0 .. 255) /\ Len(s) = n
  <2>1. s = [m \in 1 .. n |-> s[m]]
    BY DEF BytesOf
  <2>2. PICK q : q = [m \in 1 .. n |-> s[m]]
    OBVIOUS
  <2>3. q \in Seq(0 .. 255) /\ Len(q) = n
    BY <1>1, <2>2
  <2> QED
    BY <2>1, <2>2, <2>3, Zenon
<1>3. ASSUME NEW k \in 0 .. 8 * n - 1
      PROVE  Bit(s[1 + k \div 8], k % 8) = bit[k]
  <2>1. PICK m \in 1 .. n, j \in 0 .. 7 :
          m = 1 + k \div 8 /\ j = k % 8 /\ 8 * (m - 1) + j = k
    <3>1. k \in Nat /\ k < 8 * n
      OBVIOUS
    <3>2. /\ k \div 8 \in 0 .. n - 1 /\ k % 8 \in 0 .. 7
          /\ 8 * (k \div 8) + (k % 8) = k
      BY <3>1, BitOfByte
    <3>3. PICK q \in 0 .. n - 1, r \in 0 .. 7 : q = k \div 8 /\ r = k % 8
      BY <3>2
    <3>4. 1 + q \in 1 .. n /\ 8 * (1 + q - 1) + r = k
      BY <3>2, <3>3
    <3> QED
      BY <3>3, <3>4
  <2>2. Bit(s[m], j) = bit[8 * (m - 1) + j]
    BY <1>1
  <2> QED
    BY <2>1, <2>2
<1> QED
  BY <1>2, <1>3

\* What the exceptions of a block say.
Excepts(x, src, sel, widths) ==
  LET places == PositionBytes(sel.nexc, sel.mode)
  IN  /\ x \in Seq(0 .. 255)
      /\ Len(x) = 1 + places + HighBytes(sel.nexc, sel.eb)
      /\ x[1] = sel.eb + 128 * sel.mode
      /\ sel.mode = LIST =>
           \A e \in 1 .. sel.nexc : x[1 + e] = Where(sel, widths)[e]
      /\ sel.mode = BITMAP =>
           \A p \in 0 .. 255 : Bit(x[2 + p \div 8], p % 8)
                                 = IF p \in Outliers(widths, sel.bits)
                                     THEN 1 ELSE 0
      /\ \A k \in 0 .. 8 * HighBytes(sel.nexc, sel.eb) - 1 :
           Bit(x[2 + places + k \div 8], k % 8)
             = HighBit(src, sel, Where(sel, widths), k)

\* They say it.
LEMMA ExceptionsExcept ==
  ASSUME NEW w \in Widths, NEW src, IsBlock(src, w), NEW widths,
         NEW sel, Selects(sel, widths, w), sel.nexc # 0
  PROVE  Excepts(Exceptions(src, sel, widths), src, sel, widths)
<1> DEFINE outliers == Outliers(widths, sel.bits)
           where == Where(sel, widths)
           bitmap == [n \in 1 .. BitmapBytes |->
                        Value([j \in 0 .. 7 |->
                                 IF 8 * (n - 1) + j \in outliers
                                   THEN 1 ELSE 0], 8, 1)]
           high == [n \in 1 .. HighBytes(sel.nexc, sel.eb) |->
                      Value([j \in 0 .. 7 |->
                               HighBit(src, sel, where, 8 * (n - 1) + j)],
                            8, 1)]
           first == <<sel.eb + 128 * sel.mode>>
           second == IF sel.mode = BITMAP THEN bitmap ELSE where
<1>1. Exceptions(src, sel, widths) = first \o second \o high
  BY DEF Exceptions, Where
<1>2. PICK h \in Nat : h = HighBytes(sel.nexc, sel.eb)
  <2>1. PICK n \in Nat, m \in Nat : n = sel.nexc /\ m = sel.eb
    BY Shape DEF Selects
  <2> QED
    BY <2>1, HighBytesHold
<1>3. /\ high \in Seq(0 .. 255) /\ Len(high) = h
      /\ \A k \in 0 .. 8 * h - 1 :
           Bit(high[1 + k \div 8], k % 8) = HighBit(src, sel, where, k)
  <2> DEFINE bit == [k \in 0 .. 8 * h - 1 |-> HighBit(src, sel, where, k)]
  <2>1. bit \in [0 .. 8 * h - 1 -> {0, 1}]
    <3>1. ASSUME NEW k \in 0 .. 8 * h - 1
          PROVE  HighBit(src, sel, where, k) \in {0, 1}
      <4>1. k \in Nat
        OBVIOUS
      <4> QED
        BY <4>1, HighBitIs
    <3> HIDE DEF where
    <3> QED
      BY <3>1
  <2>2. BytesOf(high, bit, h)
    <3>1. high = [n \in 1 .. h |-> high[n]]
      BY <1>2
    <3>2. ASSUME NEW m \in 1 .. h
          PROVE  \E d : /\ high[m] = Value(d, 8, 1)
                        /\ \A j \in 0 .. 7 : d[j] = bit[8 * (m - 1) + j]
      <4>1. PICK d : d = [j \in 0 .. 7 |->
                            HighBit(src, sel, where, 8 * (m - 1) + j)]
        OBVIOUS
      <4>2. high[m] = Value(d, 8, 1)
        BY <1>2, <4>1
      <4>3. ASSUME NEW j \in 0 .. 7 PROVE d[j] = bit[8 * (m - 1) + j]
        <5>1. 8 * (m - 1) + j \in 0 .. 8 * h - 1
          OBVIOUS
        <5> HIDE DEF where
        <5> QED
          BY <4>1, <5>1
      <4> QED
        BY <4>2, <4>3
    <3> HIDE DEF high, bit
    <3> QED
      BY <3>1, <3>2 DEF BytesOf
  <2>3. \A k \in 0 .. 8 * h - 1 : bit[k] = HighBit(src, sel, where, k)
    OBVIOUS
  <2> HIDE DEF high, bit, where
  <2> QED
    BY <2>1, <2>2, <2>3, BytesShow
<1>4. ASSUME sel.mode = BITMAP
      PROVE  /\ second \in Seq(0 .. 255) /\ Len(second) = 32
             /\ \A p \in 0 .. 255 : Bit(second[1 + p \div 8], p % 8)
                                      = IF p \in outliers THEN 1 ELSE 0
  <2>1. PICK n \in Nat : n = 32 /\ 8 * n - 1 = 255
    <3>1. 32 \in Nat /\ 8 * 32 - 1 = 255
      OBVIOUS
    <3> QED
      BY <3>1
  <2>2. PICK bit : bit = [k \in 0 .. 8 * n - 1 |->
                            IF k \in outliers THEN 1 ELSE 0]
    OBVIOUS
  <2> HIDE DEF outliers
  <2>3. bit \in [0 .. 8 * n - 1 -> {0, 1}]
    BY <2>2
  <2>4. BytesOf(bitmap, bit, n)
    <3>1. bitmap = [m \in 1 .. n |-> bitmap[m]]
      BY <2>1 DEF BitmapBytes, Block
    <3>2. ASSUME NEW m \in 1 .. n
          PROVE  \E d : /\ bitmap[m] = Value(d, 8, 1)
                        /\ \A j \in 0 .. 7 : d[j] = bit[8 * (m - 1) + j]
      <4>1. PICK d : d = [j \in 0 .. 7 |-> IF 8 * (m - 1) + j \in outliers
                                             THEN 1 ELSE 0]
        OBVIOUS
      <4>2. bitmap[m] = Value(d, 8, 1)
        BY <2>1, <4>1 DEF BitmapBytes, Block
      <4>3. ASSUME NEW j \in 0 .. 7 PROVE d[j] = bit[8 * (m - 1) + j]
        <5>1. 8 * (m - 1) + j \in 0 .. 8 * n - 1
          BY <2>1
        <5> QED
          BY <2>2, <4>1, <5>1
      <4> QED
        BY <4>2, <4>3
    <3> HIDE DEF bitmap
    <3> QED
      BY <3>1, <3>2 DEF BytesOf
  <2>5. second = bitmap
    BY <1>4
  <2> HIDE DEF bitmap, second
  <2>6. /\ bitmap \in Seq(0 .. 255) /\ Len(bitmap) = n
        /\ \A k \in 0 .. 8 * n - 1 : Bit(bitmap[1 + k \div 8], k % 8) = bit[k]
    BY <2>3, <2>4, BytesShow
  <2>7. ASSUME NEW p \in 0 .. 255
        PROVE  Bit(second[1 + p \div 8], p % 8)
                 = IF p \in outliers THEN 1 ELSE 0
    <3>1. p \in 0 .. 8 * n - 1
      BY <2>1
    <3> QED
      BY <2>2, <2>5, <2>6, <3>1
  <2> QED
    BY <2>1, <2>5, <2>6, <2>7
<1>5. ASSUME sel.mode = LIST
      PROVE  /\ second = where /\ second \in Seq(0 .. 255)
             /\ Len(second) = sel.nexc
  <2>1. second = where
    BY <1>5 DEF BITMAP, LIST
  <2>2. where \in Seq(0 .. 255) /\ Len(where) = sel.nexc
    BY WhereLists
  <2> HIDE DEF second, where
  <2> QED
    BY <2>1, <2>2
<1> HIDE DEF high, second, outliers, where
<1>6. PICK b, c : b = second /\ c = high
  OBVIOUS
<1>7. PICK l : l = PositionBytes(sel.nexc, sel.mode)
  OBVIOUS
<1>8. b \in Seq(0 .. 255) /\ Len(b) = l /\ l \in Nat
  <2>1. sel.mode \in {LIST, BITMAP} /\ sel.nexc \in Nat
    BY DEF Selects
  <2>2. CASE sel.mode = BITMAP
    <3>1. l = 32
      BY <1>7, <2>2 DEF PositionBytes, BitmapBytes, Block
    <3> QED
      BY <1>4, <1>6, <2>2, <3>1
  <2>3. CASE sel.mode = LIST
    <3>1. l = sel.nexc
      BY <1>7, <2>3 DEF PositionBytes, BITMAP, LIST
    <3> QED
      BY <1>5, <1>6, <2>1, <2>3, <3>1
  <2> QED
    BY <2>1, <2>2, <2>3
<1>9. PICK y \in 0 .. 255 : y = sel.eb + 128 * sel.mode
  <2>1. sel.eb \in 0 .. 64
    <3>1. w \in {1, 2, 4, 8} /\ sel.eb \in 0 .. 8 * w
      BY Shape DEF Selects
    <3> QED
      BY <3>1
  <2>2. sel.mode \in {0, 1}
    BY DEF Selects, LIST, BITMAP
  <2>3. PICK e \in 0 .. 64, m \in {0, 1} : e = sel.eb /\ m = sel.mode
    BY <2>1, <2>2
  <2>4. e + 128 * m \in 0 .. 255
    OBVIOUS
  <2> QED
    BY <2>3, <2>4
<1>10. PICK a : a = first /\ a \in Seq(0 .. 255) /\ Len(a) = 1 /\ a[1] = y
  <2>1. <<y>> \in Seq(0 .. 255) /\ Len(<<y>>) = 1 /\ <<y>>[1] = y
    OBVIOUS
  <2>2. first = <<y>>
    BY <1>9, Zenon
  <2> QED
    BY <2>1, <2>2, Zenon
<1>11. PICK x : x = Exceptions(src, sel, widths) /\ x = a \o b \o c
  BY <1>1, <1>6, <1>10
<1>12. c \in Seq(0 .. 255) /\ Len(c) = h
  BY <1>3, <1>6
<1>13. /\ x \in Seq(0 .. 255) /\ Len(x) = 1 + l + h /\ x[1] = y
       /\ \A k \in 1 .. l : x[1 + k] = b[k]
       /\ \A k \in 1 .. h : x[1 + l + k] = c[k]
  <2>1. /\ a \o b \o c \in Seq(0 .. 255)
        /\ Len(a \o b \o c) = Len(a) + Len(b) + Len(c)
        /\ \A k \in 1 .. Len(a) : (a \o b \o c)[k] = a[k]
        /\ \A k \in 1 .. Len(b) : (a \o b \o c)[Len(a) + k] = b[k]
        /\ \A k \in 1 .. Len(c) : (a \o b \o c)[Len(a) + Len(b) + k] = c[k]
    BY <1>8, <1>10, <1>12, InThreeParts, SMTT(40)
  <2>2. x \in Seq(0 .. 255) /\ Len(x) = 1 + l + h
    BY <1>8, <1>10, <1>11, <1>12, <2>1, Zenon
  <2>3. x[1] = y
    <3>1. 1 \in 1 .. Len(a)
      BY <1>10
    <3>2. (a \o b \o c)[1] = a[1]
      BY <2>1, <3>1, Zenon
    <3> QED
      BY <1>10, <1>11, <3>2, Zenon
  <2>4. ASSUME NEW k \in 1 .. l PROVE x[1 + k] = b[k]
    <3>1. k \in 1 .. Len(b)
      BY <1>8, Zenon
    <3>2. (a \o b \o c)[Len(a) + k] = b[k]
      BY <2>1, <3>1, Zenon
    <3> QED
      BY <1>10, <1>11, <3>2, Zenon
  <2>5. ASSUME NEW k \in 1 .. h PROVE x[1 + l + k] = c[k]
    <3>1. k \in 1 .. Len(c)
      BY <1>12, Zenon
    <3>2. (a \o b \o c)[Len(a) + Len(b) + k] = c[k]
      BY <2>1, <3>1, Zenon
    <3> QED
      BY <1>8, <1>10, <1>11, <3>2, Zenon
  <2> QED
    BY <2>2, <2>3, <2>4, <2>5, Zenon
<1>14. ASSUME sel.mode = LIST, NEW e \in 1 .. sel.nexc
       PROVE  x[1 + e] = where[e]
  <2>1. l = sel.nexc
    BY <1>7, <1>14 DEF PositionBytes, BITMAP, LIST
  <2> QED
    BY <1>5, <1>6, <1>13, <1>14, <2>1
<1>15. ASSUME sel.mode = BITMAP, NEW p \in 0 .. 255
       PROVE  Bit(x[2 + p \div 8], p % 8) = IF p \in outliers THEN 1 ELSE 0
  <2>1. l = 32
    BY <1>7, <1>15 DEF PositionBytes, BitmapBytes, Block
  <2>2. PICK k \in 1 .. 32 : k = 1 + p \div 8 /\ 1 + k = 2 + p \div 8
    OBVIOUS
  <2>3. x[1 + k] = b[k]
    BY <1>13, <2>1
  <2>4. x[2 + p \div 8] = second[1 + p \div 8]
    BY <1>6, <2>2, <2>3
  <2> QED
    BY <1>4, <1>15, <2>4, Zenon
<1>16. ASSUME NEW k \in 0 .. 8 * h - 1
       PROVE  Bit(x[2 + l + k \div 8], k % 8) = HighBit(src, sel, where, k)
  <2>1. PICK m \in 1 .. h : m = 1 + k \div 8 /\ 1 + l + m = 2 + l + k \div 8
    BY <1>8
  <2>2. x[1 + l + m] = c[m]
    BY <1>13
  <2>3. x[2 + l + k \div 8] = high[1 + k \div 8]
    BY <1>6, <2>1, <2>2
  <2> QED
    BY <1>3, <2>3, Zenon
<1>17. x[1] = sel.eb + 128 * sel.mode
  BY <1>9, <1>13, Zenon
<1> HIDE DEF first
<1>18. Excepts(x, src, sel, widths)
  BY <1>2, <1>7, <1>13, <1>14, <1>15, <1>16, <1>17
  DEF Excepts, outliers, where
<1> QED
  BY <1>11, <1>18

-----------------------------------------------------------------------------
(* A block is encoded                                                      *)

\* A body is a row of bytes, of two groups for every bit.
LEMMA PackIsBytes ==
  ASSUME NEW w \in Widths, NEW bits \in 0 .. 8 * w, NEW src, IsBlock(src, w)
  PROVE  /\ src \in [1 .. Block -> Nat]
         /\ Pack(src, w, bits) \in Seq(0 .. 255)
         /\ Len(Pack(src, w, bits)) = 32 * bits
<1>1. src \in [1 .. Block -> Nat]
  BY DEF IsBlock, Block
<1>2. CASE bits = 0
  <2>1. Pack(src, w, bits) = <<>>
    BY <1>2 DEF Pack
  <2>2. <<>> \in Seq(0 .. 255) /\ Len(<<>>) = 0 /\ 32 * bits = 0
    BY <1>2
  <2> QED
    BY <1>1, <2>1, <2>2
<1>3. CASE bits # 0
  <2>1. bits \in 1 .. 8 * w /\ bits \in Nat
    BY <1>3, Shape
  <2>2. PICK V : Numbers(V, src, w, bits)
    BY <1>1, <2>1, NumbersExist
  <2> QED
    BY <1>1, <2>1, <2>2, PackHolds
<1> QED
  BY <1>2, <1>3

\* What the bytes of a block say.
Encodes(s, src, sel, widths, w) ==
  LET exc == ExcBytes(sel.nexc, sel.eb, sel.mode)
  IN  /\ s[1] = sel.bits /\ s[2] = sel.nexc
      /\ sel.nexc # 0 =>
           \E x : /\ Excepts(x, src, sel, widths) /\ Len(x) = exc
                  /\ \A k \in 1 .. exc : s[2 + k] = x[k]
      /\ \A k \in 1 .. 32 * sel.bits :
           s[2 + exc + k] = Pack(src, w, sel.bits)[k]

\* The bytes of a block.
BlockBytes(sel) ==
  2 + ExcBytes(sel.nexc, sel.eb, sel.mode) + 32 * sel.bits

\* The widths of a block.
WidthsOf(src) == [i \in 1 .. Block |-> Width(src[i])]

\* They say it, and they are no more than those of a body of all bits.
LEMMA EncodeEncodes ==
  ASSUME NEW w \in Widths, NEW src, IsBlock(src, w), NEW sel,
         sel = Select(WidthsOf(src))
  PROVE  /\ Selects(sel, WidthsOf(src), w)
         /\ \A i \in 1 .. Block : src[i] < Pow[WidthsOf(src)[i]]
         /\ EncodeBlock(src, w) \in Seq(0 .. 255)
         /\ Len(EncodeBlock(src, w)) = BlockBytes(sel)
         /\ BlockBytes(sel) \in 2 .. 2 + 256 * w
         /\ Encodes(EncodeBlock(src, w), src, sel, WidthsOf(src), w)
<1>1. PICK widths : widths = WidthsOf(src)
  OBVIOUS
<1>2. \A i \in 1 .. Block :
        widths[i] \in 0 .. 8 * w /\ src[i] < Pow[widths[i]]
  <2> SUFFICES ASSUME NEW i \in 1 .. Block
               PROVE  widths[i] \in 0 .. 8 * w /\ src[i] < Pow[widths[i]]
    OBVIOUS
  <2>1. src[i] \in 0 .. Pow[8 * w] - 1
    BY DEF IsBlock, Block
  <2>2. widths[i] = Width(src[i])
    BY <1>1 DEF WidthsOf
  <2> QED
    BY <2>1, <2>2, WidthFits
<1>3. widths \in [1 .. Block -> 0 .. 8 * w]
  <2>1. widths = [i \in 1 .. Block |-> widths[i]]
    BY <1>1 DEF WidthsOf
  <2> QED
    BY <1>2, <2>1
<1>4. Selects(sel, widths, w)
  BY <1>1, <1>3, SelectSelects
<1>5. PICK b \in Nat, n \in Nat, x \in Nat, p \in Nat :
        /\ b = sel.bits /\ n = sel.nexc /\ p = 256 * w
        /\ x = ExcBytes(sel.nexc, sel.eb, sel.mode)
        /\ b \in 0 .. 8 * w /\ b <= 64 /\ n \in 0 .. 255 /\ 32 * b + x <= p
  <2>1. PICK n \in Nat, eb \in Nat : n = sel.nexc /\ eb = sel.eb
    BY <1>4, Shape DEF Selects
  <2>2. ExcBytes(sel.nexc, sel.eb, sel.mode) \in Nat
    BY <2>1, ExcBytesCount
  <2>3. w \in {1, 2, 4, 8}
    BY Shape
  <2>4. sel.bits \in Nat /\ sel.bits <= 64 /\ 256 * w \in Nat
    BY <1>4, <2>3 DEF Selects
  <2>5. sel.bits \in 0 .. 8 * w /\ sel.nexc \in 0 .. 255
        /\ 32 * sel.bits + ExcBytes(sel.nexc, sel.eb, sel.mode) <= 256 * w
    BY <1>4 DEF Selects
  <2> QED
    BY <2>1, <2>2, <2>4, <2>5, ZenonT(60)
<1>6. PICK first, second, third :
        /\ first = <<b, n % 256>>
        /\ second = IF n = 0 THEN <<>> ELSE Exceptions(src, sel, widths)
        /\ third = Pack(src, w, b)
  OBVIOUS
<1>7. EncodeBlock(src, w) = first \o second \o third
  BY <1>1, <1>5, <1>6 DEF EncodeBlock, WidthsOf
<1>8. first \in Seq(0 .. 255) /\ Len(first) = 2 /\ first[1] = b /\ first[2] = n
  <2>3. n \in 0 .. 255 /\ b <= 64
    BY <1>5, Zenon
  <2>1. n % 256 = n /\ b \in 0 .. 255
    BY <2>3
  <2>2. PICK c \in 0 .. 255, d \in 0 .. 255 : c = b /\ d = n
    BY <1>5, <2>1
  <2>5. first = <<c, d>>
    BY <1>6, <2>1, <2>2, Zenon
  <2>4. <<c, d>> \in Seq(0 .. 255) /\ Len(<<c, d>>) = 2
        /\ <<c, d>>[1] = c /\ <<c, d>>[2] = d
    OBVIOUS
  <2> QED
    BY <2>2, <2>4, <2>5
<1>9. /\ second \in Seq(0 .. 255) /\ Len(second) = x
      /\ n # 0 => Excepts(second, src, sel, widths)
  <2>1. CASE n = 0
    <3>1. second = <<>> /\ x = 0
      BY <1>5, <1>6, <2>1 DEF ExcBytes
    <3>2. <<>> \in Seq(0 .. 255) /\ Len(<<>>) = 0
      OBVIOUS
    <3> QED
      BY <2>1, <3>1, <3>2
  <2>2. CASE n # 0
    <3>1. Excepts(second, src, sel, widths)
      BY <1>4, <1>5, <1>6, <2>2, ExceptionsExcept
    <3>2. x = 1 + PositionBytes(sel.nexc, sel.mode)
                + HighBytes(sel.nexc, sel.eb)
      BY <1>5, <2>2 DEF ExcBytes
    <3> QED
      BY <3>1, <3>2 DEF Excepts
  <2> QED
    BY <2>1, <2>2
<1>10. third \in Seq(0 .. 255) /\ Len(third) = 32 * b
  BY <1>5, <1>6, PackIsBytes
<1>11. PICK s : s = EncodeBlock(src, w) /\ s = first \o second \o third
  BY <1>7
<1>12. /\ s \in Seq(0 .. 255) /\ Len(s) = 2 + x + 32 * b
       /\ s[1] = b /\ s[2] = n
       /\ \A k \in 1 .. x : s[2 + k] = second[k]
       /\ \A k \in 1 .. 32 * b : s[2 + x + k] = third[k]
  <2>1. /\ first \o second \o third \in Seq(0 .. 255)
        /\ Len(first \o second \o third) = Len(first) + Len(second) + Len(third)
        /\ \A k \in 1 .. Len(first) : (first \o second \o third)[k] = first[k]
        /\ \A k \in 1 .. Len(second) :
             (first \o second \o third)[Len(first) + k] = second[k]
        /\ \A k \in 1 .. Len(third) :
             (first \o second \o third)[Len(first) + Len(second) + k] = third[k]
    <3>1. first \in Seq(0 .. 255) /\ second \in Seq(0 .. 255)
          /\ third \in Seq(0 .. 255)
      BY <1>8, <1>9, <1>10
    <3> QED
      BY <3>1, InThreeParts
  <2>2. s[1] = first[1] /\ s[2] = first[2]
    BY <1>8, <1>11, <2>1
  <2> QED
    BY <1>8, <1>9, <1>10, <1>11, <2>1, <2>2
<1>13. BlockBytes(sel) = 2 + x + 32 * b
  BY <1>5 DEF BlockBytes
<1>14. 2 + x + 32 * b \in 2 .. 2 + 256 * w
  BY <1>5
<1>15. Encodes(s, src, sel, widths, w)
  <2>1. n # 0 => /\ Excepts(second, src, sel, widths) /\ Len(second) = x
                 /\ \A k \in 1 .. x : s[2 + k] = second[k]
    BY <1>9, <1>12
  <2>2. \A k \in 1 .. 32 * b : s[2 + x + k] = Pack(src, w, b)[k]
    BY <1>6, <1>12
  <2> QED
    BY <1>5, <1>12, <2>1, <2>2, SMTT(40) DEF Encodes
<1> QED
  BY <1>1, <1>2, <1>4, <1>11, <1>12, <1>13, <1>14, <1>15

-----------------------------------------------------------------------------
(* A block is decoded                                                      *)

\* Bit j of exception e is among the high bits.
LEMMA BitOfException ==
  ASSUME NEW n \in Nat, NEW eb \in Nat, NEW e \in 0 .. n - 1,
         NEW j \in 0 .. eb - 1
  PROVE  /\ e * eb + j \in 0 .. 8 * HighBytes(n, eb) - 1
         /\ (e * eb + j) \div eb = e /\ (e * eb + j) % eb = j
<1>1. eb \in Nat \ {0} /\ e \in Nat /\ j \in Nat
  OBVIOUS
<1>2. (e * eb + j) \div eb = e /\ (e * eb + j) % eb = j
  BY <1>1, Composed
<1>3. PICK h \in Nat : h = HighBytes(n, eb) /\ n * eb <= 8 * h
  BY HighBytesHold
<1>4. PICK f \in Nat : n = e + 1 + f
  <2>1. n - e - 1 \in Nat /\ n = e + 1 + (n - e - 1)
    OBVIOUS
  <2> QED
    BY <2>1
<1>5. n * eb = e * eb + eb + f * eb /\ f * eb \in Nat /\ e * eb \in Nat
  BY <1>1, <1>4
<1>6. PICK x \in Nat, y \in Nat, z \in Nat :
        x = n * eb /\ y = e * eb /\ z = f * eb
  BY <1>5
<1>7. y + j < 8 * h
  BY <1>3, <1>5, <1>6
<1>8. y + j \in 0 .. 8 * h - 1
  BY <1>7
<1> QED
  BY <1>2, <1>3, <1>6, <1>8, Zenon

\* d has the bits of exception e.
HighBitsOf(d, src, sel, widths, e) ==
  \A j \in 0 .. sel.eb - 1 :
    d[j] = HighBit(src, sel, Where(sel, widths), e * sel.eb + j)

\* Each sample fits its width.
Fits(src, widths) ==
  \A i \in 1 .. 256 : widths[i] \in Nat /\ src[i] < Pow[widths[i]]

\* Exception e is sample i.
IsException(src, widths, sel, e, i) ==
  /\ Fits(src, widths) /\ e \in 0 .. sel.nexc - 1 /\ i \in 1 .. 256
  /\ Where(sel, widths)[e + 1] = i - 1

\* The high bits of an exception, put together, are the exception's.
LEMMA HighReturns ==
  ASSUME NEW w \in Widths, NEW src, IsBlock(src, w), NEW widths,
         NEW sel, Selects(sel, widths, w),
         NEW e, NEW i, IsException(src, widths, sel, e, i),
         NEW d, HighBitsOf(d, src, sel, widths, e)
  PROVE  Value(d, sel.eb, 1) = src[i] \div Pow[sel.bits]
<1>1. PICK n \in Nat, m \in Nat, b \in Nat :
        /\ n = sel.nexc /\ m = sel.eb /\ b = sel.bits /\ b \in 0 .. 8 * w
        /\ m \in 0 .. 8 * w
  <2>1. sel.bits \in 0 .. 8 * w /\ sel.eb \in 0 .. 8 * w
        /\ sel.nexc \in 0 .. 255
    BY DEF Selects
  <2>2. 8 * w \in Nat
    BY Shape
  <2>3. sel.bits \in Nat /\ sel.eb \in Nat /\ sel.nexc \in Nat
    BY <2>1, <2>2
  <2> QED
    BY <2>1, <2>3, Zenon
<1>2. e \in Nat /\ e \in 0 .. n - 1 /\ e < n /\ i \in 1 .. 256
      /\ Where(sel, widths)[e + 1] = i - 1 /\ Fits(src, widths)
  BY <1>1 DEF IsException
<1>3. src[i] \in Nat /\ Power[b] = Pow[b]
  <2>1. src[i] \in 0 .. Pow[8 * w] - 1
    BY <1>2 DEF IsBlock
  <2> QED
    BY <1>1, <2>1, PowerFits
<1>4. PICK x \in Nat : x = src[i] \div Pow[b]
  BY <1>3, HighIsNat
<1>5. ASSUME NEW j \in 0 .. m - 1
      PROVE  d[j] = (x \div Pow[1 * j]) % Pow[1]
  <2>1. (e * m + j) \div m = e /\ (e * m + j) % m = j
    <3>1. m \in Nat \ {0}
      OBVIOUS
    <3> QED
      BY <1>2, <3>1, Composed
  <2>2. j \in Moved(e, n, m)
    BY <1>2, AllMoved
  <2>3. HighBit(src, sel, Where(sel, widths), e * m + j) = Bit(x, j)
    <3>1. PICK k : k = e * m + j /\ k \div m = e /\ k % m = j
      BY <2>1
    <3>2. HighBit(src, sel, Where(sel, widths), k)
            = Bit(src[Where(sel, widths)[e + 1] + 1] \div Power[sel.bits], j)
      BY <1>1, <1>2, <2>2, <3>1 DEF HighBit
    <3>3. Where(sel, widths)[e + 1] + 1 = i
      BY <1>2
    <3> QED
      BY <1>1, <1>3, <1>4, <3>1, <3>2, <3>3, Zenon
  <2>4. j \in 0 .. 8 * MaxWidth
    <3>1. 8 * w <= 8 * MaxWidth /\ 8 * w \in Nat /\ 8 * MaxWidth \in Nat
      BY Shape, BitsFacts
    <3> QED
      BY <1>1, <3>1
  <2>5. Bit(x, j) = (x \div Pow[1 * j]) % Pow[1]
    BY <2>4, BitIs
  <2>6. d[j] = HighBit(src, sel, Where(sel, widths), e * m + j)
    BY <1>1 DEF HighBitsOf
  <2> QED
    BY <2>3, <2>5, <2>6
<1>6. Value(d, m, 1) = x % Pow[1 * m]
  <2>1. 1 \in Nat /\ 1 * m <= 8 * MaxWidth
    <3>1. 8 * w <= 8 * MaxWidth /\ 8 * w \in Nat /\ 8 * MaxWidth \in Nat
      BY Shape, BitsFacts
    <3> QED
      BY <1>1, <3>1
  <2> QED
    BY <1>5, <2>1, ValueOfNumber
<1>7. x \in 0 .. Pow[m] - 1
  <2>1. PICK k \in Nat, t \in Nat : k = widths[i] /\ t = b + m /\ k <= t
    <3>1. i \in 1 .. Block
      BY <1>2 DEF Block
    <3>2. widths[i] <= sel.bits + sel.eb
      BY <3>1 DEF Selects
    <3>3. widths[i] \in Nat
      BY <1>2 DEF Fits
    <3> QED
      BY <1>1, <3>2, <3>3
  <2>2. Pow[k] <= Pow[t] /\ Pow[k] \in Nat /\ Pow[t] \in Nat
    BY <2>1, PowMonotone, PowFacts
  <2>3. src[i] < Pow[t]
    <3>1. src[i] < Pow[k]
      BY <1>2, <2>1 DEF Fits
    <3> QED
      BY <1>3, <2>2, <3>1
  <2>4. PICK p \in Nat \ {0}, q \in Nat \ {0} :
          p = Pow[b] /\ q = Pow[m] /\ Pow[t] = p * q
    <3>1. Pow[b + m] = Pow[b] * Pow[m]
      BY PowSum
    <3>2. Pow[b] \in Nat \ {0} /\ Pow[m] \in Nat \ {0}
      BY PowFacts
    <3> QED
      BY <2>1, <3>1, <3>2, Zenon
  <2>5. PICK v \in Nat : v = src[i] /\ v < p * q /\ x = v \div p
    BY <1>3, <1>4, <2>3, <2>4
  <2>6. x < q
    <3> SUFFICES ASSUME x >= q PROVE FALSE
      OBVIOUS
    <3>1. PICK f \in Nat : x = q + f
      <4>1. x - q \in Nat /\ x = q + (x - q)
        OBVIOUS
      <4> QED
        BY <4>1
    <3>2. v = (v \div p) * p + (v % p) /\ v % p \in 0 .. p - 1
      BY Divided
    <3>3. x * p = p * q + f * p /\ f * p \in Nat /\ p * q \in Nat
      BY <3>1
    <3>4. PICK r \in Nat, y \in Nat, z \in Nat, u \in Nat :
            r = v % p /\ y = x * p /\ z = p * q /\ u = f * p
      <4>1. v % p \in Nat
        BY <3>2
      <4> QED
        BY <3>3, <4>1
    <3>5. v = y + r /\ y = z + u /\ v < z
      BY <2>5, <3>2, <3>3, <3>4, Zenon
    <3> QED
      BY <3>5
  <2> QED
    BY <2>4, <2>6
<1>8. x % Pow[1 * m] = x
  <2>1. 1 * m = m /\ Pow[m] \in Nat \ {0}
    BY PowFacts
  <2>2. PICK p \in Nat \ {0} : p = Pow[m]
    BY <2>1
  <2>3. x % p = x
    BY <1>7, <2>2
  <2> QED
    BY <2>1, <2>2, <2>3
<1> QED
  BY <1>1, <1>4, <1>6, <1>8, Zenon

\* What a block of bytes says of itself: the width of its body, the number of
\* its exceptions, their width and mode, and the bytes they take.
BitsOf(s) == s[1]
CountOf(s) == s[2]
HighWidthOf(s) == s[3] % 128
ModeOf(s) == s[3] \div 128
PositionsOf(s) == PositionBytes(CountOf(s), ModeOf(s))
ExcBytesOf(s) == ExcBytes(CountOf(s), HighWidthOf(s), ModeOf(s))
PlacesOf(s) == Positions(s, CountOf(s), ModeOf(s))

\* Its body.
BodyOf(s) ==
  SubSeq(s, 3 + ExcBytesOf(s), 2 + ExcBytesOf(s) + BodyBytes(BitsOf(s)))

\* Bit k of its high bits, and exception e.
HighBitOf(s, k) == Bit(s[4 + PositionsOf(s) + k \div 8], k % 8)
HighOf(s, e) ==
  Value([j \in 0 .. HighWidthOf(s) - 1 |->
           IF j \in Moved(e, CountOf(s), HighWidthOf(s))
             THEN HighBitOf(s, e * HighWidthOf(s) + j) ELSE 0],
        HighWidthOf(s), 1)

\* The samples of the body, each with the exception that is at its place.
Patched(s, packed) ==
  LET patch == [i \in ToSet(PlacesOf(s)) |->
                  CHOOSE e \in 0 .. CountOf(s) - 1 : PlacesOf(s)[e + 1] = i]
  IN  [i \in 1 .. Block |->
         IF i - 1 \in DOMAIN patch
           THEN packed[i] + HighOf(s, patch[i - 1]) * Power[BitsOf(s)]
           ELSE packed[i]]

\* The exceptions are not those of a block.
BadExceptions(s, w) ==
  \/ Len(s) < 3
  \/ HighWidthOf(s) = 0 \/ BitsOf(s) + HighWidthOf(s) > Bits(w)
  \/ Len(s) < 2 + ExcBytesOf(s)
  \/ ~Counted(PlacesOf(s), CountOf(s))

\* The bytes are not a block.
Bad(s, w) ==
  \/ Len(s) < 2
  \/ BitsOf(s) > Bits(w)
  \/ CountOf(s) # 0 /\ BadExceptions(s, w)
  \/ Len(s) < 2 + ExcBytesOf(s) + BodyBytes(BitsOf(s))
  \/ CountOf(s) # 0 /\ ~Ascending(PlacesOf(s), ModeOf(s))

\* The samples of a block.
SamplesOf(s, w) ==
  LET packed == Unpack(BodyOf(s), w, BitsOf(s))
  IN  IF CountOf(s) = 0 THEN packed ELSE Patched(s, packed)

\* A block is decoded by what it says.
LEMMA DecodeDoes ==
  ASSUME NEW s, NEW w
  PROVE  DecodeBlock(s, w)
           = IF Bad(s, w) THEN Refused
             ELSE [used |-> 2 + ExcBytesOf(s) + BodyBytes(BitsOf(s)),
                   out |-> SamplesOf(s, w)]
BY DEF DecodeBlock, Bad, BadExceptions, ExcBytesOf, ExcBytes, SamplesOf,
  Patched, HighOf, HighBitOf, BodyOf, PlacesOf, PositionsOf, ModeOf,
  HighWidthOf, CountOf, BitsOf

\* Its places are those of P, as many as are counted.
Listed(s, P) == Lists(PlacesOf(s), P) /\ Len(PlacesOf(s)) = CountOf(s)

\* Sample i is patched if its place is in P.
PatchedAt(s, P, packed, i) ==
  /\ i - 1 \notin P => Patched(s, packed)[i] = packed[i]
  /\ i - 1 \in P =>
       \E e \in 0 .. CountOf(s) - 1 :
         /\ PlacesOf(s)[e + 1] = i - 1
         /\ Patched(s, packed)[i]
              = packed[i] + HighOf(s, e) * Power[BitsOf(s)]

\* Each exception is patched where it is listed.
LEMMA PatchedWhere ==
  ASSUME NEW s, NEW P, Listed(s, P), NEW packed, NEW i \in 1 .. 256
  PROVE  PatchedAt(s, P, packed, i)
<1> DEFINE patch == [k \in ToSet(PlacesOf(s)) |->
                       CHOOSE e \in 0 .. CountOf(s) - 1 :
                         PlacesOf(s)[e + 1] = k]
<1>1. Patched(s, packed)[i]
        = IF i - 1 \in DOMAIN patch
            THEN packed[i] + HighOf(s, patch[i - 1]) * Power[BitsOf(s)]
            ELSE packed[i]
  BY DEF Patched, Block
<1>2. PICK o : o = PlacesOf(s)
  OBVIOUS
<1>3. PICK n \in Nat : n = Len(o) /\ n = CountOf(s)
  BY <1>2 DEF Lists, Listed
<1>4. ToSet(o) = P
  <2>1. DOMAIN o = 1 .. Len(o)
    BY <1>2, LenProperties DEF Lists, Listed
  <2> QED
    BY <1>2, <2>1 DEF ToSet, Lists, Listed
<1>5. DOMAIN patch = P
  BY <1>2, <1>4
<1>6. ASSUME i - 1 \in P
      PROVE  patch[i - 1] \in 0 .. n - 1 /\ o[patch[i - 1] + 1] = i - 1
  <2>1. PICK k \in 1 .. n : o[k] = i - 1
    BY <1>2, <1>3, <1>6 DEF Lists, Listed
  <2>2. PICK j \in 0 .. n - 1 : k = j + 1
    <3>1. k - 1 \in 0 .. n - 1 /\ k = k - 1 + 1
      OBVIOUS
    <3> QED
      BY <3>1
  <2>3. \E e \in 0 .. n - 1 : o[e + 1] = i - 1
    BY <2>1, <2>2
  <2>4. patch[i - 1] = CHOOSE e \in 0 .. n - 1 : o[e + 1] = i - 1
    BY <1>2, <1>3, <1>4, <1>6
  <2> HIDE DEF patch
  <2> QED
    BY <2>3, <2>4
<1> HIDE DEF patch
<1>7. i - 1 \notin P => Patched(s, packed)[i] = packed[i]
  BY <1>1, <1>5, Zenon
<1>8. ASSUME i - 1 \in P
      PROVE  \E e \in 0 .. CountOf(s) - 1 :
               /\ PlacesOf(s)[e + 1] = i - 1
               /\ Patched(s, packed)[i]
                    = packed[i] + HighOf(s, e) * Power[BitsOf(s)]
  BY <1>1, <1>2, <1>3, <1>5, <1>6, <1>8, Zenon
<1> QED
  BY <1>7, <1>8 DEF PatchedAt

\* What is chosen are numbers.
LEMMA SelectsNumbers ==
  ASSUME NEW w \in Widths, NEW widths, NEW sel, Selects(sel, widths, w)
  PROVE  /\ sel.bits \in Nat /\ sel.nexc \in Nat /\ sel.eb \in Nat
         /\ sel.bits \in 0 .. 8 * w /\ sel.eb \in 0 .. 8 * w
<1>1. sel.bits \in 0 .. 8 * w /\ sel.nexc \in 0 .. 255
      /\ sel.eb \in 0 .. 8 * w
  BY DEF Selects
<1>2. PICK c \in Nat : c = 8 * w
  BY Shape
<1>3. sel.bits \in 0 .. c /\ sel.eb \in 0 .. c
  BY <1>1, <1>2
<1> QED
  BY <1>1, <1>3

\* What is encoded says what it is.
LEMMA EncodedSays ==
  ASSUME NEW w \in Widths, NEW src, NEW widths, NEW sel,
         Selects(sel, widths, w), NEW s, Encodes(s, src, sel, widths, w)
  PROVE  /\ BitsOf(s) = sel.bits /\ CountOf(s) = sel.nexc
         /\ sel.nexc # 0 => /\ HighWidthOf(s) = sel.eb /\ ModeOf(s) = sel.mode
                            /\ PositionsOf(s)
                                 = PositionBytes(sel.nexc, sel.mode)
         /\ ExcBytesOf(s) = ExcBytes(sel.nexc, sel.eb, sel.mode)
<1>1. BitsOf(s) = sel.bits /\ CountOf(s) = sel.nexc
  BY DEF Encodes, BitsOf, CountOf
<1>2. ASSUME sel.nexc # 0
      PROVE  HighWidthOf(s) = sel.eb /\ ModeOf(s) = sel.mode
  <2>1. PICK exc : exc = ExcBytes(sel.nexc, sel.eb, sel.mode)
    OBVIOUS
  <2>2. PICK x : /\ Excepts(x, src, sel, widths) /\ Len(x) = exc
                 /\ \A k \in 1 .. exc : s[2 + k] = x[k]
    BY <1>2, <2>1 DEF Encodes
  <2>3. PICK l \in Nat, h \in Nat :
          /\ l = PositionBytes(sel.nexc, sel.mode)
          /\ h = HighBytes(sel.nexc, sel.eb)
    <3>1. PICK n \in Nat, m \in Nat : n = sel.nexc /\ m = sel.eb
      <4>1. sel.nexc \in 0 .. 255 /\ sel.eb \in 0 .. 8 * w /\ 8 * w \in Nat
        BY Shape DEF Selects
      <4> QED
        BY <4>1
    <3>2. PositionBytes(n, sel.mode) \in Nat
      BY DEF PositionBytes, BitmapBytes, Block
    <3> QED
      BY <3>1, <3>2, HighBytesHold
  <2>4. exc = 1 + l + h
    BY <2>2, <2>3 DEF Excepts
  <2>5. s[2 + 1] = x[1] /\ 2 + 1 = 3
    BY <2>2, <2>4
  <2>6. s[3] = sel.eb + 128 * sel.mode
    BY <2>2, <2>5 DEF Excepts
  <2>7. PICK e \in 0 .. 64, m \in {0, 1} : e = sel.eb /\ m = sel.mode
    <3>1. w \in {1, 2, 4, 8}
      BY Shape
    <3>2. sel.eb \in 0 .. 8 * w /\ sel.mode \in {0, 1}
      BY DEF Selects, LIST, BITMAP
    <3>3. sel.eb \in 0 .. 64
      BY <3>1, <3>2
    <3> QED
      BY <3>2, <3>3
  <2>8. s[3] = e + 128 * m
    BY <2>6, <2>7
  <2>9. (e + 128 * m) % 128 = e /\ (e + 128 * m) \div 128 = m
    OBVIOUS
  <2> QED
    BY <2>7, <2>8, <2>9 DEF HighWidthOf, ModeOf
<1>3. ExcBytesOf(s) = ExcBytes(sel.nexc, sel.eb, sel.mode)
  <2>1. CASE sel.nexc = 0
    BY <1>1, <2>1 DEF ExcBytesOf, ExcBytes
  <2>2. CASE sel.nexc # 0
    BY <1>1, <1>2, <2>2 DEF ExcBytesOf
  <2> QED
    BY <2>1, <2>2
<1> QED
  BY <1>1, <1>2, <1>3 DEF PositionsOf

\* The body of what is encoded gives the low bits.
LEMMA EncodedBody ==
  ASSUME NEW w \in Widths, NEW src, IsBlock(src, w), NEW widths, NEW sel,
         Selects(sel, widths, w), NEW s \in Seq(0 .. 255),
         Encodes(s, src, sel, widths, w), Len(s) >= BlockBytes(sel)
  PROVE  Lows(Unpack(BodyOf(s), w, BitsOf(s)), src, sel.bits)
<1>1. PICK b \in Nat, x \in Nat :
        /\ b = sel.bits /\ b \in 0 .. 8 * w
        /\ x = ExcBytes(sel.nexc, sel.eb, sel.mode)
  <2>1. sel.bits \in 0 .. 8 * w
    BY SelectsNumbers
  <2>2. sel.bits \in Nat /\ sel.nexc \in Nat /\ sel.eb \in Nat
    BY SelectsNumbers
  <2>3. ExcBytes(sel.nexc, sel.eb, sel.mode) \in Nat
    BY <2>2, ExcBytesCount
  <2> QED
    BY <2>1, <2>2, <2>3
<1>2. BitsOf(s) = b /\ ExcBytesOf(s) = x
  BY <1>1, EncodedSays
<1>3. PICK from \in Nat, to \in Nat :
        from = 3 + x /\ to = 2 + x + 32 * b /\ to <= Len(s)
  BY <1>1 DEF BlockBytes
<1>4. PICK body : body = SubSeq(s, from, to)
  OBVIOUS
<1>5. BodyOf(s) = body
  <2>1. BodyBytes(b) = 32 * b
    BY BodyCounts
  <2> QED
    BY <1>2, <1>3, <1>4, <2>1 DEF BodyOf
<1>6. ASSUME NEW k \in 1 .. 32 * b PROVE body[k] = Pack(src, w, b)[k]
  <2>1. \A i \in from .. to : s[i] \in 0 .. 255
    <3>1. PICK n \in Nat : n = Len(s) /\ s \in [1 .. n -> 0 .. 255]
      BY LenProperties
    <3>2. \A i \in from .. to : i \in 1 .. n
      BY <1>3, <3>1
    <3> QED
      BY <3>1, <3>2
  <2>2. \A i \in 1 .. to - from + 1 : SubSeq(s, from, to)[i] = s[from + i - 1]
    BY <2>1, SubSeqProperties
  <2>3. k \in 1 .. to - from + 1 /\ from + k - 1 = 2 + x + k
    BY <1>3
  <2>4. body[k] = s[2 + x + k]
    BY <1>4, <2>2, <2>3
  <2> QED
    BY <1>1, <2>4 DEF Encodes
<1>7. src \in [1 .. Block -> Nat]
  BY <1>1, PackIsBytes
<1>8. Lows(Unpack(body, w, b), src, b)
  BY <1>1, <1>6, <1>7, BodyReturns
<1> QED
  BY <1>1, <1>2, <1>5, <1>8

\* Its exceptions are listed where they are.
LEMMA EncodedPlaces ==
  ASSUME NEW w \in Widths, NEW src, NEW widths, NEW sel,
         Selects(sel, widths, w), NEW s \in Seq(0 .. 255),
         Encodes(s, src, sel, widths, w), Len(s) >= BlockBytes(sel),
         sel.nexc # 0
  PROVE  /\ PlacesOf(s) = Where(sel, widths)
         /\ \A k \in 0 .. 8 * HighBytes(sel.nexc, sel.eb) - 1 :
              HighBitOf(s, k) = HighBit(src, sel, Where(sel, widths), k)
<1>1. PICK n \in Nat, m \in Nat, b \in Nat : n = sel.nexc /\ m = sel.eb
                                             /\ b = sel.bits
  BY SelectsNumbers
<1>2. PICK exc, x :
        /\ exc = ExcBytes(n, m, sel.mode)
        /\ Excepts(x, src, sel, widths) /\ Len(x) = exc
        /\ \A k \in 1 .. exc : s[2 + k] = x[k]
  BY <1>1 DEF Encodes
<1>3. PICK l \in Nat, h \in Nat :
        l = PositionBytes(n, sel.mode) /\ h = HighBytes(n, m)
  <2>1. PositionBytes(n, sel.mode) \in Nat
    BY DEF PositionBytes, BitmapBytes, Block
  <2> QED
    BY <2>1, HighBytesHold
<1>4. exc = 1 + l + h
  BY <1>1, <1>2, <1>3 DEF Excepts
<1>5. BitsOf(s) = b /\ CountOf(s) = n /\ HighWidthOf(s) = m
      /\ ModeOf(s) = sel.mode /\ PositionsOf(s) = l
  BY <1>1, <1>3, EncodedSays
<1>6. PlacesOf(s) = Where(sel, widths)
  <2>1. CASE sel.mode = LIST
    <3>1. l = n
      BY <1>3, <2>1 DEF PositionBytes, LIST, BITMAP
    <3>2. PICK o : /\ o = Where(sel, widths) /\ o \in Seq(0 .. 255)
                   /\ Len(o) = n
      BY <1>1, WhereLists
    <3>3. PICK p : p = SubSeq(s, 4, 3 + n)
      OBVIOUS
    <3>4. Len(s) >= 3 + n
      <4>1. Len(s) >= 2 + exc + 32 * b
        BY <1>1, <1>2 DEF BlockBytes
      <4>2. Len(s) \in Nat
        BY LenProperties
      <4> QED
        BY <1>4, <3>1, <4>1, <4>2
    <3>5. \A i \in 4 .. 3 + n : s[i] \in 0 .. 255
      <4>1. PICK t \in Nat : t = Len(s) /\ s \in [1 .. t -> 0 .. 255]
        BY LenProperties
      <4>2. \A i \in 4 .. 3 + n : i \in 1 .. t
        BY <3>4, <4>1
      <4> QED
        BY <4>1, <4>2
    <3>6. /\ p \in Seq(0 .. 255) /\ Len(p) = n
          /\ \A i \in 1 .. n : p[i] = s[4 + i - 1]
      <4>1. 4 \in Int /\ 3 + n \in Int /\ 3 + n - 4 + 1 = n
            /\ (IF 4 <= 3 + n THEN n ELSE 0) = n
        OBVIOUS
      <4> QED
        BY <3>3, <3>5, <4>1, SubSeqProperties
    <3>7. ASSUME NEW i \in 1 .. n PROVE p[i] = o[i]
      <4>1. PICK k \in 1 .. exc : k = 1 + i /\ 4 + i - 1 = 2 + k
        BY <1>4, <3>1
      <4>2. x[1 + i] = o[i]
        BY <1>1, <1>2, <2>1, <3>2 DEF Excepts
      <4> QED
        BY <1>2, <3>6, <4>1, <4>2
    <3>8. p = o
      BY <3>2, <3>6, <3>7
    <3> QED
      BY <1>5, <2>1, <3>2, <3>3, <3>8 DEF PlacesOf, Positions
  <2>2. CASE sel.mode = BITMAP
    <3>1. l = 32
      BY <1>3, <2>2 DEF PositionBytes, BitmapBytes, Block
    <3>2. PICK P : P = Outliers(widths, sel.bits) /\ P \subseteq 0 .. 255
      BY OutliersCounted
    <3>3. ASSUME NEW i \in 0 .. 255
          PROVE  Bit(s[4 + i \div 8], i % 8) = IF i \in P THEN 1 ELSE 0
      <4>1. PICK k \in 1 .. exc : k = 2 + i \div 8 /\ 2 + k = 4 + i \div 8
        BY <1>4, <3>1
      <4>2. s[4 + i \div 8] = x[2 + i \div 8]
        BY <1>2, <4>1
      <4>3. Bit(x[2 + i \div 8], i % 8) = IF i \in P THEN 1 ELSE 0
        BY <1>2, <2>2, <3>2 DEF Excepts
      <4> QED
        BY <4>2, <4>3, Zenon
    <3>4. {i \in 0 .. 255 : Bit(s[4 + i \div 8], i % 8) = 1} = P
      <4>1. ASSUME NEW i \in 0 .. 255
            PROVE  Bit(s[4 + i \div 8], i % 8) = 1 <=> i \in P
        <5>1. PICK y : y = Bit(s[4 + i \div 8], i % 8)
          OBVIOUS
        <5>2. y = IF i \in P THEN 1 ELSE 0
          BY <3>3, <5>1
        <5>3. y = 1 <=> i \in P
          BY <5>2
        <5> QED
          BY <5>1, <5>3, Zenon
      <4> QED
        BY <3>2, <4>1, Zenon
    <3>5. PlacesOf(s) = Ordered({i \in 0 .. 255 :
                                   Bit(s[4 + i \div 8], i % 8) = 1})
      <4>1. ModeOf(s) # LIST /\ Block - 1 = 255
        BY <1>5, <2>2 DEF LIST, BITMAP, Block
      <4> QED
        BY <4>1 DEF PlacesOf, Positions
    <3> QED
      BY <3>2, <3>4, <3>5 DEF Where
  <2> QED
    BY <2>1, <2>2 DEF Selects
<1>7. ASSUME NEW k \in 0 .. 8 * h - 1
      PROVE  HighBitOf(s, k) = HighBit(src, sel, Where(sel, widths), k)
  <2>1. PICK i \in 1 .. exc : i = 2 + l + k \div 8 /\ 2 + i = 4 + l + k \div 8
    BY <1>4
  <2>2. s[4 + l + k \div 8] = x[2 + l + k \div 8]
    BY <1>2, <2>1
  <2>3. Bit(x[2 + l + k \div 8], k % 8)
          = HighBit(src, sel, Where(sel, widths), k)
    BY <1>1, <1>2, <1>3 DEF Excepts
  <2> QED
    BY <1>5, <2>2, <2>3, Zenon DEF HighBitOf
<1> QED
  BY <1>1, <1>3, <1>6, <1>7

\* An exception is put together from what is encoded.
LEMMA EncodedHigh ==
  ASSUME NEW w \in Widths, NEW src, IsBlock(src, w), NEW widths, NEW sel,
         Selects(sel, widths, w), NEW s \in Seq(0 .. 255),
         Encodes(s, src, sel, widths, w), Len(s) >= BlockBytes(sel),
         sel.nexc # 0, NEW e, NEW i, IsException(src, widths, sel, e, i)
  PROVE  HighOf(s, e) = src[i] \div Pow[sel.bits]
<1>1. PICK n \in Nat, m \in Nat : n = sel.nexc /\ m = sel.eb
  BY SelectsNumbers
<1>2. CountOf(s) = n /\ HighWidthOf(s) = m
  BY <1>1, EncodedSays
<1>3. PICK d : d = [j \in 0 .. m - 1 |->
                      IF j \in Moved(e, n, m)
                        THEN HighBitOf(s, e * m + j) ELSE 0]
  OBVIOUS
<1>4. HighOf(s, e) = Value(d, m, 1)
  BY <1>2, <1>3 DEF HighOf
<1>5. HighBitsOf(d, src, sel, widths, e)
  <2> SUFFICES ASSUME NEW j \in 0 .. sel.eb - 1
               PROVE  d[j] = HighBit(src, sel, Where(sel, widths),
                                     e * sel.eb + j)
    BY DEF HighBitsOf
  <2>1. e \in 0 .. n - 1 /\ j \in 0 .. m - 1 /\ e \in Nat
    BY <1>1 DEF IsException
  <2>2. d[j] = HighBitOf(s, e * m + j)
    BY <1>3, <2>1, AllMoved
  <2>3. e * m + j \in 0 .. 8 * HighBytes(n, m) - 1
    BY <2>1, BitOfException
  <2>4. PICK k : k = e * m + j /\ k \in 0 .. 8 * HighBytes(n, m) - 1
    BY <2>3
  <2>5. HighBitOf(s, k) = HighBit(src, sel, Where(sel, widths), k)
    BY <1>1, <2>4, EncodedPlaces
  <2> QED
    BY <1>1, <2>2, <2>4, <2>5, Zenon
<1>7. Value(d, sel.eb, 1) = src[i] \div Pow[sel.bits]
  BY <1>5, HighReturns, SMTT(60)
<1> QED
  BY <1>1, <1>4, <1>7, Zenon

\* What is encoded is a block.
LEMMA EncodedIsGood ==
  ASSUME NEW w \in Widths, NEW src, IsBlock(src, w), NEW widths, NEW sel,
         Selects(sel, widths, w), NEW s \in Seq(0 .. 255),
         Encodes(s, src, sel, widths, w), Len(s) >= BlockBytes(sel)
  PROVE  /\ ~Bad(s, w)
         /\ 2 + ExcBytesOf(s) + BodyBytes(BitsOf(s)) = BlockBytes(sel)
<1>1. PICK b \in Nat, n \in Nat, m \in Nat :
        n = sel.nexc /\ m = sel.eb /\ b = sel.bits
  BY SelectsNumbers
<1>2. PICK x \in Nat, t \in Nat :
        /\ x = ExcBytes(sel.nexc, sel.eb, sel.mode) /\ t = Len(s)
        /\ t >= 2 + x + 32 * b /\ BlockBytes(sel) = 2 + x + 32 * b
  <2>1. ExcBytes(n, m, sel.mode) \in Nat
    BY ExcBytesCount
  <2>2. Len(s) \in Nat
    BY LenProperties
  <2> QED
    BY <1>1, <2>1, <2>2 DEF BlockBytes
<1>3. /\ BitsOf(s) = b /\ CountOf(s) = n /\ ExcBytesOf(s) = x
      /\ n # 0 => HighWidthOf(s) = m
      /\ BodyBytes(b) = 32 * b
  BY <1>1, <1>2, EncodedSays, BodyCounts, ZenonT(60)
<1>4. b <= Bits(w) /\ b + m <= Bits(w) /\ (n # 0 => m # 0)
  BY <1>1, SelectsNumbers, Shape DEF Selects
<1>5. ASSUME n # 0
      PROVE  /\ x >= 1 /\ Counted(PlacesOf(s), n)
             /\ Ascending(PlacesOf(s), ModeOf(s))
  <2>1. PlacesOf(s) = Where(sel, widths)
    BY <1>1, <1>5, EncodedPlaces, ZenonT(60)
  <2>2. PICK o : o = PlacesOf(s) /\ o \in Seq(Nat) /\ Len(o) = n /\ Ascends(o)
    BY <1>1, <2>1, WhereLists DEF Lists
  <2>3. \A e \in 2 .. Len(o) : o[e - 1] < o[e]
    <3> SUFFICES ASSUME NEW e \in 2 .. n PROVE o[e - 1] < o[e]
      BY <2>2
    <3>1. e - 1 \in 1 .. n /\ e \in 1 .. n /\ e - 1 < e
      OBVIOUS
    <3> QED
      BY <2>2, <3>1 DEF Ascends
  <2>4. x >= 1
    <3>1. PositionBytes(n, sel.mode) \in Nat
      BY DEF PositionBytes, BitmapBytes, Block
    <3>2. HighBytes(n, m) \in Nat
      BY HighBytesHold
    <3>3. x = 1 + PositionBytes(n, sel.mode) + HighBytes(n, m)
      BY <1>1, <1>2, <1>5 DEF ExcBytes
    <3> QED
      BY <3>1, <3>2, <3>3
  <2> QED
    BY <2>2, <2>3, <2>4 DEF Counted, Ascending
<1>6. ~Bad(s, w)
  <2>1. ~(t < 2) /\ ~(t < 2 + x + 32 * b) /\ ~(t < 2 + x)
    BY <1>2
  <2>2. ~(b > Bits(w)) /\ ~(b + m > Bits(w))
    <3>1. Bits(w) \in Nat
      BY Shape
    <3> QED
      BY <1>4, <3>1
  <2>3. n # 0 => ~(t < 3)
    BY <1>2, <1>5
  <2>4. n # 0 => ~BadExceptions(s, w)
    BY <1>2, <1>3, <1>4, <1>5, <2>1, <2>2, <2>3 DEF BadExceptions
  <2> QED
    BY <1>2, <1>3, <1>5, <2>1, <2>2, <2>4 DEF Bad
<1> QED
  BY <1>2, <1>3, <1>6

\* d is the block, and has taken so many bytes.
Restored(d, src, bytes) ==
  d.used = bytes /\ \A i \in 1 .. 256 : d.out[i] = src[i]

\* A block is decoded to what was encoded, whatever follows it.
LEMMA DecodeReturns ==
  ASSUME NEW w \in Widths, NEW src, IsBlock(src, w), NEW sel,
         sel = Select(WidthsOf(src)), NEW s \in Seq(0 .. 255),
         Encodes(s, src, sel, WidthsOf(src), w), Len(s) >= BlockBytes(sel)
  PROVE  Restored(DecodeBlock(s, w), src, BlockBytes(sel))
<1>1. PICK widths :
        /\ widths = WidthsOf(src) /\ Selects(sel, widths, w)
        /\ Encodes(s, src, sel, widths, w)
        /\ \A i \in 1 .. Block : src[i] < Pow[widths[i]]
  BY EncodeEncodes
<1>2. /\ DecodeBlock(s, w).used = BlockBytes(sel)
      /\ DecodeBlock(s, w).out = SamplesOf(s, w)
  BY <1>1, EncodedIsGood, DecodeDoes
<1>3. PICK b \in Nat, n \in Nat :
        n = sel.nexc /\ b = sel.bits /\ b \in 0 .. 8 * w
  BY <1>1, SelectsNumbers
<1>4. BitsOf(s) = b /\ CountOf(s) = n /\ Power[b] = Pow[b]
  BY <1>1, <1>3, EncodedSays, PowerFits
<1>5. PICK packed : packed = Unpack(BodyOf(s), w, BitsOf(s))
  OBVIOUS
<1>6. Lows(packed, src, b)
  BY <1>1, <1>3, <1>5, EncodedBody
<1>7. ASSUME NEW i \in 1 .. 256
      PROVE  src[i] \in Nat /\ widths[i] \in Nat /\ packed[i] = src[i] % Pow[b]
  <2>1. src[i] \in 0 .. Pow[8 * w] - 1
    BY DEF IsBlock
  <2>2. Width(src[i]) \in 0 .. 8 * w
    BY <2>1, WidthFits
  <2>3. widths[i] = Width(src[i])
    BY <1>1 DEF WidthsOf, Block
  <2>4. 8 * w \in Nat
    BY Shape
  <2>5. src[i] \in Nat
    BY <2>1
  <2>6. widths[i] \in Nat
    BY <2>2, <2>3, <2>4
  <2>7. packed[i] = src[i] % Pow[b]
    <3>2. \A k \in 1 .. 256 : packed[k] = src[k] % Pow[b]
      BY <1>6 DEF Lows
    <3> QED
      BY <3>2, Zenon
  <2> QED
    BY <2>5, <2>6, <2>7
<1>8. ASSUME NEW i \in 1 .. 256, i - 1 \notin Outliers(widths, b)
      PROVE  packed[i] = src[i]
  <2>1. widths[i] <= b
    <3>1. i - 1 \in 0 .. Block - 1 /\ i - 1 + 1 = i
      BY DEF Block
    <3>2. ~(widths[i - 1 + 1] > b)
      BY <1>8, <3>1 DEF Outliers
    <3>3. ~(widths[i] > b)
      BY <3>1, <3>2, Zenon
    <3>4. PICK k \in Nat : k = widths[i]
      BY <1>7
    <3> QED
      BY <3>3, <3>4
  <2>2. /\ Pow[widths[i]] <= Pow[b] /\ Pow[widths[i]] \in Nat
        /\ Pow[b] \in Nat \ {0}
    BY <1>7, <2>1, PowMonotone, PowFacts
  <2>3. src[i] < Pow[widths[i]]
    BY <1>1 DEF Block
  <2>4. PICK v \in Nat, p \in Nat \ {0} : v = src[i] /\ p = Pow[b] /\ v < p
    <3>1. PICK v \in Nat, p \in Nat \ {0}, q \in Nat :
            v = src[i] /\ p = Pow[b] /\ q = Pow[widths[i]] /\ v < q /\ q <= p
      BY <1>7, <2>2, <2>3
    <3>2. v < p
      BY <3>1
    <3> QED
      BY <3>1, <3>2, Zenon
  <2>6. v < p
    BY <2>4, Zenon
  <2>5. v % p = v
    BY <2>6
  <2> QED
    BY <1>7, <2>4, <2>5
<1>9. CASE n = 0
  <2>1. SamplesOf(s, w) = packed
    BY <1>4, <1>5, <1>9 DEF SamplesOf
  <2>2. Outliers(widths, b) = {}
    <3>1. IsFiniteSet(Outliers(widths, b))
          /\ Cardinality(Outliers(widths, b)) = 0
      BY <1>1, <1>3, <1>9, OutliersCounted DEF Selects
    <3> QED
      BY <3>1, FS_EmptySet
  <2> QED
    BY <1>2, <1>8, <2>1, <2>2 DEF Restored
<1>10. CASE n # 0
  <2>1. SamplesOf(s, w) = Patched(s, packed)
    BY <1>4, <1>5, <1>10 DEF SamplesOf
  <2>2. PICK P : P = Outliers(widths, b)
    OBVIOUS
  <2>3. PlacesOf(s) = Where(sel, widths)
    BY <1>1, <1>3, <1>10, EncodedPlaces, ZenonT(60)
  <2>4. Listed(s, P)
    BY <1>1, <1>3, <1>4, <2>2, <2>3, WhereLists DEF Listed
  <2>5. ASSUME NEW i \in 1 .. 256 PROVE Patched(s, packed)[i] = src[i]
    <3>3. PatchedAt(s, P, packed, i)
      BY <2>4, PatchedWhere
    <3>1. CASE i - 1 \notin P
      <4>1. Patched(s, packed)[i] = packed[i]
        BY <3>1, <3>3, Zenon DEF PatchedAt
      <4> QED
        BY <1>8, <2>2, <3>1, <4>1
    <3>2. CASE i - 1 \in P
      <4>1. PICK e \in 0 .. n - 1 :
              /\ Where(sel, widths)[e + 1] = i - 1
              /\ Patched(s, packed)[i] = packed[i] + HighOf(s, e) * Power[b]
        <5>1. \E e \in 0 .. CountOf(s) - 1 :
                /\ PlacesOf(s)[e + 1] = i - 1
                /\ Patched(s, packed)[i]
                     = packed[i] + HighOf(s, e) * Power[BitsOf(s)]
          BY <3>2, <3>3, Zenon DEF PatchedAt
        <5> QED
          BY <1>4, <2>3, <5>1, Zenon
      <4>2. HighOf(s, e) = src[i] \div Pow[b]
        <5>1. Fits(src, widths)
          BY <1>1, <1>7 DEF Fits, Block
        <5>2. IsException(src, widths, sel, e, i) /\ sel.nexc # 0
          BY <1>3, <1>10, <4>1, <5>1 DEF IsException
        <5>3. HighOf(s, e) = src[i] \div Pow[sel.bits]
          BY <1>1, <5>1, <5>2, EncodedHigh
        <5> QED
          BY <1>3, <5>3, Zenon
      <4>3. PICK v \in Nat, p \in Nat \ {0} : v = src[i] /\ p = Pow[b]
        BY <1>7, PowFacts
      <4>4. v \div p \in Nat /\ v % p \in Nat /\ v = (v \div p) * p + (v % p)
        BY Divided
      <4>5. PICK q \in Nat, r \in Nat : q = v \div p /\ r = v % p
        BY <4>4
      <4>6. v = q * p + r /\ q * p \in Nat
        BY <4>4, <4>5
      <4>7. r + q * p = v
        BY <4>6
      <4>8. packed[i] = r
        BY <1>7, <4>3, <4>5, Zenon
      <4>9. packed[i] + HighOf(s, e) * Power[b] = r + q * p
        BY <1>4, <4>2, <4>3, <4>5, <4>8, Zenon
      <4> QED
        BY <4>1, <4>3, <4>7, <4>9, Zenon
    <3> QED
      BY <3>1, <3>2
  <2> QED
    BY <1>2, <2>1, <2>5 DEF Restored
<1> QED
  BY <1>2, <1>9, <1>10, Zenon DEF Restored

-----------------------------------------------------------------------------
(* A block is read as it is laid out, whatever its bytes                   *)

\* Each place is above the one before it, so it is above all before it.
LEMMA AdjacentAscends ==
  ASSUME NEW o \in Seq(Nat), \A e \in 2 .. Len(o) : o[e - 1] < o[e]
  PROVE  Ascends(o)
<1>1. PICK n \in Nat : n = Len(o) /\ o \in [1 .. n -> Nat]
  BY LenProperties
<1>2. ASSUME NEW e \in 1 .. n, NEW f \in 1 .. n, e < f
      PROVE  o[e] < o[f]
  <2> DEFINE T == {g \in 1 .. n : e < g /\ ~(o[e] < o[g])}
  <2> SUFFICES ASSUME T # {} PROVE FALSE
    BY <1>2
  <2>1. T \subseteq Nat
    OBVIOUS
  <2>2. PICK g \in T : \A h \in T : g <= h
    BY <2>1, LeastNumber
  <2>3. g \in 2 .. n /\ g - 1 \in 1 .. n /\ g - 1 \notin T
    BY <2>2
  <2>4. o[g - 1] < o[g]
    BY <1>1, <2>3
  <2>5. o[g - 1] \in Nat /\ o[g] \in Nat /\ o[e] \in Nat
    BY <1>1, <2>3
  <2>6. g - 1 = e \/ o[e] < o[g - 1]
    BY <2>2, <2>3
  <2> QED
    BY <2>2, <2>4, <2>5, <2>6
<1> QED
  BY <1>1, <1>2 DEF Ascends

\* The bytes of a lane.
LaneByte(body, w, l, k) == body[16 * (k \div w) + l * w + (k % w) + 1]

\* Bytes hold numbers of the lanes.
LEMMA BytesHold ==
  ASSUME NEW w \in Widths, NEW n \in Nat, NEW body,
         \A k \in 1 .. 16 * n : body[k] \in 0 .. 255
  PROVE  \E U \in [0 .. Lanes(w) - 1 -> Nat] : Holds(body, 0, n, w, U)
<1>1. w \in {1, 2, 4, 8} /\ Lanes(w) \in Nat
  BY Shape
<1>2. PICK m \in Nat : m = w * n
  BY <1>1
<1>3. ASSUME NEW l \in 0 .. Lanes(w) - 1, NEW k \in 0 .. n - 1,
             NEW j \in 0 .. w - 1
      PROVE  /\ w * k + j \in 0 .. m - 1
             /\ LaneByte(body, w, l, w * k + j)
                  = body[0 + 16 * k + l * w + j + 1]
             /\ 0 + 16 * k + l * w + j + 1 \in 1 .. 16 * n
  <2>1. w \in Nat \ {0} /\ k \in Nat /\ l \in Nat
    BY <1>1
  <2>2. (k * w + j) \div w = k /\ (k * w + j) % w = j
    BY <2>1, Composed
  <2>3. k * w = w * k
    BY <2>1
  <2>4. PICK a \in Nat : a = w * k
    BY <2>1
  <2>5. (a + j) \div w = k /\ (a + j) % w = j
    BY <2>2, <2>3, <2>4
  <2>6. a + j \in 0 .. m - 1
    <3>1. CASE w = 1
      BY <1>2, <2>4, <3>1
    <3>2. CASE w = 2
      BY <1>2, <2>4, <3>2
    <3>3. CASE w = 4
      BY <1>2, <2>4, <3>3
    <3>4. CASE w = 8
      BY <1>2, <2>4, <3>4
    <3> QED
      BY <1>1, <3>1, <3>2, <3>3, <3>4
  <2>7. PICK x \in 0 .. 15, y \in Nat : y = l * w /\ x = y + j
    <3>1. l * w + j \in 0 .. 15
      BY ByteOfWord
    <3>2. l * w \in Nat
      BY <2>1
    <3> QED
      BY <3>1, <3>2
  <2>8. LaneByte(body, w, l, a + j) = body[16 * k + y + j + 1]
    BY <2>5, <2>7 DEF LaneByte
  <2>9. 0 + 16 * k + y + j + 1 = 16 * k + y + j + 1
        /\ 16 * k + y + j + 1 \in 1 .. 16 * n
    <3>1. x = y + j /\ x \in 0 .. 15 /\ k \in Nat /\ k <= n - 1 /\ j \in Nat
          /\ y \in Nat
      BY <2>1, <2>7
    <3>2. 16 * k + x + 1 \in 1 .. 16 * n
      BY <3>1
    <3>3. 16 * k + y + j + 1 = 16 * k + x + 1
          /\ 0 + 16 * k + y + j + 1 = 16 * k + y + j + 1
      BY <3>1
    <3> QED
      BY <3>2, <3>3, Zenon
  <2> QED
    BY <2>4, <2>6, <2>7, <2>8, <2>9, Zenon
<1> DEFINE Is(l, v) ==
             /\ v \in Nat
             /\ \A k \in 0 .. m - 1 :
                  LaneByte(body, w, l, k) = (v \div Pow[8 * k]) % Pow[8]
<1>4. ASSUME NEW l \in 0 .. Lanes(w) - 1 PROVE \E v : Is(l, v)
  <2>1. PICK d : d = [k \in 0 .. m - 1 |-> LaneByte(body, w, l, k)]
    OBVIOUS
  <2>2. Digits(d, m, 8)
    <3> SUFFICES ASSUME NEW k \in 0 .. m - 1
                 PROVE  d[k] \in 0 .. Pow[8] - 1
      BY DEF Digits
    <3>1. w \in Nat \ {0} /\ k \in Nat
      BY <1>1
    <3>2. PICK q \in Nat, r \in 0 .. w - 1 : q = k \div w /\ r = k % w
      BY <3>1, Divided
    <3>3. k = q * w + r /\ q * w = w * q
      BY <3>1, <3>2, Divided
    <3>4. q \in 0 .. n - 1
      <4>1. CASE w = 1
        BY <1>2, <3>3, <4>1
      <4>2. CASE w = 2
        BY <1>2, <3>3, <4>2
      <4>3. CASE w = 4
        BY <1>2, <3>3, <4>3
      <4>4. CASE w = 8
        BY <1>2, <3>3, <4>4
      <4> QED
        BY <1>1, <4>1, <4>2, <4>3, <4>4
    <3>5. LaneByte(body, w, l, w * q + r) = body[0 + 16 * q + l * w + r + 1]
          /\ 0 + 16 * q + l * w + r + 1 \in 1 .. 16 * n
      BY <1>3, <3>4
    <3>6. k = w * q + r
      BY <3>3, Zenon
    <3>7. LaneByte(body, w, l, k) \in 0 .. 255
      BY <3>5, <3>6, ZenonT(60)
    <3> QED
      BY <2>1, <3>7, ByteRange
  <2>3. 8 \in Nat
    OBVIOUS
  <2>4. PICK s : Sums(s, d, m, 8)
    BY <2>2, <2>3, SumsExist
  <2>5. \A k \in 0 .. m - 1 : (s[m] \div Pow[8 * k]) % Pow[8] = d[k]
    BY <2>2, <2>3, <2>4, SumsShow
  <2>6. s[m] \in Nat
    BY <2>4 DEF Sums
  <2>7. \A k \in 0 .. m - 1 : d[k] = LaneByte(body, w, l, k)
    BY <2>1
  <2> QED
    BY <2>5, <2>6, <2>7
<1> DEFINE U == [l \in 0 .. Lanes(w) - 1 |-> CHOOSE v : Is(l, v)]
<1>5. \A l \in 0 .. Lanes(w) - 1 : Is(l, U[l])
  <2> HIDE DEF Is
  <2> QED
    BY <1>4
<1>6. U \in [0 .. Lanes(w) - 1 -> Nat]
  <2>1. \A l \in 0 .. Lanes(w) - 1 : U[l] \in Nat
    <3> HIDE DEF U
    <3> QED
      BY <1>5
  <2> QED
    BY <2>1
<1> HIDE DEF U
<1>7. Holds(body, 0, n, w, U)
  <2> SUFFICES ASSUME NEW k \in 0 .. n - 1, NEW l \in 0 .. Lanes(w) - 1,
                      NEW j \in 0 .. w - 1
               PROVE  body[0 + 16 * k + l * w + j + 1]
                        = (U[l] \div Pow[8 * (w * k + j)]) % 256
    BY DEF Holds
  <2>1. PICK i : i = w * k + j
    OBVIOUS
  <2>2. /\ i \in 0 .. m - 1
        /\ LaneByte(body, w, l, i) = body[0 + 16 * k + l * w + j + 1]
    BY <1>3, <2>1, Zenon
  <2>3. LaneByte(body, w, l, i) = (U[l] \div Pow[8 * i]) % Pow[8]
    BY <1>5, <2>2
  <2> QED
    BY <2>1, <2>2, <2>3, ByteRange, Zenon
<1> QED
  BY <1>6, <1>7

\* Bit c of byte m of v is the number's.
ShowsBit(v, m, c) ==
  Bit((v \div Pow[8 * m]) % 256, c) = (v \div Pow[8 * m + c]) % Pow[1]

\* A bit of a byte of a number is the number's.
LEMMA BitOfNumber ==
  ASSUME NEW v \in Nat, NEW m \in Nat, NEW c \in 0 .. 7
  PROVE  ShowsBit(v, m, c)
<1>1. PICK a \in Nat : a = 8 * m
  OBVIOUS
<1>11. c \in Nat
  OBVIOUS
<1>2. PICK z \in Nat : z = v \div Pow[a]
  BY HighIsNat
<1>3. PICK y \in Nat : y = z % Pow[8]
  <2>1. 8 \in Nat
    OBVIOUS
  <2> QED
    BY <2>1, HighIsNat
<1>4. Bit(y, c) = (y \div Pow[c]) % Pow[1]
  <2>1. c \in 0 .. 8 * MaxWidth /\ 1 * c = c
    BY BitsFacts
  <2> QED
    BY <2>1, BitIs
<1>5. PICK e \in Nat, f \in Nat : f = 1 + e /\ 8 = c + f
  <2>1. 7 - c \in Nat /\ 1 + (7 - c) \in Nat /\ 8 = c + (1 + (7 - c))
    OBVIOUS
  <2> QED
    BY <2>1
<1>6. y \div Pow[c] = (z \div Pow[c]) % Pow[f]
  <2>1. (z % Pow[c + f]) \div Pow[c] = (z \div Pow[c]) % Pow[f]
    BY <1>11, HighOfLow
  <2> QED
    BY <1>3, <1>5, <2>1, Zenon
<1>7. PICK x \in Nat : x = z \div Pow[c]
  BY <1>11, HighIsNat
<1>8. (x % Pow[f]) % Pow[1] = x % Pow[1]
  <2>1. 1 \in Nat
    OBVIOUS
  <2>2. (x % Pow[1 + e]) % Pow[1] = x % Pow[1]
    BY <2>1, LowTwice
  <2> QED
    BY <1>5, <2>2, Zenon
<1>9. x = v \div Pow[a + c]
  <2>1. (v \div Pow[a]) \div Pow[c] = v \div Pow[a + c]
    BY <1>11, HighTwice
  <2> QED
    BY <1>2, <1>7, <2>1, Zenon
<1>10. Bit(y, c) = (v \div Pow[a + c]) % Pow[1]
  BY <1>4, <1>6, <1>7, <1>8, <1>9, Zenon
<1> QED
  BY <1>1, <1>2, <1>3, <1>10, ByteRange, Zenon DEF ShowsBit

\* The place of bit q of a lane.
LEMMA PlaceOfBit ==
  ASSUME NEW w \in Widths, NEW b \in Nat, NEW q \in Nat,
         q < (16 * w) * b
  PROVE  /\ q \div (8 * w) \in 0 .. 2 * b - 1
         /\ (q % (8 * w)) \div 8 \in 0 .. w - 1 /\ q % 8 \in 0 .. 7
         /\ 8 * (w * (q \div (8 * w)) + ((q % (8 * w)) \div 8)) + (q % 8) = q
<1>1. w \in {1, 2, 4, 8}
  BY Shape
<1>2. CASE w = 1
  <2>1. q < 16 * b
    BY <1>2
  <2>2. /\ q \div 8 \in 0 .. 2 * b - 1 /\ (q % 8) \div 8 = 0
        /\ q % 8 \in 0 .. 7 /\ 8 * (1 * (q \div 8) + 0) + (q % 8) = q
    BY <2>1
  <2> QED
    BY <1>2, <2>2
<1>3. CASE w = 2
  <2>1. q < 32 * b
    BY <1>3
  <2>2. /\ q \div 16 \in 0 .. 2 * b - 1 /\ (q % 16) \div 8 \in 0 .. 1
        /\ q % 8 \in 0 .. 7
        /\ 8 * (2 * (q \div 16) + ((q % 16) \div 8)) + (q % 8) = q
    BY <2>1
  <2> QED
    BY <1>3, <2>2
<1>4. CASE w = 4
  <2>1. q < 64 * b
    BY <1>4
  <2>2. /\ q \div 32 \in 0 .. 2 * b - 1 /\ (q % 32) \div 8 \in 0 .. 3
        /\ q % 8 \in 0 .. 7
        /\ 8 * (4 * (q \div 32) + ((q % 32) \div 8)) + (q % 8) = q
    BY <2>1
  <2> QED
    BY <1>4, <2>2
<1>5. CASE w = 8
  <2>1. q < 128 * b
    BY <1>5
  <2>2. /\ q \div 64 \in 0 .. 2 * b - 1 /\ (q % 64) \div 8 \in 0 .. 7
        /\ q % 8 \in 0 .. 7
        /\ 8 * (8 * (q \div 64) + ((q % 64) \div 8)) + (q % 8) = q
    BY <2>1
  <2> QED
    BY <1>5, <2>2
<1> QED
  BY <1>1, <1>2, <1>3, <1>4, <1>5

\* Bit k of slot t is a bit of the lane.
LEMMA BitBelow ==
  ASSUME NEW w \in Widths, NEW b \in Nat, NEW t \in 0 .. 16 * w - 1,
         NEW k \in 0 .. b - 1
  PROVE  t * b + k \in Nat /\ t * b + k < (16 * w) * b
<1>1. w \in {1, 2, 4, 8}
  BY Shape
<1>2. PICK n \in Nat : n = 16 * w /\ t <= n - 1 /\ t \in Nat
  BY <1>1
<1>3. PICK f \in Nat : n = t + 1 + f
  <2>1. n - t - 1 \in Nat /\ n = t + 1 + (n - t - 1)
    BY <1>2
  <2> QED
    BY <2>1
<1>4. n * b = t * b + b + f * b /\ f * b \in Nat /\ t * b \in Nat
  BY <1>2, <1>3
<1>5. PICK a \in Nat, y \in Nat, z \in Nat : a = t * b /\ y = n * b /\ z = f * b
  BY <1>4
<1>6. y = a + b + z
  BY <1>4, <1>5, Zenon
<1>7. a + k \in Nat /\ a + k < y
  BY <1>6
<1> QED
  BY <1>2, <1>5, <1>7, Zenon

\* Bit k of slot t of lane l, where the bytes have it.
LaneBit(body, w, b, t, l, k) ==
  LET q == t * b + k
  IN  Bit(body[(q \div Bits(w)) * 16 + l * w + ((q % Bits(w)) \div 8) + 1],
          q % 8)

\* The bit is one of number v.
LaneBitOf(v, body, w, b, t, l, k) ==
  LaneBit(body, w, b, t, l, k)
    = ((v \div Pow[t * b]) \div Pow[1 * k]) % Pow[1]

\* It is a bit of the lane's number.
LEMMA LaneBitIs ==
  ASSUME NEW w \in Widths, NEW b \in Nat, NEW body,
         NEW U \in [0 .. Lanes(w) - 1 -> Nat], Holds(body, 0, 2 * b, w, U),
         NEW t \in 0 .. 16 * w - 1, NEW l \in 0 .. Lanes(w) - 1,
         NEW k \in 0 .. b - 1
  PROVE  LaneBitOf(U[l], body, w, b, t, l, k)
<1>1. w \in {1, 2, 4, 8} /\ Bits(w) = 8 * w /\ Lanes(w) \in Nat
  BY Shape
<1>2. t \in Nat /\ k \in Nat /\ l \in Nat
  BY <1>1
<1>3. PICK a \in Nat, q \in Nat : a = t * b /\ q = t * b + k /\ q = a + k
  <2>1. PICK a \in Nat : a = t * b
    BY <1>2
  <2>2. a + k \in Nat
    BY <1>2
  <2> QED
    BY <2>1, <2>2, Zenon
<1>4. q < (16 * w) * b
  <2>1. t * b + k < (16 * w) * b
    BY BitBelow
  <2> QED
    BY <1>3, <2>1, Zenon
<1>5. PICK g \in 0 .. 2 * b - 1, j \in 0 .. w - 1, c \in 0 .. 7 :
        /\ g = q \div (8 * w) /\ j = (q % (8 * w)) \div 8 /\ c = q % 8
        /\ 8 * (w * g + j) + c = q
  <2>1. /\ q \div (8 * w) \in 0 .. 2 * b - 1
        /\ (q % (8 * w)) \div 8 \in 0 .. w - 1 /\ q % 8 \in 0 .. 7
        /\ 8 * (w * (q \div (8 * w)) + ((q % (8 * w)) \div 8)) + (q % 8) = q
    BY <1>4, PlaceOfBit, Zenon
  <2> QED
    BY <2>1, Zenon
<1>6. PICK m \in Nat : m = w * g + j /\ 8 * m + c = q
  <2>1. w * g + j \in Nat
    BY <1>1
  <2> QED
    BY <1>5, <2>1
<1>7. body[g * 16 + l * w + j + 1] = (U[l] \div Pow[8 * m]) % 256
  <2>1. body[0 + 16 * g + l * w + j + 1] =
          (U[l] \div Pow[8 * (w * g + j)]) % 256
    BY DEF Holds
  <2>2. 0 + 16 * g + l * w + j + 1 = g * 16 + l * w + j + 1
    <3>1. PICK y \in Nat : y = l * w
      BY <1>1, <1>2
    <3>2. 0 + 16 * g + y + j + 1 = g * 16 + y + j + 1
      OBVIOUS
    <3> QED
      BY <3>1, <3>2, Zenon
  <2> QED
    BY <1>6, <2>1, <2>2, Zenon
<1>8. LaneBit(body, w, b, t, l, k)
        = Bit(body[g * 16 + l * w + j + 1], c)
  BY <1>1, <1>3, <1>5, Zenon DEF LaneBit
<1>9. U[l] \in Nat
  OBVIOUS
<1>10. Bit((U[l] \div Pow[8 * m]) % 256, c) = (U[l] \div Pow[q]) % Pow[1]
  <2>1. PICK v \in Nat : v = U[l]
    BY <1>9
  <2>2. Bit((v \div Pow[8 * m]) % 256, c) = (v \div Pow[8 * m + c]) % Pow[1]
    <3>1. ShowsBit(v, m, c)
      BY BitOfNumber
    <3> QED
      BY <3>1, Zenon DEF ShowsBit
  <2> QED
    BY <1>6, <2>1, <2>2, Zenon
<1>11. (U[l] \div Pow[a]) \div Pow[k] = U[l] \div Pow[q]
  <2>1. (U[l] \div Pow[a]) \div Pow[k] = U[l] \div Pow[a + k]
    BY <1>2, <1>9, HighTwice, ZenonT(60)
  <2> QED
    BY <1>3, <2>1, Zenon
<1>12. 1 * k = k
  BY <1>2
<1> QED
  BY <1>3, <1>7, <1>8, <1>10, <1>11, <1>12, Zenon DEF LaneBitOf

\* The sample of the body at place i, as its bits are laid out.
LaneSample(body, w, b, i) ==
  Value([k \in 0 .. b - 1 |->
           LaneBit(body, w, b, i \div Lanes(w), i % Lanes(w), k)], b, 1)

\* The bytes of a body, and p has its samples.
IsBody(body, b) == \A k \in 1 .. 32 * b : body[k] \in 0 .. 255
Unpacked(p, body, w, b) ==
  /\ p \in Seq(Nat) /\ Len(p) = 256
  /\ \A i \in 0 .. 255 : p[i + 1] = LaneSample(body, w, b, i)

\* A body is unpacked as it is laid out, by either way.
LEMMA BodyAsLaidOut ==
  ASSUME NEW w \in Widths, NEW b \in 0 .. 8 * w, NEW body,
         IsBody(body, b), NEW p, p = Unpack(body, w, b)
  PROVE  Unpacked(p, body, w, b)
<1>1. w \in {1, 2, 4, 8} /\ Lanes(w) * w = 16 /\ Lanes(w) \in Nat
      /\ 8 * w <= 8 * MaxWidth
  BY Shape
<1>2. b \in Nat
  BY <1>1
<1>3. CASE b = 0
  <2>1. p = [i \in 1 .. 256 |-> 0]
    BY <1>3 DEF Unpack, Block
  <2>2. PICK q : q = [i \in 1 .. 256 |-> 0]
    OBVIOUS
  <2>3. q \in Seq(Nat) /\ Len(q) = 256 /\ \A i \in 1 .. 256 : q[i] = 0
    BY <2>2
  <2>4. ASSUME NEW i \in 0 .. 255 PROVE LaneSample(body, w, b, i) = 0
    <3>1. PICK d : d = [k \in 0 .. b - 1 |->
                          LaneBit(body, w, b, i \div Lanes(w), i % Lanes(w), k)]
      OBVIOUS
    <3>2. Value(d, 0, 1) = 0 % Pow[1 * 0]
      <4>1. 0 \in Nat /\ 1 \in Nat /\ 1 * 0 <= 8 * MaxWidth
            /\ \A k \in 0 .. 0 - 1 : d[k] = (0 \div Pow[1 * k]) % Pow[1]
        BY BitsFacts
      <4> QED
        BY <4>1, ValueOfNumber
    <3>3. 0 % Pow[1 * 0] = 0
      <4>1. 1 * 0 = 0 /\ 0 % 1 = 0
        OBVIOUS
      <4> QED
        BY <4>1, SmallPowers, Zenon
    <3> QED
      BY <1>3, <3>1, <3>2, <3>3, Zenon DEF LaneSample
  <2>5. ASSUME NEW i \in 0 .. 255 PROVE p[i + 1] = 0
    BY <2>1, <2>2, <2>3
  <2>6. p \in Seq(Nat) /\ Len(p) = 256
    BY <2>1, <2>2, <2>3, Zenon
  <2>7. ASSUME NEW i \in 0 .. 255 PROVE p[i + 1] = LaneSample(body, w, b, i)
    BY <2>4, <2>5
  <2> QED
    BY <2>6, <2>7, Zenon DEF Unpacked
<1>4. CASE b # 0
  <2>1. b \in 1 .. 8 * w /\ 2 * b \in Nat
    BY <1>2, <1>4
  <2>2. \A k \in 1 .. 16 * (2 * b) : body[k] \in 0 .. 255
    <3>1. 16 * (2 * b) = 32 * b
      BY <1>2
    <3> QED
      BY <3>1, Zenon DEF IsBody
  <2>3. PICK n \in Nat : n = 2 * b
    BY <2>1
  <2>4. PICK U \in [0 .. Lanes(w) - 1 -> Nat] : Holds(body, 0, n, w, U)
    BY <2>2, <2>3, BytesHold
  <2>5. Yields(p, w, b, U, 16 * w) /\ Holds(body, 0, 2 * b, w, U)
    BY <2>1, <2>3, <2>4, UnpackHolds
  <2>6. p \in Seq(Nat) /\ Len(p) = 256
    <3>1. (16 * w) * Lanes(w) = 256
      <4>1. (16 * w) * Lanes(w) = 16 * (Lanes(w) * w)
        BY <1>1
      <4> QED
        BY <1>1, <4>1
    <3> QED
      BY <2>5, <3>1 DEF Yields
  <2>7. ASSUME NEW i \in 0 .. 255 PROVE p[i + 1] = LaneSample(body, w, b, i)
    <3>1. PICK t \in 0 .. 16 * w - 1, l \in 0 .. Lanes(w) - 1 :
            /\ t = i \div Lanes(w) /\ l = i % Lanes(w)
            /\ i + 1 = t * Lanes(w) + l + 1
      BY SlotOfPlace, Zenon
    <3>2. p[i + 1] = (U[l] \div Pow[t * b]) % Pow[b]
      BY <2>5, <3>1, Zenon DEF Yields
    <3>3. PICK d : d = [k \in 0 .. b - 1 |-> LaneBit(body, w, b, t, l, k)]
      OBVIOUS
    <3>4. PICK a \in Nat : a = t * b
      BY <1>1, <1>2
    <3>5. PICK v \in Nat : v = U[l] \div Pow[a]
      <4>1. U[l] \in Nat
        OBVIOUS
      <4>2. U[l] \div Pow[a] \in Nat
        BY <4>1, HighIsNat
      <4> QED
        BY <4>2
    <3>6. ASSUME NEW k \in 0 .. b - 1
          PROVE  d[k] = (v \div Pow[1 * k]) % Pow[1]
      <4>1. LaneBit(body, w, b, t, l, k)
              = ((U[l] \div Pow[t * b]) \div Pow[1 * k]) % Pow[1]
        <5>1. LaneBitOf(U[l], body, w, b, t, l, k)
          BY <1>2, <2>5, LaneBitIs
        <5> QED
          BY <5>1, Zenon DEF LaneBitOf
      <4>2. d[k] = LaneBit(body, w, b, t, l, k)
        BY <3>3
      <4> QED
        BY <3>4, <3>5, <4>1, <4>2, Zenon
    <3>7. Value(d, b, 1) = v % Pow[1 * b]
      <4>1. 1 \in Nat /\ 1 * b <= 8 * MaxWidth
        BY <1>1, <1>2, BitsFacts
      <4> QED
        BY <1>2, <3>6, <4>1, ValueOfNumber
    <3>8. 1 * b = b
      BY <1>2
    <3> QED
      BY <3>1, <3>2, <3>3, <3>4, <3>5, <3>7, <3>8, Zenon DEF LaneSample
  <2> QED
    BY <2>6, <2>7, Zenon DEF Unpacked
<1> QED
  BY <1>3, <1>4

\* The byte of a bit is in the body.
LEMMA ByteInBody ==
  ASSUME NEW w \in Widths, NEW b \in Nat, NEW t \in 0 .. 16 * w - 1,
         NEW l \in 0 .. Lanes(w) - 1, NEW k \in 0 .. b - 1, NEW q,
         q = t * b + k
  PROVE  (q \div Bits(w)) * 16 + l * w + ((q % Bits(w)) \div 8) + 1
           \in 1 .. 32 * b
<1>1. w \in {1, 2, 4, 8} /\ Bits(w) = 8 * w /\ Lanes(w) \in Nat
  BY Shape
<1>2. q \in Nat /\ q < (16 * w) * b
  BY BitBelow
<1>3. PICK g \in 0 .. 2 * b - 1, j \in 0 .. w - 1 :
        g = q \div (8 * w) /\ j = (q % (8 * w)) \div 8
  <2>1. /\ q \div (8 * w) \in 0 .. 2 * b - 1
        /\ (q % (8 * w)) \div 8 \in 0 .. w - 1
    BY <1>2, PlaceOfBit, Zenon
  <2> QED
    BY <2>1, Zenon
<1>4. PICK x \in 0 .. 15 : x = l * w + j
  BY ByteOfWord
<1>5. PICK y \in Nat : y = l * w
  BY <1>1
<1>6. g * 16 + y + j + 1 \in 1 .. 32 * b
  <2>1. x = y + j
    BY <1>4, <1>5, Zenon
  <2>2. g \in Nat /\ g <= 2 * b - 1 /\ j \in Nat
    BY <1>1
  <2>3. g * 16 + y + j + 1 = g * 16 + x + 1
    BY <2>1, <2>2
  <2>4. g * 16 + x + 1 \in 1 .. 32 * b
    BY <2>2
  <2> QED
    BY <2>3, <2>4, Zenon
<1> QED
  BY <1>1, <1>3, <1>5, <1>6, Zenon

\* What a block says that is accepted.
Says(s, w) ==
  /\ BitsOf(s) \in 0 .. 8 * w /\ CountOf(s) \in 0 .. 255
  /\ ExcBytesOf(s) \in Nat
  /\ 2 + ExcBytesOf(s) + 32 * BitsOf(s) <= Len(s)
  /\ CountOf(s) # 0 =>
       /\ s[3] \in 0 .. 255
       /\ HighWidthOf(s) \in 0 .. 8 * w /\ PositionsOf(s) \in Nat
       /\ ExcBytesOf(s)
            = 1 + PositionsOf(s) + HighBytes(CountOf(s), HighWidthOf(s))
       /\ HighBytes(CountOf(s), HighWidthOf(s)) \in Nat
       /\ Len(PlacesOf(s)) = CountOf(s)
       /\ Ascending(PlacesOf(s), ModeOf(s))

\* It says so.
LEMMA GoodSays ==
  ASSUME NEW w \in Widths, NEW s \in Seq(0 .. 255), ~Bad(s, w)
  PROVE  Says(s, w)
<1>1. w \in {1, 2, 4, 8} /\ Bits(w) = 8 * w
  BY Shape
<1>2. PICK t \in Nat : t = Len(s) /\ s \in [1 .. t -> 0 .. 255]
  BY LenProperties
<1>3. t >= 2 /\ ~(BitsOf(s) > 8 * w)
  BY <1>1, <1>2 DEF Bad
<1>4. PICK b \in 0 .. 255, n \in 0 .. 255 : b = BitsOf(s) /\ n = CountOf(s)
  <2>1. 1 \in 1 .. t /\ 2 \in 1 .. t
    BY <1>3
  <2> QED
    BY <1>2, <2>1 DEF BitsOf, CountOf
<1>5. b \in 0 .. 8 * w /\ b \in Nat /\ n \in Nat
  <2>1. ~(b > 8 * w)
    BY <1>3, <1>4, Zenon
  <2> QED
    BY <1>1, <2>1
<1>6. ASSUME n # 0
      PROVE  /\ s[3] \in 0 .. 255
             /\ HighWidthOf(s) \in 0 .. 8 * w /\ PositionsOf(s) \in Nat
             /\ ExcBytesOf(s) =
                  1 + PositionsOf(s) + HighBytes(n, HighWidthOf(s))
             /\ HighBytes(n, HighWidthOf(s)) \in Nat
             /\ Len(PlacesOf(s)) = n /\ Ascending(PlacesOf(s), ModeOf(s))
  <2>1. ~BadExceptions(s, w) /\ Ascending(PlacesOf(s), ModeOf(s))
    BY <1>4, <1>6 DEF Bad
  <2>2. t >= 3 /\ ~(BitsOf(s) + HighWidthOf(s) > 8 * w)
        /\ Len(PlacesOf(s)) = n
    BY <1>1, <1>2, <1>4, <2>1 DEF BadExceptions, Counted
  <2>3. s[3] \in 0 .. 255
    <3>1. 3 \in 1 .. t
      BY <2>2
    <3> QED
      BY <1>2, <3>1
  <2>4. PICK y \in 0 .. 255, eb \in 0 .. 127 : y = s[3] /\ eb = y % 128
    BY <2>3
  <2>5. HighWidthOf(s) = eb
    BY <2>4 DEF HighWidthOf
  <2>6. eb \in 0 .. 8 * w /\ eb \in Nat
    BY <1>1, <1>4, <1>5, <2>2, <2>5
  <2>7. PositionsOf(s) \in Nat
    BY <1>4, <1>5 DEF PositionsOf, PositionBytes, BitmapBytes, Block
  <2>8. HighBytes(n, eb) \in Nat
    BY <1>5, <2>6, HighBytesHold
  <2>9. ExcBytesOf(s) = 1 + PositionsOf(s) + HighBytes(n, HighWidthOf(s))
    BY <1>4, <1>6 DEF ExcBytesOf, ExcBytes, PositionsOf
  <2> QED
    BY <2>1, <2>2, <2>3, <2>5, <2>6, <2>7, <2>8, <2>9
<1>7. ExcBytesOf(s) \in Nat
  <2>1. CASE n = 0
    BY <1>4, <2>1 DEF ExcBytesOf, ExcBytes
  <2>2. CASE n # 0
    BY <1>6, <2>2
  <2> QED
    BY <2>1, <2>2
<1>8. 2 + ExcBytesOf(s) + 32 * BitsOf(s) <= Len(s)
  <2>1. BodyBytes(b) = 32 * b
    BY <1>5, BodyCounts
  <2>2. ~(Len(s) < 2 + ExcBytesOf(s) + BodyBytes(BitsOf(s)))
    BY DEF Bad
  <2> QED
    BY <1>2, <1>4, <1>5, <1>7, <2>1, <2>2
<1> QED
  BY <1>4, <1>5, <1>6, <1>7, <1>8 DEF Says

\* The places that spec.md gives the exceptions.
ExceptionsOf(s) ==
  IF s[3] >= 128 THEN {s[k] : k \in 4 .. 3 + CountOf(s)}
  ELSE {p \in 0 .. 255 : Bit(s[4 + p \div 8], p % 8) = 1}

\* They are listed in ascending order.
LEMMA PlacesListed ==
  ASSUME NEW w \in Widths, NEW s \in Seq(0 .. 255), Says(s, w),
         CountOf(s) # 0
  PROVE  Listed(s, ExceptionsOf(s))
<1>1. PICK n \in Nat : n = CountOf(s) /\ Len(PlacesOf(s)) = n
  BY DEF Says
<1>2. PICK y \in 0 .. 255 : y = s[3] /\ ModeOf(s) = y \div 128
  BY DEF Says, ModeOf
<1>3. CASE y >= 128
  <2>1. ModeOf(s) = LIST
    <3>1. y \div 128 = 1
      BY <1>3
    <3> QED
      BY <1>2, <3>1 DEF LIST
  <2>2. PICK o : o = PlacesOf(s) /\ o = SubSeq(s, 4, 3 + n)
    BY <1>1, <2>1 DEF PlacesOf, Positions
  <2>3. PICK t \in Nat : /\ t = Len(s) /\ s \in [1 .. t -> 0 .. 255]
                         /\ 3 + n <= t
    <3>1. PICK t \in Nat : t = Len(s) /\ s \in [1 .. t -> 0 .. 255]
      BY LenProperties
    <3>2. PositionsOf(s) = n
      BY <1>1, <2>1 DEF PositionsOf, PositionBytes, LIST, BITMAP
    <3>3. PICK x \in Nat, h \in Nat, b \in Nat :
            x = 1 + n + h /\ 2 + x + 32 * b <= t
      <4>1. BitsOf(s) \in Nat
        <5>1. w \in {1, 2, 4, 8}
          BY Shape
        <5> QED
          BY <5>1 DEF Says
      <4> QED
        BY <3>1, <3>2, <4>1 DEF Says
    <3>4. 3 + n <= t
      BY <3>3
    <3> QED
      BY <3>1, <3>4
  <2>4. /\ o \in Seq(0 .. 255) /\ \A i \in 1 .. n : o[i] = s[4 + i - 1]
    <3>1. \A i \in 4 .. 3 + n : s[i] \in 0 .. 255
      <4>1. \A i \in 4 .. 3 + n : i \in 1 .. t
        BY <2>3
      <4> QED
        BY <2>3, <4>1
    <3>2. 4 \in Int /\ 3 + n \in Int /\ 3 + n - 4 + 1 = n
      OBVIOUS
    <3> QED
      BY <2>2, <3>1, <3>2, SubSeqProperties
  <2>5. Len(o) = n /\ \A e \in 1 .. n : o[e] \in 0 .. 255
    <3>1. Len(o) = n
      BY <1>1, <2>2
    <3>2. o \in [1 .. Len(o) -> 0 .. 255]
      BY <2>4, LenProperties
    <3> QED
      BY <3>1, <3>2
  <2>6. o \in Seq(Nat)
    <3>1. o = [k \in 1 .. n |-> o[k]]
      BY <2>4, <2>5
    <3>2. PICK q : q = [k \in 1 .. n |-> o[k]]
      OBVIOUS
    <3>3. q \in Seq(Nat)
      <4>1. 0 .. 255 \subseteq Nat
        OBVIOUS
      <4>2. \A k \in 1 .. n : o[k] \in Nat
        BY <2>5, <4>1, Zenon
      <4> QED
        BY <3>2, <4>2
    <3> QED
      BY <3>1, <3>2, <3>3, Zenon
  <2>7. Ascends(o)
    <3>1. \A e \in 2 .. Len(o) : o[e - 1] < o[e]
      BY <1>1, <2>1, <2>2 DEF Says, Ascending
    <3> QED
      BY <2>6, <3>1, AdjacentAscends
  <2>8. ASSUME NEW i
        PROVE  i \in ExceptionsOf(s) <=> \E e \in 1 .. n : o[e] = i
    <3>1. ExceptionsOf(s) = {s[k] : k \in 4 .. 3 + n}
      BY <1>1, <1>2, <1>3 DEF ExceptionsOf
    <3>2. ASSUME NEW k \in 4 .. 3 + n
          PROVE  \E e \in 1 .. n : o[e] = s[k]
      <4>1. PICK e \in 1 .. n : e = k - 3 /\ k = 4 + e - 1
        OBVIOUS
      <4> QED
        BY <2>4, <4>1
    <3>3. ASSUME NEW e \in 1 .. n
          PROVE  \E k \in 4 .. 3 + n : o[e] = s[k]
      <4>1. PICK k \in 4 .. 3 + n : k = 4 + e - 1
        OBVIOUS
      <4> QED
        BY <2>4, <4>1
    <3> QED
      BY <3>1, <3>2, <3>3, ZenonT(60)
  <2> QED
    BY <1>1, <2>2, <2>5, <2>6, <2>7, <2>8 DEF Listed, Lists
<1>4. CASE ~(y >= 128)
  <2>1. ModeOf(s) # LIST
    BY <1>2, <1>4 DEF LIST
  <2>2. PlacesOf(s) = Ordered({i \in 0 .. 255 :
                                 Bit(s[4 + i \div 8], i % 8) = 1})
    <3>1. Block - 1 = 255
      BY DEF Block
    <3> QED
      BY <2>1, <3>1 DEF PlacesOf, Positions
  <2>3. ExceptionsOf(s) = {p \in 0 .. 255 : Bit(s[4 + p \div 8], p % 8) = 1}
    BY <1>2, <1>4 DEF ExceptionsOf
  <2>4. PICK P : P = ExceptionsOf(s) /\ P \subseteq 0 .. 255
    BY <2>3
  <2>5. Lists(Ordered(P), P)
    BY <2>4, OrderedLists
  <2> QED
    BY <1>1, <2>2, <2>3, <2>4, <2>5 DEF Listed
<1> QED
  BY <1>3, <1>4

\* Parts of what spec.md gives a block: bit k of the low bits of sample i, the
\* places of its exceptions, bit k of the exception of sample i.
LaidBit(blk, w, i, k) ==
  LET q == (i \div Lanes(w)) * blk[1] + k
  IN  Bit(blk[Len(blk) - 32 * blk[1] + (q \div Bits(w)) * 16
                + (i % Lanes(w)) * w + ((q % Bits(w)) \div 8) + 1], q % 8)
LaidLow(blk, w, i) ==
  Value([k \in 0 .. blk[1] - 1 |-> LaidBit(blk, w, i, k)], blk[1], 1)
LaidExceptions(blk) ==
  IF blk[2] = 0 THEN {}
  ELSE IF blk[3] >= 128 THEN {blk[k] : k \in 4 .. 3 + blk[2]}
       ELSE {p \in 0 .. 255 : Bit(blk[4 + p \div 8], p % 8) = 1}
LaidFirst(blk, i) ==
  8 * (Len(blk) - 32 * blk[1] - CeilDiv(blk[2] * (blk[3] % 128), 8))
    + (blk[3] % 128) * Cardinality({p \in LaidExceptions(blk) : p < i})
LaidHighBit(blk, i, k) ==
  Bit(blk[(LaidFirst(blk, i) + k) \div 8 + 1], (LaidFirst(blk, i) + k) % 8)
LaidHigh(blk, i) ==
  Value([k \in 0 .. (blk[3] % 128) - 1 |-> LaidHighBit(blk, i, k)],
        blk[3] % 128, 1)

\* They are its parts.
LEMMA LaidOutIs ==
  ASSUME NEW blk, NEW w, NEW i
  PROVE  LaidOut(blk, w, i)
           = LaidLow(blk, w, i)
               + IF i \in LaidExceptions(blk)
                   THEN Power[blk[1]] * LaidHigh(blk, i) ELSE 0
BY DEF LaidOut, LaidLow, LaidBit, LaidExceptions, LaidFirst, LaidHighBit,
  LaidHigh

\* The bytes that a block takes of a stream, and the block.
Taken(s) == 2 + ExcBytesOf(s) + 32 * BitsOf(s)
TakenBy(blk, s) ==
  /\ Len(blk) = Taken(s) /\ blk[1] = BitsOf(s) /\ blk[2] = CountOf(s)
  /\ \A k \in 1 .. Taken(s) : blk[k] = s[k] /\ s[k] \in 0 .. 255

\* A stream's first block is taken.
LEMMA BlockTaken ==
  ASSUME NEW w \in Widths, NEW s \in Seq(0 .. 255), Says(s, w)
  PROVE  /\ Taken(s) \in 2 .. Len(s)
         /\ TakenBy(SubSeq(s, 1, Taken(s)), s)
<1>1. PICK t \in Nat : t = Len(s) /\ s \in [1 .. t -> 0 .. 255]
  BY LenProperties
<1>2. PICK u \in Nat : u = Taken(s) /\ u >= 2 /\ u <= t
  <2>1. PICK b \in Nat, x \in Nat :
          b = BitsOf(s) /\ x = ExcBytesOf(s) /\ 2 + x + 32 * b <= t
    <3>1. w \in {1, 2, 4, 8}
      BY Shape
    <3> QED
      BY <1>1, <3>1 DEF Says
  <2>2. 2 + x + 32 * b \in Nat /\ 2 + x + 32 * b >= 2
    BY <2>1
  <2> QED
    BY <2>1, <2>2 DEF Taken
<1>3. PICK o : o = SubSeq(s, 1, u)
  OBVIOUS
<1>4. \A k \in 1 .. u : s[k] \in 0 .. 255
  <2>1. \A k \in 1 .. u : k \in 1 .. t
    BY <1>2
  <2> QED
    BY <1>1, <2>1
<1>5. Len(o) = u /\ \A k \in 1 .. u : o[k] = s[1 + k - 1]
  <2>1. 1 \in Int /\ u \in Int /\ u - 1 + 1 = u
    OBVIOUS
  <2> QED
    BY <1>3, <1>4, <2>1, SubSeqProperties
<1>6. \A k \in 1 .. u : o[k] = s[k]
  BY <1>5
<1>7. 1 \in 1 .. u /\ 2 \in 1 .. u
  BY <1>2
<1>8. TakenBy(o, s)
  BY <1>2, <1>4, <1>5, <1>6, <1>7, Zenon DEF TakenBy, BitsOf, CountOf
<1> QED
  BY <1>1, <1>2, <1>3, <1>8

\* The body of a block is where it is laid out.
LEMMA BodyTaken ==
  ASSUME NEW w \in Widths, NEW s \in Seq(0 .. 255), Says(s, w)
  PROVE  \A k \in 1 .. 32 * BitsOf(s) :
           /\ 2 + ExcBytesOf(s) + k \in 1 .. Taken(s)
           /\ BodyOf(s)[k] = s[2 + ExcBytesOf(s) + k]
           /\ BodyOf(s)[k] \in 0 .. 255
<1>1. PICK t \in Nat : t = Len(s) /\ s \in [1 .. t -> 0 .. 255]
  BY LenProperties
<1>2. PICK b \in Nat, x \in Nat :
        b = BitsOf(s) /\ x = ExcBytesOf(s) /\ 2 + x + 32 * b <= t
  <2>1. w \in {1, 2, 4, 8}
    BY Shape
  <2> QED
    BY <1>1, <2>1 DEF Says
<1>3. BodyBytes(b) = 32 * b
  BY <1>2, BodyCounts
<1>4. PICK f \in Nat, g \in Nat : f = 3 + x /\ g = 2 + x + 32 * b
  OBVIOUS
<1>5. BodyOf(s) = SubSeq(s, f, g)
  BY <1>2, <1>3, <1>4, Zenon DEF BodyOf
<1>6. \A k \in f .. g : s[k] \in 0 .. 255
  <2>1. \A k \in f .. g : k \in 1 .. t
    BY <1>2, <1>4, SMTT(40)
  <2> QED
    BY <1>1, <2>1
<1>7. PICK o : o = SubSeq(s, f, g)
  OBVIOUS
<1>8. \A k \in 1 .. g - f + 1 : o[k] = s[f + k - 1]
  <2>1. f \in Int /\ g \in Int
    OBVIOUS
  <2> QED
    BY <1>6, <1>7, <2>1, SubSeqProperties
<1>9. ASSUME NEW k \in 1 .. 32 * b
      PROVE  /\ 2 + x + k \in 1 .. 2 + x + 32 * b
             /\ o[k] = s[2 + x + k] /\ o[k] \in 0 .. 255
  <2>1. k \in 1 .. g - f + 1 /\ f + k - 1 = 2 + x + k /\ 2 + x + k \in f .. g
    BY <1>4
  <2>2. 2 + x + k \in 1 .. 2 + x + 32 * b
    OBVIOUS
  <2> QED
    BY <1>6, <1>8, <2>1, <2>2, Zenon
<1> QED
  BY <1>2, <1>5, <1>7, <1>9, Zenon DEF Taken

\* The low bits of each sample.
LEMMA LowLaidOut ==
  ASSUME NEW w \in Widths, NEW s \in Seq(0 .. 255), Says(s, w),
         NEW blk, TakenBy(blk, s), NEW i \in 0 .. 255
  PROVE  LaidLow(blk, w, i) = LaneSample(BodyOf(s), w, BitsOf(s), i)
<1>1. w \in {1, 2, 4, 8} /\ Bits(w) = 8 * w /\ Lanes(w) \in Nat \ {0}
      /\ Lanes(w) * w = 16
  BY Shape
<1>2. PICK b \in Nat, x \in Nat : b = BitsOf(s) /\ x = ExcBytesOf(s)
  BY <1>1 DEF Says
<1>3. PICK m \in Nat \ {0} : m = Lanes(w)
  BY <1>1
<1>4. PICK t \in 0 .. 16 * w - 1, l \in 0 .. m - 1 :
        t = i \div m /\ l = i % m
  <2>1. i \div m \in 0 .. 16 * w - 1 /\ i % m \in 0 .. m - 1
    <3>1. CASE w = 1
      BY <1>1, <1>3, <3>1 DEF Lanes, Group
    <3>2. CASE w = 2
      BY <1>1, <1>3, <3>2 DEF Lanes, Group
    <3>3. CASE w = 4
      BY <1>1, <1>3, <3>3 DEF Lanes, Group
    <3>4. CASE w = 8
      BY <1>1, <1>3, <3>4 DEF Lanes, Group
    <3> QED
      BY <1>1, <3>1, <3>2, <3>3, <3>4
  <2> QED
    BY <2>1
<1>5. Len(blk) = 2 + x + 32 * b /\ blk[1] = b
  BY <1>2, Zenon DEF TakenBy, Taken
<1>6. Len(blk) - 32 * blk[1] = 2 + x
  <2>1. PICK c \in Nat : c = 32 * b
    OBVIOUS
  <2>2. (2 + x + c) - c = 2 + x
    OBVIOUS
  <2>3. Len(blk) = 2 + x + c /\ 32 * blk[1] = c
    BY <1>5, <2>1, Zenon
  <2> QED
    BY <2>2, <2>3, Zenon
<1>7. ASSUME NEW k \in 0 .. b - 1
      PROVE  LaidBit(blk, w, i, k) = LaneBit(BodyOf(s), w, b, t, l, k)
  <2>1. PICK q : q = t * b + k
    OBVIOUS
  <2>2. (q \div Bits(w)) * 16 + l * w + ((q % Bits(w)) \div 8) + 1
          \in 1 .. 32 * b
    BY <1>2, <1>3, <2>1, ByteInBody
  <2>3. PICK g : g = (q \div Bits(w)) * 16 
    OBVIOUS
  <2>4. PICK y : y = l * w
    OBVIOUS
  <2>5. PICK z : z = (q % Bits(w)) \div 8
    OBVIOUS
  <2>6. g \in Nat /\ y \in Nat /\ z \in Nat
    <3>1. q \in Nat
      <4>1. t \in Nat /\ k \in Nat
        BY <1>1
      <4>2. t * b \in Nat
        BY <4>1
      <4> QED
        BY <2>1, <4>1, <4>2
    <3>2. q \div (8 * w) \in Nat /\ q % (8 * w) \in Nat
      BY <1>1, <3>1
    <3>3. (q % (8 * w)) \div 8 \in Nat
      BY <3>2
    <3>4. y \in Nat
      <4>1. l \in Nat /\ w \in Nat
        BY <1>1
      <4> QED
        BY <2>4, <4>1
    <3>5. PICK h \in Nat : h = q \div (8 * w)
      BY <3>2
    <3>6. h * 16 \in Nat
      OBVIOUS
    <3> QED
      BY <1>1, <2>3, <2>5, <3>3, <3>4, <3>5, <3>6, Zenon
  <2>7. g + y + z + 1 \in 1 .. 32 * b
    BY <2>2, <2>3, <2>4, <2>5, Zenon
  <2>8. PICK j \in 1 .. 32 * b : j = g + y + z + 1
    BY <2>7
  <2>9. 2 + x + g + y + z + 1 = 2 + x + j
    BY <2>6, <2>8
  <2>10. BodyOf(s)[j] = s[2 + x + j] /\ blk[2 + x + j] = s[2 + x + j]
    <3>1. /\ 2 + ExcBytesOf(s) + j \in 1 .. Taken(s)
          /\ BodyOf(s)[j] = s[2 + ExcBytesOf(s) + j]
      BY <1>2, <2>8, BodyTaken
    <3>2. blk[2 + ExcBytesOf(s) + j] = s[2 + ExcBytesOf(s) + j]
      BY <3>1, Zenon DEF TakenBy
    <3> QED
      BY <1>2, <3>1, <3>2, Zenon
  <2>11. LaidBit(blk, w, i, k) = Bit(blk[2 + x + g + y + z + 1], q % 8)
    BY <1>3, <1>4, <1>5, <1>6, <2>1, <2>3, <2>4, <2>5, Zenon DEF LaidBit
  <2>12. LaneBit(BodyOf(s), w, b, t, l, k) = Bit(BodyOf(s)[j], q % 8)
    BY <2>1, <2>3, <2>4, <2>5, <2>8, Zenon DEF LaneBit
  <2> QED
    BY <2>9, <2>10, <2>11, <2>12, Zenon
<1>8. PICK d, f : /\ d = [k \in 0 .. b - 1 |-> LaidBit(blk, w, i, k)]
                  /\ f = [k \in 0 .. b - 1 |->
                            LaneBit(BodyOf(s), w, b, t, l, k)]
  OBVIOUS
<1>9. d = f
  BY <1>7, <1>8, Zenon
<1>10. LaidLow(blk, w, i) = Value(d, b, 1)
  BY <1>5, <1>8, Zenon DEF LaidLow
<1>11. LaneSample(BodyOf(s), w, b, i) = Value(f, b, 1)
  BY <1>3, <1>4, <1>8, Zenon DEF LaneSample
<1> QED
  BY <1>2, <1>9, <1>10, <1>11, Zenon

\* What the exceptions of a block take.
LEMMA ExceptionsTaken ==
  ASSUME NEW w \in Widths, NEW s \in Seq(0 .. 255), Says(s, w),
         CountOf(s) # 0, NEW blk, TakenBy(blk, s)
  PROVE  /\ blk[3] = s[3] /\ s[3] \in 0 .. 255
         /\ \A k \in 1 .. PositionsOf(s) : blk[3 + k] = s[3 + k]
         /\ \A k \in 1 .. HighBytes(CountOf(s), HighWidthOf(s)) :
              /\ blk[3 + PositionsOf(s) + k] = s[3 + PositionsOf(s) + k]
              /\ s[3 + PositionsOf(s) + k] \in 0 .. 255
<1>1. PICK b \in Nat, x \in Nat, p \in Nat, h \in Nat :
        /\ b = BitsOf(s) /\ x = ExcBytesOf(s) /\ p = PositionsOf(s)
        /\ h = HighBytes(CountOf(s), HighWidthOf(s)) /\ x = 1 + p + h
  <2>1. w \in {1, 2, 4, 8}
    BY Shape
  <2> QED
    BY <2>1 DEF Says
<1>2. PICK u \in Nat : u = Taken(s) /\ u = 2 + x + 32 * b /\ u >= 3 + p + h
  <2>1. 2 + x + 32 * b \in Nat /\ 2 + x + 32 * b >= 3 + p + h
    <3>1. PICK c \in Nat : c = 32 * b
      OBVIOUS
    <3>2. x = 1 + p + h
      BY <1>1, Zenon
    <3>3. 2 + x + c \in Nat /\ 2 + x + c >= 3 + p + h
      BY <3>2
    <3> QED
      BY <3>1, <3>3, Zenon
  <2> QED
    BY <1>1, <2>1 DEF Taken
<1>3. \A k \in 1 .. u : blk[k] = s[k] /\ s[k] \in 0 .. 255
  BY <1>2 DEF TakenBy
<1>4. 3 \in 1 .. u
  BY <1>2
<1>5. \A k \in 1 .. p : 3 + k \in 1 .. u
  BY <1>2
<1>6. \A k \in 1 .. h : 3 + p + k \in 1 .. u
  BY <1>2
<1> QED
  BY <1>1, <1>3, <1>4, <1>5, <1>6, Zenon

\* The places of the exceptions.
LEMMA PlacesTaken ==
  ASSUME NEW w \in Widths, NEW s \in Seq(0 .. 255), Says(s, w),
         CountOf(s) # 0, NEW blk, TakenBy(blk, s)
  PROVE  LaidExceptions(blk) = ExceptionsOf(s)
<1>1. PICK n \in Nat \ {0} : n = CountOf(s) /\ blk[2] = n
  BY DEF Says, TakenBy
<1>2. blk[3] = s[3]
  BY ExceptionsTaken
<1>3. PICK y \in 0 .. 255 : y = s[3] /\ ModeOf(s) = y \div 128
  BY DEF Says, ModeOf
<1>4. CASE y >= 128
  <2>1. PositionsOf(s) = n
    <3>1. y \div 128 = 1
      BY <1>4
    <3> QED
      BY <1>1, <1>3, <3>1 DEF PositionsOf, PositionBytes, BITMAP
  <2>2. \A k \in 1 .. n : blk[3 + k] = s[3 + k]
    BY <2>1, ExceptionsTaken, ZenonT(60)
  <2>3. \A k \in 4 .. 3 + n : blk[k] = s[k]
    <3> SUFFICES ASSUME NEW k \in 4 .. 3 + n PROVE blk[k] = s[k]
      OBVIOUS
    <3>1. PICK j \in 1 .. n : 3 + j = k
      <4>1. k - 3 \in 1 .. n /\ 3 + (k - 3) = k
        OBVIOUS
      <4> QED
        BY <4>1
    <3> QED
      BY <2>2, <3>1, Zenon
  <2>4. {blk[k] : k \in 4 .. 3 + n} = {s[k] : k \in 4 .. 3 + n}
    BY <2>3
  <2>5. LaidExceptions(blk) = {blk[k] : k \in 4 .. 3 + n}
    BY <1>1, <1>2, <1>3, <1>4 DEF LaidExceptions
  <2>6. ExceptionsOf(s) = {s[k] : k \in 4 .. 3 + n}
    BY <1>1, <1>3, <1>4 DEF ExceptionsOf
  <2> QED
    BY <2>4, <2>5, <2>6, Zenon
<1>5. CASE ~(y >= 128)
  <2>1. PositionsOf(s) = 32
    <3>1. y \div 128 = 0
      BY <1>5
    <3> QED
      BY <1>1, <1>3, <3>1
        DEF PositionsOf, PositionBytes, BITMAP, BitmapBytes, Block
  <2>2. \A k \in 1 .. 32 : blk[3 + k] = s[3 + k]
    <3>1. \A k \in 1 .. PositionsOf(s) : blk[3 + k] = s[3 + k]
      BY ExceptionsTaken
    <3> QED
      BY <2>1, <3>1, Zenon
  <2>3. \A p \in 0 .. 255 : blk[4 + p \div 8] = s[4 + p \div 8]
    <3> SUFFICES ASSUME NEW p \in 0 .. 255
                 PROVE  blk[4 + p \div 8] = s[4 + p \div 8]
      OBVIOUS
    <3>1. PICK j \in 1 .. 32 : 3 + j = 4 + p \div 8
      <4>1. p \div 8 + 1 \in 1 .. 32 /\ 3 + (p \div 8 + 1) = 4 + p \div 8
        OBVIOUS
      <4> QED
        BY <4>1
    <3> QED
      BY <2>2, <3>1, Zenon
  <2>4. {p \in 0 .. 255 : Bit(blk[4 + p \div 8], p % 8) = 1}
          = {p \in 0 .. 255 : Bit(s[4 + p \div 8], p % 8) = 1}
    BY <2>3, Zenon
  <2>5. LaidExceptions(blk)
          = {p \in 0 .. 255 : Bit(blk[4 + p \div 8], p % 8) = 1}
    BY <1>1, <1>2, <1>3, <1>5 DEF LaidExceptions
  <2>6. ExceptionsOf(s) = {p \in 0 .. 255 : Bit(s[4 + p \div 8], p % 8) = 1}
    BY <1>1, <1>3, <1>5 DEF ExceptionsOf
  <2> QED
    BY <2>4, <2>5, <2>6, Zenon
<1> QED
  BY <1>4, <1>5

\* A bit after so many bytes.
LEMMA BitAfterBytes ==
  ASSUME NEW a \in Nat, NEW y \in Nat
  PROVE  (8 * a + y) \div 8 = a + y \div 8 /\ (8 * a + y) % 8 = y % 8
OBVIOUS

\* The exception at a place.
LEMMA HighLaidOut ==
  ASSUME NEW w \in Widths, NEW s \in Seq(0 .. 255), Says(s, w),
         CountOf(s) # 0, NEW blk, TakenBy(blk, s),
         NEW e \in 0 .. CountOf(s) - 1, NEW i, PlacesOf(s)[e + 1] = i
  PROVE  LaidHigh(blk, i) = HighOf(s, e) /\ HighOf(s, e) \in Nat
<1>1. PICK b \in Nat, x \in Nat, p \in Nat, h \in Nat, n \in Nat \ {0},
           m \in Nat :
        /\ b = BitsOf(s) /\ x = ExcBytesOf(s) /\ p = PositionsOf(s)
        /\ n = CountOf(s) /\ m = HighWidthOf(s) /\ m <= 8 * w
        /\ h = HighBytes(n, m) /\ x = 1 + p + h
  <2>1. w \in {1, 2, 4, 8}
    BY Shape
  <2>2. BitsOf(s) \in Nat /\ HighWidthOf(s) \in Nat /\ HighWidthOf(s) <= 8 * w
    BY <2>1 DEF Says
  <2>3. CountOf(s) \in Nat \ {0}
    BY DEF Says
  <2> QED
    BY <2>2, <2>3, Zenon DEF Says
<1>2. /\ blk[1] = b /\ blk[2] = n /\ blk[3] = s[3] /\ s[3] % 128 = m
      /\ Len(blk) = 2 + x + 32 * b
  <2>1. blk[3] = s[3]
    BY ExceptionsTaken
  <2> QED
    BY <1>1, <2>1, Zenon DEF TakenBy, Taken, HighWidthOf
<1>3. e \in 0 .. n - 1 /\ e \in Nat
  BY <1>1
<1>4. Cardinality({q \in LaidExceptions(blk) : q < i}) = e
  <2>1. PICK o, P : o = PlacesOf(s) /\ P = ExceptionsOf(s) /\ Lists(o, P)
                    /\ Len(o) = n
    BY <1>1, PlacesListed DEF Listed
  <2>2. PICK f \in 1 .. n : f = e + 1 /\ f - 1 = e
    <3>1. e + 1 \in 1 .. n /\ e + 1 - 1 = e
      BY <1>3
    <3> QED
      BY <3>1
  <2>3. Cardinality({q \in P : q < o[f]}) = f - 1
    BY <2>1, <2>2, ListsCounts
  <2>4. LaidExceptions(blk) = P
    BY <2>1, PlacesTaken
  <2> QED
    BY <2>1, <2>2, <2>3, <2>4, Zenon
<1>5. PICK a \in Nat : a = e * m /\ a = m * e
  BY <1>3
<1>6. LaidFirst(blk, i) = 8 * (3 + p) + a
  <2>1. CeilDiv(n * m, 8) = h
    BY <1>1, Zenon DEF HighBytes
  <2>2. PICK c \in Nat : c = 32 * b
    OBVIOUS
  <2>3. ((2 + x + c) - c) - h = 3 + p
    <3>1. x = 1 + p + h
      BY <1>1, Zenon
    <3> QED
      BY <3>1
  <2>4. (Len(blk) - 32 * blk[1]) - CeilDiv(blk[2] * (blk[3] % 128), 8) = 3 + p
    <3>1. Len(blk) = 2 + x + c /\ 32 * blk[1] = c
      BY <1>2, <2>2, Zenon
    <3>2. CeilDiv(blk[2] * (blk[3] % 128), 8) = h
      BY <1>2, <2>1, Zenon
    <3> QED
      BY <2>3, <3>1, <3>2, Zenon
  <2>5. (blk[3] % 128) * Cardinality({q \in LaidExceptions(blk) : q < i}) = a
    BY <1>2, <1>4, <1>5, Zenon
  <2> QED
    BY <2>4, <2>5, Zenon DEF LaidFirst
<1>7. ASSUME NEW k \in 0 .. m - 1
      PROVE  /\ LaidHighBit(blk, i, k) = HighBitOf(s, e * m + k)
             /\ HighBitOf(s, e * m + k) \in {0, 1}
  <2>1. e * m + k \in 0 .. 8 * h - 1
    BY <1>1, <1>3, BitOfException
  <2>2. PICK y \in Nat : y = a + k /\ y = e * m + k /\ y < 8 * h
    BY <1>5, <2>1
  <2>3. PICK g \in 1 .. h, j \in 0 .. 7 : g = y \div 8 + 1 /\ j = y % 8
    <3>1. y \div 8 + 1 \in 1 .. h /\ y % 8 \in 0 .. 7
      BY <2>2
    <3> QED
      BY <3>1
  <2>4. /\ LaidFirst(blk, i) + k = 8 * (3 + p) + y
        /\ (8 * (3 + p) + y) \div 8 = (3 + p) + y \div 8
        /\ (8 * (3 + p) + y) % 8 = y % 8
    <3>1. PICK c \in Nat : c = 3 + p
      OBVIOUS
    <3>2. 8 * c + a + k = 8 * c + y
      BY <2>2
    <3>3. (8 * c + y) \div 8 = c + y \div 8 /\ (8 * c + y) % 8 = y % 8
      BY BitAfterBytes
    <3> QED
      BY <1>6, <3>1, <3>2, <3>3, Zenon
  <2>5. (3 + p) + y \div 8 + 1 = 3 + p + g /\ 4 + p + y \div 8 = 3 + p + g
    <3>1. PICK z \in Nat : z = y \div 8
      OBVIOUS
    <3> QED
      BY <2>3, <3>1
  <2>6. /\ blk[3 + p + g] = s[3 + p + g] /\ s[3 + p + g] \in 0 .. 255
    BY <1>1, <2>3, ExceptionsTaken, ZenonT(60)
  <2>7. LaidHighBit(blk, i, k) = Bit(blk[3 + p + g], j)
    BY <2>3, <2>4, <2>5, Zenon DEF LaidHighBit
  <2>8. HighBitOf(s, y) = Bit(s[3 + p + g], j)
    BY <1>1, <2>3, <2>5, Zenon DEF HighBitOf
  <2>9. Bit(s[3 + p + g], j) \in {0, 1}
    <3>1. PICK v \in 0 .. 255 : v = s[3 + p + g]
      BY <2>6, Zenon
    <3>2. j \in 0 .. 8 * MaxWidth
      BY BitsFacts
    <3>3. v \in Nat
      OBVIOUS
    <3>4. Bit(v, j) \in {0, 1}
      BY <3>2, <3>3, BitIs
    <3> QED
      BY <3>1, <3>4, Zenon
  <2> QED
    BY <2>2, <2>6, <2>7, <2>8, <2>9, Zenon
<1>8. PICK d, f : /\ d = [k \in 0 .. m - 1 |-> LaidHighBit(blk, i, k)]
                  /\ f = [j \in 0 .. m - 1 |->
                            IF j \in Moved(e, n, m)
                              THEN HighBitOf(s, e * m + j) ELSE 0]
  OBVIOUS
<1>9. Moved(e, n, m) = 0 .. m - 1
  BY <1>3, AllMoved
<1>10. d = f
  BY <1>7, <1>8, <1>9, Zenon
<1>11. LaidHigh(blk, i) = Value(d, m, 1)
  BY <1>2, <1>8, Zenon DEF LaidHigh
<1>12. HighOf(s, e) = Value(f, m, 1)
  BY <1>1, <1>8, Zenon DEF HighOf
<1>13. Value(f, m, 1) \in Nat
  <2>1. 1 * m <= 8 * MaxWidth /\ 1 \in Nat
    <3>1. w \in {1, 2, 4, 8} /\ 8 * w <= 8 * MaxWidth /\ 8 * MaxWidth \in Nat
      BY Shape, BitsFacts
    <3>2. m <= 8 * w
      BY <1>1, Zenon
    <3> QED
      BY <3>1, <3>2
  <2>2. \A k \in 0 .. m - 1 : f[k] \in {0, 1}
    BY <1>7, <1>8, <1>9, Zenon
  <2>3. {0, 1} \subseteq 0 .. Pow[1] - 1
    BY SmallPowers
  <2>4. Digits(f, m, 1)
    BY <2>2, <2>3, Zenon DEF Digits
  <2>5. Value(f, m, 1) \in 0 .. Pow[1 * m] - 1
    BY <2>1, <2>4, ValueShows
  <2>6. Pow[1 * m] \in Nat
    <3>1. 1 * m \in Nat
      OBVIOUS
    <3> QED
      BY <3>1, PowFacts
  <2> QED
    BY <2>5, <2>6
<1> QED
  BY <1>10, <1>11, <1>12, <1>13, Zenon

\* The samples are those that spec.md gives the bytes of a block.
ReadAs(out, blk, w) ==
  /\ out \in Seq(Nat) /\ Len(out) = 256
  /\ \A i \in 0 .. 255 : out[i + 1] = LaidOut(blk, w, i)

\* A block that is accepted is decoded to the samples that spec.md gives its
\* bytes.
LEMMA DecodedAsSpecified ==
  ASSUME NEW w \in Widths, NEW s \in Seq(0 .. 255), ~Bad(s, w),
         NEW blk, TakenBy(blk, s)
  PROVE  ReadAs(SamplesOf(s, w), blk, w)
<1>1. Says(s, w)
  BY GoodSays
<1>2. w \in {1, 2, 4, 8}
  BY Shape
<1>3. PICK b \in 0 .. 8 * w, n \in Nat : b = BitsOf(s) /\ n = CountOf(s)
  <2>1. BitsOf(s) \in 0 .. 8 * w /\ CountOf(s) \in Nat
    BY <1>1 DEF Says
  <2> QED
    BY <2>1, Zenon
<1>3a. PICK body, packed, o :
         /\ body = BodyOf(s) /\ packed = Unpack(body, w, b)
         /\ o = SamplesOf(s, w)
  OBVIOUS
<1>4. /\ packed \in Seq(Nat) /\ Len(packed) = 256
      /\ \A i \in 0 .. 255 : packed[i + 1] = LaneSample(body, w, b, i)
  <2>1. \A k \in 1 .. 32 * b : body[k] \in 0 .. 255
    BY <1>1, <1>3, <1>3a, BodyTaken, Zenon
  <2> QED
    <3>1. packed = Unpack(body, w, b) /\ IsBody(body, b)
      BY <1>3, <1>3a, <2>1, Zenon DEF IsBody
    <3>2. Unpacked(packed, body, w, b)
      BY <3>1, BodyAsLaidOut
    <3> QED
      BY <3>2, Zenon DEF Unpacked
<1>4a. packed \in [1 .. 256 -> Nat]
  BY <1>4, LenProperties
<1>5. \A i \in 0 .. 255 : packed[i + 1] = LaidLow(blk, w, i)
  <2> SUFFICES ASSUME NEW i \in 0 .. 255
               PROVE  packed[i + 1] = LaidLow(blk, w, i)
    OBVIOUS
  <2>1. LaidLow(blk, w, i) = LaneSample(BodyOf(s), w, BitsOf(s), i)
    BY <1>1, LowLaidOut
  <2> QED
    BY <1>3, <1>3a, <1>4, <2>1, Zenon
<1>6. PICK q \in Nat : q = Power[b] /\ blk[1] = b
  <2>1. Power[b] \in Nat
    BY PowerFits
  <2> QED
    BY <1>3, <1>3a, <2>1, Zenon DEF TakenBy
<1>7. blk[2] = n
  BY <1>3, <1>3a, Zenon DEF TakenBy
<1>8. CASE n = 0
  <2>1. o = packed
    BY <1>3, <1>3a, <1>8, Zenon DEF SamplesOf
  <2>2. ASSUME NEW i \in 0 .. 255
        PROVE  packed[i + 1] = LaidOut(blk, w, i)
    <3>1. i \notin LaidExceptions(blk)
      BY <1>7, <1>8 DEF LaidExceptions
    <3>2. packed[i + 1] \in Nat
      BY <1>4a, i + 1 \in 1 .. 256
    <3>3. LaidOut(blk, w, i) = LaidLow(blk, w, i) + 0
      BY <3>1, LaidOutIs, Zenon
    <3>4. packed[i + 1] + 0 = packed[i + 1]
      BY <3>2
    <3> QED
      BY <1>5, <3>3, <3>4, Zenon
  <2>3. o \in Seq(Nat) /\ Len(o) = 256
    BY <1>4, <2>1, Zenon
  <2>4. \A i \in 0 .. 255 : o[i + 1] = LaidOut(blk, w, i)
    BY <2>1, <2>2, Zenon
  <2> QED
    BY <1>3, <1>3a, <2>3, <2>4, Zenon DEF ReadAs
<1>9. CASE n # 0
  <2>1. PICK P : /\ P = ExceptionsOf(s) /\ Listed(s, P)
                 /\ P = LaidExceptions(blk)
    BY <1>1, <1>3, <1>3a, <1>9, PlacesListed, PlacesTaken, Zenon
  <2>2. o = Patched(s, packed)
    BY <1>3, <1>3a, <1>9, Zenon DEF SamplesOf
  <2>3. ASSUME NEW i \in 0 .. 255
        PROVE  o[i + 1] \in Nat /\ o[i + 1] = LaidOut(blk, w, i)
    <3>1. PICK j \in 1 .. 256 : j = i + 1 /\ j - 1 = i
      BY i + 1 \in 1 .. 256, (i + 1) - 1 = i
    <3>2. PatchedAt(s, P, packed, j)
      BY <2>1, PatchedWhere
    <3>3. PICK v \in Nat : v = packed[j] /\ v = LaidLow(blk, w, i)
      <4>1. packed[j] \in Nat
        BY <1>4a
      <4> QED
        BY <1>5, <3>1, <4>1, Zenon
    <3>4. CASE i \notin P
      <4>1. o[j] = v
        BY <2>2, <3>1, <3>2, <3>3, <3>4, Zenon DEF PatchedAt
      <4>2. LaidOut(blk, w, i) = v + 0
        BY <2>1, <3>3, <3>4, LaidOutIs, Zenon
      <4>3. v + 0 = v
        OBVIOUS
      <4> QED
        BY <3>1, <4>1, <4>2, <4>3, Zenon
    <3>5. CASE i \in P
      <4>1. PICK e \in 0 .. CountOf(s) - 1 :
              /\ PlacesOf(s)[e + 1] = i
              /\ o[j] = packed[j] + HighOf(s, e) * Power[BitsOf(s)]
        BY <2>2, <3>1, <3>2, <3>5, Zenon DEF PatchedAt
      <4>2. LaidHigh(blk, i) = HighOf(s, e) /\ HighOf(s, e) \in Nat
        <5>1. CountOf(s) # 0
          BY <1>3, <1>3a, <1>9, Zenon
        <5> QED
          BY <1>1, <4>1, <5>1, HighLaidOut
      <4>3. PICK z \in Nat : z = HighOf(s, e)
        BY <4>2
      <4>4. o[j] = v + z * q
        BY <1>3, <1>3a, <1>6, <3>3, <4>1, <4>3, Zenon
      <4>5. LaidOut(blk, w, i) = v + q * z
        BY <1>6, <2>1, <3>3, <3>5, <4>2, <4>3, LaidOutIs, Zenon
      <4>6. v + z * q = v + q * z /\ v + z * q \in Nat
        OBVIOUS
      <4> QED
        BY <3>1, <4>4, <4>5, <4>6, Zenon
    <3> QED
      BY <3>4, <3>5
  <2>4. o \in Seq(Nat) /\ Len(o) = 256
    <3>1. ASSUME NEW k \in 1 .. 256 PROVE o[k] \in Nat
      <4>1. PICK i \in 0 .. 255 : k = i + 1
        BY k - 1 \in 0 .. 255, (k - 1) + 1 = k
      <4> QED
        BY <2>3, <4>1, Zenon
    <3>2. o = [k \in 1 .. 256 |-> o[k]]
      BY <2>2 DEF Patched, Block
    <3>3. PICK f : f = [k \in 1 .. 256 |-> o[k]]
      OBVIOUS
    <3>4. f \in Seq(Nat) /\ Len(f) = 256
      BY <3>1, <3>3
    <3> QED
      BY <3>2, <3>3, <3>4, Zenon
  <2> QED
    BY <1>3, <1>3a, <2>3, <2>4, Zenon DEF ReadAs
<1> QED
  BY <1>8, <1>9

\* What is encoded says the same at the front of a longer stream.
LEMMA EncodesInFront ==
  ASSUME NEW w \in Widths, NEW src, NEW sel, NEW widths,
         Selects(sel, widths, w), NEW E, Encodes(E, src, sel, widths, w),
         NEW s, \A k \in 1 .. BlockBytes(sel) : s[k] = E[k]
  PROVE  Encodes(s, src, sel, widths, w)
<1>1. PICK b \in Nat, n \in Nat, m \in Nat :
        b = sel.bits /\ n = sel.nexc /\ m = sel.eb
  BY SelectsNumbers
<1>2. PICK exc \in Nat : exc = ExcBytes(sel.nexc, sel.eb, sel.mode)
  BY <1>1, ExcBytesCount
<1>3. PICK c \in Nat : c = 32 * b
  OBVIOUS
<1>4. PICK u \in Nat : u = 2 + exc + c /\ u = BlockBytes(sel)
  <2>1. 2 + exc + c \in Nat
    OBVIOUS
  <2>2. BlockBytes(sel) = 2 + exc + c
    BY <1>1, <1>2, <1>3, Zenon DEF BlockBytes
  <2> QED
    BY <2>1, <2>2, Zenon
<1>5. \A k \in 1 .. u : s[k] = E[k]
  BY <1>4, Zenon
<1>6. 1 \in 1 .. u /\ 2 \in 1 .. u
  BY <1>4
<1>7. \A k \in 1 .. exc : 2 + k \in 1 .. u
  BY <1>4
<1>8. \A k \in 1 .. c : 2 + exc + k \in 1 .. u
  BY <1>4
<1>9. s[1] = sel.bits /\ s[2] = sel.nexc
  BY <1>5, <1>6, Zenon DEF Encodes
<1>10. ASSUME sel.nexc # 0
       PROVE  \E x : /\ Excepts(x, src, sel, widths) /\ Len(x) = exc
                     /\ \A k \in 1 .. exc : s[2 + k] = x[k]
  <2>1. PICK x : /\ Excepts(x, src, sel, widths) /\ Len(x) = exc
                 /\ \A k \in 1 .. exc : E[2 + k] = x[k]
    BY <1>2, <1>10, Zenon DEF Encodes
  <2> QED
    BY <1>5, <1>7, <2>1, Zenon
<1>11. \A k \in 1 .. 32 * sel.bits :
         s[2 + exc + k] = Pack(src, w, sel.bits)[k]
  BY <1>1, <1>2, <1>3, <1>5, <1>8, Zenon DEF Encodes
<1> QED
  BY <1>2, <1>9, <1>10, <1>11, ZenonT(60) DEF Encodes

-----------------------------------------------------------------------------
(* A stream of blocks                                                      *)

\* Block k of a source, padded with zeros, and its bytes.
BlockAt(src, k) ==
  [i \in 1 .. Block |->
     IF k * Block + i <= Len(src.elts) THEN src.elts[k * Block + i] ELSE 0]
Coded(src, k) == EncodeBlock(BlockAt(src, k), src.width)

\* Blocks of a source have samples of its width.
LEMMA SourceBlock ==
  ASSUME NEW src \in Sources, NEW k \in Nat
  PROVE  /\ src.width \in Widths /\ Len(src.elts) \in Nat
         /\ IsBlock(BlockAt(src, k), src.width)
<1>1. src.width \in Widths /\ src.elts \in Seq(0 .. Power[8 * src.width] - 1)
  BY PforAssumption DEF IsSource
<1>2. PICK w \in Widths : w = src.width
  BY <1>1
<1>3. PICK q \in Nat \ {0} : q = Pow[8 * w] /\ q = Power[8 * w]
  <2>1. 8 * w \in 0 .. 8 * w
    BY BitsFacts
  <2> QED
    BY <2>1, PowerFits
<1>4. PICK e : e = src.elts
  OBVIOUS
<1>5. e \in Seq(0 .. q - 1)
  BY <1>1, <1>2, <1>3, <1>4, Zenon
<1>6. PICK n \in Nat : n = Len(e) /\ e \in [1 .. n -> 0 .. q - 1]
  BY <1>5, LenProperties
<1>7. PICK c \in Nat : c = k * Block
  BY DEF Block
<1>8. ASSUME NEW i \in 1 .. 256
      PROVE  (IF c + i <= n THEN e[c + i] ELSE 0) \in 0 .. q - 1
  <2>1. CASE c + i <= n
    <3>1. c + i \in 1 .. n
      BY <2>1
    <3> QED
      BY <1>6, <2>1, <3>1
  <2>2. CASE ~(c + i <= n)
    <3>1. 0 \in 0 .. q - 1
      OBVIOUS
    <3> QED
      BY <2>2, <3>1, Zenon
  <2> QED
    BY <2>1, <2>2
<1>9. BlockAt(src, k) = [i \in 1 .. 256 |-> IF c + i <= n THEN e[c + i] ELSE 0]
  BY <1>4, <1>6, <1>7, Zenon DEF BlockAt, Block
<1>10. IsBlock(BlockAt(src, k), w)
  BY <1>3, <1>8, <1>9, Zenon DEF IsBlock
<1> QED
  BY <1>2, <1>4, <1>6, <1>10, Zenon

\* The bytes of a block are at most two more than those of its samples.
LEMMA CodedHolds ==
  ASSUME NEW src \in Sources, NEW k \in Nat
  PROVE  /\ Coded(src, k) \in Seq(0 .. 255)
         /\ Len(Coded(src, k)) \in 2 .. 2 + 256 * src.width
<1>1. PICK w \in Widths : w = src.width /\ IsBlock(BlockAt(src, k), w)
  BY SourceBlock, Zenon
<1>1a. PICK b : b = BlockAt(src, k) /\ IsBlock(b, w)
  BY <1>1
<1>2. PICK sel : sel = Select(WidthsOf(b))
  OBVIOUS
<1>3. /\ EncodeBlock(b, w) \in Seq(0 .. 255)
      /\ Len(EncodeBlock(b, w)) = BlockBytes(sel)
      /\ BlockBytes(sel) \in 2 .. 2 + 256 * w
  BY <1>1, <1>1a, <1>2, EncodeEncodes
<1> QED
  BY <1>1, <1>1a, <1>3, Zenon DEF Coded

\* The bytes are those of the first n blocks, each where off says.
LaidOne(off, k, bytes, src) ==
  /\ off[k + 1] = off[k] + Len(Coded(src, k)) /\ off[k + 1] <= Len(bytes)
  /\ \A j \in 1 .. Len(Coded(src, k)) : bytes[off[k] + j] = Coded(src, k)[j]
Laid(off, n, bytes, src) ==
  /\ off \in [0 .. n -> Nat] /\ off[0] = 0 /\ off[n] = Len(bytes)
  /\ \A k \in 0 .. n - 1 : LaidOne(off, k, bytes, src)

\* Another block is written.
LEMMA LaidMore ==
  ASSUME NEW src \in Sources, NEW n \in Nat, NEW off,
         NEW bytes \in Seq(0 .. 255), Laid(off, n, bytes, src)
  PROVE  \E o : Laid(o, n + 1, bytes \o Coded(src, n), src)
<1>1. PICK c : c = Coded(src, n) /\ c \in Seq(0 .. 255)
  BY CodedHolds
<1>2. PICK u \in Nat, v \in Nat : u = Len(bytes) /\ v = Len(c)
  BY <1>1
<1>3. PICK all : all = bytes \o c
  OBVIOUS
<1>4. /\ Len(all) = u + v
      /\ \A j \in 1 .. u : all[j] = bytes[j]
      /\ \A j \in 1 .. v : all[u + j] = c[j]
  <2>1. all \in Seq(0 .. 255) /\ Len(all) = Len(bytes) + Len(c)
    BY <1>1, <1>3
  <2>2. ASSUME NEW j \in 1 .. u PROVE all[j] = bytes[j]
    BY <1>1, <1>2, <1>3
  <2>3. ASSUME NEW j \in 1 .. v PROVE all[u + j] = c[j]
    BY <1>1, <1>2, <1>3
  <2> QED
    BY <1>2, <2>1, <2>2, <2>3
<1>5. /\ off \in [0 .. n -> Nat] /\ off[0] = 0 /\ off[n] = u
      /\ \A k \in 0 .. n - 1 : LaidOne(off, k, bytes, src)
  BY <1>2, Zenon DEF Laid
<1>6. PICK o : o = [k \in 0 .. n + 1 |-> IF k <= n THEN off[k] ELSE u + v]
  OBVIOUS
<1>7. o \in [0 .. n + 1 -> Nat] /\ o[0] = 0 /\ o[n + 1] = u + v
  <2>1. \A k \in 0 .. n + 1 : (IF k <= n THEN off[k] ELSE u + v) \in Nat
    BY <1>5
  <2>2. 0 \in 0 .. n + 1 /\ n + 1 \in 0 .. n + 1 /\ 0 <= n /\ ~(n + 1 <= n)
    OBVIOUS
  <2> QED
    BY <1>5, <1>6, <2>1, <2>2, Zenon
<1>8. \A k \in 0 .. n : o[k] = off[k]
  <2>1. \A k \in 0 .. n : k \in 0 .. n + 1 /\ k <= n
    OBVIOUS
  <2> QED
    BY <1>6, <2>1, Zenon
<1>9. ASSUME NEW k \in 0 .. n - 1 PROVE LaidOne(o, k, all, src)
  <2>1. PICK d : d = Coded(src, k) /\ d \in Seq(0 .. 255)
    BY CodedHolds
  <2>2. PICK x \in Nat : x = Len(d)
    BY <2>1
  <2>3. k \in 0 .. n /\ k + 1 \in 0 .. n
    OBVIOUS
  <2>4. PICK a \in Nat, b \in Nat : a = off[k] /\ b = off[k + 1]
    BY <1>5, <2>3
  <2>5. /\ b = a + x /\ b <= u
        /\ \A j \in 1 .. x : bytes[a + j] = d[j]
    BY <1>2, <1>5, <2>1, <2>2, <2>4, Zenon DEF LaidOne
  <2>6. \A j \in 1 .. x : all[a + j] = d[j]
    <3>1. \A j \in 1 .. x : a + j \in 1 .. u
      BY <2>5
    <3> QED
      BY <1>4, <2>5, <3>1, Zenon
  <2>7. o[k] = a /\ o[k + 1] = b
    BY <1>8, <2>3, <2>4, Zenon
  <2>8. b <= u + v
    BY <2>5
  <2> QED
    BY <1>4, <2>1, <2>2, <2>5, <2>6, <2>7, <2>8, Zenon DEF LaidOne
<1>10. LaidOne(o, n, all, src)
  <2>1. o[n] = u
    BY <1>5, <1>8, n \in 0 .. n
  <2>2. u + v <= u + v
    OBVIOUS
  <2> QED
    BY <1>1, <1>2, <1>4, <1>7, <2>1, <2>2, Zenon DEF LaidOne
<1>11. \A k \in 0 .. (n + 1) - 1 : LaidOne(o, k, all, src)
  <2>1. \A k \in 0 .. (n + 1) - 1 : k \in 0 .. n - 1 \/ k = n
    OBVIOUS
  <2> QED
    BY <1>9, <1>10, <2>1, Zenon
<1>12. Laid(o, n + 1, all, src)
  BY <1>4, <1>7, <1>11, Zenon DEF Laid
<1> QED
  BY <1>1, <1>3, <1>12, Zenon

\* What is left of a row after its first a members.
IsRest(s, bytes, a) ==
  /\ s \in Seq(0 .. 255)
  /\ Len(s) = IF a <= Len(bytes) THEN Len(bytes) - a ELSE 0
  /\ \A k \in 1 .. Len(s) : s[k] = bytes[a + k]

\* SubSeq takes what is left, and nothing past the end.
LEMMA RestIs ==
  ASSUME NEW bytes \in Seq(0 .. 255), NEW a \in Nat
  PROVE  IsRest(SubSeq(bytes, a + 1, Len(bytes)), bytes, a)
<1>1. PICK u \in Nat : u = Len(bytes) /\ bytes \in [1 .. u -> 0 .. 255]
  BY LenProperties
<1>2. PICK f \in Nat : f = a + 1
  OBVIOUS
<1>3. PICK s : s = SubSeq(bytes, f, u)
  OBVIOUS
<1>4. \A k \in f .. u : bytes[k] \in 0 .. 255
  <2>1. \A k \in f .. u : k \in 1 .. u
    BY <1>2
  <2> QED
    BY <1>1, <2>1
<1>5. /\ s \in Seq(0 .. 255)
      /\ Len(s) = IF f <= u + 1 THEN (u - f) + 1 ELSE 0
      /\ \A k \in 1 .. (u - f) + 1 : s[k] = bytes[(f + k) - 1]
  <2>1. f \in Int /\ u \in Int
    OBVIOUS
  <2>2. /\ SubSeq(bytes, f, u) \in Seq(0 .. 255)
        /\ Len(SubSeq(bytes, f, u)) = IF f <= u + 1 THEN (u - f) + 1 ELSE 0
        /\ \A k \in 1 .. (u - f) + 1 :
             SubSeq(bytes, f, u)[k] = bytes[(f + k) - 1]
    BY <1>4, <2>1, SubSeqProperties
  <2> QED
    BY <1>3, <2>2, Zenon
<1>6. PICK v \in Nat : v = Len(s) /\ v = IF a <= u THEN u - a ELSE 0
  <2>1. PICK v \in Nat : v = IF a <= u THEN u - a ELSE 0
    BY (IF a <= u THEN u - a ELSE 0) \in Nat
  <2>2. (IF f <= u + 1 THEN (u - f) + 1 ELSE 0) = v
    BY <1>2, <2>1
  <2> QED
    BY <1>5, <2>1, <2>2, Zenon
<1>7. ASSUME NEW k \in 1 .. v PROVE s[k] = bytes[a + k]
  <2>1. k \in 1 .. (u - f) + 1 /\ (f + k) - 1 = a + k
    BY <1>2, <1>6
  <2> QED
    BY <1>5, <2>1, Zenon
<1> QED
  BY <1>1, <1>2, <1>3, <1>5, <1>6, <1>7, Zenon DEF IsRest

\* The decoder reads a block where it was written, by either way.
ReadsBlock(d, src, j) ==
  /\ d.used = Len(Coded(src, j)) /\ d.used \in Nat \ {0}
  /\ \A i \in 1 .. 256 : d.out[i] = BlockAt(src, j)[i]

\* From the offset where block j was laid it is read, by either way of
\* unpacking, whatever follows it.
LEMMA LaidReads ==
  ASSUME NEW src \in Sources, NEW n \in Nat, NEW off,
         NEW bytes \in Seq(0 .. 255), Laid(off, n, bytes, src),
         NEW j \in 0 .. n - 1, NEW a, a = off[j], NEW s, IsRest(s, bytes, a)
  PROVE  ReadsBlock(DecodeBlock(s, src.width), src, j)
<1>1. PICK w \in Widths : w = src.width /\ IsBlock(BlockAt(src, j), w)
  BY SourceBlock, j \in Nat
<1>1a. PICK b : b = BlockAt(src, j) /\ IsBlock(b, w)
  BY <1>1
<1>2. PICK sel : sel = Select(WidthsOf(b))
  OBVIOUS
<1>3. PICK E : E = Coded(src, j)
  OBVIOUS
<1>4. E = EncodeBlock(b, w)
  BY <1>1, <1>1a, <1>3, Zenon DEF Coded
<1>5. /\ Selects(sel, WidthsOf(b), w) /\ E \in Seq(0 .. 255)
      /\ Len(E) = BlockBytes(sel) /\ BlockBytes(sel) \in 2 .. 2 + 256 * w
      /\ Encodes(E, b, sel, WidthsOf(b), w)
  BY <1>1, <1>1a, <1>2, <1>4, EncodeEncodes
<1>6. PICK x \in Nat \ {0} : x = BlockBytes(sel)
  <2>1. w \in {1, 2, 4, 8}
    BY Shape
  <2> QED
    BY <1>5, <2>1
<1>7. PICK u \in Nat : u = Len(bytes)
  OBVIOUS
<1>8. a \in Nat /\ a + x <= u /\ \A k \in 1 .. x : bytes[a + k] = E[k]
  <2>1. LaidOne(off, j, bytes, src) /\ off \in [0 .. n -> Nat]
    BY DEF Laid
  <2>2. off[j + 1] = a + x /\ off[j + 1] <= u
    BY <1>3, <1>5, <1>6, <1>7, <2>1, Zenon DEF LaidOne
  <2>3. a + x <= u
    BY <2>2, Zenon
  <2>4. a \in Nat
    BY <2>1
  <2> QED
    BY <1>3, <1>5, <1>6, <2>1, <2>3, <2>4, Zenon DEF LaidOne
<1>9. Len(s) >= x /\ \A k \in 1 .. x : s[k] = E[k]
  <2>1. Len(s) = u - a
    BY <1>7, <1>8 DEF IsRest
  <2>2. \A k \in 1 .. x : k \in 1 .. Len(s)
    BY <1>8, <2>1
  <2>3. Len(s) >= x
    BY <1>8, <2>1
  <2> QED
    BY <1>8, <2>2, <2>3, Zenon DEF IsRest
<1>10. Encodes(s, b, sel, WidthsOf(b), w)
  BY <1>5, <1>6, <1>9, EncodesInFront
<1>11. s \in Seq(0 .. 255)
  BY DEF IsRest
<1>12. Restored(DecodeBlock(s, w), b, BlockBytes(sel))
  <2>1. Len(s) >= BlockBytes(sel)
    BY <1>6, <1>9, Zenon
  <2>2. IsBlock(b, w)
    BY <1>1, <1>1a, Zenon
  <2> QED
    BY <1>2, <1>10, <1>11, <2>1, <2>2, DecodeReturns
<1> QED
  BY <1>1, <1>1a, <1>3, <1>5, <1>6, <1>12, Zenon DEF ReadsBlock, Restored

\* The least of two.
LEMMA LeastOfTwo ==
  ASSUME NEW a \in Nat, NEW b \in Nat
  PROVE  /\ Min({a, b}) \in {a, b} /\ Min({a, b}) <= a /\ Min({a, b}) <= b
         /\ Min({a, b}) \in Nat
<1>1. \E x \in {a, b} : \A y \in {a, b} : x <= y
  <2>1. CASE a <= b
    BY <2>1
  <2>2. CASE b <= a
    BY <2>2
  <2> QED
    BY <2>1, <2>2
<1>2. PICK m : m = Min({a, b})
  OBVIOUS
<1>3. m = CHOOSE x \in {a, b} : \A y \in {a, b} : x <= y
  BY <1>2 DEF Min
<1>4. m \in {a, b} /\ \A y \in {a, b} : m <= y
  BY <1>1, <1>3
<1> QED
  BY <1>2, <1>4

\* The bytes of n blocks of a source: how many there are at least and at most.
Sized(n, bytes, src) ==
  /\ 2 * n <= Len(bytes) /\ Len(bytes) <= n * (2 + 256 * src.width)
  /\ n = 0 \/ (n - 1) * 256 < Len(src.elts)
Written(n, bytes, src) ==
  /\ bytes \in Seq(0 .. 255) /\ Sized(n, bytes, src)
  /\ \E off : Laid(off, n, bytes, src)

\* Nothing is written at first, and then block after block.
LEMMA NoneWritten ==
  ASSUME NEW src \in Sources
  PROVE  Written(0, <<>>, src)
<1>1. PICK c \in Nat : c = 2 + 256 * src.width
  <2>1. src.width \in {1, 2, 4, 8}
    BY SourceBlock, BitsFacts, 0 \in Nat
  <2> QED
    BY <2>1
<1>2. Sized(0, <<>>, src)
  <2>1. 2 * 0 <= 0 /\ 0 <= 0 * c /\ Len(<<>>) = 0
    OBVIOUS
  <2> QED
    BY <1>1, <2>1, Zenon DEF Sized
<1>3. Laid([k \in 0 .. 0 |-> 0], 0, <<>>, src)
  BY DEF Laid
<1>4. <<>> \in Seq(0 .. 255)
  OBVIOUS
<1> QED
  BY <1>2, <1>3, <1>4, Zenon DEF Written

\* Written stays true when the next block of the source is appended.
LEMMA WrittenMore ==
  ASSUME NEW src \in Sources, NEW n \in Nat, NEW bytes,
         Written(n, bytes, src), n * 256 < Len(src.elts)
  PROVE  Written(n + 1, bytes \o Coded(src, n), src)
<1>1. PICK w \in Nat : w = src.width
  <2>1. src.width \in {1, 2, 4, 8}
    BY SourceBlock, BitsFacts
  <2> QED
    BY <2>1
<1>2. PICK c : c = Coded(src, n) /\ c \in Seq(0 .. 255)
                 /\ Len(c) \in 2 .. 2 + 256 * w
  BY <1>1, CodedHolds
<1>3. bytes \in Seq(0 .. 255) /\ Sized(n, bytes, src)
  BY DEF Written
<1>4. PICK u \in Nat, v \in Nat, h \in Nat :
        /\ u = Len(bytes) /\ v = Len(c) /\ h = 2 + 256 * w
        /\ 2 <= v /\ v <= h
  BY <1>1, <1>2, <1>3
<1>5. PICK all : /\ all = bytes \o c /\ all \in Seq(0 .. 255)
                 /\ Len(all) = u + v
  <2>1. bytes \o c \in Seq(0 .. 255) /\ Len(bytes \o c) = Len(bytes) + Len(c)
    BY <1>2, <1>3
  <2> QED
    BY <1>4, <2>1, Zenon
<1>6. Sized(n + 1, all, src)
  <2>1. 2 * n <= u /\ u <= n * h
    BY <1>1, <1>3, <1>4, Zenon DEF Sized
  <2>2. (n + 1) * h = n * h + h /\ n * h \in Nat
    BY <1>4
  <2>3. 2 * (n + 1) <= u + v
    BY <1>4, <2>1
  <2>4. PICK m \in Nat : m = n * h
    BY <2>2
  <2>5. u + v <= m + h
    BY <1>4, <2>1, <2>4
  <2>6. u + v <= (n + 1) * h
    BY <2>2, <2>4, <2>5, Zenon
  <2>7. (n + 1) - 1 = n
    OBVIOUS
  <2> QED
    BY <1>1, <1>4, <1>5, <2>3, <2>6, <2>7, ZenonT(60) DEF Sized
<1>7. \E off : Laid(off, n + 1, all, src)
  <2>1. PICK o : Laid(o, n, bytes, src)
    BY DEF Written
  <2> QED
    BY <1>2, <1>3, <1>5, <2>1, LaidMore
<1> QED
  BY <1>2, <1>5, <1>6, <1>7, Zenon DEF Written

\* f has the first m members of a row.
IsFront(f, row, m, S) ==
  f \in Seq(S) /\ Len(f) = m /\ \A k \in 1 .. m : f[k] = row[k]

\* SubSeq takes the first members.
LEMMA FrontIs ==
  ASSUME NEW S, NEW row \in Seq(S), NEW n \in Nat, Len(row) = n,
         NEW m \in 1 .. n
  PROVE  IsFront(SubSeq(row, 1, m), row, m, S)
<1>1. row \in [1 .. n -> S]
  BY LenProperties
<1>2. \A k \in 1 .. m : row[k] \in S
  <2>1. \A k \in 1 .. m : k \in 1 .. n
    OBVIOUS
  <2> QED
    BY <1>1, <2>1
<1>3. PICK f : f = SubSeq(row, 1, m)
  OBVIOUS
<1>4. f = [k \in 1 .. m |-> row[k]]
  BY <1>3
<1>5. PICK g : g = [k \in 1 .. m |-> row[k]]
  OBVIOUS
<1>6. g \in Seq(S) /\ Len(g) = m /\ \A k \in 1 .. m : g[k] = row[k]
  BY <1>2, <1>5
<1> QED
  BY <1>3, <1>4, <1>5, <1>6, Zenon DEF IsFront

\* m samples of a block are added to those that are decoded.
Adds(more, out, blk, m) ==
  /\ more \in Seq(Nat) /\ Len(more) = Len(out) + m
  /\ \A i \in 1 .. Len(out) : more[i] = out[i]
  /\ \A k \in 1 .. m : more[Len(out) + k] = blk[k]

\* What is decoded grows by the first samples of a block.
LEMMA AddsSamples ==
  ASSUME NEW out \in Seq(Nat), NEW blk \in Seq(Nat), NEW n \in Nat,
         n = Len(blk), NEW m \in 1 .. n
  PROVE  Adds(out \o SubSeq(blk, 1, m), out, blk, m)
<1>1. PICK f : f = SubSeq(blk, 1, m)
  OBVIOUS
<1>2. f \in Seq(Nat) /\ Len(f) = m /\ \A k \in 1 .. m : f[k] = blk[k]
  <2>1. IsFront(f, blk, m, Nat)
    BY <1>1, FrontIs
  <2> QED
    BY <2>1, Zenon DEF IsFront
<1>3. PICK u \in Nat : u = Len(out)
  OBVIOUS
<1>4. PICK all : all = out \o f
  OBVIOUS
<1>5. all \in Seq(Nat) /\ Len(all) = u + m
  <2>1. f \in Seq(Nat) /\ Len(f) = m
    BY <1>2, Zenon
  <2>2. out \o f \in Seq(Nat) /\ Len(out \o f) = Len(out) + Len(f)
    BY <2>1, ConcatProperties, Zenon
  <2> QED
    BY <1>3, <1>4, <2>1, <2>2, Zenon
<1>6. \A i \in 1 .. u : all[i] = out[i]
  BY <1>2, <1>3, <1>4
<1>7. \A k \in 1 .. m : all[u + k] = f[k]
  BY <1>2, <1>3, <1>4
<1>8. ASSUME NEW k \in 1 .. m PROVE all[u + k] = blk[k]
  <2>1. all[u + k] = f[k] /\ f[k] = blk[k]
    BY <1>2, <1>7
  <2> QED
    BY <2>1, Zenon
<1>9. Adds(all, out, blk, m)
  BY <1>3, <1>5, <1>6, <1>8, Zenon DEF Adds
<1> QED
  BY <1>1, <1>4, <1>9, Zenon

\* The samples of the first j blocks are decoded.
Got(j, out, src) ==
  /\ Len(out) = IF 256 * j <= Len(src.elts) THEN 256 * j ELSE Len(src.elts)
  /\ \A i \in 1 .. Len(out) : out[i] = src.elts[i]

\* How many are decoded with the next block.
Reaches(u, m, n) ==
  /\ m \in 1 .. 256 /\ u + m <= n /\ m <= n - u
  /\ u + m = IF u + 256 <= n THEN u + 256 ELSE n

\* A turn takes a whole block, or what is left of the samples.
LEMMA NextCount ==
  ASSUME NEW n \in Nat, NEW u \in Nat, u < n, NEW m, m = Min({256, n - u})
  PROVE  Reaches(u, m, n)
<1>1. PICK r \in Nat : r = n - u
  BY n - u \in Nat
<1>2. m \in {256, r} /\ m <= 256 /\ m <= r
  BY <1>1, LeastOfTwo, 256 \in Nat
<1>3. CASE m = 256
  BY <1>1, <1>2, <1>3 DEF Reaches
<1>4. CASE m = r
  BY <1>1, <1>2, <1>4 DEF Reaches
<1> QED
  BY <1>2, <1>3, <1>4

\* Then those of one more.
Samples(blk, src, j) == \A i \in 1 .. 256 : blk[i] = BlockAt(src, j)[i]

\* The samples of the next block follow those that are decoded.
LEMMA GotMore ==
  ASSUME NEW src \in Sources, NEW j \in Nat, NEW out \in Seq(Nat),
         Got(j, out, src), 256 * j < Len(src.elts), NEW blk, NEW more,
         Samples(blk, src, j), NEW m,
         m = Min({256, Len(src.elts) - Len(out)}), Adds(more, out, blk, m)
  PROVE  Got(j + 1, more, src)
<1>1. PICK n \in Nat, u \in Nat : n = Len(src.elts) /\ u = 256 * j /\ u < n
  <2>1. Len(src.elts) \in Nat
    BY SourceBlock
  <2> QED
    BY <2>1
<1>2. Len(out) = u
  <2>1. u <= n
    BY <1>1
  <2> QED
    BY <1>1, <2>1, Zenon DEF Got
<1>3. /\ m \in 1 .. 256 /\ u + m <= n
      /\ u + m = IF u + 256 <= n THEN u + 256 ELSE n
  <2>1. u < n /\ m = Min({256, n - u})
    BY <1>1, <1>2, Zenon
  <2>2. Reaches(u, m, n)
    BY <2>1, NextCount
  <2> QED
    BY <2>2, Zenon DEF Reaches
<1>4. Len(more) = u + m
  BY <1>2, Zenon DEF Adds
<1>5. Len(more) = IF 256 * (j + 1) <= n THEN 256 * (j + 1) ELSE n
  <2>1. 256 * (j + 1) = u + 256
    BY <1>1
  <2> QED
    BY <1>3, <1>4, <2>1, Zenon
<1>6. ASSUME NEW i \in 1 .. u + m PROVE more[i] = src.elts[i]
  <2>1. CASE i <= u
    <3>1. i \in 1 .. u
      BY <2>1
    <3> QED
      BY <1>2, <3>1, Zenon DEF Adds, Got
  <2>2. CASE ~(i <= u)
    <3>1. PICK k \in 1 .. m : i = u + k
      <4>1. i - u \in 1 .. m /\ u + (i - u) = i
        BY <1>3, <2>2
      <4> QED
        BY <4>1
    <3>2. more[i] = blk[k]
      BY <1>2, <3>1, Zenon DEF Adds
    <3>3. k \in 1 .. 256 /\ u + k <= n
      BY <1>3
    <3>4. blk[k] = src.elts[u + k]
      <4>1. BlockAt(src, j)[k]
              = IF j * 256 + k <= n THEN src.elts[j * 256 + k] ELSE 0
        BY <1>1, <3>3, Zenon DEF BlockAt, Block
      <4>2. j * 256 = u
        BY <1>1
      <4>3. blk[k] = BlockAt(src, j)[k]
        BY <3>3, Zenon DEF Samples
      <4> QED
        BY <3>3, <4>1, <4>2, <4>3, Zenon
    <3> QED
      BY <3>1, <3>2, <3>4, Zenon
  <2> QED
    BY <2>1, <2>2
<1> QED
  BY <1>1, <1>4, <1>5, <1>6, Zenon DEF Got

\* What a block that is accepted gives: its samples, as they are laid out.
Accepted(d, bytes, a, w) ==
  /\ d.used \in Nat \ {0} /\ d.out \in Seq(Nat) /\ Len(d.out) = 256
  /\ \A i \in 0 .. 255 :
       d.out[i + 1] = LaidOut(SubSeq(bytes, a + 1, a + d.used), w, i)

\* Among any bytes, a block that is accepted has the samples that spec.md lays
\* out in the bytes it takes.
LEMMA BlockAccepted ==
  ASSUME NEW w \in Widths, NEW bytes \in Seq(0 .. 255), NEW a \in Nat,
         NEW s, s = SubSeq(bytes, a + 1, Len(bytes)), NEW d,
         d = DecodeBlock(s, w), d.used # 0
  PROVE  Accepted(d, bytes, a, w)
<1>1. IsRest(s, bytes, a)
  BY RestIs
<1>2. s \in Seq(0 .. 255)
  BY <1>1 DEF IsRest
<1>3. ~Bad(s, w)
  BY DecodeDoes DEF Refused
<1>4. Says(s, w)
  BY <1>2, <1>3, GoodSays
<1>5. PICK b \in Nat : b = BitsOf(s)
  <2>1. w \in {1, 2, 4, 8}
    BY Shape
  <2> QED
    BY <1>4, <2>1 DEF Says
<1>6. d.used = Taken(s) /\ d.out = SamplesOf(s, w)
  <2>1. BodyBytes(BitsOf(s)) = 32 * BitsOf(s)
    BY <1>5, BodyCounts
  <2>2. d = [used |-> 2 + ExcBytesOf(s) + BodyBytes(BitsOf(s)),
             out |-> SamplesOf(s, w)]
    BY <1>3, DecodeDoes
  <2> QED
    BY <2>1, <2>2 DEF Taken
<1>7. PICK u \in Nat, t \in Nat, v \in Nat :
        /\ u = Taken(s) /\ u # 0 /\ t = Len(s) /\ u <= t /\ v = Len(bytes)
        /\ t = v - a /\ a <= v
  <2>1. Taken(s) \in 2 .. Len(s)
    BY <1>2, <1>4, BlockTaken
  <2>2. PICK t \in Nat, v \in Nat : t = Len(s) /\ v = Len(bytes)
    <3>1. Len(s) \in Nat /\ Len(bytes) \in Nat
      BY <1>2, LenProperties
    <3> QED
      BY <3>1
  <2>3. t = IF a <= v THEN v - a ELSE 0
    BY <1>1, <2>2, Zenon DEF IsRest
  <2>4. t >= 2 /\ Taken(s) \in Nat /\ Taken(s) # 0 /\ Taken(s) <= t
    BY <2>1, <2>2
  <2>5. t = v - a /\ a <= v
    BY <2>3, <2>4
  <2> QED
    BY <2>2, <2>4, <2>5, Zenon
<1>8. PICK o : o = SubSeq(bytes, a + 1, a + u)
  OBVIOUS
<1>9. Len(o) = u /\ \A k \in 1 .. u : o[k] = s[k] /\ s[k] \in 0 .. 255
  <2>1. PICK f \in Nat, g \in Nat : f = a + 1 /\ g = a + u
    OBVIOUS
  <2>2. \A k \in f .. g : bytes[k] \in 0 .. 255
    <3>1. \A k \in f .. g : k \in 1 .. v
      BY <1>7, <2>1
    <3>2. bytes \in [1 .. v -> 0 .. 255]
      BY <1>7, LenProperties
    <3> QED
      BY <3>1, <3>2
  <2>3. f \in Int /\ g \in Int /\ f <= g + 1 /\ (g - f) + 1 = u
    BY <2>1
  <2>4. Len(o) = u /\ \A k \in 1 .. u : o[k] = bytes[(f + k) - 1]
    <3>1. /\ Len(SubSeq(bytes, f, g)) = IF f <= g + 1 THEN (g - f) + 1 ELSE 0
          /\ \A k \in 1 .. (g - f) + 1 :
               SubSeq(bytes, f, g)[k] = bytes[(f + k) - 1]
      BY <2>2, <2>3, SubSeqProperties
    <3> QED
      BY <1>8, <2>1, <2>3, <3>1, Zenon
  <2>5. ASSUME NEW k \in 1 .. u
        PROVE  o[k] = s[k] /\ s[k] \in 0 .. 255
    <3>1. (f + k) - 1 = a + k /\ k \in 1 .. t /\ a + k \in f .. g
      BY <1>7, <2>1
    <3>2. s[k] = bytes[a + k]
      BY <1>1, <1>7, <3>1, Zenon DEF IsRest
    <3> QED
      BY <2>2, <2>4, <3>1, <3>2, Zenon
  <2> QED
    BY <2>4, <2>5
<1>10. TakenBy(o, s)
  <2>1. 1 \in 1 .. u /\ 2 \in 1 .. u
    <3>1. Taken(s) \in 2 .. Len(s)
      BY <1>2, <1>4, BlockTaken
    <3>2. u >= 2
      BY <1>7, <3>1
    <3> QED
      BY <3>2
  <2> QED
    BY <1>7, <1>9, <2>1, Zenon DEF TakenBy, BitsOf, CountOf
<1>11. ReadAs(SamplesOf(s, w), o, w)
  BY <1>2, <1>3, <1>10, DecodedAsSpecified
<1>12. d.used = u /\ u \in Nat \ {0}
  BY <1>6, <1>7, Zenon
<1>13. d.out \in Seq(Nat) /\ Len(d.out) = 256
  BY <1>6, <1>11, Zenon DEF ReadAs
<1>14. \A i \in 0 .. 255 :
         d.out[i + 1] = LaidOut(SubSeq(bytes, a + 1, a + d.used), w, i)
  <2> SUFFICES ASSUME NEW i \in 0 .. 255
               PROVE  d.out[i + 1]
                        = LaidOut(SubSeq(bytes, a + 1, a + d.used), w, i)
    OBVIOUS
  <2>1. SubSeq(bytes, a + 1, a + d.used) = o
    BY <1>8, <1>12, Zenon
  <2>3. SamplesOf(s, w)[i + 1] = LaidOut(o, w, i)
    BY <1>11, Zenon DEF ReadAs
  <2>2. d.out = SamplesOf(s, w)
    BY <1>6, Zenon
  <2> QED
    BY <2>1, <2>2, <2>3, Zenon
<1>15. d.used \in Nat \ {0}
  BY <1>12, Zenon
<1> QED
  BY <1>13, <1>14, <1>15, Zenon DEF Accepted

-----------------------------------------------------------------------------
(* The session                                                             *)

\* The header of a source.
HeaderOf(src) == [count |-> Len(src.elts), width |-> src.width]

Typed ==
  /\ pc \in {"encode", "sent", "decode", "done", "corrupt"}
  /\ source \in Sources /\ header.count \in Nat
  /\ wire \in Seq(0 .. 255) /\ decoded \in Seq(Nat)
  /\ begin \in Nat /\ at \in Nat /\ blocks \in Nat

\* What each phase has left undone, and what it may count on.
Phases ==
  /\ pc \in {"encode", "sent"} => at = 0 /\ begin = 0 /\ decoded = <<>>
  /\ pc = "encode" => header = HeaderOf(source)
  /\ pc # "encode" => blocks * 256 >= Len(source.elts)
  /\ pc = "decode" => /\ header.width \in Widths
                      /\ Len(decoded) < header.count
                      /\ \E g \in Nat : Len(decoded) = 256 * g

\* The decoder is j blocks on in what was written.
Reached(j, off) ==
  /\ at = off[j] /\ Got(j, decoded, source)
  /\ pc = "sent" => j = 0
  /\ pc = "decode" => 256 * j < Len(source.elts)
  /\ pc = "done" => Len(decoded) = Len(source.elts)

\* What arrives as it was sent is not refused.
Following ==
  pc # "encode" /\ wire = sent /\ header = HeaderOf(source) =>
    /\ pc # "corrupt"
    /\ \E off, j : /\ Laid(off, blocks, sent, source) /\ j \in 0 .. blocks
                   /\ Reached(j, off)

PforInv ==
  /\ Typed /\ Written(blocks, sent, source) /\ Phases /\ Following
  /\ ReadsAsSpecified

\* The invariant holds before anything is encoded.
LEMMA InitHolds ==
  ASSUME Init
  PROVE  PforInv
<1>1. source \in Sources /\ Len(source.elts) \in Nat
  BY SourceBlock, 0 \in Nat DEF Init
<1>2. Typed
  BY <1>1 DEF Init, Typed
<1>3. Written(blocks, sent, source)
  BY <1>1, NoneWritten DEF Init
<1>4. Phases
  BY DEF Init, Phases, HeaderOf
<1>5. Following
  BY DEF Init, Following
<1>6. ReadsAsSpecified
  BY DEF Init, ReadsAsSpecified
<1> QED
  BY <1>2, <1>3, <1>4, <1>5, <1>6 DEF PforInv

\* Encoding a block keeps the invariant: the block is written behind the
\* others.
LEMMA EncodeKeeps ==
  ASSUME PforInv, Encode
  PROVE  PforInv'
<1>1. Typed /\ Written(blocks, sent, source) /\ Phases
  BY DEF PforInv
<1>2. /\ pc = "encode" /\ pc' = pc /\ source' = source /\ header' = header
      /\ wire' = wire /\ begin' = begin /\ at' = at /\ decoded' = decoded
      /\ blocks' = blocks + 1 /\ blocks * Block < Len(source.elts)
      /\ sent' = sent \o Coded(source, blocks)
  BY DEF Encode, Coded, BlockAt
<1>3. Typed'
  BY <1>1, <1>2 DEF Typed
<1>4. Written(blocks + 1, sent \o Coded(source, blocks), source)
  <2>1. source \in Sources /\ blocks \in Nat
    BY <1>1 DEF Typed
  <2>2. blocks * 256 < Len(source.elts)
    BY <1>2 DEF Block
  <2> QED
    BY <1>1, <2>1, <2>2, WrittenMore
<1>5. Written(blocks, sent, source)'
  BY <1>2, <1>4, Zenon
<1>6. Phases'
  BY <1>1, <1>2 DEF Phases
<1>7. Following'
  BY <1>2 DEF Following
<1>8. ReadsAsSpecified'
  BY <1>1, <1>2 DEF Phases, ReadsAsSpecified
<1> QED
  BY <1>3, <1>5, <1>6, <1>7, <1>8 DEF PforInv

\* Whatever becomes of bytes on the way, bytes arrive.
LEMMA AlteredIsBytes ==
  ASSUME sent \in Seq(0 .. 255), NEW a, IsDamage(a)
  PROVE  Altered(a) \in Seq(0 .. 255)
<1>1. PICK n \in Nat : n = Len(sent) /\ sent \in [1 .. n -> 0 .. 255]
  BY LenProperties
<1>2. PICK at0 \in Nat, v \in Nat : at0 = a.at /\ v = a.value
  BY DEF IsDamage
<1>3. CASE a.kind = "byte"
  <2>1. v \in 0 .. 255
    <3>1. v < 256
      BY <1>2, <1>3, Zenon DEF IsDamage
    <3> QED
      BY <3>1
  <2>2. \A k \in 1 .. n : (IF k = at0 THEN v ELSE sent[k]) \in 0 .. 255
    BY <1>1, <2>1
  <2>3. PICK g : g = [k \in 1 .. n |-> IF k = at0 THEN v ELSE sent[k]]
    OBVIOUS
  <2>4. g \in Seq(0 .. 255)
    BY <2>2, <2>3
  <2>5. Altered(a) = g
    BY <1>1, <1>2, <1>3, <2>3 DEF Altered
  <2> QED
    BY <2>4, <2>5
<1>4. CASE a.kind = "cut"
  <2>1. Altered(a) = SubSeq(sent, 1, n - at0)
    BY <1>1, <1>2, <1>4 DEF Altered
  <2>2. \A k \in 1 .. n - at0 : sent[k] \in 0 .. 255
    <3>1. \A k \in 1 .. n - at0 : k \in 1 .. n
      OBVIOUS
    <3> QED
      BY <1>1, <3>1
  <2>3. PICK m \in Int : m = n - at0
    OBVIOUS
  <2>4. SubSeq(sent, 1, m) \in Seq(0 .. 255)
    BY <2>2, <2>3, SubSeqProperties
  <2> QED
    BY <2>1, <2>3, <2>4
<1>5. CASE a.kind = "more"
  <2>1. PICK z : z = [k \in 1 .. at0 |-> 0]
    OBVIOUS
  <2>2. z \in Seq(0 .. 255)
    BY <2>1
  <2>3. Altered(a) = sent \o z
    BY <1>2, <1>5, <2>1 DEF Altered
  <2> QED
    BY <2>2, <2>3
<1>6. CASE a.kind = "header"
  BY <1>6 DEF Altered
<1> QED
  BY <1>3, <1>4, <1>5, <1>6 DEF IsDamage

\* Sending keeps it, whatever becomes of the bytes on the way.
LEMMA SendKeeps ==
  ASSUME PforInv, Send
  PROVE  PforInv'
<1>1. Typed /\ Written(blocks, sent, source) /\ Phases
  BY DEF PforInv
<1>2. /\ pc = "encode" /\ pc' = "sent" /\ source' = source /\ sent' = sent
      /\ begin' = begin /\ at' = at /\ decoded' = decoded /\ blocks' = blocks
      /\ blocks * 256 >= Len(source.elts)
  BY DEF Send, Block
<1>3. sent \in Seq(0 .. 255) /\ source \in Sources /\ header.count \in Nat
  BY <1>1 DEF Written, Typed
<1>4. wire' \in Seq(0 .. 255) /\ header'.count \in Nat
  <2>1. CASE wire' = sent /\ UNCHANGED header
    BY <1>3, <2>1
  <2>2. CASE \E a \in Damage(source) :
               /\ wire' = Altered(a)
               /\ header' = IF a.kind = "header"
                              THEN [count |-> a.at, width |-> a.value]
                              ELSE header
    <3>1. PICK a \in Damage(source) :
            /\ wire' = Altered(a)
            /\ header' = IF a.kind = "header"
                           THEN [count |-> a.at, width |-> a.value]
                           ELSE header
      BY <2>2
    <3>2. IsDamage(a)
      BY <1>3, PforAssumption
    <3>3. Altered(a) \in Seq(0 .. 255)
      BY <1>3, <3>2, AlteredIsBytes
    <3>4. header'.count \in Nat
      <4>1. CASE a.kind = "header"
        BY <3>1, <3>2, <4>1 DEF IsDamage
      <4>2. CASE a.kind # "header"
        BY <1>3, <3>1, <4>2
      <4> QED
        BY <4>1, <4>2
    <3> QED
      BY <3>1, <3>3, <3>4
  <2> QED
    BY <2>1, <2>2 DEF Send
<1>5. Typed'
  BY <1>1, <1>2, <1>4 DEF Typed
<1>6. Written(blocks, sent, source)'
  BY <1>1, <1>2, Zenon
<1>7. at = 0 /\ begin = 0 /\ decoded = <<>>
  BY <1>1, <1>2 DEF Phases
<1>8. Phases'
  BY <1>2, <1>7 DEF Phases
<1>9. Following'
  <2>1. PICK off : Laid(off, blocks, sent, source)
    BY <1>1 DEF Written
  <2>2. off[0] = 0 /\ blocks \in Nat /\ Len(source.elts) \in Nat
    BY <1>1, <1>3, <2>1, SourceBlock DEF Laid, Typed
  <2>3. Got(0, <<>>, source)
    BY <2>2 DEF Got
  <2>4. Reached(0, off)'
    BY <1>2, <1>7, <2>2, <2>3, Zenon DEF Reached
  <2>5. Laid(off, blocks', sent', source')
    BY <1>2, <2>1, Zenon
  <2>6. 0 \in 0 .. blocks'
    BY <1>2, <2>2
  <2> QED
    BY <1>2, <2>4, <2>5, <2>6 DEF Following
<1>10. ReadsAsSpecified'
  BY <1>2, <1>7 DEF ReadsAsSpecified
<1> QED
  BY <1>5, <1>6, <1>8, <1>9, <1>10 DEF PforInv

\* There are never more samples than bytes can tell of.
LEMMA CountPossible ==
  ASSUME Typed, Written(blocks, sent, source), wire = sent,
         header = HeaderOf(source), blocks * 256 >= Len(source.elts)
  PROVE  ~CountImpossible
<1>1. PICK n \in Nat, u \in Nat, b \in Nat :
        /\ n = Len(source.elts) /\ u = Len(sent) /\ b = blocks
        /\ 2 * b <= u /\ b * 256 >= n
  <2>1. Len(source.elts) \in Nat /\ blocks \in Nat
    BY SourceBlock DEF Typed
  <2>2. Len(sent) \in Nat /\ 2 * blocks <= Len(sent)
    BY DEF Written, Sized
  <2> QED
    BY <2>1, <2>2
<1>2. ~(n > u * 128)
  BY <1>1
<1>3. header.count = n /\ Len(wire) = u /\ MaxEltsPerByte = 128
  <2>1. header.count = Len(source.elts)
    BY DEF HeaderOf
  <2> QED
    BY <1>1, <2>1 DEF MaxEltsPerByte, Block
<1> QED
  BY <1>2, <1>3, Zenon DEF CountImpossible

\* Nothing is written of no samples.
LEMMA NothingOfNone ==
  ASSUME Typed, Written(blocks, sent, source), Len(source.elts) = 0
  PROVE  blocks = 0 /\ sent = <<>>
<1>1. blocks = 0
  BY DEF Typed, Written, Sized
<1>2. Len(sent) = 0 /\ sent \in Seq(0 .. 255)
  BY <1>1 DEF Written, Laid
<1> QED
  BY <1>1, <1>2

\* Opening keeps it: a header as it was sent is not refused.
LEMMA OpenKeeps ==
  ASSUME PforInv, Open
  PROVE  PforInv'
<1>1. Typed /\ Written(blocks, sent, source) /\ Phases /\ Following
  BY DEF PforInv
<1>2. /\ pc = "sent" /\ source' = source /\ header' = header /\ sent' = sent
      /\ wire' = wire /\ begin' = begin /\ at' = at /\ blocks' = blocks
      /\ decoded' = decoded
  BY DEF Open
<1>3. /\ pc' \in {"decode", "done", "corrupt"}
      /\ pc' = "decode" => header.width \in Widths /\ header.count # 0
      /\ pc' = "done" => wire = <<>> /\ header.count = 0
  BY DEF Open
<1>4. at = 0 /\ begin = 0 /\ decoded = <<>> /\ blocks * 256 >= Len(source.elts)
  BY <1>1, <1>2 DEF Phases
<1>5. Typed'
  BY <1>1, <1>2, <1>3 DEF Typed
<1>6. Written(blocks, sent, source)'
  BY <1>1, <1>2, Zenon
<1>7. Phases'
  <2>1. pc' \notin {"encode", "sent"}
    BY <1>3
  <2>2. pc' = "decode" => Len(decoded) < header.count
    BY <1>1, <1>3, <1>4 DEF Typed
  <2>3. Len(decoded) = 256 * 0 /\ 0 \in Nat
    BY <1>4
  <2>4. \E g \in Nat : Len(decoded) = 256 * g
    BY <2>3
  <2> QED
    BY <1>2, <1>3, <1>4, <2>1, <2>2, <2>4 DEF Phases
<1>8. Following'
  <2> SUFFICES ASSUME wire = sent, header = HeaderOf(source)
               PROVE  /\ pc' # "corrupt"
                      /\ \E off, j : /\ Laid(off, blocks, sent, source)
                                     /\ j \in 0 .. blocks /\ Reached(j, off)'
    BY <1>2 DEF Following
  <2>1. /\ header.width \in Widths /\ header.count = Len(source.elts)
        /\ Len(source.elts) \in Nat
    BY <1>1, SourceBlock, 0 \in Nat DEF Typed, HeaderOf
  <2>2. ~CountImpossible
    BY <1>1, <1>4, CountPossible
  <2>3. Len(source.elts) = 0 => wire = <<>>
    BY <1>1, NothingOfNone
  <2>4. pc' # "corrupt"
    BY <2>1, <2>2, <2>3 DEF Open
  <2>5. PICK off, j : /\ Laid(off, blocks, sent, source)
                      /\ j \in 0 .. blocks /\ Reached(j, off)
    BY <1>1, <1>2, Zenon DEF Following
  <2>6. j = 0
    BY <1>2, <2>5 DEF Reached
  <2>7. pc' = "decode" => 256 * j < Len(source.elts)
    BY <1>3, <2>1, <2>6
  <2>8. pc' = "done" => Len(decoded) = Len(source.elts)
    BY <1>3, <1>4, <2>1
  <2>9. Reached(j, off)'
    BY <1>2, <1>3, <2>5, <2>7, <2>8 DEF Reached
  <2> QED
    BY <2>4, <2>5, <2>9
<1>9. ReadsAsSpecified'
  BY <1>2, <1>3, <1>4 DEF ReadsAsSpecified
<1> QED
  BY <1>5, <1>6, <1>7, <1>8, <1>9 DEF PforInv

\* One turn of the decoder: block d is what the rest of the stream decodes to.
Turn(d, w, m) ==
  /\ d = DecodeBlock(SubSeq(wire, at + 1, Len(wire)), w)
  /\ w = header.width /\ m = Min({256, header.count - Len(decoded)})
  /\ pc = "decode" /\ source' = source /\ header' = header
  /\ sent' = sent /\ wire' = wire /\ blocks' = blocks

\* The block is taken.
Takes(d, m) ==
  /\ decoded' = decoded \o SubSeq(d.out, 1, m)
  /\ begin' = at /\ at' = at + d.used
  /\ pc' = IF Len(decoded) + m < header.count THEN "decode"
           ELSE IF at + d.used = Len(wire) THEN "done" ELSE "corrupt"

\* Decode takes one turn: it refuses the block, or takes its samples.
LEMMA DecodeTurns ==
  ASSUME Decode
  PROVE  \E d, w, m :
           /\ Turn(d, w, m)
           /\ \/ /\ d.used = 0 /\ pc' = "corrupt"
                 /\ UNCHANGED <<begin, at, decoded>>
              \/ d.used # 0 /\ Takes(d, m)
<1>1. PICK d, w, m :
        /\ d = DecodeBlock(SubSeq(wire, at + 1, Len(wire)), w)
        /\ w = header.width /\ m = Min({256, header.count - Len(decoded)})
  OBVIOUS
<1>2. Turn(d, w, m)
  BY <1>1 DEF Turn, Decode
<1>3. CASE d.used = 0
  <2>1. pc' = "corrupt" /\ UNCHANGED <<begin, at, decoded>>
    BY <1>1, <1>3 DEF Decode
  <2> QED
    BY <1>2, <1>3, <2>1
<1>4. CASE d.used # 0
  <2>1. Takes(d, m)
    BY <1>1, <1>2, <1>4 DEF Decode, Takes, Turn, Ends, Block
  <2> QED
    BY <1>2, <1>4, <2>1
<1> QED
  BY <1>3, <1>4

\* In what arrives as it was sent, the block is the next one of the source.
LEMMA TurnReads ==
  ASSUME PforInv, wire = sent, header = HeaderOf(source),
         NEW d, NEW w, NEW m, Turn(d, w, m)
  PROVE  \E off, j :
           /\ Laid(off, blocks, sent, source) /\ j \in 0 .. blocks - 1
           /\ Reached(j, off) /\ 256 * j < Len(source.elts)
           /\ ReadsBlock(d, source, j) /\ off[j + 1] = at + d.used
<1>1. Typed /\ Written(blocks, sent, source) /\ Phases /\ Following
  BY DEF PforInv
<1>2. pc = "decode"
  BY DEF Turn
<1>3. PICK off, j : /\ Laid(off, blocks, sent, source)
                    /\ j \in 0 .. blocks /\ Reached(j, off)
  BY <1>1, <1>2 DEF Following
<1>4. 256 * j < Len(source.elts) /\ at = off[j]
  BY <1>2, <1>3 DEF Reached
<1>5. PICK b \in Nat, n \in Nat :
        b = blocks /\ n = Len(source.elts) /\ b * 256 >= n
  BY <1>1, <1>2, SourceBlock, 0 \in Nat DEF Typed, Phases
<1>6. j \in 0 .. b - 1
  BY <1>3, <1>4, <1>5
<1>7. IsRest(SubSeq(wire, at + 1, Len(wire)), wire, at)
  BY <1>1, RestIs DEF Typed
<1>8. PICK s : s = SubSeq(wire, at + 1, Len(wire)) /\ IsRest(s, sent, at)
  BY <1>7
<1>9. d = DecodeBlock(s, source.width)
  <2>1. w = source.width
    BY DEF Turn, HeaderOf
  <2> QED
    BY <1>8, <2>1 DEF Turn
<1>10. ReadsBlock(d, source, j)
  <2>1. source \in Sources /\ sent \in Seq(0 .. 255)
    BY <1>1 DEF Typed, Written
  <2> QED
    BY <1>3, <1>4, <1>5, <1>6, <1>8, <1>9, <2>1, LaidReads
<1>11. off[j + 1] = at + d.used
  BY <1>3, <1>4, <1>5, <1>6, <1>10 DEF Laid, LaidOne, ReadsBlock
<1> QED
  BY <1>3, <1>4, <1>5, <1>6, <1>10, <1>11

\* A turn that refuses ends the session, and it is not what was sent.
LEMMA RefusingKeeps ==
  ASSUME PforInv, NEW d, NEW w, NEW m, Turn(d, w, m), d.used = 0,
         pc' = "corrupt", UNCHANGED <<begin, at, decoded>>
  PROVE  PforInv'
<1>1. Typed /\ Written(blocks, sent, source) /\ Phases /\ ReadsAsSpecified
  BY DEF PforInv
<1>2. /\ pc = "decode" /\ source' = source /\ header' = header
      /\ sent' = sent /\ wire' = wire /\ blocks' = blocks
  BY DEF Turn
<1>3. Typed'
  BY <1>1, <1>2 DEF Typed
<1>4. Written(blocks, sent, source)'
  BY <1>1, <1>2, Zenon
<1>5. Phases'
  BY <1>1, <1>2 DEF Phases
<1>6. Following'
  <2>1. ~(wire = sent /\ header = HeaderOf(source))
    BY TurnReads DEF ReadsBlock
  <2> QED
    BY <1>2, <2>1 DEF Following
<1>7. ReadsAsSpecified'
  BY <1>1, <1>2 DEF ReadsAsSpecified
<1> QED
  BY <1>3, <1>4, <1>5, <1>6, <1>7 DEF PforInv

\* What a turn that takes a block adds to what is decoded.
LEMMA TurnAdds ==
  ASSUME PforInv, NEW d, NEW w, NEW m, Turn(d, w, m), d.used # 0, Takes(d, m)
  PROVE  /\ Accepted(d, wire, at, w) /\ Adds(decoded', decoded, d.out, m)
         /\ Reaches(Len(decoded), m, header.count)
         /\ \E g \in Nat : Len(decoded) = 256 * g
<1>1. Typed /\ Phases
  BY DEF PforInv
<1>2. pc = "decode" /\ w = header.width
  BY DEF Turn
<1>3. /\ w \in Widths /\ Len(decoded) < header.count
      /\ \E g \in Nat : Len(decoded) = 256 * g
  BY <1>1, <1>2 DEF Phases
<1>4. Accepted(d, wire, at, w)
  <2>1. wire \in Seq(0 .. 255) /\ at \in Nat
    BY <1>1 DEF Typed
  <2>2. PICK s : s = SubSeq(wire, at + 1, Len(wire)) /\ d = DecodeBlock(s, w)
    BY DEF Turn
  <2> QED
    BY <1>3, <2>1, <2>2, BlockAccepted
<1>5. Reaches(Len(decoded), m, header.count)
  <2>1. Len(decoded) \in Nat /\ header.count \in Nat
    BY <1>1 DEF Typed
  <2>2. PICK u \in Nat, n \in Nat : u = Len(decoded) /\ n = header.count
    BY <2>1
  <2>3. u < n /\ m = Min({256, n - u})
    BY <1>3, <2>2, Zenon DEF Turn
  <2>4. Reaches(u, m, n)
    BY <2>3, NextCount
  <2> QED
    BY <2>2, <2>4, Zenon
<1>6. Adds(decoded', decoded, d.out, m)
  <2>1. decoded \in Seq(Nat) /\ d.out \in Seq(Nat) /\ Len(d.out) = 256
        /\ m \in 1 .. 256
    BY <1>1, <1>4, <1>5 DEF Typed, Accepted, Reaches
  <2>2. decoded' = decoded \o SubSeq(d.out, 1, m)
    BY DEF Takes
  <2>3. PICK o \in Seq(Nat), b \in Seq(Nat) : o = decoded /\ b = d.out
    BY <2>1
  <2>6. Len(b) = 256 /\ m \in 1 .. 256
    BY <2>1, <2>3, Zenon
  <2>4. PICK n \in Nat : n = Len(b) /\ m \in 1 .. n
    <3>1. PICK n \in Nat : n = 256
      OBVIOUS
    <3>2. n = Len(b) /\ m \in 1 .. n
      BY <2>6, <3>1
    <3> QED
      BY <3>2
  <2>5. Adds(o \o SubSeq(b, 1, m), o, b, m)
    BY <2>4, AddsSamples
  <2> QED
    BY <2>2, <2>3, <2>5, Zenon
<1> QED
  BY <1>3, <1>4, <1>5, <1>6

\* Block and samples agree with spec.md: so many samples of the last block.
ReadOff(more, bytes, a, b, w) ==
  LET blk == SubSeq(bytes, a + 1, b)
      done == (CeilDiv(Len(more), 256) - 1) * 256
  IN  \A i \in done + 1 .. Len(more) :
        more[i] = LaidOut(blk, w, i - done - 1)

\* The last block that is taken reads off as spec.md lays it out.
LEMMA ReadHolds ==
  ASSUME NEW g \in Nat, NEW u \in Nat, u = 256 * g, NEW m \in 1 .. 256,
         NEW out, NEW more, NEW d, NEW bytes, NEW a \in Nat, NEW w,
         Len(out) = u, Adds(more, out, d.out, m), Accepted(d, bytes, a, w)
  PROVE  ReadOff(more, bytes, a, a + d.used, w)
<1> DEFINE blk == SubSeq(bytes, a + 1, a + d.used)
<1>1. Len(more) = u + m
  BY Zenon DEF Adds
<1>2. (CeilDiv(u + m, 256) - 1) * 256 = u
  <2>1. CeilDiv(u + m, 256) = (u + m + 256 - 1) \div 256
    BY DEF CeilDiv
  <2>2. (u + m + 256 - 1) \div 256 = g + 1
    OBVIOUS
  <2>3. ((g + 1) - 1) * 256 = u
    OBVIOUS
  <2> QED
    BY <2>1, <2>2, <2>3, Zenon
<1>3. ASSUME NEW i \in u + 1 .. u + m
      PROVE  more[i] = LaidOut(blk, w, i - u - 1)
  <2>1. PICK k \in 1 .. m : i = u + k
    <3>1. i - u \in 1 .. m /\ i = u + (i - u)
      OBVIOUS
    <3> QED
      BY <3>1
  <2>2. PICK e \in 0 .. 255 : k = e + 1 /\ i - u - 1 = e
    <3>1. k - 1 \in 0 .. 255 /\ k = (k - 1) + 1 /\ i - u - 1 = k - 1
      BY <2>1
    <3> QED
      BY <3>1
  <2>3. more[u + k] = d.out[k]
    BY Zenon DEF Adds
  <2>4. d.out[e + 1] = LaidOut(blk, w, e)
    BY Zenon DEF Accepted
  <2> QED
    BY <2>1, <2>2, <2>3, <2>4, Zenon
<1> HIDE DEF blk
<1>4. \A i \in (CeilDiv(Len(more), 256) - 1) * 256 + 1 .. Len(more) :
        more[i] = LaidOut(blk, w, i - (CeilDiv(Len(more), 256) - 1) * 256 - 1)
  BY <1>1, <1>2, <1>3, ZenonT(60)
<1> QED
  BY <1>4 DEF blk, ReadOff

\* A turn that takes a block.
LEMMA TakingKeeps ==
  ASSUME PforInv, NEW d, NEW w, NEW m, Turn(d, w, m), d.used # 0, Takes(d, m)
  PROVE  PforInv'
<1>1. Typed /\ Written(blocks, sent, source) /\ Phases /\ ReadsAsSpecified
  BY DEF PforInv
<1>2. /\ pc = "decode" /\ source' = source /\ header' = header
      /\ sent' = sent /\ wire' = wire /\ blocks' = blocks /\ w = header.width
  BY DEF Turn
<1>3. /\ Accepted(d, wire, at, w) /\ Adds(decoded', decoded, d.out, m)
      /\ Reaches(Len(decoded), m, header.count)
  BY TurnAdds
<1>4. PICK g \in Nat, u \in Nat, n \in Nat :
        u = Len(decoded) /\ u = 256 * g /\ n = header.count
  <2>1. header.count \in Nat /\ Len(decoded) \in Nat
    BY <1>1 DEF Typed
  <2>2. \E g \in Nat : Len(decoded) = 256 * g
    BY TurnAdds
  <2> QED
    BY <2>1, <2>2
<1>5. Reaches(u, m, n) /\ Len(decoded') = u + m
  BY <1>3, <1>4, Zenon DEF Adds
<1>6. /\ m \in 1 .. 256 /\ u + m <= n
      /\ u + m = IF u + 256 <= n THEN u + 256 ELSE n
  BY <1>5 DEF Reaches
<1>7. /\ begin' = at /\ at' = at + d.used
      /\ pc' = IF u + m < n THEN "decode"
               ELSE IF at' = Len(wire) THEN "done" ELSE "corrupt"
  BY <1>4 DEF Takes
<1>8. d.used \in Nat \ {0} /\ decoded' \in Seq(Nat)
  BY <1>3 DEF Accepted, Adds
<1>9. Typed'
  BY <1>1, <1>2, <1>7, <1>8 DEF Typed
<1>10. Written(blocks, sent, source)'
  BY <1>1, <1>2, Zenon
<1>11. Phases'
  <2>1. blocks * 256 >= Len(source.elts)
    BY <1>1, <1>2 DEF Phases
  <2>2. pc' = "decode" => Len(decoded)' < header.count
    BY <1>4, <1>5, <1>6, <1>7
  <2>3. ASSUME pc' = "decode"
        PROVE  \E h \in Nat : Len(decoded)' = 256 * h
    <3>1. u + m = u + 256
      BY <1>6, <1>7, <2>3
    <3>2. u + m = 256 * (g + 1) /\ g + 1 \in Nat
      BY <1>4, <3>1
    <3> QED
      BY <1>5, <3>2
  <2>4. header.width \in Widths
    BY <1>1, <1>2 DEF Phases
  <2>5. pc' \notin {"encode", "sent"}
    BY <1>7
  <2> QED
    BY <1>2, <2>1, <2>2, <2>3, <2>4, <2>5 DEF Phases
<1>12. Following'
  <2> SUFFICES ASSUME wire = sent, header = HeaderOf(source)
               PROVE  /\ pc' # "corrupt"
                      /\ \E off, j : /\ Laid(off, blocks, sent, source)
                                     /\ j \in 0 .. blocks /\ Reached(j, off)'
    BY <1>2 DEF Following
  <2>1. PICK off, j :
          /\ Laid(off, blocks, sent, source) /\ j \in 0 .. blocks - 1
          /\ Reached(j, off) /\ 256 * j < Len(source.elts)
          /\ ReadsBlock(d, source, j) /\ off[j + 1] = at + d.used
    BY TurnReads
  <2>2. PICK b \in Nat : /\ b = blocks /\ b * 256 >= n
                         /\ b = 0 \/ (b - 1) * 256 < n
                         /\ n = Len(source.elts) /\ off[b] = Len(sent)
    BY <1>1, <1>2, <1>4, <2>1
      DEF Typed, Phases, HeaderOf, Written, Sized, Laid
  <2>3. j \in Nat /\ j + 1 \in 0 .. b /\ j \in 0 .. b - 1
    BY <2>1, <2>2
  <2>4. Got(j, decoded, source)
    BY <2>1 DEF Reached
  <2>5. Got(j + 1, decoded', source)
    <3>1. source \in Sources /\ decoded \in Seq(Nat)
      BY <1>1 DEF Typed
    <3>2. PICK o \in Seq(Nat) : o = decoded
      BY <3>1
    <3>2a. PICK out, more : out = d.out /\ more = decoded'
      OBVIOUS
    <3>3. m = Min({256, Len(source.elts) - Len(o)})
      BY <1>4, <2>2, <3>2 DEF Turn
    <3>4. Samples(out, source, j)
      BY <2>1, <3>2, <3>2a, Zenon DEF ReadsBlock, Samples
    <3>5. Adds(more, o, out, m) /\ Got(j, o, source)
      BY <1>3, <2>4, <3>2, <3>2a, Zenon
    <3>6. Got(j + 1, more, source)
      BY <2>1, <2>3, <3>1, <3>3, <3>4, <3>5, GotMore
    <3> QED
      BY <3>2, <3>2a, <3>6, Zenon
  <2>6. u = 256 * j
    <3>1. 256 * j <= n
      BY <2>1, <2>2, <2>3
    <3> QED
      BY <1>4, <2>2, <2>4, <3>1, Zenon DEF Got
  <2>7. u + m < n => 256 * (j + 1) < n
    BY <1>6, <2>3, <2>6
  <2>8. ~(u + m < n) => at' = Len(wire) /\ u + m = n
    <3>1. ASSUME ~(u + m < n) PROVE j + 1 = b /\ u + m = n
      BY <1>6, <2>2, <2>3, <2>6, <3>1
    <3>2. off[j + 1] = at' /\ off[b] = Len(wire)
      BY <1>7, <2>1, <2>2
    <3> QED
      BY <3>1, <3>2
  <2>9. pc' # "corrupt"
    BY <1>7, <2>8
  <2>10. Reached(j + 1, off)'
    <3>1. at' = off[j + 1]
      BY <1>7, <2>1
    <3>2. pc' = "decode" => 256 * (j + 1) < Len(source.elts)
      BY <1>7, <2>2, <2>7
    <3>3. pc' = "done" => Len(decoded') = Len(source.elts)
      BY <1>5, <1>7, <2>2, <2>8
    <3>4. pc' # "sent"
      BY <1>7
    <3> QED
      BY <1>2, <2>5, <3>1, <3>2, <3>3, <3>4 DEF Reached
  <2>11. j + 1 \in 0 .. blocks
    BY <2>2, <2>3
  <2> QED
    BY <2>1, <2>9, <2>10, <2>11
<1>13. ReadsAsSpecified'
  <2>1. PICK k \in Nat : k = at
    BY <1>1 DEF Typed
  <2>1a. PICK more, bytes, out :
           more = decoded' /\ bytes = wire /\ out = decoded
    OBVIOUS
  <2>2. ReadOff(more, bytes, k, k + d.used, w)
    <3>1. /\ Len(out) = u /\ Adds(more, out, d.out, m)
          /\ Accepted(d, bytes, k, w) /\ u = 256 * g
      BY <1>3, <1>4, <2>1, <2>1a, Zenon
    <3> QED
      BY <1>6, <3>1, ReadHolds, ZenonT(60)
  <2>3. pc' = "done" => at' = Len(wire) /\ Len(decoded') = header.count
    BY <1>4, <1>5, <1>6, <1>7
  <2> QED
    BY <1>2, <1>7, <2>1, <2>1a, <2>2, <2>3, Zenon
       DEF ReadsAsSpecified, ReadOff, Block
<1> QED
  BY <1>9, <1>10, <1>11, <1>12, <1>13 DEF PforInv

-----------------------------------------------------------------------------
(* Theorems                                                                *)

\* PforInv is an inductive invariant.
LEMMA Inductive == Spec => []PforInv
<1>1. Init => PforInv
  BY InitHolds
<1>2. PforInv /\ [Next]_vars => PforInv'
  <2> SUFFICES ASSUME PforInv, [Next]_vars PROVE PforInv'
    OBVIOUS
  <2>1. CASE Encode
    BY <2>1, EncodeKeeps
  <2>2. CASE Send
    BY <2>2, SendKeeps
  <2>3. CASE Open
    BY <2>3, OpenKeeps
  <2>4. CASE Decode
    <3>1. PICK d, w, m :
            /\ Turn(d, w, m)
            /\ \/ /\ d.used = 0 /\ pc' = "corrupt"
                  /\ UNCHANGED <<begin, at, decoded>>
               \/ d.used # 0 /\ Takes(d, m)
      BY <2>4, DecodeTurns
    <3>2. CASE d.used = 0 /\ pc' = "corrupt"
               /\ UNCHANGED <<begin, at, decoded>>
      BY <3>1, <3>2, RefusingKeeps
    <3>3. CASE d.used # 0 /\ Takes(d, m)
      BY <3>1, <3>3, TakingKeeps
    <3> QED
      BY <3>1, <3>2, <3>3
  <2>5. CASE UNCHANGED vars
    BY <2>5 DEF PforInv, vars, Typed, Phases, Following, Reached,
      ReadsAsSpecified
  <2> QED
    BY <2>1, <2>2, <2>3, <2>4, <2>5 DEF Next, Ended
<1> QED
  BY <1>1, <1>2, PTL DEF Spec

\* geozl_pfor_encode and geozl_pfor_decode are each other's inverse: samples
\* of every width, count and value come back from the bytes as they were
\* written, by either way of unpacking, and the decoder refuses none of them.
THEOREM RoundTripsHolds == Spec => []RoundTrips
<1>1. PforInv => RoundTrips
  <2> SUFFICES ASSUME PforInv, wire = sent,
                      header = [count |-> Len(source.elts),
                                width |-> source.width]
               PROVE  /\ pc # "corrupt"
                      /\ pc = "done" => decoded = source.elts
    BY DEF RoundTrips
  <2>1. CASE pc = "encode"
    BY <2>1
  <2>2. CASE pc # "encode"
    <3>1. /\ pc # "corrupt"
          /\ \E off, j : Reached(j, off)
      BY <2>2 DEF PforInv, Following, HeaderOf
    <3>2. ASSUME pc = "done" PROVE decoded = source.elts
      <4>1. PICK j : Got(j, decoded, source)
                     /\ Len(decoded) = Len(source.elts)
        BY <3>1, <3>2 DEF Reached
      <4>2. PICK a, b : /\ a = decoded /\ b = source.elts /\ a \in Seq(Nat)
                        /\ b \in Seq(0 .. Power[8 * source.width] - 1)
        BY PforAssumption DEF PforInv, Typed, IsSource
      <4>3. Len(a) = Len(b) /\ \A i \in 1 .. Len(a) : a[i] = b[i]
        BY <4>1, <4>2, Zenon DEF Got
      <4>4. PICK n : n = Len(a) /\ n = Len(b)
        BY <4>3
      <4>5. a = [i \in 1 .. n |-> a[i]] /\ b = [i \in 1 .. n |-> b[i]]
        BY <4>2, <4>4, LenProperties
      <4> QED
        BY <4>2, <4>3, <4>4, <4>5, Zenon
    <3> QED
      BY <3>1, <3>2
  <2> QED
    BY <2>1, <2>2
<1> QED
  BY <1>1, Inductive, PTL

\* geozl_pfor_bound is enough for every stream: no choice of width and
\* exceptions in any of its blocks takes more.
THEOREM WithinBoundHolds == Spec => []WithinBound
<1>1. PforInv => WithinBound
  <2> SUFFICES ASSUME PforInv PROVE WithinBound
    OBVIOUS
  <2>1. Typed /\ Written(blocks, sent, source)
    BY DEF PforInv
  <2>2. PICK n \in Nat, b \in Nat, h \in Nat, u \in Nat :
          /\ n = Len(source.elts) /\ b = blocks /\ h = 2 + 256 * source.width
          /\ u = Len(sent)
    <3>1. /\ Len(source.elts) \in Nat /\ blocks \in Nat
          /\ source.width \in {1, 2, 4, 8} /\ Len(sent) \in Nat
      BY <2>1, SourceBlock, BitsFacts DEF Typed, Written
    <3>2. 2 + 256 * source.width \in Nat
      BY <3>1
    <3> QED
      BY <3>1, <3>2
  <2>3. u <= b * h /\ (b = 0 \/ (b - 1) * 256 < n)
    BY <2>1, <2>2, Zenon DEF Written, Sized
  <2>4. PICK c \in Nat : c = CeilDiv(n, 256) /\ b <= c
    <3>1. CeilDiv(n, 256) = (n + 256 - 1) \div 256
      BY DEF CeilDiv
    <3>2. PICK c \in Nat : c = (n + 256 - 1) \div 256 /\ n <= c * 256
      OBVIOUS
    <3>3. b <= c
      BY <2>3, <3>2
    <3> QED
      BY <3>1, <3>2, <3>3
  <2>5. PICK f \in Nat : c = b + f
    <3>1. c - b \in Nat /\ c = b + (c - b)
      BY <2>4
    <3> QED
      BY <3>1
  <2>6. c * h = b * h + f * h /\ b * h \in Nat /\ f * h \in Nat
    BY <2>5
  <2>7. PICK x \in Nat, y \in Nat, z \in Nat :
          x = c * h /\ y = b * h /\ z = f * h /\ x = y + z
    BY <2>6
  <2>8. u <= x
    <3>1. u <= y
      BY <2>3, <2>7, Zenon
    <3> QED
      BY <2>7, <3>1
  <2> QED
    BY <2>2, <2>4, <2>7, <2>8, Zenon DEF WithinBound, Bound, Block
<1> QED
  BY <1>1, Inductive, PTL

\* With a byte replaced, the end lost, zeros behind it or another header,
\* geozl_pfor_decode reads a block that it accepts as spec.md lays it out, and a
\* stream that it accepts ends with its last block.
THEOREM ReadsAsSpecifiedHolds == Spec => []ReadsAsSpecified
<1>1. PforInv => ReadsAsSpecified
  BY DEF PforInv
<1> QED
  BY <1>1, Inductive, PTL

=============================================================================
