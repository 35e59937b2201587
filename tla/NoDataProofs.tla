----------------------------- MODULE NoDataProofs -----------------------------
(***************************************************************************)
(* The properties of NoData hold for floats of any exponent and fraction   *)
(* field and integers of the same width, for any rasters, widths, bounds   *)
(* and damage.                                                             *)
(*                                                                         *)
(* The first part orders the patterns: the number of a magnitude grows     *)
(* with its bits, so that nothing lies between a value and what            *)
(* nodata_guard_values says is next to it.  The second says what the codes *)
(* of the mask promise, the third what a call has done at each step.       *)
(***************************************************************************)
EXTENDS NoData, FiniteSetTheorems, SequenceTheorems, TLAPS

-----------------------------------------------------------------------------
(* The order of the patterns                                               *)

\* A set of numbers has a least one.  Taken of the numbers for which a claim
\* fails, it stands for induction.
LEMMA LeastNumber ==
  ASSUME NEW T, T \subseteq Nat, T # {}
  PROVE  \E x \in T : \A y \in T : x <= y
<1> DEFINE Below(n) == 0 .. n
           F == {Below(n) : n \in T}
<1>1. F \subseteq FiniteSubsetsOf(Nat) /\ F # {}
  <2>1. ASSUME NEW n \in T
        PROVE  Below(n) \in SUBSET Nat /\ IsFiniteSet(Below(n))
    BY FS_Interval
  <2> QED
    BY <2>1 DEF FiniteSubsetsOf
<1>2. PICK U \in F : \A V \in F : <<V, U>> \notin StrictSubsetOrdering(Nat)
  BY <1>1, FS_StrictSubsetOrderingWellFounded, WFMin
<1>3. PICK x \in T : U = Below(x)
  OBVIOUS
<1>4. ASSUME NEW y \in T PROVE x <= y
  <2> SUFFICES ASSUME y < x PROVE FALSE
    OBVIOUS
  <2>1. Below(y) \in SUBSET Nat /\ U \in SUBSET Nat /\ Below(y) \subseteq U
    BY <1>3
  <2>2. x \in U /\ x \notin Below(y)
    BY <1>3
  <2> HIDE DEF Below
  <2>3. <<Below(y), U>> \in StrictSubsetOrdering(Nat)
    BY <2>1, <2>2 DEF StrictSubsetOrdering
  <2> QED
    BY <1>2, <2>3
<1> QED
  BY <1>4

\* Each exponent doubles what a fraction is worth, up to some exponent.
Doubles(u, n) == u = [e \in 1 .. n |-> IF e = 1 THEN 1 ELSE 2 * u[e - 1]]

\* There is such a function.
LEMMA DoublesExist ==
  ASSUME NEW n \in Nat
  PROVE  \E u \in [1 .. n -> Nat \ {0}] : Doubles(u, n)
<1> DEFINE Has(k) == \E u \in [1 .. k -> Nat \ {0}] : Doubles(u, k)
           T == {k \in Nat : ~Has(k)}
<1>1. Has(0)
  <2>1. PICK u : u = [e \in 1 .. 0 |-> 1]
    OBVIOUS
  <2>2. u \in [1 .. 0 -> Nat \ {0}] /\ Doubles(u, 0)
    BY <2>1 DEF Doubles
  <2> QED
    BY <2>2
<1>2. ASSUME NEW k \in Nat, Has(k) PROVE Has(k + 1)
  <2>1. PICK u \in [1 .. k -> Nat \ {0}] : Doubles(u, k)
    BY <1>2
  <2>2. \A e \in 1 .. k : u[e] = IF e = 1 THEN 1 ELSE 2 * u[e - 1]
    BY <2>1 DEF Doubles
  <2> DEFINE last == IF k = 0 THEN 1 ELSE 2 * u[k]
             v == [e \in 1 .. k + 1 |-> IF e <= k THEN u[e] ELSE last]
  <2>3. last \in Nat \ {0}
    OBVIOUS
  <2>4. v \in [1 .. k + 1 -> Nat \ {0}]
    BY <2>3
  <2>5. ASSUME NEW e \in 1 .. k + 1
        PROVE  v[e] = IF e = 1 THEN 1 ELSE 2 * v[e - 1]
    <3>1. CASE e \in 1 .. k
      <4>1. v[e] = u[e] /\ (e # 1 => v[e - 1] = u[e - 1])
        BY <3>1
      <4> QED
        BY <2>2, <3>1, <4>1
    <3>2. CASE e = k + 1
      <4>1. v[e] = last /\ (e # 1 => v[e - 1] = u[k])
        BY <3>2
      <4> QED
        BY <3>2, <4>1
    <3> QED
      BY <3>1, <3>2
  <2>6. v = [e \in 1 .. k + 1 |-> v[e]]
    OBVIOUS
  <2> HIDE DEF v
  <2>7. Doubles(v, k + 1)
    BY <2>5, <2>6 DEF Doubles
  <2> QED
    BY <2>4, <2>7
<1> HIDE DEF Has
<1>3. T = {}
  <2> SUFFICES ASSUME T # {} PROVE FALSE
    OBVIOUS
  <2>1. PICK k \in T : \A j \in T : k <= j
    BY LeastNumber
  <2>2. k # 0 /\ k \in Nat
    BY <1>1
  <2>3. k - 1 \in Nat /\ k - 1 \notin T
    BY <2>1, <2>2
  <2>4. Has(k - 1 + 1)
    BY <1>2, <2>3
  <2> QED
    BY <2>2, <2>4
<1> QED
  BY <1>3 DEF Has

\* What Scale computes.
LEMMA ScaleFacts ==
  /\ Scale[1] = 1
  /\ \A e \in 1 .. ExpMax : Scale[e] \in Nat \ {0}
  /\ \A e \in 1 .. ExpMax - 1 : Scale[e + 1] = 2 * Scale[e]
<1>1. ExpMax \in Nat \ {0}
  BY FieldsAssumption
<1>2. \E u : Doubles(u, ExpMax)
  BY <1>1, DoublesExist
<1>3. Doubles(Scale, ExpMax)
  BY <1>2 DEF Doubles, Scale
<1>4. \A e \in 1 .. ExpMax :
        Scale[e] = IF e = 1 THEN 1 ELSE 2 * Scale[e - 1]
  BY <1>3 DEF Doubles
<1>5. Scale[1] = 1 /\ \A e \in 1 .. ExpMax - 1 : Scale[e + 1] = 2 * Scale[e]
  <2>1. Scale[1] = 1
    BY <1>1, <1>4
  <2>2. ASSUME NEW e \in 1 .. ExpMax - 1 PROVE Scale[e + 1] = 2 * Scale[e]
    <3>1. e + 1 \in 1 .. ExpMax /\ e + 1 # 1 /\ e + 1 - 1 = e
      BY <1>1
    <3> QED
      BY <1>4, <3>1
  <2> QED
    BY <2>1, <2>2
<1> DEFINE T == {e \in 1 .. ExpMax : Scale[e] \notin Nat \ {0}}
<1>6. T = {}
  <2> SUFFICES ASSUME T # {} PROVE FALSE
    OBVIOUS
  <2>1. PICK e \in T : \A k \in T : e <= k
    BY T \subseteq Nat, LeastNumber
  <2>2. e # 1 /\ e \in 1 .. ExpMax
    BY <1>5
  <2>3. e - 1 \in 1 .. ExpMax - 1 /\ e - 1 \notin T /\ e - 1 + 1 = e
    BY <1>1, <2>1, <2>2
  <2>4. Scale[e - 1] \in Nat \ {0}
    BY <1>1, <2>3
  <2>5. Scale[e] = 2 * Scale[e - 1]
    BY <1>5, <2>3
  <2> QED
    BY <2>1, <2>4, <2>5
<1> QED
  BY <1>5, <1>6

\* The fields of a float.
LEMMA FieldFacts ==
  /\ Fractions \in Nat /\ Fractions >= 2
  /\ Infinity \in Nat /\ Infinity >= Fractions
  /\ Sign = Infinity + Fractions /\ All = 2 * Sign - 1
<1>1. /\ ExpMax \in Nat /\ ExpMax >= 1
      /\ Fractions \in Nat /\ Fractions >= 2
  BY FieldsAssumption
<1>2. PICK e \in Nat, f \in Nat : e = ExpMax /\ f = Fractions
  BY <1>1
<1>3. e * f \in Nat /\ e * f >= f /\ (e + 1) * f = e * f + f
  BY <1>1, <1>2
<1> QED
  BY <1>1, <1>2, <1>3 DEF Infinity, Sign, All

\* Exponent and fraction of a finite magnitude.
LEMMA FiniteFields ==
  ASSUME NEW x \in 0 .. Infinity - 1
  PROVE  \E q \in 0 .. ExpMax - 1, r \in 0 .. Fractions - 1 :
           /\ x = q * Fractions + r
           /\ Absolute(x) = IF q = 0 THEN r ELSE (Fractions + r) * Scale[q]
<1>1. /\ Fractions \in Nat /\ Fractions >= 2 /\ Infinity \in Nat
      /\ Sign = Infinity + Fractions
  BY FieldFacts
<1>2. PICK f \in Nat : f = Fractions /\ f > 0
  BY <1>1
<1>3. PICK q \in Int, r \in Int : q = x \div f /\ r = x % f
  BY <1>2
<1>4. x = f * q + r /\ r \in 0 .. f - 1 /\ q >= 0
  BY <1>2, <1>3
<1>5. PICK e \in Nat : e = ExpMax
  BY FieldsAssumption
<1>6. q < e
  <2> SUFFICES ASSUME q >= e PROVE FALSE
    BY <1>5
  <2>1. f * q >= f * e
    BY <1>2
  <2>2. x < e * f
    BY <1>2, <1>5 DEF Infinity
  <2> QED
    BY <1>4, <2>1, <2>2
<1>7. x < Sign /\ x # Infinity /\ x \in Nat
  BY <1>1
<1>8. Magnitude(x) = x
  BY <1>1, <1>7 DEF Magnitude
<1>9. Exponent(x) = q /\ Fraction(x) = r
  BY <1>2, <1>3, <1>8 DEF Exponent, Fraction
<1>10. Absolute(x) = IF q = 0 THEN r ELSE (Fractions + r) * Scale[q]
  BY <1>7, <1>8, <1>9 DEF Absolute
<1>11. q * f = f * q
  OBVIOUS
<1> QED
  BY <1>2, <1>4, <1>5, <1>6, <1>10, <1>11

\* A float that is one bit pattern larger is larger.
LEMMA AbsoluteStep ==
  ASSUME NEW x \in 0 .. Infinity - 2
  PROVE  Absolute(x) < Absolute(x + 1)
<1>1. /\ Fractions \in Nat /\ Fractions >= 2 /\ Infinity \in Nat
  BY FieldFacts
<1>2. x \in 0 .. Infinity - 1 /\ x + 1 \in 0 .. Infinity - 1
  BY <1>1
<1>3. PICK f \in Nat : f = Fractions /\ f >= 2
  BY <1>1
<1>4. PICK q \in 0 .. ExpMax - 1, r \in 0 .. f - 1 :
        /\ x = q * f + r
        /\ Absolute(x) = IF q = 0 THEN r ELSE (f + r) * Scale[q]
  BY <1>2, <1>3, FiniteFields
<1>5. PICK p \in 0 .. ExpMax - 1, s \in 0 .. f - 1 :
        /\ x + 1 = p * f + s
        /\ Absolute(x + 1) = IF p = 0 THEN s ELSE (f + s) * Scale[p]
  BY <1>2, <1>3, FiniteFields
<1>6. /\ ExpMax \in Nat /\ ExpMax >= 1
      /\ q \in Nat /\ p \in Nat /\ r \in Nat /\ s \in Nat
  BY <1>3, FieldsAssumption
<1>7. (p = q /\ s = r + 1) \/ (p = q + 1 /\ s = 0 /\ r = f - 1)
  <2>1. q * f + r + 1 = p * f + s
    BY <1>4, <1>5, <1>6
  <2>2. PICK d \in Int : p = q + d
    BY <1>6
  <2>3. p * f = q * f + d * f
    BY <1>6, <2>2
  <2>4. r + 1 = d * f + s
    <3>1. PICK m \in Int, o \in Int : m = q * f /\ o = d * f
      BY <1>6
    <3> QED
      BY <1>6, <2>1, <2>3, <3>1
  <2>5. d > -1
    <3> SUFFICES ASSUME d <= -1 PROVE FALSE
      BY <1>3
    <3>1. d * f <= -1 * f
      BY <1>3
    <3> QED
      BY <1>3, <1>4, <1>5, <1>6, <2>4, <3>1
  <2>6. d < 2
    <3> SUFFICES ASSUME d >= 2 PROVE FALSE
      BY <1>3
    <3>1. d * f >= 2 * f
      BY <1>3
    <3> QED
      BY <1>3, <1>4, <1>5, <1>6, <2>4, <3>1
  <2>7. d = 0 \/ d = 1
    BY <2>5, <2>6
  <2> QED
    BY <1>3, <1>4, <1>5, <1>6, <2>2, <2>4, <2>7
<1>8. CASE p = q /\ s = r + 1
  <2>1. CASE q = 0
    BY <1>4, <1>5, <1>6, <1>8, <2>1
  <2>2. CASE q # 0
    <3>1. PICK c \in Nat : c = Scale[q] /\ c > 0
      BY <1>6, <2>2, ScaleFacts
    <3>2. /\ Absolute(x) = (f + r) * c
          /\ Absolute(x + 1) = (f + (r + 1)) * c
      BY <1>4, <1>5, <1>8, <2>2, <3>1
    <3>3. (f + (r + 1)) * c = (f + r) * c + c /\ (f + r) * c \in Nat
      BY <1>6
    <3> QED
      BY <3>1, <3>2, <3>3
  <2> QED
    BY <2>1, <2>2
<1>9. CASE p = q + 1 /\ s = 0 /\ r = f - 1
  <2>1. PICK c \in Nat : c = Scale[p] /\ c > 0
    BY <1>6, <1>9, ScaleFacts
  <2>2. Absolute(x + 1) = f * c
    <3>1. p # 0 /\ f + 0 = f
      BY <1>6, <1>9
    <3> QED
      BY <1>5, <1>9, <2>1, <3>1
  <2>3. CASE q = 0
    <3>1. c = 1
      BY <1>9, <2>1, <2>3, ScaleFacts
    <3> QED
      BY <1>3, <1>4, <1>6, <1>9, <2>2, <2>3, <3>1
  <2>4. CASE q # 0
    <3>1. PICK b \in Nat : b = Scale[q] /\ b > 0 /\ c = 2 * b
      <4>1. q \in 1 .. ExpMax - 1 /\ q \in 1 .. ExpMax
        BY <1>6, <1>9, <2>4
      <4> QED
        BY <1>9, <2>1, <4>1, ScaleFacts
    <3>2. Absolute(x) = (f + (f - 1)) * b
      BY <1>4, <1>9, <2>4, <3>1
    <3>3. (f + (f - 1)) * b = f * (2 * b) - b /\ f * (2 * b) \in Nat
      BY <1>3
    <3> QED
      BY <2>2, <3>1, <3>2, <3>3
  <2> QED
    BY <2>3, <2>4
<1> QED
  BY <1>7, <1>8, <1>9

\* The number of a magnitude is one, and zero only for zero.
LEMMA AbsoluteType ==
  /\ \A x \in 0 .. Infinity : Absolute(x) \in Nat
  /\ Absolute(0) = 0
<1>1. /\ Fractions \in Nat /\ Fractions >= 2 /\ Infinity \in Nat
      /\ Sign = Infinity + Fractions /\ Infinity >= Fractions
  BY FieldFacts
<1>2. ASSUME NEW x \in 0 .. Infinity - 1 PROVE Absolute(x) \in Nat
  <2>1. PICK f \in Nat : f = Fractions
    BY <1>1
  <2>2. PICK q \in 0 .. ExpMax - 1, r \in 0 .. f - 1 :
          Absolute(x) = IF q = 0 THEN r ELSE (f + r) * Scale[q]
    BY <2>1, FiniteFields
  <2>3. r \in Nat
    OBVIOUS
  <2>4. CASE q # 0
    <3>1. PICK c \in Nat : c = Scale[q]
      BY <2>4, ScaleFacts, FieldsAssumption
    <3> QED
      BY <2>2, <2>3, <2>4, <3>1
  <2> QED
    BY <2>2, <2>3, <2>4
<1>3. Absolute(Infinity) = Unbounded \div 4 /\ Unbounded \div 4 \in Nat
  BY <1>1, CallAssumption DEF Absolute, Magnitude
<1>4. Absolute(0) = 0
  <2>1. PICK f \in Nat : f = Fractions /\ f >= 2
    BY <1>1
  <2>2. 0 \in 0 .. Infinity - 1
    BY <1>1
  <2>3. PICK q \in 0 .. ExpMax - 1, r \in 0 .. f - 1 :
          /\ 0 = q * f + r
          /\ Absolute(0) = IF q = 0 THEN r ELSE (f + r) * Scale[q]
    BY <2>1, <2>2, FiniteFields
  <2>4. q \in Nat /\ r \in Nat /\ q * f \in Nat
    BY FieldsAssumption
  <2>5. q * f = 0 /\ r = 0
    BY <2>3, <2>4
  <2>6. q = 0
    BY <2>1, <2>4, <2>5
  <2> QED
    BY <2>3, <2>5, <2>6
<1>5. \A x \in 0 .. Infinity : x = Infinity \/ x \in 0 .. Infinity - 1
  BY <1>1
<1> QED
  BY <1>2, <1>3, <1>4, <1>5

\* Larger bit patterns stand for larger floats, infinity for the largest.
LEMMA AbsoluteGrows ==
  ASSUME NEW x \in 0 .. Infinity, NEW y \in 0 .. Infinity, x < y
  PROVE  Absolute(x) < Absolute(y)
<1>1. /\ Infinity \in Nat /\ Fractions \in Nat /\ Fractions >= 2
      /\ Sign = Infinity + Fractions
  BY FieldFacts
<1>2. CASE y = Infinity
  <2>1. Absolute(Infinity) = Unbounded \div 4
    BY <1>1 DEF Absolute, Magnitude
  <2>2. x \in 0 .. Infinity - 1
    BY <1>1, <1>2
  <2> QED
    BY <1>2, <2>1, <2>2, CallAssumption
<1>3. CASE y # Infinity
  <2> DEFINE T == {z \in 0 .. Infinity - 1 :
                     x < z /\ ~(Absolute(x) < Absolute(z))}
  <2>1. T = {}
    <3> SUFFICES ASSUME T # {} PROVE FALSE
      OBVIOUS
    <3>1. PICK z \in T : \A w \in T : z <= w
      BY T \subseteq Nat, LeastNumber
    <3>2. /\ z \in 0 .. Infinity - 1 /\ x < z /\ z - 1 \notin T
          /\ z - 1 \in 0 .. Infinity - 2 /\ z - 1 + 1 = z
      BY <1>1, <3>1
    <3>3. Absolute(z - 1) < Absolute(z)
      BY <3>2, AbsoluteStep
    <3>4. x = z - 1 \/ Absolute(x) < Absolute(z - 1)
      BY <1>1, <3>2
    <3>5. /\ Absolute(x) \in Nat /\ Absolute(z) \in Nat
          /\ Absolute(z - 1) \in Nat
      BY <1>1, <3>2, AbsoluteType
    <3>6. Absolute(x) < Absolute(z)
      BY <3>3, <3>4, <3>5
    <3> QED
      BY <3>1, <3>6
  <2>2. y \in 0 .. Infinity - 1
    BY <1>1, <1>3
  <2> QED
    BY <2>1, <2>2
<1> QED
  BY <1>2, <1>3

\* The number of a float is that of its magnitude and its sign.
LEMMA Magnitudes ==
  ASSUME NEW b \in Element
  PROVE  /\ b \in Nat /\ b < 2 * Sign /\ Sign \in Nat
         /\ Magnitude(b) \in 0 .. Sign - 1
         /\ b = Magnitude(b) \/ (b >= Sign /\ b = Magnitude(b) + Sign)
         /\ Magnitude(Magnitude(b)) = Magnitude(b)
         /\ Absolute(b) = Absolute(Magnitude(b))
<1>1. Sign \in Nat /\ All = 2 * Sign - 1
  BY FieldFacts
<1>2. /\ b \in Nat /\ b < 2 * Sign
      /\ Magnitude(b) \in 0 .. Sign - 1
      /\ b = Magnitude(b) \/ (b >= Sign /\ b = Magnitude(b) + Sign)
      /\ Magnitude(Magnitude(b)) = Magnitude(b)
  BY <1>1 DEF Element, Magnitude
<1>3. Absolute(b) = Absolute(Magnitude(b))
  BY <1>2 DEF Absolute, Exponent, Fraction
<1> QED
  BY <1>1, <1>2, <1>3

\* Magnitudes compare as their numbers do.
LEMMA AbsoluteOrder ==
  ASSUME NEW x \in 0 .. Infinity, NEW y \in 0 .. Infinity
  PROVE  /\ Absolute(x) \in Nat /\ Absolute(y) \in Nat
         /\ x < y <=> Absolute(x) < Absolute(y)
         /\ x = y <=> Absolute(x) = Absolute(y)
<1>1. Infinity \in Nat /\ x \in Nat /\ y \in Nat
  BY FieldFacts
<1>2. Absolute(x) \in Nat /\ Absolute(y) \in Nat
  BY AbsoluteType
<1>3. x < y \/ x = y \/ y < x
  BY <1>1
<1>4. /\ x < y => Absolute(x) < Absolute(y)
      /\ y < x => Absolute(y) < Absolute(x)
  BY AbsoluteGrows
<1> QED
  BY <1>1, <1>2, <1>3, <1>4

\* How a sample may be read.
Types == {"unsigned", "signed", "float"}

\* A pattern that stands for a number.
Real(b) == b \in Element /\ ~IsNaN(b)

\* A float that is no NaN has a magnitude up to infinity, and a sign.
LEMMA FloatNumber ==
  ASSUME dtype = "float", NEW b, Real(b)
  PROVE  /\ Magnitude(b) \in 0 .. Infinity
         /\ \/ b = Magnitude(b) /\ Number(b) = Absolute(Magnitude(b))
            \/ /\ b = Magnitude(b) + Sign
               /\ Number(b) = 0 - Absolute(Magnitude(b))
<1>1. /\ b \in Element /\ ~(Magnitude(b) > Infinity)
  BY DEF Real, IsNaN, LooksNaN
<1>2. Infinity \in Nat /\ Sign = Infinity + Fractions /\ Fractions \in Nat
  BY FieldFacts
<1>3. Magnitude(b) \in 0 .. Infinity
  BY <1>1, <1>2, Magnitudes
<1>4. Number(b) = IF b >= Sign THEN 0 - Absolute(b) ELSE Absolute(b)
  BY DEF Number
<1>5. Absolute(b) = Absolute(Magnitude(b))
  BY <1>1, Magnitudes
<1>6. (b = Magnitude(b) /\ b < Sign) \/ (b >= Sign /\ b = Magnitude(b) + Sign)
  BY <1>1, <1>2, Magnitudes
<1> QED
  BY <1>2, <1>3, <1>4, <1>5, <1>6, Magnitudes, <1>1

\* The two floats of a magnitude.
LEMMA FloatOf ==
  ASSUME dtype = "float", NEW x \in 0 .. Infinity
  PROVE  /\ Real(x) /\ Magnitude(x) = x /\ Number(x) = Absolute(x)
         /\ Real(x + Sign) /\ Magnitude(x + Sign) = x
         /\ Number(x + Sign) = 0 - Absolute(x)
<1>1. /\ Infinity \in Nat /\ Sign = Infinity + Fractions
      /\ Fractions \in Nat /\ Fractions >= 2 /\ All = 2 * Sign - 1
  BY FieldFacts
<1>2. /\ x \in Element /\ x + Sign \in Element /\ x < Sign
      /\ x + Sign >= Sign /\ x + Sign - Sign = x
  BY <1>1 DEF Element
<1>3. Magnitude(x) = x /\ Magnitude(x + Sign) = x
  BY <1>1, <1>2 DEF Magnitude
<1>4. Real(x) /\ Real(x + Sign)
  BY <1>1, <1>2, <1>3 DEF Real, IsNaN, LooksNaN
<1>5. Absolute(x + Sign) = Absolute(x)
  BY <1>2, <1>3, Magnitudes
<1>6. /\ Number(x) = Absolute(x)
      /\ Number(x + Sign) = 0 - Absolute(x + Sign)
  BY <1>1, <1>2 DEF Number
<1> QED
  BY <1>3, <1>4, <1>5, <1>6

\* Every pattern that is no NaN stands for an integer number of units.
LEMMA NumberType ==
  ASSUME dtype \in Types, NEW b, Real(b)
  PROVE  Number(b) \in Int
<1>1. b \in Nat /\ Sign \in Nat
  BY Magnitudes DEF Real
<1>2. CASE dtype = "unsigned"
  BY <1>1, <1>2 DEF Number
<1>3. CASE dtype = "signed"
  BY <1>1, <1>3 DEF Number
<1>4. CASE dtype = "float"
  <2>1. PICK a \in Nat : a = Absolute(Magnitude(b))
    BY <1>4, FloatNumber, AbsoluteType
  <2> QED
    BY <1>4, <2>1, FloatNumber
<1> QED
  BY <1>2, <1>3, <1>4 DEF Types

\* Two patterns stand for one number only if they are the two zeros.
LEMMA SameNumber ==
  ASSUME dtype \in Types, NEW b, Real(b), NEW s, Real(s), b # s,
         Number(b) = Number(s)
  PROVE  /\ dtype = "float" /\ Magnitude(s) = 0 /\ Magnitude(b) = 0
         /\ b = IF s = 0 THEN Sign ELSE 0
<1>1. /\ b \in Nat /\ b < 2 * Sign /\ s \in Nat /\ s < 2 * Sign /\ Sign \in Nat
  BY Magnitudes DEF Real
<1>2. dtype # "unsigned" /\ dtype # "signed"
  BY <1>1 DEF Number
<1>3. dtype = "float"
  BY <1>2 DEF Types
<1>4. PICK x \in 0 .. Infinity : /\ x = Magnitude(b)
                                 /\ \/ b = x /\ Number(b) = Absolute(x)
                                    \/ /\ b = x + Sign
                                       /\ Number(b) = 0 - Absolute(x)
  BY <1>3, FloatNumber
<1>5. PICK y \in 0 .. Infinity : /\ y = Magnitude(s)
                                 /\ \/ s = y /\ Number(s) = Absolute(y)
                                    \/ /\ s = y + Sign
                                       /\ Number(s) = 0 - Absolute(y)
  BY <1>3, FloatNumber
<1>6. /\ Absolute(x) \in Nat /\ Absolute(y) \in Nat
      /\ x = y <=> Absolute(x) = Absolute(y)
  BY AbsoluteOrder
<1>7. x # y => FALSE
  <2> SUFFICES ASSUME x # y PROVE FALSE
    OBVIOUS
  <2>1. Absolute(x) # Absolute(y)
    BY <1>6
  <2>2. Absolute(x) = 0 - Absolute(y) \/ Absolute(y) = 0 - Absolute(x)
    BY <1>4, <1>5, <1>6, <2>1
  <2> QED
    BY <1>6, <2>1, <2>2
<1>8. x = y /\ Absolute(x) = 0
  BY <1>4, <1>5, <1>6, <1>7
<1>9. x = 0
  <2>1. 0 \in 0 .. Infinity
    BY FieldFacts
  <2> QED
    BY <1>8, <2>1, AbsoluteOrder, AbsoluteType
<1>10. Sign > 0
  BY FieldFacts
<1> QED
  BY <1>1, <1>3, <1>4, <1>5, <1>8, <1>9, <1>10

\* What a remainder is near its divisor.
LEMMA NearRemainder ==
  ASSUME NEW n \in Nat \ {0}, NEW x \in 0 .. n - 1
  PROVE  x % n = x /\ (x + n) % n = x
<1>1. x % n = x
  OBVIOUS
<1>2. (x + n) % n = x
  OBVIOUS
<1> QED
  BY <1>1, <1>2

\* One more and one less than an integer pattern, around the end.
LEMMA IntegerNext ==
  ASSUME NEW s \in Element
  PROVE  /\ (s + 1) % (All + 1) = IF s = All THEN 0 ELSE s + 1
         /\ (s + All) % (All + 1) = IF s = 0 THEN All ELSE s - 1
<1>1. PICK n \in Nat \ {0} : n = All + 1
  BY FieldFacts
<1>2. All = n - 1 /\ s \in 0 .. n - 1
  BY <1>1, FieldFacts DEF Element
<1>3. s # All => (s + 1) % n = s + 1
  BY <1>1, <1>2, NearRemainder
<1>4. s = All => (s + 1) % n = 0
  <2>1. (0 + n) % n = 0
    BY <1>1, NearRemainder
  <2> QED
    BY <1>1, <1>2, <2>1
<1>5. s = 0 => (s + All) % n = All
  <2>1. n - 1 \in 0 .. n - 1 /\ 0 + All = n - 1
    BY <1>1, <1>2
  <2> QED
    BY <1>1, <1>2, <2>1, NearRemainder
<1>6. s # 0 => (s + All) % n = s - 1
  <2> SUFFICES ASSUME s # 0 PROVE (s + All) % n = s - 1
    OBVIOUS
  <2>1. s - 1 \in 0 .. n - 1 /\ s + All = s - 1 + n
    BY <1>1, <1>2
  <2> QED
    BY <1>1, <2>1, NearRemainder
<1> QED
  BY <1>1, <1>3, <1>4, <1>5, <1>6

-----------------------------------------------------------------------------
(* What the codes of a mask promise                                        *)

\* t stands for a number that is larger than that of s, and is at most that of
\* any pattern b with such a number.
NextUp(t, s) ==
  /\ Real(t) /\ Number(s) < Number(t)
  /\ \A b : Real(b) /\ Number(b) > Number(s) => Number(t) <= Number(b)

NextDown(t, s) ==
  /\ Real(t) /\ Number(t) < Number(s)
  /\ \A b : Real(b) /\ Number(b) < Number(s) => Number(b) <= Number(t)

\* nodata_guard_values finds the neighbours of an integer; it has one on a side
\* unless it is the last one there.
LEMMA IntegerNeighbours ==
  ASSUME dtype \in {"unsigned", "signed"}, NEW s, Real(s)
  PROVE  /\ IF \E b : Real(b) /\ Number(b) > Number(s)
              THEN NextUp(Neighbours(s)[1], s) ELSE Neighbours(s)[1] = s
         /\ IF \E b : Real(b) /\ Number(b) < Number(s)
              THEN NextDown(Neighbours(s)[2], s) ELSE Neighbours(s)[2] = s
<1>1. PICK h \in Nat : h = Sign /\ h > 0 /\ All = 2 * h - 1
  BY FieldFacts
<1>2. \A b : Real(b) <=> b \in 0 .. 2 * h - 1
  BY <1>1 DEF Real, IsNaN, Element
<1>3. s \in Element /\ s \in 0 .. 2 * h - 1
  BY <1>2 DEF Real
<1>4. PICK up, down :
        /\ up = Neighbours(s)[1] /\ down = Neighbours(s)[2]
        /\ up = IF s = IntTop THEN s ELSE IF s = All THEN 0 ELSE s + 1
        /\ down = IF s = IntBottom THEN s ELSE IF s = 0 THEN All ELSE s - 1
  BY <1>3, IntegerNext DEF Neighbours
<1>5. CASE dtype = "unsigned"
  <2>1. \A b : Number(b) = b
    BY <1>5 DEF Number
  <2>2. /\ up = IF s = 2 * h - 1 THEN s ELSE s + 1
        /\ down = IF s = 0 THEN s ELSE s - 1
    BY <1>1, <1>3, <1>4, <1>5 DEF IntTop, IntBottom
  <2>3. /\ (\E b : Real(b) /\ Number(b) > Number(s)) <=> s # 2 * h - 1
        /\ (\E b : Real(b) /\ Number(b) < Number(s)) <=> s # 0
    <3>1. s # 2 * h - 1 => Real(s + 1) /\ Number(s + 1) > Number(s)
      BY <1>2, <1>3, <2>1
    <3>2. s # 0 => Real(s - 1) /\ Number(s - 1) < Number(s)
      BY <1>2, <1>3, <2>1
    <3>3. \A b : Real(b) => b <= 2 * h - 1 /\ b >= 0 /\ b \in Int
      BY <1>2
    <3> QED
      BY <1>1, <1>3, <2>1, <3>1, <3>2, <3>3
  <2>4. s # 2 * h - 1 => NextUp(up, s)
    BY <1>1, <1>2, <1>3, <2>1, <2>2 DEF NextUp
  <2>5. s # 0 => NextDown(down, s)
    BY <1>1, <1>2, <1>3, <2>1, <2>2 DEF NextDown
  <2> QED
    BY <1>4, <2>2, <2>3, <2>4, <2>5
<1>6. CASE dtype = "signed"
  <2>1. \A b : Number(b) = IF b >= h THEN b - 2 * h ELSE b
    BY <1>1, <1>6 DEF Number
  <2>2. /\ up = IF s = h - 1 THEN s ELSE IF s = 2 * h - 1 THEN 0 ELSE s + 1
        /\ down = IF s = h THEN s ELSE IF s = 0 THEN 2 * h - 1 ELSE s - 1
    BY <1>1, <1>3, <1>4, <1>6 DEF IntTop, IntBottom
  <2>3. s # h - 1 => NextUp(up, s)
    BY <1>1, <1>2, <1>3, <2>1, <2>2 DEF NextUp
  <2>4. s # h => NextDown(down, s)
    BY <1>1, <1>2, <1>3, <2>1, <2>2 DEF NextDown
  <2>5. s = h - 1 => ~\E b : Real(b) /\ Number(b) > Number(s)
    BY <1>1, <1>2, <1>3, <2>1
  <2>6. s = h => ~\E b : Real(b) /\ Number(b) < Number(s)
    BY <1>1, <1>2, <1>3, <2>1
  <2>7. /\ NextUp(up, s) => \E b : Real(b) /\ Number(b) > Number(s)
        /\ NextDown(down, s) => \E b : Real(b) /\ Number(b) < Number(s)
    <3>1. /\ NextUp(up, s) => Real(up) /\ Number(up) > Number(s)
          /\ NextDown(down, s) => Real(down) /\ Number(down) < Number(s)
      <4>1. Number(s) \in Int /\ (Real(up) => Number(up) \in Int)
        BY NumberType DEF Types
      <4> QED
        BY <4>1 DEF NextUp, NextDown
    <3> QED
      BY <3>1
  <2> QED
    BY <1>4, <2>2, <2>3, <2>4, <2>5, <2>6, <2>7
<1> QED
  BY <1>5, <1>6

\* The neighbours of a float: the one beyond infinity is missing.
LEMMA FloatNeighbours ==
  ASSUME dtype = "float", NEW s, Real(s)
  PROVE  /\ IF \E b : Real(b) /\ Number(b) > Number(s)
              THEN NextUp(Neighbours(s)[1], s) ELSE Neighbours(s)[1] = s
         /\ IF \E b : Real(b) /\ Number(b) < Number(s)
              THEN NextDown(Neighbours(s)[2], s) ELSE Neighbours(s)[2] = s
<1> DEFINE A(x) == Absolute(x)
<1>1. PICK h \in Nat, z \in Nat :
        h = Sign /\ z = Infinity /\ z > 1 /\ z < h /\ All = 2 * h - 1
  BY FieldFacts
<1>2. /\ \A x \in 0 .. z : A(x) \in Nat
      /\ \A x \in 0 .. z, y \in 0 .. z : x < y <=> A(x) < A(y)
      /\ A(0) = 0
  BY <1>1, AbsoluteOrder, AbsoluteType
<1>3. \A b : Real(b) => \E x \in 0 .. z : \/ b = x /\ Number(b) = A(x)
                                          \/ b = x + h /\ Number(b) = 0 - A(x)
  BY <1>1, FloatNumber
<1>4. \A x \in 0 .. z : /\ Real(x) /\ Number(x) = A(x)
                        /\ Real(x + h) /\ Number(x + h) = 0 - A(x)
                        /\ Magnitude(x) = x /\ Magnitude(x + h) = x
  BY <1>1, FloatOf
<1> HIDE DEF A
<1>5. PICK x \in 0 .. z : s = x \/ s = x + h
  BY <1>3
<1>6. 0 \in 0 .. z /\ 1 \in 0 .. z /\ x \in Nat
  BY <1>1
<1>7. CASE x = 0
  <2>1. Neighbours(s)[1] = 1 /\ Neighbours(s)[2] = 1 + h /\ Number(s) = 0
    <3>1. Magnitude(s) = 0 /\ Number(s) = 0
      BY <1>2, <1>4, <1>5, <1>7
    <3>2. dtype = "float" /\ dtype # "unsigned" /\ dtype # "signed"
      OBVIOUS
    <3> QED
      BY <1>1, <3>1, <3>2 DEF Neighbours
  <2>2. /\ Real(1) /\ Number(1) = A(1) /\ Real(1 + h) /\ Number(1 + h) = 0 - A(1)
        /\ A(1) \in Nat /\ 0 < A(1)
    BY <1>2, <1>4, <1>6
  <2>3. ASSUME NEW b, Real(b) PROVE Number(b) > 0 => Number(b) >= A(1)
    <3>1. PICK y \in 0 .. z : \/ b = y /\ Number(b) = A(y)
                              \/ b = y + h /\ Number(b) = 0 - A(y)
      BY <1>3, <2>3
    <3>2. A(y) \in Nat /\ (y = 0 \/ y = 1 \/ 1 < y)
      BY <1>2
    <3> QED
      BY <1>2, <1>6, <2>2, <3>1, <3>2
  <2>4. ASSUME NEW b, Real(b) PROVE Number(b) < 0 => Number(b) <= 0 - A(1)
    <3>1. PICK y \in 0 .. z : \/ b = y /\ Number(b) = A(y)
                              \/ b = y + h /\ Number(b) = 0 - A(y)
      BY <1>3, <2>4
    <3>2. A(y) \in Nat /\ (y = 0 \/ y = 1 \/ 1 < y)
      BY <1>2
    <3> QED
      BY <1>2, <1>6, <2>2, <3>1, <3>2
  <2>5. NextUp(1, s)
    BY <2>1, <2>2, <2>3 DEF NextUp
  <2>6. NextDown(1 + h, s)
    BY <2>1, <2>2, <2>4 DEF NextDown
  <2>7. /\ \E b : Real(b) /\ Number(b) > Number(s)
        /\ \E b : Real(b) /\ Number(b) < Number(s)
    BY <2>1, <2>2
  <2> QED
    BY <2>1, <2>5, <2>6, <2>7
<1>8. CASE x # 0 /\ s = x
  <2>1. /\ Neighbours(s)[1] = (IF x = z THEN s ELSE x + 1)
        /\ Neighbours(s)[2] = x - 1
        /\ Number(s) = A(x) /\ A(x) \in Nat
    <3>1. Magnitude(s) = x /\ Number(s) = A(x) /\ A(x) \in Nat
      BY <1>2, <1>4, <1>8
    <3>2. dtype = "float" /\ ~(s >= Sign) /\ s < Sign
      BY <1>1, <1>8
    <3> QED
      BY <1>1, <1>8, <3>1, <3>2 DEF Neighbours
  <2>2. /\ x - 1 \in 0 .. z /\ Real(x - 1) /\ Number(x - 1) = A(x - 1)
        /\ A(x - 1) \in Nat /\ A(x - 1) < A(x)
    <3>1. x - 1 \in 0 .. z /\ x - 1 < x
      BY <1>6, <1>8
    <3> QED
      BY <1>2, <1>4, <3>1
  <2>3. ASSUME NEW b, Real(b) PROVE Number(b) < A(x) => Number(b) <= A(x - 1)
    <3>1. PICK y \in 0 .. z : \/ b = y /\ Number(b) = A(y)
                              \/ b = y + h /\ Number(b) = 0 - A(y)
      BY <1>3, <2>3
    <3>2. A(y) \in Nat /\ (y = x - 1 \/ y < x - 1 \/ y = x \/ x < y)
      BY <1>2, <1>6
    <3>3. /\ y < x - 1 => A(y) < A(x - 1)
          /\ x < y => A(x) < A(y)
      BY <1>2, <2>2
    <3> QED
      BY <2>1, <2>2, <3>1, <3>2, <3>3
  <2>4. NextDown(x - 1, s)
    BY <2>1, <2>2, <2>3 DEF NextDown
  <2>5. \E b : Real(b) /\ Number(b) < Number(s)
    BY <2>1, <2>2
  <2>6. CASE x = z
    <3>1. ASSUME NEW b, Real(b) PROVE ~(Number(b) > Number(s))
      <4>1. PICK y \in 0 .. z : \/ b = y /\ Number(b) = A(y)
                                \/ b = y + h /\ Number(b) = 0 - A(y)
        BY <1>3, <3>1
      <4>2. A(y) \in Nat /\ (y = x \/ y < x)
        BY <1>2, <1>6, <2>6
      <4>3. y < x => A(y) < A(x)
        BY <1>2
      <4> QED
        BY <2>1, <4>1, <4>2, <4>3
    <3> QED
      BY <2>1, <2>4, <2>5, <2>6, <3>1
  <2>7. CASE x # z
    <3>1. /\ x + 1 \in 0 .. z /\ Real(x + 1) /\ Number(x + 1) = A(x + 1)
          /\ A(x + 1) \in Nat /\ A(x) < A(x + 1)
      <4>1. x + 1 \in 0 .. z /\ x < x + 1
        BY <1>6, <2>7
      <4> QED
        BY <1>2, <1>4, <4>1
    <3>2. ASSUME NEW b, Real(b) PROVE Number(b) > A(x) => A(x + 1) <= Number(b)
      <4>1. PICK y \in 0 .. z : \/ b = y /\ Number(b) = A(y)
                                \/ b = y + h /\ Number(b) = 0 - A(y)
        BY <1>3, <3>2
      <4>2. A(y) \in Nat /\ (y = x \/ y < x \/ y = x + 1 \/ x + 1 < y)
        BY <1>2, <1>6
      <4>3. (y < x => A(y) < A(x)) /\ (x + 1 < y => A(x + 1) < A(y))
        BY <1>2, <3>1
      <4> QED
        BY <2>1, <3>1, <4>1, <4>2, <4>3
    <3>3. NextUp(x + 1, s)
      BY <2>1, <3>1, <3>2 DEF NextUp
    <3>4. \E b : Real(b) /\ Number(b) > Number(s)
      BY <2>1, <3>1
    <3> QED
      BY <2>1, <2>4, <2>5, <2>7, <3>3, <3>4
  <2> QED
    BY <2>6, <2>7
<1>9. CASE x # 0 /\ s = x + h
  <2>1. /\ Neighbours(s)[1] = x - 1 + h
        /\ Neighbours(s)[2] = (IF x = z THEN s ELSE x + 1 + h)
        /\ Number(s) = 0 - A(x) /\ A(x) \in Nat
    <3>1. Magnitude(s) = x /\ Number(s) = 0 - A(x) /\ A(x) \in Nat
      BY <1>2, <1>4, <1>9
    <3>2. dtype = "float" /\ s >= Sign /\ ~(s < Sign)
      BY <1>1, <1>6, <1>9
    <3>3. s - 1 = x - 1 + h /\ s + 1 = x + 1 + h
      BY <1>6, <1>9
    <3> QED
      BY <1>1, <1>9, <3>1, <3>2, <3>3 DEF Neighbours
  <2>2. /\ x - 1 \in 0 .. z /\ Real(x - 1 + h)
        /\ Number(x - 1 + h) = 0 - A(x - 1)
        /\ A(x - 1) \in Nat /\ A(x - 1) < A(x)
    <3>1. x - 1 \in 0 .. z /\ x - 1 < x
      BY <1>6, <1>9
    <3> QED
      BY <1>2, <1>4, <3>1
  <2>3. ASSUME NEW b, Real(b)
        PROVE  Number(b) > 0 - A(x) => 0 - A(x - 1) <= Number(b)
    <3>1. PICK y \in 0 .. z : \/ b = y /\ Number(b) = A(y)
                              \/ b = y + h /\ Number(b) = 0 - A(y)
      BY <1>3, <2>3
    <3>2. A(y) \in Nat /\ (y = x - 1 \/ y < x - 1 \/ y = x \/ x < y)
      BY <1>2, <1>6
    <3>3. /\ y < x - 1 => A(y) < A(x - 1)
          /\ x < y => A(x) < A(y)
      BY <1>2, <2>2
    <3> QED
      BY <2>1, <2>2, <3>1, <3>2, <3>3
  <2>4. NextUp(x - 1 + h, s)
    BY <2>1, <2>2, <2>3 DEF NextUp
  <2>5. \E b : Real(b) /\ Number(b) > Number(s)
    BY <2>1, <2>2
  <2>6. CASE x = z
    <3>1. ASSUME NEW b, Real(b) PROVE ~(Number(b) < Number(s))
      <4>1. PICK y \in 0 .. z : \/ b = y /\ Number(b) = A(y)
                                \/ b = y + h /\ Number(b) = 0 - A(y)
        BY <1>3, <3>1
      <4>2. A(y) \in Nat /\ (y = x \/ y < x)
        BY <1>2, <1>6, <2>6
      <4>3. y < x => A(y) < A(x)
        BY <1>2
      <4> QED
        BY <2>1, <4>1, <4>2, <4>3
    <3> QED
      BY <2>1, <2>4, <2>5, <2>6, <3>1
  <2>7. CASE x # z
    <3>1. /\ x + 1 \in 0 .. z /\ Real(x + 1 + h)
          /\ Number(x + 1 + h) = 0 - A(x + 1)
          /\ A(x + 1) \in Nat /\ A(x) < A(x + 1)
      <4>1. x + 1 \in 0 .. z /\ x < x + 1
        BY <1>6, <2>7
      <4> QED
        BY <1>2, <1>4, <4>1
    <3>2. ASSUME NEW b, Real(b)
          PROVE  Number(b) < 0 - A(x) => Number(b) <= 0 - A(x + 1)
      <4>1. PICK y \in 0 .. z : \/ b = y /\ Number(b) = A(y)
                                \/ b = y + h /\ Number(b) = 0 - A(y)
        BY <1>3, <3>2
      <4>2. A(y) \in Nat /\ (y = x \/ y < x \/ y = x + 1 \/ x + 1 < y)
        BY <1>2, <1>6
      <4>3. (y < x => A(y) < A(x)) /\ (x + 1 < y => A(x + 1) < A(y))
        BY <1>2, <3>1
      <4> QED
        BY <2>1, <3>1, <4>1, <4>2, <4>3
    <3>3. NextDown(x + 1 + h, s)
      BY <2>1, <3>1, <3>2 DEF NextDown
    <3>4. \E b : Real(b) /\ Number(b) < Number(s)
      BY <2>1, <3>1
    <3> QED
      BY <2>1, <2>4, <2>5, <2>7, <3>3, <3>4
  <2> QED
    BY <2>6, <2>7
<1> QED
  BY <1>5, <1>7, <1>8, <1>9

\* The neighbours of any value but a NaN.
LEMMA NeighboursNext ==
  ASSUME dtype \in Types, NEW s, Real(s)
  PROVE  /\ IF \E b : Real(b) /\ Number(b) > Number(s)
              THEN NextUp(Neighbours(s)[1], s) ELSE Neighbours(s)[1] = s
         /\ IF \E b : Real(b) /\ Number(b) < Number(s)
              THEN NextDown(Neighbours(s)[2], s) ELSE Neighbours(s)[2] = s
<1>1. CASE dtype = "float"
  BY <1>1, FloatNeighbours
<1>2. CASE dtype # "float"
  BY <1>2, IntegerNeighbours DEF Types
<1> QED
  BY <1>1, <1>2

\* A neighbour is another pattern.
LEMMA NextDiffers ==
  ASSUME dtype \in Types, NEW s, Real(s), NEW t
  PROVE  NextUp(t, s) \/ NextDown(t, s) => t # s
<1>1. Number(s) \in Int
  BY NumberType
<1>2. ~(Number(s) < Number(s))
  BY <1>1
<1> QED
  BY <1>2 DEF NextUp, NextDown

\* The other zero of a zero.
LEMMA OtherZero ==
  ASSUME dtype = "float", NEW s, Real(s), Magnitude(s) = 0
  PROVE  Neighbours(s)[3] = IF s = 0 THEN Sign ELSE 0
<1>1. PICK h \in Nat : h = Sign /\ h > 0 /\ All + 1 = 2 * h
  BY FieldFacts
<1>2. s = 0 \/ s = h
  BY <1>1, Magnitudes DEF Real
<1>3. Neighbours(s)[3] = (s + h) % (2 * h)
  BY <1>1 DEF Neighbours
<1>4. (0 + h) % (2 * h) = h /\ (h + h) % (2 * h) = 0
  <2>1. PICK n \in Nat \ {0} : n = 2 * h
    BY <1>1
  <2>2. h % n = h /\ (0 + n) % n = 0
    BY <1>1, <2>1, NearRemainder
  <2> QED
    BY <1>1, <2>1, <2>2
<1> QED
  BY <1>1, <1>2, <1>3, <1>4

\* The default code leads to a neighbour that exists.
LEMMA DefaultLeads ==
  ASSUME dtype \in Types, NEW s, Real(s)
  PROVE  Default(s) \in {1, 2} /\ Neighbours(s)[Default(s)] # s
<1>1. Default(s) = IF Neighbours(s)[1] # s THEN 1 ELSE 2
  BY DEF Default, ABOVE, BELOW
<1>2. Neighbours(s)[1] # s \/ Neighbours(s)[2] # s
  <2>1. \E a, b : Real(a) /\ Real(b) /\ Number(a) < Number(b)
    <3>1. CASE dtype = "float"
      <4>1. 0 \in 0 .. Infinity /\ 1 \in 0 .. Infinity /\ 0 < 1
        BY FieldFacts
      <4>2. Real(0) /\ Real(1) /\ Number(0) < Number(1)
        BY <3>1, <4>1, FloatOf, AbsoluteGrows
      <4> QED
        BY <4>2
    <3>2. CASE dtype # "float"
      <4>1. Sign \in Nat /\ Sign > 1 /\ All = 2 * Sign - 1
        BY FieldFacts
      <4>2. Real(0) /\ Real(1)
        BY <3>2, <4>1 DEF Real, IsNaN, Element
      <4>3. Number(0) = 0 /\ Number(1) = 1
        BY <3>2, <4>1 DEF Number, Types
      <4> QED
        BY <4>2, <4>3
    <3> QED
      BY <3>1, <3>2
  <2>2. PICK a, b : Real(a) /\ Real(b) /\ Number(a) < Number(b)
    BY <2>1
  <2>3. Number(a) \in Int /\ Number(b) \in Int /\ Number(s) \in Int
    BY <2>2, NumberType
  <2>4. Number(b) > Number(s) \/ Number(a) < Number(s)
    BY <2>2, <2>3
  <2>5. NextUp(Neighbours(s)[1], s) \/ NextDown(Neighbours(s)[2], s)
    BY <2>2, <2>4, NeighboursNext
  <2> QED
    BY <2>5, NextDiffers
<1> QED
  BY <1>1, <1>2

\* A code is zero at a hole only, and otherwise leads to another pattern.
LEMMA CodeLeads ==
  ASSUME dtype \in Types, NEW s, Real(s), NEW b, b \in Element
  PROVE  /\ Guard(b, s) \in 0 .. 3 /\ (Guard(b, s) = 0 <=> b = s)
         /\ b # s => Neighbours(s)[Guard(b, s)] # s
<1>1. CASE b = s
  BY <1>1 DEF Guard, INVALID
<1>2. CASE b # s /\ (Constant(s) \/ IsNaN(b))
  BY <1>2, DefaultLeads DEF Guard
<1>3. CASE b # s /\ ~(Constant(s) \/ IsNaN(b))
  <2>1. Real(b)
    BY <1>3 DEF Real
  <2>2. Number(b) \in Int /\ Number(s) \in Int
    BY <2>1, NumberType
  <2>3. Guard(b, s) = IF Number(b) = Number(s) THEN 3
                      ELSE IF ~Reaches(b, s) THEN Default(s)
                      ELSE IF Number(b) > Number(s) THEN 1 ELSE 2
    BY <1>3 DEF Guard, OTHER_ZERO, ABOVE, BELOW
  <2>4. CASE Number(b) = Number(s)
    <3>1. /\ dtype = "float" /\ Magnitude(s) = 0
          /\ b = IF s = 0 THEN Sign ELSE 0
      BY <1>3, <2>1, <2>4, SameNumber
    <3> QED
      BY <1>3, <2>3, <2>4, <3>1, OtherZero
  <2>5. CASE Number(b) # Number(s) /\ ~Reaches(b, s)
    BY <1>3, <2>3, <2>5, DefaultLeads
  <2>6. CASE Number(b) > Number(s) /\ Reaches(b, s)
    <3>1. Guard(b, s) = 1
      BY <2>2, <2>3, <2>6
    <3>2. NextUp(Neighbours(s)[1], s)
      BY <2>1, <2>6, NeighboursNext
    <3> QED
      BY <1>3, <3>1, <3>2, NextDiffers
  <2>7. CASE Number(b) < Number(s) /\ Reaches(b, s)
    <3>1. Guard(b, s) = 2
      BY <2>2, <2>3, <2>7
    <3>2. NextDown(Neighbours(s)[2], s)
      BY <2>1, <2>7, NeighboursNext
    <3> QED
      BY <1>3, <3>1, <3>2, NextDiffers
  <2> QED
    BY <2>2, <2>4, <2>5, <2>6, <2>7
<1> QED
  BY <1>1, <1>2, <1>3

\* A value that the stage brought onto the sentinel within its bound is moved
\* to a place that is no further from what was measured.
LEMMA CodeNearer ==
  ASSUME dtype \in Types, radius \in Nat, NEW s, Real(s), NEW b, Real(b),
         b # s, Within(s, b, radius)
  PROVE  \/ Neighbours(s)[Guard(b, s)] = b
         \/ Within(Neighbours(s)[Guard(b, s)], b, radius)
<1>1. Number(b) \in Int /\ Number(s) \in Int
  BY NumberType
<1>2. /\ Number(b) >= Number(s) => 2 * (Number(b) - Number(s)) <= radius
      /\ Number(b) <= Number(s) => 2 * (Number(s) - Number(b)) <= radius
  BY <1>1 DEF Within, Distance
<1>3. ~Constant(s)
  <2> SUFFICES ASSUME Constant(s) PROVE FALSE
    OBVIOUS
  <2>1. Number(b) = Number(s)
    BY <1>1, <1>2 DEF Constant
  <2> QED
    BY <2>1, SameNumber DEF Constant
<1>4. Reaches(b, s)
  BY <1>1, <1>2 DEF Reaches, Within, Distance
<1>5. Guard(b, s) = IF Number(b) = Number(s) THEN 3
                    ELSE IF Number(b) > Number(s) THEN 1 ELSE 2
  BY <1>3, <1>4 DEF Guard, OTHER_ZERO, ABOVE, BELOW, Real
<1>6. CASE Number(b) = Number(s)
  <2>1. /\ dtype = "float" /\ Magnitude(s) = 0
        /\ b = IF s = 0 THEN Sign ELSE 0
    BY <1>6, SameNumber
  <2> QED
    BY <1>5, <1>6, <2>1, OtherZero
<1>7. CASE Number(b) > Number(s)
  <2>1. Guard(b, s) = 1
    BY <1>1, <1>5, <1>7
  <2>2. NextUp(Neighbours(s)[1], s)
    BY <1>7, NeighboursNext
  <2>3. PICK t : t = Neighbours(s)[1] /\ Real(t)
    BY <2>2 DEF NextUp
  <2>4. Number(t) \in Int /\ Number(s) < Number(t) /\ Number(t) <= Number(b)
    BY <1>7, <2>2, <2>3, NumberType DEF NextUp
  <2>5. Within(t, b, radius)
    BY <1>1, <1>2, <2>4 DEF Within, Distance
  <2> QED
    BY <2>1, <2>3, <2>5
<1>8. CASE Number(b) < Number(s)
  <2>1. Guard(b, s) = 2
    BY <1>1, <1>5, <1>8
  <2>2. NextDown(Neighbours(s)[2], s)
    BY <1>8, NeighboursNext
  <2>3. PICK t : t = Neighbours(s)[2] /\ Real(t)
    BY <2>2 DEF NextDown
  <2>4. Number(t) \in Int /\ Number(t) < Number(s) /\ Number(b) <= Number(t)
    BY <1>8, <2>2, <2>3, NumberType DEF NextDown
  <2>5. Within(t, b, radius)
    BY <1>1, <1>2, <2>4 DEF Within, Distance
  <2> QED
    BY <2>1, <2>3, <2>5
<1> QED
  BY <1>1, <1>6, <1>7, <1>8

-----------------------------------------------------------------------------
(* What a call has done                                                    *)

\* A measured sample is its own fill.
LEMMA FilledKeeps ==
  ASSUME raster \in Seq(Element), width \in Nat, NEW m, NEW i \in DOMAIN raster,
         m[i] # INVALID
  PROVE  Filled(m)[i] = raster[i]
<1>1. i \in 1 .. Len(raster) /\ Len(raster) \in Nat /\ i \in 1 .. i
  OBVIOUS
<1>2. PICK w \in Nat \ {0} : w = RowWidth
  BY <1>1 DEF RowWidth
<1>3. i \in MeasuredBefore(m, i)
  BY <1>1 DEF MeasuredBefore
<1>4. i \in MeasuredAbove(m, i)
  <2>1. (i - i) % w = 0
    BY <1>1, <1>2
  <2> QED
    BY <1>1, <1>2, <1>3, <2>1 DEF MeasuredAbove
<1>5. ASSUME NEW S, S \subseteq 1 .. i, i \in S PROVE Last(S) = i
  <2>1. \A l \in S : l <= i
    BY <1>1, <1>5
  <2>2. Last(S) \in S /\ \A l \in S : l <= Last(S)
    BY <1>5, <2>1 DEF Last
  <2>3. PICK k : k = Last(S)
    OBVIOUS
  <2>4. k \in 1 .. i /\ i <= k /\ k <= i
    BY <1>5, <2>1, <2>2, <2>3
  <2> QED
    BY <1>1, <2>3, <2>4
<1>6. Last(MeasuredAbove(m, i)) = i
  BY <1>4, <1>5 DEF MeasuredAbove
<1>7. Last(MeasuredBefore(m, i)) = i
  BY <1>3, <1>5 DEF MeasuredBefore
<1>8. Filled(m)[i] = IF MeasuredAbove(m, i) = {} THEN 0
                     ELSE raster[Last(MeasuredBefore(m,
                                      Last(MeasuredAbove(m, i))))]
  BY DEF Filled
<1> QED
  BY <1>4, <1>6, <1>7, <1>8

\* What a caller may ask for.
CallInv ==
  /\ raster \in Seq(Element) /\ dtype \in Types /\ mode \in {"nan", "value"}
  /\ sentinel \in Element /\ width \in Nat /\ radius \in Nat
  /\ stage \in {"lossless", "bounded", "broken"}
  /\ stage = "lossless" => radius = 0
  /\ mode = "nan" /\ stage # "lossless" => dtype = "float" /\ radius # 0

\* The header and the mask as EI_geozl_nodata writes them.
Written ==
  \/ /\ mode = "nan" /\ NaNs # {} /\ radius = 0
     /\ header = <<FirstNaN>> /\ marked = MarkValue(FirstNaN)
  \/ /\ mode = "nan" /\ NaNs # {} /\ radius # 0
     /\ header = <<FirstNaN>> /\ marked = MarkNaN
  \/ mode = "nan" /\ NaNs = {} /\ header = <<0>> /\ marked = MarkNaN
  \/ /\ mode = "value" /\ IsNaN(sentinel)
     /\ header = <<sentinel>> /\ marked = MarkValue(sentinel)
  \/ /\ mode = "value" /\ ~IsNaN(sentinel)
     /\ header = <<sentinel>> \o Neighbours(sentinel)
     /\ marked = MarkGuarded(sentinel)

\* A measured sample as it left the encoder, or the stage.
Kept(i) ==
  IF pc = "stage" \/ stage = "lossless" THEN values[i] = raster[i]
  ELSE values[i] \in Rebuilt(raster[i])

\* One value and one code per sample; a header of a length that is accepted is
\* the one that was written.
StreamInv ==
  /\ DOMAIN values = DOMAIN raster /\ DOMAIN mask = DOMAIN raster
  /\ DOMAIN marked = DOMAIN raster
  /\ \A i \in DOMAIN raster : mask[i] \in Nat /\ marked[i] \in 0 .. 3
  /\ Len(header) \in {1, 4} => Written
  /\ \A i \in DOMAIN raster : marked[i] # INVALID => Kept(i)

DecodeInv ==
  /\ pc = "done" => Acceptable /\ out = [i \in DOMAIN values |-> Restored(i)]
  /\ pc = "corrupt" => ~Acceptable

IInv ==
  /\ CallInv /\ pc \in {"encode", "stage", "decode", "done", "corrupt"}
  /\ pc # "encode" => StreamInv
  /\ DecodeInv

\* The call does not change, nor what it says about patterns.
LEMMA CallKept ==
  ASSUME [Next]_vars
  PROVE  /\ UNCHANGED callVars
         /\ NaNs' = NaNs /\ FirstNaN' = FirstNaN /\ MarkNaN' = MarkNaN
         /\ \A b : IsNaN(b)' = IsNaN(b) /\ MarkValue(b)' = MarkValue(b)
         /\ \A b : Neighbours(b)' = Neighbours(b)
         /\ \A b : MarkGuarded(b)' = MarkGuarded(b)
         /\ \A b : Rebuilt(b)' = Rebuilt(b)
<1>1. UNCHANGED callVars
  BY DEF Next, vars, EncodeNaN, EncodeValue, Write, Stage, Damage, Decode,
     Refuse, Ended
<1>2. NaNs' = NaNs /\ MarkNaN' = MarkNaN /\ \A b : MarkValue(b)' = MarkValue(b)
  BY <1>1 DEF callVars, NaNs, MarkNaN, MarkValue
<1>3. FirstNaN' = FirstNaN
  BY <1>1, <1>2 DEF callVars, FirstNaN
<1>4. \A b : IsNaN(b)' = IsNaN(b) /\ Number(b)' = Number(b)
  BY <1>1 DEF callVars, IsNaN, Number
<1>5. IntTop' = IntTop /\ IntBottom' = IntBottom
  BY <1>1 DEF callVars, IntTop, IntBottom
<1>6. \A b : Neighbours(b)' = Neighbours(b)
  BY <1>1, <1>5 DEF callVars, Neighbours
<1>7. \A a, b, h : Within(a, b, h)' = Within(a, b, h)
  BY <1>4 DEF Within, Distance
<1>8. \A b : Rebuilt(b)' = Rebuilt(b)
  BY <1>1, <1>4, <1>7 DEF callVars, Rebuilt
<1>9. \A b, s : Guard(b, s)' = Guard(b, s)
  <2>1. /\ \A s : Default(s)' = Default(s) /\ Constant(s)' = Constant(s)
        /\ \A b, s : Reaches(b, s)' = Reaches(b, s)
    BY <1>1, <1>6, <1>7 DEF callVars, Default, Constant, Reaches
  <2> QED
    BY <1>4, <2>1 DEF Guard
<1>10. \A b : MarkGuarded(b)' = MarkGuarded(b)
  BY <1>1, <1>9 DEF callVars, MarkGuarded
<1> QED
  BY <1>1, <1>2, <1>3, <1>4, <1>6, <1>8, <1>10

LEMMA InitInv == Init => IInv
<1> SUFFICES ASSUME Init PROVE IInv
  OBVIOUS
<1>1. Unbounded \in Nat /\ Unbounded # 0
  <2>1. 0 \in 0 .. Infinity - 1 /\ Absolute(0) = 0
    BY FieldFacts, AbsoluteType
  <2>2. 0 < Unbounded \div 4 /\ Unbounded \in Nat
    BY <2>1, CallAssumption
  <2> QED
    BY <2>2
<1>2. raster \in Seq(Element) /\ width \in Nat /\ radius \in Nat
  BY <1>1, CallAssumption DEF Init
<1>3. sentinel \in Element
  BY FieldFacts DEF Init, Element
<1>4. CallInv
  BY <1>1, <1>2, <1>3 DEF CallInv, Init, Types
<1>5. pc = "encode"
  BY DEF Init
<1> QED
  BY <1>4, <1>5 DEF IInv, DecodeInv

\* The encoder writes a code for every sample and leaves measured ones alone.
LEMMA WriteInv ==
  ASSUME IInv, NEW h, NEW m, Write(h, m), UNCHANGED callVars,
         DOMAIN m = DOMAIN raster, \A i \in DOMAIN raster : m[i] \in 0 .. 3,
         Written'
  PROVE  IInv'
<1>1. /\ header' = h /\ mask' = m /\ marked' = m /\ pc' = "stage"
      /\ values' = Filled(m)
  BY DEF Write
<1>2. UNCHANGED <<raster, dtype, mode, sentinel, width, radius, stage>>
  BY DEF callVars
<1>3. CallInv'
  BY <1>2 DEF IInv, CallInv
<1>4. \A i \in DOMAIN raster : m[i] # INVALID => Filled(m)[i] = raster[i]
  BY FilledKeeps DEF IInv, CallInv
<1>5. DOMAIN Filled(m) = DOMAIN raster
  BY DEF Filled
<1>6. \A i \in DOMAIN raster : (m[i] # INVALID => Kept(i))'
  BY <1>1, <1>2, <1>4 DEF Kept
<1>7. StreamInv'
  BY <1>1, <1>2, <1>5, <1>6 DEF StreamInv
<1> QED
  BY <1>1, <1>3, <1>7 DEF IInv, DecodeInv

\* The masks that are written, one code per sample.
LEMMA MaskTypes ==
  ASSUME CallInv, NEW p
  PROVE  /\ DOMAIN MarkValue(p) = DOMAIN raster
         /\ DOMAIN MarkNaN = DOMAIN raster
         /\ DOMAIN MarkGuarded(p) = DOMAIN raster
         /\ \A i \in DOMAIN raster :
              MarkValue(p)[i] \in 0 .. 3 /\ MarkNaN[i] \in 0 .. 3
         /\ Real(p) => \A i \in DOMAIN raster : MarkGuarded(p)[i] \in 0 .. 3
<1>1. /\ DOMAIN MarkValue(p) = DOMAIN raster
      /\ DOMAIN MarkNaN = DOMAIN raster
      /\ \A i \in DOMAIN raster :
           MarkValue(p)[i] \in 0 .. 3 /\ MarkNaN[i] \in 0 .. 3
  BY DEF MarkValue, MarkNaN, INVALID, ABOVE
<1>2. DOMAIN MarkGuarded(p) = DOMAIN raster
  BY DEF MarkGuarded
<1>3. ASSUME Real(p), NEW i \in DOMAIN raster PROVE MarkGuarded(p)[i] \in 0 .. 3
  <2>1. raster[i] \in Element
    BY <1>3 DEF CallInv
  <2>2. Guard(raster[i], p) \in 0 .. 3
    BY <1>3, <2>1, CodeLeads DEF CallInv
  <2> QED
    BY <1>3, <2>2 DEF MarkGuarded
<1> QED
  BY <1>1, <1>2, <1>3

LEMMA EncodeNaNStep ==
  ASSUME IInv, [Next]_vars, EncodeNaN PROVE IInv'
<1>1. CallInv /\ mode = "nan"
  BY DEF IInv, EncodeNaN
<1>2. /\ UNCHANGED callVars /\ mode' = mode /\ radius' = radius
      /\ NaNs' = NaNs /\ FirstNaN' = FirstNaN /\ MarkNaN' = MarkNaN
      /\ MarkValue(FirstNaN)' = MarkValue(FirstNaN)
  BY CallKept DEF callVars
<1>3. CASE NaNs # {} /\ radius = 0 /\ Write(<<FirstNaN>>, MarkValue(FirstNaN))
  <2>1. Written'
    BY <1>1, <1>2, <1>3 DEF Write, Written
  <2> QED
    BY <1>1, <1>2, <1>3, <2>1, WriteInv, MaskTypes
<1>4. CASE NaNs # {} /\ radius # 0 /\ Write(<<FirstNaN>>, MarkNaN)
  <2>1. Written'
    BY <1>1, <1>2, <1>4 DEF Write, Written
  <2> QED
    BY <1>1, <1>2, <1>4, <2>1, WriteInv, MaskTypes
<1>5. CASE NaNs = {} /\ Write(<<0>>, MarkNaN)
  <2>1. Written'
    BY <1>1, <1>2, <1>5 DEF Write, Written
  <2> QED
    BY <1>1, <1>2, <1>5, <2>1, WriteInv, MaskTypes
<1> QED
  BY <1>3, <1>4, <1>5 DEF EncodeNaN

LEMMA EncodeValueStep ==
  ASSUME IInv, [Next]_vars, EncodeValue PROVE IInv'
<1>1. CallInv /\ mode = "value" /\ sentinel \in Element
  BY DEF IInv, EncodeValue, CallInv
<1>2. /\ UNCHANGED callVars /\ mode' = mode /\ sentinel' = sentinel
      /\ IsNaN(sentinel)' = IsNaN(sentinel)
      /\ MarkValue(sentinel)' = MarkValue(sentinel)
      /\ MarkGuarded(sentinel)' = MarkGuarded(sentinel)
      /\ Neighbours(sentinel)' = Neighbours(sentinel)
  BY CallKept DEF callVars
<1>3. CASE IsNaN(sentinel) /\ Write(<<sentinel>>, MarkValue(sentinel))
  <2>1. Written'
    BY <1>1, <1>2, <1>3 DEF Write, Written
  <2> QED
    BY <1>1, <1>2, <1>3, <2>1, WriteInv, MaskTypes
<1>4. CASE /\ ~IsNaN(sentinel)
           /\ Write(<<sentinel>> \o Neighbours(sentinel), MarkGuarded(sentinel))
  <2>1. Written'
    BY <1>1, <1>2, <1>4 DEF Write, Written
  <2> QED
    BY <1>1, <1>2, <1>4, <2>1, WriteInv, MaskTypes DEF Real
<1> QED
  BY <1>3, <1>4 DEF EncodeValue

\* What the stage, damage and the decoder leave alone.
LEMMA WrittenKept ==
  ASSUME [Next]_vars, Written, header' = header, marked' = marked
  PROVE  Written'
<1>1. /\ UNCHANGED callVars
      /\ NaNs' = NaNs /\ FirstNaN' = FirstNaN /\ MarkNaN' = MarkNaN
      /\ MarkValue(FirstNaN)' = MarkValue(FirstNaN)
      /\ IsNaN(sentinel)' = IsNaN(sentinel)
      /\ MarkValue(sentinel)' = MarkValue(sentinel)
      /\ MarkGuarded(sentinel)' = MarkGuarded(sentinel)
      /\ Neighbours(sentinel)' = Neighbours(sentinel)
  BY CallKept DEF callVars
<1>2. mode' = mode /\ radius' = radius /\ sentinel' = sentinel
  BY <1>1 DEF callVars
<1> QED
  BY <1>1, <1>2 DEF Written

LEMMA StageStep ==
  ASSUME IInv, [Next]_vars, Stage PROVE IInv'
<1>1. /\ pc = "stage" /\ pc' = "decode" /\ CallInv /\ StreamInv
      /\ UNCHANGED <<header, mask, marked>>
  BY DEF Stage, IInv
<1>2. /\ UNCHANGED <<raster, dtype, mode, sentinel, width, radius, stage>>
      /\ \A b : Rebuilt(b)' = Rebuilt(b)
  BY CallKept DEF callVars
<1>3. CallInv'
  BY <1>1, <1>2 DEF CallInv
<1>4. DOMAIN values' = DOMAIN raster
  BY <1>1 DEF Stage, StreamInv
<1>5. ASSUME NEW i \in DOMAIN raster, marked[i] # INVALID PROVE Kept(i)'
  <2>1. values[i] = raster[i]
    BY <1>1, <1>5 DEF StreamInv, Kept
  <2>2. Rebuilt(raster[i])' = Rebuilt(raster[i])
    BY <1>2
  <2>3. CASE stage = "lossless" /\ UNCHANGED values
    BY <1>2, <2>1, <2>3 DEF Kept
  <2>4. CASE stage # "lossless" /\ values'[i] \in Rebuilt(values[i])
    BY <1>1, <1>2, <2>1, <2>2, <2>4 DEF Kept
  <2> QED
    BY <1>1, <1>5, <2>3, <2>4 DEF Stage, StreamInv
<1>6. Len(header') \in {1, 4} => Written'
  BY <1>1, WrittenKept DEF StreamInv
<1>7. StreamInv'
  BY <1>1, <1>2, <1>4, <1>5, <1>6 DEF StreamInv
<1> QED
  BY <1>1, <1>3, <1>7 DEF IInv, DecodeInv

LEMMA DamageStep ==
  ASSUME IInv, [Next]_vars, Damage PROVE IInv'
<1>1. /\ pc = "decode" /\ pc' = pc /\ CallInv /\ StreamInv
      /\ UNCHANGED <<values, marked>>
  BY DEF Damage, IInv
<1>2. /\ UNCHANGED <<raster, dtype, mode, sentinel, width, radius, stage>>
      /\ \A b : Rebuilt(b)' = Rebuilt(b)
  BY CallKept DEF callVars
<1>3. CallInv'
  BY <1>1, <1>2 DEF CallInv
<1>4. ASSUME NEW i \in DOMAIN raster, marked[i] # INVALID PROVE Kept(i)'
  <2>1. Kept(i) /\ Rebuilt(raster[i])' = Rebuilt(raster[i])
    BY <1>1, <1>2, <1>4 DEF StreamInv
  <2> QED
    BY <1>1, <1>2, <2>1 DEF Kept
<1>5. CASE /\ \E i \in DOMAIN mask, c \in Masks : mask' = [mask EXCEPT ![i] = c]
           /\ UNCHANGED header
  <2>1. /\ DOMAIN mask' = DOMAIN raster
        /\ \A i \in DOMAIN raster : mask'[i] \in Nat
    BY <1>1, <1>5, CallAssumption DEF StreamInv
  <2>2. Len(header') \in {1, 4} => Written'
    BY <1>1, <1>5, WrittenKept DEF StreamInv
  <2>3. StreamInv'
    BY <1>1, <1>2, <1>4, <2>1, <2>2 DEF StreamInv
  <2> QED
    BY <1>1, <1>3, <2>3 DEF IInv, DecodeInv
<1>6. CASE /\ \E n \in {0, 2, 3, 5} : header' = [k \in 1 .. n |-> 0]
           /\ UNCHANGED mask
  <2>1. PICK n \in {0, 2, 3, 5} : header' = [k \in 1 .. n |-> 0]
    BY <1>6
  <2>2. n \in Nat /\ Len(header') = n /\ n \notin {1, 4}
    BY <2>1
  <2>3. StreamInv'
    BY <1>1, <1>2, <1>4, <1>6, <2>2 DEF StreamInv
  <2> QED
    BY <1>1, <1>3, <2>3 DEF IInv, DecodeInv
<1> QED
  BY <1>5, <1>6 DEF Damage

\* A decoded or refused stream is not changed any more.
LEMMA EndStep ==
  ASSUME IInv, [Next]_vars, Decode \/ Refuse PROVE IInv'
<1>1. /\ pc = "decode" /\ pc' \in {"done", "corrupt"} /\ CallInv /\ StreamInv
      /\ UNCHANGED <<header, mask, values, marked>>
  BY DEF Decode, Refuse, IInv
<1>2. /\ UNCHANGED <<raster, dtype, mode, sentinel, width, radius, stage>>
      /\ \A b : Rebuilt(b)' = Rebuilt(b)
  BY CallKept DEF callVars
<1>3. CallInv'
  BY <1>1, <1>2 DEF CallInv
<1>4. ASSUME NEW i \in DOMAIN raster, marked[i] # INVALID PROVE Kept(i)'
  <2>1. Kept(i) /\ Rebuilt(raster[i])' = Rebuilt(raster[i])
    BY <1>1, <1>2, <1>4 DEF StreamInv
  <2> QED
    BY <1>1, <1>2, <2>1 DEF Kept
<1>5. Len(header') \in {1, 4} => Written'
  BY <1>1, WrittenKept DEF StreamInv
<1>6. StreamInv'
  BY <1>1, <1>2, <1>4, <1>5 DEF StreamInv
<1>7. Acceptable' <=> Acceptable
  BY <1>1 DEF Acceptable, BadCode
<1>8. \A i : Restored(i)' = Restored(i)
  BY <1>1 DEF Restored
<1>9. DecodeInv'
  BY <1>1, <1>7, <1>8 DEF DecodeInv, Decode, Refuse
<1> QED
  BY <1>1, <1>3, <1>6, <1>9 DEF IInv

LEMMA InvStep == IInv /\ [Next]_vars => IInv'
<1> SUFFICES ASSUME IInv, [Next]_vars PROVE IInv'
  OBVIOUS
<1>1. CASE UNCHANGED vars
  <2>1. UNCHANGED <<pc, raster, dtype, mode, sentinel, width, radius, stage,
                    header, mask, values, marked, out>>
    BY <1>1 DEF vars, callVars
  <2>2. /\ CallInv' = CallInv
        /\ \A i : Restored(i)' = Restored(i)
        /\ Acceptable' = Acceptable
    BY <2>1 DEF CallInv, Restored, Acceptable, BadCode
  <2>3. \A i : Kept(i)' = Kept(i)
    BY <2>1, CallKept DEF Kept
  <2>4. StreamInv => StreamInv'
    BY <2>1, <2>3, WrittenKept DEF StreamInv
  <2> QED
    BY <2>1, <2>2, <2>4 DEF IInv, DecodeInv
<1>2. CASE Ended
  BY <1>1, <1>2 DEF Ended
<1> QED
  BY <1>1, <1>2, EncodeNaNStep, EncodeValueStep, StageStep, DamageStep, EndStep
     DEF Next

-----------------------------------------------------------------------------
(* Conclusions                                                             *)

\* A sequence of one and one of three.
LEMMA OneAndThree ==
  ASSUME NEW S, NEW u \in Seq(S), NEW t \in Seq(S), Len(u) = 1, Len(t) = 3
  PROVE  /\ Len(u \o t) = 4 /\ (u \o t)[1] = u[1]
         /\ \A k \in 1 .. 3 : (u \o t)[k + 1] = t[k]
<1>1. /\ Len(u \o t) = Len(u) + Len(t)
      /\ \A i \in 1 .. Len(u) + Len(t) :
           (u \o t)[i] = IF i <= Len(u) THEN u[i] ELSE t[i - Len(u)]
  BY ConcatProperties
<1> QED
  BY <1>1

\* The longer header is the pattern and its three replacements.
LEMMA GuardedHeader ==
  ASSUME NEW s
  PROVE  LET h == <<s>> \o Neighbours(s) IN
         /\ Len(h) = 4 /\ h[1] = s
         /\ \A c \in 1 .. 3 : h[c + 1] = Neighbours(s)[c]
<1>1. \E a, b, c : Neighbours(s) = <<a, b, c>>
  BY DEF Neighbours
<1>2. PICK a, b, c : Neighbours(s) = <<a, b, c>>
  BY <1>1
<1> DEFINE S == {s, a, b, c}
           t == <<a, b, c>>
<1>3. /\ t \in Seq(S) /\ Len(t) = 3
      /\ <<s>> \in Seq(S) /\ Len(<<s>>) = 1 /\ <<s>>[1] = s
  OBVIOUS
<1> HIDE DEF S, t
<1>4. PICK u \in Seq(S) : u = <<s>>
  BY <1>3
<1>5. /\ Len(u \o t) = 4 /\ (u \o t)[1] = u[1]
      /\ \A k \in 1 .. 3 : (u \o t)[k + 1] = t[k]
  BY <1>3, <1>4, OneAndThree
<1> QED
  BY <1>2, <1>3, <1>4, <1>5 DEF t

\* A header of one field is not that, and the other way round.
LEMMA GuardedForm ==
  ASSUME Written, CallInv, Len(header) = 4
  PROVE  /\ mode = "value" /\ Real(sentinel)
         /\ header = <<sentinel>> \o Neighbours(sentinel)
         /\ marked = MarkGuarded(sentinel)
<1>1. \A x : Len(<<x>>) = 1
  OBVIOUS
<1>2. /\ header # <<FirstNaN>> /\ header # <<0>> /\ header # <<sentinel>>
  BY <1>1
<1>3. /\ mode = "value" /\ ~IsNaN(sentinel)
      /\ header = <<sentinel>> \o Neighbours(sentinel)
      /\ marked = MarkGuarded(sentinel)
  BY <1>2 DEF Written
<1> QED
  BY <1>3 DEF CallInv, Real

\* The first NaN of a raster is one of its samples.
LEMMA FirstIsNaN ==
  ASSUME CallInv, NaNs # {} PROVE LooksNaN(FirstNaN)
<1>1. NaNs \subseteq Nat
  BY DEF NaNs, CallInv
<1>2. \E i \in NaNs : \A k \in NaNs : i <= k
  BY <1>1, LeastNumber
<1> QED
  BY <1>2 DEF FirstNaN, NaNs

\* The encoder's own codes are never refused.
LEMMA NotRefused ==
  ASSUME IInv, pc # "encode", Undamaged PROVE Acceptable
<1>1. /\ CallInv /\ StreamInv /\ Written /\ mask = marked
      /\ Len(header) \in {1, 4}
  BY DEF IInv, Undamaged, StreamInv
<1>2. CASE Len(header) = 1
  BY <1>2 DEF Acceptable
<1>3. CASE Len(header) = 4
  <2>1. /\ Real(sentinel) /\ header = <<sentinel>> \o Neighbours(sentinel)
        /\ marked = MarkGuarded(sentinel) /\ dtype \in Types
    BY <1>1, <1>3, GuardedForm DEF CallInv
  <2>2. ASSUME NEW i \in DOMAIN mask PROVE ~BadCode(mask[i])
    <3>1. i \in DOMAIN raster /\ raster[i] \in Element
      BY <1>1, <2>2 DEF StreamInv, CallInv
    <3>2. PICK c : c = Guard(raster[i], sentinel)
      OBVIOUS
    <3>3. mask[i] = c
      BY <1>1, <2>1, <3>1, <3>2 DEF MarkGuarded
    <3>4. c \in 0 .. 3 /\ (c # 0 => Neighbours(sentinel)[c] # sentinel)
      BY <2>1, <3>1, <3>2, CodeLeads
    <3>5. c # 0 => header[c + 1] # header[1]
      <4>1. c # 0 => c \in 1 .. 3
        BY <3>4
      <4> QED
        BY <2>1, <3>4, <4>1, GuardedHeader
    <3> QED
      BY <3>3, <3>4, <3>5 DEF BadCode
  <2> QED
    BY <1>3, <2>2 DEF Acceptable
<1> QED
  BY <1>1, <1>2, <1>3

\* What became of a sample: a hole is one, and no other; the bound is kept.
Sound(i) ==
  /\ Hole(out[i]) <=> Hole(raster[i])
  /\ stage # "broken" =>
       \/ out[i] = raster[i]
       \/ Hole(raster[i]) /\ mode = "nan" /\ radius # 0
       \/ /\ stage # "lossless"
          /\ \/ Within(out[i], raster[i], radius)
             \/ dtype = "float" /\ Magnitude(raster[i]) >= Infinity

\* A measured sample is as the stage left it: the same, or no NaN.
LEMMA Measured ==
  ASSUME IInv, pc = "done", NEW i \in DOMAIN raster, marked[i] # INVALID
  PROVE  /\ stage = "lossless" => values[i] = raster[i]
         /\ stage # "lossless" => values[i] \in Element /\ ~IsNaN(values[i])
         /\ stage = "bounded" =>
              \/ Within(values[i], raster[i], radius)
              \/ dtype = "float" /\ Magnitude(raster[i]) >= Infinity
<1>1. Kept(i)
  BY DEF IInv, StreamInv
<1> QED
  BY <1>1 DEF Kept, Rebuilt

\* With a header of one field a hole takes the pattern, a measured sample stays.
LEMMA PlainSound ==
  ASSUME IInv, pc = "done", Undamaged, Len(header) = 1,
         NEW i \in DOMAIN raster
  PROVE  Sound(i)
<1>1. /\ CallInv /\ StreamInv /\ Written /\ mask = marked
  BY DEF IInv, Undamaged, StreamInv
<1>2. raster[i] \in Element
  BY <1>1 DEF CallInv
<1>3. out[i] = IF marked[i] = 0 THEN header[1] ELSE values[i]
  BY <1>1 DEF IInv, DecodeInv, StreamInv, Restored
<1>4. stage \in {"lossless", "bounded", "broken"}
  BY <1>1 DEF CallInv
<1>5. ~(header = <<sentinel>> \o Neighbours(sentinel))
  BY GuardedHeader
<1>6. CASE /\ mode = "nan" /\ NaNs # {} /\ radius = 0
           /\ header = <<FirstNaN>> /\ marked = MarkValue(FirstNaN)
  <2>1. stage = "lossless"
    BY <1>1, <1>6 DEF CallInv
  <2>2. marked[i] = 0 <=> raster[i] = FirstNaN
    BY <1>6 DEF MarkValue, INVALID, ABOVE
  <2>3. out[i] = raster[i]
    BY <1>3, <1>6, <2>1, <2>2, Measured DEF INVALID
  <2> QED
    BY <2>3 DEF Sound
<1>7. CASE /\ mode = "nan" /\ marked = MarkNaN
           /\ NaNs # {} => radius # 0 /\ header = <<FirstNaN>>
  <2>1. marked[i] = 0 <=> LooksNaN(raster[i])
    BY <1>7 DEF MarkNaN, INVALID, ABOVE
  <2>2. \A b : Hole(b) <=> LooksNaN(b)
    BY <1>7 DEF Hole
  <2>3. CASE marked[i] = 0
    <3>1. i \in NaNs
      BY <2>1, <2>3 DEF NaNs
    <3>2. out[i] = FirstNaN /\ radius # 0
      BY <1>3, <1>7, <2>3, <3>1
    <3> QED
      BY <1>1, <1>7, <2>1, <2>2, <2>3, <3>1, <3>2, FirstIsNaN DEF Sound
  <2>4. CASE marked[i] # 0
    <3>1. out[i] = values[i] /\ ~Hole(raster[i])
      BY <1>3, <2>1, <2>2, <2>4
    <3>2. stage # "lossless" => ~LooksNaN(values[i])
      BY <1>1, <1>7, <2>4, Measured DEF IsNaN, CallInv, INVALID
    <3>3. /\ stage = "lossless" => values[i] = raster[i]
          /\ stage = "bounded" =>
               \/ Within(values[i], raster[i], radius)
               \/ dtype = "float" /\ Magnitude(raster[i]) >= Infinity
      BY <2>4, Measured DEF INVALID
    <3> QED
      BY <1>4, <2>2, <3>1, <3>2, <3>3 DEF Sound
  <2> QED
    BY <2>3, <2>4
<1>8. CASE /\ mode = "value" /\ IsNaN(sentinel)
           /\ header = <<sentinel>> /\ marked = MarkValue(sentinel)
  <2>1. marked[i] = 0 <=> raster[i] = sentinel
    BY <1>8 DEF MarkValue, INVALID, ABOVE
  <2>2. \A b : Hole(b) <=> b = sentinel
    BY <1>8 DEF Hole
  <2>3. CASE marked[i] = 0
    <3>1. out[i] = raster[i]
      BY <1>3, <1>8, <2>1, <2>3
    <3> QED
      BY <3>1 DEF Sound
  <2>4. CASE marked[i] # 0
    <3>1. out[i] = values[i] /\ ~Hole(raster[i])
      BY <1>3, <2>1, <2>2, <2>4
    <3>2. /\ stage = "lossless" => values[i] = raster[i]
          /\ stage # "lossless" => ~IsNaN(values[i])
          /\ stage = "bounded" =>
               \/ Within(values[i], raster[i], radius)
               \/ dtype = "float" /\ Magnitude(raster[i]) >= Infinity
      BY <2>4, Measured DEF INVALID
    <3>3. stage # "lossless" => values[i] # sentinel
      BY <1>8, <3>2
    <3> QED
      BY <1>4, <2>2, <3>1, <3>2, <3>3 DEF Sound
  <2> QED
    BY <2>3, <2>4
<1> QED
  BY <1>1, <1>5, <1>6, <1>7, <1>8 DEF Written

\* With a guarded header a value that reads as the pattern is moved off it.
LEMMA GuardedSound ==
  ASSUME IInv, pc = "done", Undamaged, Len(header) = 4,
         NEW i \in DOMAIN raster
  PROVE  Sound(i)
<1>1. /\ CallInv /\ StreamInv /\ Written /\ mask = marked
  BY DEF IInv, Undamaged, StreamInv
<1>2. raster[i] \in Element /\ dtype \in Types /\ radius \in Nat
  BY <1>1 DEF CallInv
<1>3. /\ mode = "value" /\ Real(sentinel)
      /\ header = <<sentinel>> \o Neighbours(sentinel)
      /\ marked = MarkGuarded(sentinel)
  BY <1>1, GuardedForm
<1>4. PICK c : c = Guard(raster[i], sentinel)
  OBVIOUS
<1>5. mask[i] = c /\ marked[i] = c
  BY <1>1, <1>3, <1>4 DEF MarkGuarded
<1>6. /\ c \in 0 .. 3 /\ (c = 0 <=> raster[i] = sentinel)
      /\ c # 0 => Neighbours(sentinel)[c] # sentinel
  BY <1>2, <1>3, <1>4, CodeLeads
<1>7. header[1] = sentinel /\ (c # 0 => header[c + 1] = Neighbours(sentinel)[c])
  <2>1. c # 0 => c \in 1 .. 3
    BY <1>6
  <2> QED
    BY <1>3, <2>1, GuardedHeader
<1>8. out[i] = IF c = 0 THEN sentinel
               ELSE IF values[i] = sentinel THEN Neighbours(sentinel)[c]
               ELSE values[i]
  <2>1. out[i] = Restored(i)
    BY <1>1 DEF IInv, DecodeInv, StreamInv
  <2>2. c <= 3
    BY <1>6
  <2> QED
    BY <1>5, <1>7, <2>1, <2>2 DEF Restored
<1>9. \A b : Hole(b) <=> b = sentinel
  BY <1>3 DEF Hole
<1>10. CASE c = 0
  BY <1>6, <1>8, <1>10 DEF Sound
<1>11. CASE c # 0
  <2>1. raster[i] # sentinel /\ out[i] # sentinel
    BY <1>6, <1>8, <1>11
  <2>2. /\ stage = "lossless" => values[i] = raster[i]
        /\ stage = "bounded" =>
             \/ Within(values[i], raster[i], radius)
             \/ dtype = "float" /\ Magnitude(raster[i]) >= Infinity
    BY <1>5, <1>11, Measured DEF INVALID
  <2>3. stage \in {"lossless", "bounded", "broken"}
    BY <1>1 DEF CallInv
  <2>4. CASE values[i] # sentinel
    BY <1>8, <1>9, <1>11, <2>1, <2>2, <2>3, <2>4 DEF Sound
  <2>5. CASE values[i] = sentinel
    <3>1. out[i] = Neighbours(sentinel)[c] /\ stage # "lossless"
      BY <1>8, <1>11, <2>1, <2>2, <2>5
    <3>2. CASE IsNaN(raster[i])
      <4>1. dtype = "float" /\ Magnitude(raster[i]) > Infinity
        BY <3>2 DEF IsNaN, LooksNaN
      <4>2. Magnitude(raster[i]) \in Int /\ Infinity \in Int
        BY <1>2, Magnitudes, FieldFacts
      <4>3. Magnitude(raster[i]) >= Infinity
        BY <4>1, <4>2
      <4> QED
        BY <1>9, <2>1, <3>1, <4>1, <4>3 DEF Sound
    <3>3. CASE stage = "broken"
      BY <1>9, <2>1, <3>3 DEF Sound
    <3>4. CASE dtype = "float" /\ Magnitude(raster[i]) >= Infinity
      BY <1>9, <2>1, <3>1, <3>4 DEF Sound
    <3>5. CASE ~IsNaN(raster[i]) /\ Within(values[i], raster[i], radius)
      <4>1. Real(raster[i])
        BY <1>2, <3>5 DEF Real
      <4>2. \/ Neighbours(sentinel)[c] = raster[i]
            \/ Within(Neighbours(sentinel)[c], raster[i], radius)
        BY <1>2, <1>3, <1>4, <2>1, <2>5, <3>5, <4>1, CodeNearer
      <4> QED
        BY <1>9, <2>1, <3>1, <4>2 DEF Sound
    <3> QED
      BY <2>2, <2>3, <3>1, <3>2, <3>3, <3>4, <3>5
  <2> QED
    BY <2>4, <2>5
<1> QED
  BY <1>10, <1>11

\* Every step keeps the invariant.
LEMMA Invariant == Spec => []IInv
  BY InitInv, InvStep, PTL DEF Spec

LEMMA AllSound ==
  ASSUME IInv, pc = "done", Undamaged, NEW i \in DOMAIN raster
  PROVE  Sound(i)
BY PlainSound, GuardedSound DEF Undamaged

\* EI_geozl_nodata, DI_geozl_nodata: a reader of the decoded samples finds the
\* holes where they were and nowhere else, whatever the stage does to the others,
\* and nothing that the encoder wrote is refused.
THEOREM HolesStayHolds == Spec => []HolesStay
<1>1. ASSUME IInv PROVE HolesStay
  <2>1. Undamaged /\ pc = "corrupt" => FALSE
    BY <1>1, NotRefused DEF IInv, DecodeInv
  <2>2. Undamaged /\ pc = "done" =>
          \A i \in DOMAIN raster : Hole(out[i]) <=> Hole(raster[i])
    BY <1>1, AllSound DEF Sound
  <2> QED
    BY <2>1, <2>2 DEF HolesStay
<1> QED
  BY <1>1, Invariant, PTL

\* nodata_guard_values: moving a value off the sentinel keeps the bound of the
\* stage, and a lossless path returns every bit.
THEOREM BoundKeptHolds == Spec => []BoundKept
<1>1. ASSUME IInv PROVE BoundKept
  BY <1>1, AllSound DEF Sound, BoundKept
<1> QED
  BY <1>1, Invariant, PTL

\* nodata_restore_guarded: with the mask that was sent or one byte of it changed,
\* and a header of the right length or another, a guarded stream that is accepted
\* has the pattern at the holes of its mask and nowhere else.
THEOREM MaskDecidesHolds == Spec => []MaskDecides
<1>1. ASSUME IInv, pc = "done", Len(header) = 4, NEW i \in DOMAIN mask
      PROVE  out[i] = header[1] <=> mask[i] = 0
  <2>1. /\ StreamInv /\ Acceptable /\ out[i] = Restored(i)
    BY <1>1 DEF IInv, DecodeInv, StreamInv
  <2>2. mask[i] \in Nat /\ ~BadCode(mask[i])
    BY <1>1, <2>1 DEF StreamInv, Acceptable
  <2>3. /\ mask[i] <= 3
        /\ mask[i] # 0 => header[mask[i] + 1] # header[1]
    BY <2>2 DEF BadCode
  <2> QED
    BY <1>1, <2>1, <2>3 DEF Restored
<1>2. IInv => MaskDecides
  BY <1>1 DEF MaskDecides
<1> QED
  BY <1>2, Invariant, PTL
=============================================================================
