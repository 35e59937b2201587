------------------------- MODULE BatchLayoutProofs -------------------------
(***************************************************************************)
(* What the layout of a batch promises, for every call, every width of a   *)
(* size_t and of the kernels' words, and every alignment: slots and direct *)
(* frames are apart, offsets and counts fit, a refusal has a cause, and    *)
(* what reaches the target is what the copies ask for.                     *)
(***************************************************************************)
EXTENDS BatchLayout, FiniteSetTheorems, WellFoundedInduction, TLAPS

\* A multiple of d leaves no rest.
LEMMA MultipleOf ==
  ASSUME NEW m \in Nat, NEW d \in Nat \ {0}
  PROVE  (m * d) % d = 0
OBVIOUS

\* round_up: a size that does not saturate becomes the next multiple.
LEMMA RoundUpFacts ==
  ASSUME NEW n \in Nat, n <= SizeMax, NEW d \in Nat \ {0}
  PROVE  /\ RoundUp(n, d) \in Nat /\ n <= RoundUp(n, d)
         /\ RoundUp(n, d) < SizeMax =>
              \E m \in Nat : RoundUp(n, d) = m * d
<1>1. SizeMax \in Nat
  BY LayoutAssumption
<1>2. CASE n > SizeMax - (d - 1)
  BY <1>1, <1>2 DEF RoundUp
<1>3. CASE n <= SizeMax - (d - 1)
  <2> DEFINE q == (n + d - 1) \div d
  <2>1. n + d - 1 \in Nat
    OBVIOUS
  <2>2. q \in Nat /\ n + d - 1 < q * d + d
    BY <2>1
  <2>3. RoundUp(n, d) = q * d
    BY <1>1, <1>3 DEF RoundUp, Multiple
  <2> HIDE DEF q
  <2>4. q * d \in Nat /\ n <= q * d
    BY <2>2
  <2> QED
    BY <2>2, <2>3, <2>4
<1> QED
  BY <1>1, <1>2, <1>3

\* A frame of the call has sizes of a size_t.
LEMMA FrameFacts ==
  ASSUME IsCall(call), NEW f \in 1 .. Len(call.frames)
  PROVE  /\ Frame(f).size \in Nat /\ Frame(f).size <= SizeMax
         /\ Frame(f).decoded \in Nat
         /\ Frame(f).kind \in DeviceRoutes \cup {"host"}
<1>1. IsFrame(call.frames[f])
  BY DEF IsCall
<1>2. SizeMax \in Nat
  BY LayoutAssumption
<1> QED
  BY <1>1, <1>2 DEF IsFrame, Frame, DeviceRoutes

\* The slot of a frame has room for what the frame writes; on the device it is
\* a whole number of units.
LEMMA SlotFacts ==
  ASSUME SlotType, NEW f \in 1 .. Len(call.frames)
  PROVE  LET r == RouteOf(f) IN
         /\ r \in DeviceRoutes \cup {"host"}
         /\ SlotBytes(f, r) \in Nat
         /\ r = "host" => Frame(f).decoded <= SlotBytes(f, r)
         /\ r # "host" => /\ Frame(f).size <= SlotBytes(f, r)
                          /\ \E m \in Nat : SlotBytes(f, r) = m * SlotAlign
<1> DEFINE r == RouteOf(f)
<1>1. /\ Frame(f).size \in Nat /\ Frame(f).size <= SizeMax
      /\ Frame(f).decoded \in Nat
      /\ Frame(f).kind \in DeviceRoutes \cup {"host"}
  BY FrameFacts DEF SlotType
<1>2. r \in DeviceRoutes \cup {"host"}
  BY <1>1 DEF RouteOf
<1>3. CASE r = "host"
  BY <1>1, <1>2, <1>3 DEF SlotBytes
<1>4. CASE r # "host"
  <2>1. Fits(f, r)
    BY <1>4 DEF RouteOf
  <2>2. total[r] \in Nat
    BY <1>2 DEF SlotType
  <2>3. RoundUp(Frame(f).size, SlotAlign) <= Budget - total[r]
    BY <2>1 DEF Fits
  <2>4. Budget < SizeMax /\ Budget \in Int /\ SizeMax \in Nat
    BY LayoutAssumption DEF Budget
  <2>5. SlotAlign \in Nat \ {0}
    BY LayoutAssumption
  <2>6. /\ RoundUp(Frame(f).size, SlotAlign) \in Nat
        /\ Frame(f).size <= RoundUp(Frame(f).size, SlotAlign)
        /\ RoundUp(Frame(f).size, SlotAlign) < SizeMax =>
             \E m \in Nat : RoundUp(Frame(f).size, SlotAlign) = m * SlotAlign
    BY <1>1, <2>5, RoundUpFacts
  <2>7. RoundUp(Frame(f).size, SlotAlign) < SizeMax
    BY <2>2, <2>3, <2>4, <2>6
  <2>8. SlotBytes(f, r) = RoundUp(Frame(f).size, SlotAlign)
    BY <1>4 DEF SlotBytes
  <2> QED
    BY <1>2, <1>4, <2>6, <2>7, <2>8
<1> QED
  BY <1>3, <1>4

\* Before the first frame there are no slots.
LEMMA SlotInvInit == Init => SlotInv
<1> SUFFICES ASSUME Init PROVE SlotInv
  OBVIOUS
<1>1. IsCall(call)
  BY LayoutAssumption DEF Init
<1>2. SlotType
  BY <1>1 DEF Init, SlotType
<1>3. \A r \in DeviceRoutes : total[r] = 0 * SlotAlign
  BY LayoutAssumption DEF Init
<1>4. Len(call.frames) \in Nat
  BY <1>1 DEF IsCall
<1>5. SlotProgress
  BY <1>3, <1>4 DEF Init, SlotProgress
<1>6. SlotsApart
  BY DEF Init, SlotsApart
<1> QED
  BY <1>2, <1>5, <1>6 DEF SlotInv

\* Laying out a frame puts it behind those before it on its route.
LEMMA LayFrameKeepsSlots ==
  ASSUME SlotInv, LayFrame PROVE SlotInv'
<1> DEFINE r == RouteOf(i)
           bytes == SlotBytes(i, r)
<1> USE DEF SlotInv
<1>1. phase = "slots" /\ i = Len(slot) + 1 /\ i \in 1 .. Len(call.frames)
  BY DEF LayFrame, SlotProgress, SlotType
<1>2. /\ r \in DeviceRoutes \cup {"host"} /\ bytes \in Nat
      /\ r = "host" => Frame(i).decoded <= bytes
      /\ r # "host" => /\ Frame(i).size <= bytes
                       /\ \E m \in Nat : bytes = m * SlotAlign
  BY <1>1, SlotFacts
<1>3. call' = call
  BY DEF LayFrame
<1>4. CASE bytes > SizeMax - total[r]
  <2>1. phase' = "failed" /\ UNCHANGED <<i, routed, slot, total>>
    BY <1>4 DEF LayFrame, layout
  <2>2. SlotType' /\ SlotProgress'
    BY <1>3, <2>1 DEF SlotType, SlotProgress, IsCall, IsFrame, IsCopy
  <2>3. SlotsApart'
    BY <1>3, <2>1 DEF SlotsApart, Needs, Frame
  <2> QED
    BY <2>2, <2>3
<1>5. CASE ~(bytes > SizeMax - total[r])
  <2> HIDE DEF r, bytes
  <2>0. PICK k \in 1 .. Len(call.frames) : k = i
    BY <1>1
  <2>1. /\ routed' = Append(routed, r) /\ slot' = Append(slot, total[r])
        /\ total' = [total EXCEPT ![r] = @ + bytes]
        /\ Step(Len(call.frames), "direct")
    BY <1>5 DEF LayFrame, r, bytes
  <2>2. /\ Len(slot) = Len(routed) /\ Len(slot) \in Nat
        /\ Len(slot') = Len(slot) + 1 /\ Len(routed') = Len(slot) + 1
        /\ total[r] \in Nat
    BY <1>2, <2>1 DEF SlotType, SlotProgress
  <2>3. /\ slot'[k] = total[r] /\ routed'[k] = r
        /\ \A f \in 1 .. Len(slot) :
             slot'[f] = slot[f] /\ routed'[f] = routed[f]
    BY <1>1, <1>2, <2>0, <2>1, <2>2 DEF SlotType
  <2>4. SlotType'
    <3>1. IsCall(call)'
      BY <1>3 DEF SlotType, IsCall, IsFrame, IsCopy
    <3>2. i' \in Nat \ {0}
      BY <1>1, <2>1 DEF Step, SlotType
    <3>3. /\ routed' \in Seq(DeviceRoutes \cup {"host"})
          /\ slot' \in Seq(Nat)
      BY <1>2, <2>1, <2>2 DEF SlotType
    <3>4. total' \in [DeviceRoutes \cup {"host"} -> Nat]
      BY <1>2, <2>1, <2>2 DEF SlotType
    <3> QED
      BY <3>1, <3>2, <3>3, <3>4 DEF SlotType
  <2>5. \A q \in DeviceRoutes : \E n \in Nat : total'[q] = n * SlotAlign
    <3> SUFFICES ASSUME NEW q \in DeviceRoutes
                 PROVE  \E n \in Nat : total'[q] = n * SlotAlign
      OBVIOUS
    <3>1. PICK n \in Nat : total[q] = n * SlotAlign
      BY DEF SlotProgress
    <3>2. CASE q # r
      BY <2>1, <3>1, <3>2 DEF SlotType
    <3>3. CASE q = r
      <4>1. PICK m \in Nat : bytes = m * SlotAlign
        BY <1>2, <3>3 DEF DeviceRoutes
      <4>2. total'[q] = total[q] + bytes
        BY <1>2, <2>1, <3>3 DEF SlotType
      <4>3. n * SlotAlign + m * SlotAlign = (n + m) * SlotAlign
        BY LayoutAssumption
      <4> QED
        BY <3>1, <4>1, <4>2, <4>3
    <3> QED
      BY <3>2, <3>3
  <2>6. SlotProgress'
    BY <1>1, <1>3, <2>1, <2>2, <2>5 DEF SlotProgress, Step
  <2>7. SlotsApart'
    <3>1. /\ DOMAIN slot = 1 .. Len(slot)
          /\ DOMAIN slot' = (1 .. Len(slot)) \cup {k}
      BY <1>1, <2>0, <2>2, <2>4 DEF SlotType
    <3>2. /\ \A f \in 1 .. Len(slot) :
               /\ Needs(f)' = Needs(f) /\ Needs(f) \in Nat /\ slot[f] \in Nat
               /\ routed[f] \in DeviceRoutes \cup {"host"}
               /\ total[routed[f]] \in Nat
          /\ Needs(k)' <= bytes /\ Needs(k)' \in Nat
      <4>1. \A f \in 1 .. Len(call.frames) :
              Frame(f)' = Frame(f) /\ Frame(f).size \in Nat
                /\ Frame(f).decoded \in Nat
        BY <1>3, FrameFacts DEF SlotType, Frame
      <4>2. 1 .. Len(slot) \subseteq 1 .. Len(call.frames)
        BY <2>2 DEF SlotProgress, SlotType, IsCall
      <4>3. \A f \in 1 .. Len(slot) :
              /\ slot[f] \in Nat /\ routed[f] \in DeviceRoutes \cup {"host"}
              /\ total[routed[f]] \in Nat
        BY <2>2 DEF SlotType
      <4>4. \A f \in 1 .. Len(slot) : Needs(f)' = Needs(f) /\ Needs(f) \in Nat
        BY <2>3, <4>1, <4>2 DEF Needs
      <4>5. Needs(k)' = IF r = "host" THEN Frame(k).decoded ELSE Frame(k).size
        <5>1. call'.frames[k] = call.frames[k]
          BY <1>3
        <5> QED
          BY <2>0, <2>3, <5>1 DEF Needs, Frame
      <4>6. Needs(k)' <= bytes /\ Needs(k)' \in Nat
        BY <1>2, <2>0, <4>1, <4>5
      <4> QED
        BY <4>3, <4>4, <4>6
    <3>3. \A q \in DeviceRoutes \cup {"host"} :
            total'[q] = IF q = r THEN total[q] + bytes ELSE total[q]
      BY <1>2, <2>1 DEF SlotType
    <3>4. r # "host" => total[r] % SlotAlign = 0
      <4>1. SlotAlign \in Nat \ {0}
        BY LayoutAssumption
      <4>2. r # "host" => \E n \in Nat : total[r] = n * SlotAlign
        BY <1>2 DEF SlotProgress
      <4> QED
        BY <4>1, <4>2, MultipleOf
    <3>5. ASSUME NEW f \in 1 .. Len(slot)
          PROVE  /\ slot[f] + Needs(f) <= total[routed[f]]
                 /\ routed[f] # "host" => slot[f] % SlotAlign = 0
                 /\ \A g \in 1 .. Len(slot) :
                      f < g /\ routed[f] = routed[g] =>
                        slot[f] + Needs(f) <= slot[g]
      BY <3>1, <3>5 DEF SlotsApart
    <3>6. ASSUME NEW f \in 1 .. Len(slot)
          PROVE  /\ slot'[f] + Needs(f)' <= total'[routed'[f]]
                 /\ routed'[f] # "host" => slot'[f] % SlotAlign = 0
                 /\ \A g \in DOMAIN slot' :
                      f < g /\ routed'[f] = routed'[g] =>
                        slot'[f] + Needs(f)' <= slot'[g]
      <4>1. /\ slot'[f] = slot[f] /\ routed'[f] = routed[f]
            /\ Needs(f)' = Needs(f)
        BY <2>3, <3>2, <3>6
      <4>2. total[routed[f]] <= total'[routed[f]]
        BY <1>2, <3>2, <3>3, <3>6
      <4>3. slot[f] + Needs(f) <= total[routed[f]]
        BY <3>5, <3>6
      <4>4. slot'[f] + Needs(f)' <= total'[routed'[f]]
        <5>1. total'[routed[f]] \in Nat
          BY <1>2, <3>2, <3>3, <3>6
        <5> QED
          BY <3>2, <3>6, <4>1, <4>2, <4>3, <5>1
      <4>5. ASSUME NEW g \in DOMAIN slot', f < g, routed'[f] = routed'[g]
            PROVE  slot'[f] + Needs(f)' <= slot'[g]
        <5>1. CASE g \in 1 .. Len(slot)
          BY <2>3, <3>5, <3>6, <4>1, <4>5, <5>1
        <5>2. CASE g = k
          BY <2>3, <4>1, <4>3, <4>5, <5>2
        <5> QED
          BY <3>1, <4>5, <5>1, <5>2
      <4> QED
        BY <3>5, <3>6, <4>1, <4>4, <4>5
    <3>7. /\ slot'[k] + Needs(k)' <= total'[routed'[k]]
          /\ routed'[k] # "host" => slot'[k] % SlotAlign = 0
          /\ \A g \in DOMAIN slot' : ~(k < g)
      BY <1>1, <2>0, <1>2, <2>2, <2>3, <3>1, <3>2, <3>3, <3>4
    <3> QED
      BY <3>1, <3>6, <3>7 DEF SlotsApart
  <2> QED
    BY <2>4, <2>6, <2>7
<1> QED
  BY <1>4, <1>5

\* The other steps leave the slots alone; the loop starts with the first frame
\* of a call that has one.
LEMMA OthersKeepSlots ==
  ASSUME SlotInv, [Next]_vars, ~LayFrame PROVE SlotInv'
<1> USE DEF SlotInv
<1>1. UNCHANGED <<call, routed, slot, total>>
  BY DEF Next, vars, layout, Validate, ChooseDirect, CollectFrame, ShiftPivco,
         CountPieces, AddPlaceCopies, Queue, Fail, Ended
<1>2. i' \in Nat \ {0}
  <2>1. i \in Nat \ {0}
    BY DEF SlotType
  <2>2. i' = i \/ i' = i + 1 \/ i' = 1
    BY DEF Next, vars, Validate, ChooseDirect, CollectFrame, ShiftPivco,
           CountPieces, AddPlaceCopies, Queue, Fail, Ended, Step
  <2> QED
    BY <2>1, <2>2
<1>3. phase' = "validate" => phase = "validate" /\ i' = i
  BY DEF Next, vars, layout, Validate, ChooseDirect, CollectFrame, ShiftPivco,
         CountPieces, AddPlaceCopies, Queue, Fail, Ended, Step
<1>4. phase' = "slots" =>
        i' = i /\ (phase = "slots" \/ (phase = "validate" /\ InputValid))
  BY DEF Next, vars, layout, Validate, ChooseDirect, CollectFrame, ShiftPivco,
         CountPieces, AddPlaceCopies, Queue, Fail, Ended, Step
<1>5. Len(call.frames) \in Nat /\ (InputValid => 1 <= Len(call.frames))
  BY DEF SlotType, IsCall, InputValid, Frames
<1>6. SlotType'
  BY <1>1, <1>2 DEF SlotType, IsCall, IsFrame, IsCopy
<1>7. SlotProgress'
  BY <1>1, <1>3, <1>4, <1>5 DEF SlotProgress
<1>8. SlotsApart'
  BY <1>1 DEF SlotsApart, Needs, Frame
<1> QED
  BY <1>6, <1>7, <1>8

-----------------------------------------------------------------------------
(* Direct output                                                           *)

\* The fields of a copy are sizes.
LEMMA CopyFacts ==
  ASSUME IsCall(call), NEW k \in Copies
  PROVE  LET c == call.copies[k] IN
         /\ c.frame \in Nat /\ c.width \in Nat /\ c.rows \in Nat
         /\ c.source \in Nat /\ c.sourceRow \in Nat /\ c.sourceStep \in Nat
         /\ c.destination \in Nat /\ c.destinationRow \in Nat
         /\ c.destinationStep \in Nat
<1> DEFINE Fields == [frame : Nat, source : Nat, sourceRow : Nat,
                      sourceStep : Nat, destination : Nat,
                      destinationRow : Nat, destinationStep : Nat,
                      width : Nat, rows : Nat]
<1>1. call.copies \in Seq(Fields)
  BY DEF IsCall
<1>2. call.copies[k] \in Fields
  <2> HIDE DEF Fields
  <2> QED
    BY <1>1 DEF Copies
<1> QED
  BY <1>2

\* The number of copies is a number.
LEMMA CopyCount ==
  ASSUME IsCall(call)
  PROVE  Len(call.copies) \in Nat /\ Len(call.frames) \in Nat
BY DEF IsCall

\* What is needed of the checks of the input.
InputFacts ==
  /\ Frames # {} /\ Sample \in Nat \ {0}
  /\ \A f \in Frames : Frame(f).decoded % Sample = 0

\* A call that passed its checks.
Checked ==
  phase \notin {"validate", "refused"} =>
    InputFacts /\ \A k \in Copies : CopyValid(call.copies[k])

\* The sorted spans of the direct copies are apart when neighbours are.
LEMMA NeighboursSuffice ==
  ASSUME IsCall(call), DirectTargets,
         \A k \in Copies : call.copies[k].frame \in Frames
  PROVE  \A k, l \in DeviceCopies : Precedes(k, l) => Apart(k, l)
<1> SUFFICES ASSUME NEW k \in DeviceCopies, NEW l \in DeviceCopies,
                    Precedes(k, l)
             PROVE  Apart(k, l)
  OBVIOUS
<1> DEFINE S == {m \in DeviceCopies : Precedes(k, m)}
           Between(m) == {j \in S : Precedes(j, m)}
           F == {Between(m) : m \in S}
<1>1. \A m \in DeviceCopies :
        /\ m \in Copies /\ m \in Nat /\ call.copies[m].destination \in Nat
        /\ Frame(call.copies[m].frame).decoded \in Nat
  <2> SUFFICES ASSUME NEW m \in DeviceCopies
               PROVE  /\ m \in Copies /\ m \in Nat
                      /\ call.copies[m].destination \in Nat
                      /\ Frame(call.copies[m].frame).decoded \in Nat
    OBVIOUS
  <2>1. m \in Copies /\ m \in Nat
    BY CopyCount DEF DeviceCopies, Copies
  <2>2. call.copies[m].destination \in Nat
    BY <2>1, CopyFacts
  <2>3. \A f \in Frames : Frame(f).decoded \in Nat
    BY FrameFacts DEF Frames
  <2> QED
    BY <2>1, <2>2, <2>3
<1>2. \A a, b, c \in DeviceCopies :
        /\ ~Precedes(a, a)
        /\ a = b \/ Precedes(a, b) \/ Precedes(b, a)
        /\ Precedes(a, b) /\ Precedes(b, c) => Precedes(a, c)
  BY <1>1 DEF Precedes
<1>3. F \subseteq FiniteSubsetsOf(Copies) /\ F # {}
  <2>1. IsFiniteSet(Copies)
    BY CopyCount, FS_Interval DEF Copies
  <2>2. ASSUME NEW m \in S
        PROVE  Between(m) \in SUBSET Copies /\ IsFiniteSet(Between(m))
    <3>1. Between(m) \in SUBSET Copies
      BY <1>1
    <3> QED
      BY <2>1, <3>1, FS_Subset
  <2>3. l \in S
    OBVIOUS
  <2> QED
    BY <2>2, <2>3 DEF FiniteSubsetsOf
<1>4. PICK U \in F : \A V \in F : <<V, U>> \notin StrictSubsetOrdering(Copies)
  BY <1>3, FS_StrictSubsetOrderingWellFounded, WFMin
<1>5. PICK m \in S : U = Between(m)
  OBVIOUS
<1>6. ASSUME NEW j \in S, Precedes(j, m) PROVE FALSE
  <2>1. /\ Between(j) \in SUBSET Copies /\ Between(m) \in SUBSET Copies
        /\ Between(j) \subseteq Between(m)
    BY <1>1, <1>2, <1>6
  <2>2. j \in Between(m) /\ j \notin Between(j)
    BY <1>2, <1>6
  <2>3. Between(j) \in F
    OBVIOUS
  <2> HIDE DEF Between, F
  <2>4. <<Between(j), U>> \in StrictSubsetOrdering(Copies)
    BY <1>5, <2>1, <2>2 DEF StrictSubsetOrdering
  <2> QED
    BY <1>4, <2>3, <2>4
<1>7. Apart(k, m)
  BY <1>6 DEF DirectTargets
<1>8. l = m \/ Precedes(m, l)
  BY <1>2, <1>6
<1> QED
  BY <1>1, <1>7, <1>8 DEF Apart, Precedes

\* Every device frame has the one copy that places it.
LEMMA DirectPlaces ==
  ASSUME IsCall(call), DirectTargets,
         NEW f \in Frames, routed[f] \in DeviceRoutes
  PROVE  \E k \in DeviceCopies :
           /\ call.copies[k].frame = f /\ Whole(call.copies[k])
           /\ Destination(f) = call.copies[k].destination
<1> DEFINE S == {k \in Copies : call.copies[k].frame = f}
<1>1. IsFiniteSet(S) /\ Cardinality(S) = 1
  <2>1. IsFiniteSet(Copies) /\ S \in SUBSET Copies
    BY CopyCount, FS_Interval DEF Copies
  <2> QED
    BY <2>1, FS_Subset DEF DirectTargets, CoveredOnce
<1>2. PICK k : S = {k}
  BY <1>1, FS_Singleton
<1>3. k \in Copies /\ call.copies[k].frame = f
  BY <1>2
<1>4. (CHOOSE j \in Copies : call.copies[j].frame = f) = k
  BY <1>2, <1>3
<1>5. k \in DeviceCopies
  BY <1>3 DEF DeviceCopies
<1> QED
  BY <1>3, <1>4, <1>5 DEF DirectTargets, Destination

\* Whole samples before a byte.
LEMMA WholeSamples ==
  ASSUME NEW n \in Nat \ {0}, NEW a \in Nat, NEW b \in Nat, NEW c \in Nat,
         a + b <= c
  PROVE  /\ a \div n \in Nat /\ b \div n \in Nat /\ c \div n \in Nat
         /\ (a \div n) * n <= a
         /\ a \div n + b \div n <= c \div n
<1>1. PICK p \in Nat, q \in Nat, r \in Nat :
        p = a \div n /\ q = b \div n /\ r = c \div n
  OBVIOUS
<1>2. p * n <= a /\ q * n <= b /\ c < r * n + n
  BY <1>1
<1>3. p + q <= r
  <2> SUFFICES ASSUME p + q > r PROVE FALSE
    OBVIOUS
  <2>1. PICK d \in Nat : p + q = r + 1 + d
    OBVIOUS
  <2>2. p * n + q * n = r * n + n + d * n
    <3>1. p * n + q * n = (p + q) * n
      OBVIOUS
    <3>2. (r + 1 + d) * n = r * n + n + d * n
      OBVIOUS
    <3> QED
      BY <2>1, <3>1, <3>2
  <2>3. d * n \in Nat /\ p * n \in Nat /\ q * n \in Nat /\ r * n \in Nat
    OBVIOUS
  <2> QED
    BY <1>2, <2>2, <2>3
<1> QED
  BY <1>1, <1>2, <1>3

\* A direct frame is written within the budget, apart from the others.
DirectInv ==
  direct =>
    /\ phase \notin {"validate", "slots", "direct"}
    /\ \A f \in Frames : routed[f] \in DeviceRoutes =>
         /\ out[f] \in Nat
         /\ out[f] * Sample + Frame(f).decoded <= Budget
    /\ DirectApart

\* The choice of direct output.
LEMMA ChooseDirectInv ==
  ASSUME SlotInv, Checked, ChooseDirect PROVE DirectInv'
<1> SUFFICES ASSUME direct' PROVE DirectInv'
  BY DEF DirectInv
<1>1. /\ IsCall(call) /\ phase = "direct" /\ phase' = "collect"
      /\ UNCHANGED <<call, routed>> /\ DirectTargets
      /\ out' = [f \in Frames |->
                   IF routed[f] \in DeviceRoutes
                   THEN Destination(f) \div Sample ELSE 0]
  BY DEF ChooseDirect, layout, SlotInv, SlotType
<1>2. InputFacts /\ \A k \in Copies : call.copies[k].frame \in Frames
  BY <1>1 DEF Checked, CopyValid, CopyShaped
<1>3. Sample \in Nat \ {0} /\ Budget \in Int
  BY <1>2, LayoutAssumption DEF InputFacts, Budget
<1>4. \A f \in Frames : Frame(f).decoded \in Nat
  BY <1>1, FrameFacts DEF Frames
<1>5. ASSUME NEW f \in Frames, routed[f] \in DeviceRoutes
      PROVE  /\ out'[f] \in Nat
             /\ out'[f] * Sample + Frame(f).decoded <= Budget
  <2>1. PICK k \in DeviceCopies :
          /\ call.copies[k].frame = f /\ Whole(call.copies[k])
          /\ Destination(f) = call.copies[k].destination
    BY <1>1, <1>5, DirectPlaces
  <2>2. PICK d \in Nat : d = Destination(f)
    BY <1>1, <2>1, CopyFacts DEF DeviceCopies
  <2>3. d <= Budget - Frame(f).decoded
    BY <2>1, <2>2 DEF Whole
  <2>4. d \div Sample \in Nat /\ (d \div Sample) * Sample <= d
    BY <1>3, WholeSamples
  <2>5. out'[f] = d \div Sample
    BY <1>1, <1>5, <2>2
  <2> QED
    BY <1>3, <1>4, <2>3, <2>4, <2>5
<1>6. ASSUME NEW f \in Frames, NEW g \in Frames, f # g,
             {routed[f], routed[g]} \subseteq DeviceRoutes
      PROVE  \/ out'[f] + Frame(f).decoded \div Sample <= out'[g]
             \/ out'[g] + Frame(g).decoded \div Sample <= out'[f]
  <2>1. PICK k \in DeviceCopies : /\ call.copies[k].frame = f
                                  /\ Destination(f) = call.copies[k].destination
    BY <1>1, <1>6, DirectPlaces
  <2>2. PICK l \in DeviceCopies : /\ call.copies[l].frame = g
                                  /\ Destination(g) = call.copies[l].destination
    BY <1>1, <1>6, DirectPlaces
  <2>3. PICK d \in Nat, e \in Nat : d = Destination(f) /\ e = Destination(g)
    BY <1>1, <2>1, <2>2, CopyFacts DEF DeviceCopies
  <2>4. out'[f] = d \div Sample /\ out'[g] = e \div Sample
    BY <1>1, <1>6, <2>3
  <2>5. Precedes(k, l) \/ Precedes(l, k)
    <3>1. k # l /\ k \in Nat /\ l \in Nat
      BY <1>6, <2>1, <2>2, <1>1, CopyCount DEF DeviceCopies, Copies
    <3> QED
      BY <2>1, <2>2, <2>3, <3>1 DEF Precedes
  <2>6. Apart(k, l) \/ Apart(l, k)
    BY <1>1, <1>2, <2>5, NeighboursSuffice
  <2>7. d + Frame(f).decoded <= e \/ e + Frame(g).decoded <= d
    BY <2>1, <2>2, <2>3, <2>6, <1>4 DEF Apart
  <2>8. PICK m \in Nat, n \in Nat :
          m = Frame(f).decoded /\ n = Frame(g).decoded
    BY <1>4
  <2>9. d + m <= e \/ e + n <= d
    BY <2>7, <2>8
  <2>10. \/ d \div Sample + m \div Sample <= e \div Sample
         \/ e \div Sample + n \div Sample <= d \div Sample
    BY <1>3, <2>9, WholeSamples
  <2> QED
    BY <2>4, <2>8, <2>10
<1>7. /\ Frames' = Frames /\ Sample' = Sample
      /\ \A f : Frame(f)' = Frame(f)
  BY <1>1 DEF Frames, Sample, Frame
<1>8. DirectApart'
  <2> SUFFICES ASSUME NEW f \in Frames, NEW g \in Frames, f # g,
                      {routed[f], routed[g]} \subseteq DeviceRoutes
               PROVE (out'[f] .. out'[f] + Frame(f).decoded \div Sample - 1)
                       \cap (out'[g] ..
                               out'[g] + Frame(g).decoded \div Sample - 1)
                     = {}
    BY <1>1, <1>7 DEF DirectApart
  <2>1. PICK a \in Nat, b \in Nat, m \in Nat, n \in Nat :
          /\ a = out'[f] /\ b = out'[g]
          /\ m = Frame(f).decoded \div Sample
          /\ n = Frame(g).decoded \div Sample
    <3>1. out'[f] \in Nat /\ out'[g] \in Nat
      BY <1>5
    <3>2. ASSUME NEW h \in Frames PROVE Frame(h).decoded \div Sample \in Nat
      BY <1>3, <1>4
    <3> QED
      BY <3>1, <3>2
  <2>2. a + m <= b \/ b + n <= a
    BY <1>6, <2>1
  <2>3. (a .. a + m - 1) \cap (b .. b + n - 1) = {}
    BY <2>2
  <2> QED
    BY <2>1, <2>3
<1>9. \A f \in Frames' : routed'[f] \in DeviceRoutes =>
        /\ out'[f] \in Nat
        /\ out'[f] * Sample' + Frame(f)'.decoded <= Budget
  BY <1>1, <1>5, <1>7
<1> QED
  BY <1>1, <1>8, <1>9 DEF DirectInv



-----------------------------------------------------------------------------
(* The loops                                                               *)

\* What does not change after the arguments are known.
LEMMA CallKept ==
  ASSUME [Next]_vars
  PROVE  /\ call' = call /\ Frames' = Frames /\ Copies' = Copies
         /\ Sample' = Sample /\ InputFacts' = InputFacts
         /\ \A f : Frame(f)' = Frame(f)
         /\ \A f : PaddedOutput(f)' = PaddedOutput(f)
         /\ \A c : CopyValid(c)' = CopyValid(c)
<1>1. call' = call
  BY DEF Next, vars, Validate, LayFrame, ChooseDirect, CollectFrame,
         ShiftPivco, CountPieces, AddPlaceCopies, Queue, Fail, Ended
<1>2. /\ Frames' = Frames /\ Copies' = Copies /\ Sample' = Sample
      /\ \A f : Frame(f)' = Frame(f)
  BY <1>1 DEF Frames, Copies, Sample, Frame
<1>3. \A f : PaddedOutput(f)' = PaddedOutput(f)
  BY <1>2 DEF PaddedOutput
<1>4. InputFacts' = InputFacts
  BY <1>2 DEF InputFacts
<1>5. \A c : CopyValid(c)' = CopyValid(c)
  BY <1>1, <1>2 DEF CopyValid, CopyShaped, SpanEnd, TargetBytes
<1> QED
  BY <1>1, <1>2, <1>3, <1>4, <1>5

\* Direct output is chosen once.
LEMMA OthersKeepDirect ==
  ASSUME DirectInv, [Next]_vars, ~ChooseDirect PROVE DirectInv'
<1>1. direct' = direct
  BY DEF Next, vars, layout, decoded, copied, Validate, LayFrame,
     CollectFrame, ShiftPivco, CountPieces, AddPlaceCopies, Queue, Fail, Ended
<1>2. direct /\ DirectInv => UNCHANGED <<routed, out>>
  BY DEF DirectInv, Next, vars, layout, decoded, copied, Validate, LayFrame,
     CollectFrame, Keep, FallBack, OnHost, ShiftPivco, CountPieces,
     AddPlaceCopies, Queue, Fail, Ended
<1>3. direct /\ DirectInv => phase' \notin {"validate", "slots", "direct"}
  BY DEF DirectInv, Next, vars, Validate, LayFrame, CollectFrame, ShiftPivco,
     CountPieces, AddPlaceCopies, Queue, Fail, Ended, Step
<1>4. direct /\ DirectInv => DirectApart'
  BY <1>1, <1>2, CallKept DEF DirectInv, DirectApart
<1> QED
  BY <1>1, <1>2, <1>3, <1>4, CallKept DEF DirectInv

\* The checks come first.
LEMMA CheckedStep ==
  ASSUME Checked, [Next]_vars PROVE Checked'
<1>1. CASE Validate
  <2>1. InputValid => InputFacts
    BY DEF InputValid, InputFacts
  <2> QED
    BY <1>1, <2>1, CallKept DEF Validate, Checked
<1>2. CASE ~Validate
  <2>1. phase' \notin {"validate", "refused"} =>
          phase \notin {"validate", "refused"}
    BY <1>2 DEF Next, vars, LayFrame, ChooseDirect, CollectFrame, ShiftPivco,
           CountPieces, AddPlaceCopies, Queue, Fail, Ended, Step
  <2> QED
    BY <2>1, CallKept DEF Checked
<1> QED
  BY <1>1, <1>2

\* How far the loops are.
LoopInv ==
  /\ phase \in {"validate", "slots", "direct", "collect", "scratch", "count",
                "place", "queue", "refused", "empty", "failed", "limit", "done"}
  /\ phase \in {"validate", "direct", "scratch"} => i = 1
  /\ phase \in {"validate", "slots", "direct"} => base = <<>>
  /\ phase \in {"slots", "direct", "collect", "scratch"} => Copies # {}
  /\ phase = "collect" => i = Len(base) + 1 /\ i \in Frames
  /\ phase \in {"direct", "collect", "scratch", "count", "place", "queue",
                "done"} => Len(routed) = Len(call.frames)
  /\ phase \in {"scratch", "count", "place", "queue", "done"} =>
       Len(base) = Len(call.frames)
  /\ phase \in {"count", "place"} => i \in Copies
  /\ Len(base) <= Len(routed)


\* What is counted and collected.
CollectType ==
  /\ base \in Seq(Nat) /\ output \in [DeviceRoutes \cup {"fallback"} -> Nat]
  /\ lanes \in Nat /\ fell \subseteq Frames /\ direct \in BOOLEAN
  /\ out \in [Frames -> Nat] /\ deviceOutput \in 0 .. Budget

\* round_up makes sizes of sizes.
LEMMA RoundUpNat ==
  ASSUME NEW n \in Nat, NEW d \in Nat \ {0}
  PROVE  RoundUp(n, d) \in Nat
<1>1. PICK q \in Nat : q = (n + d - 1) \div d
  OBVIOUS
<1>2. q * d \in Nat
  OBVIOUS
<1> QED
  BY <1>1, <1>2, LayoutAssumption DEF RoundUp, Multiple

\* A frame of the budget.
LEMMA PaddedFacts ==
  ASSUME IsCall(call), InputFacts, NEW f \in Frames
  PROVE  /\ PaddedOutput(f) \in Nat /\ Frame(f).decoded \in Nat
         /\ PaddedOutput(f) <= Budget =>
              PaddedOutput(f) = Frame(f).decoded + LanePad * Sample
<1>1. Frame(f).decoded \in Nat
  BY FrameFacts DEF Frames
<1>2. Sample \in Nat /\ LanePad \in Nat /\ SizeMax \in Nat /\ Budget \in Int
      /\ Budget < SizeMax
  BY LayoutAssumption DEF InputFacts, Budget
<1>3. LanePad * Sample \in Nat
  BY <1>2
<1> QED
  BY <1>1, <1>2, <1>3 DEF PaddedOutput

\* The parts of a step that lay out a frame.
LEMMA LayFrameFacts ==
  ASSUME SlotInv, LayFrame
  PROVE  /\ phase = "slots" /\ i = Len(routed) + 1 /\ i \in Frames
         /\ i = Len(slot) + 1
         /\ UNCHANGED <<call, direct, out, base, output, fell, lanes, pieces,
                        placed, maxRows>>
         /\ RouteOf(i) \in DeviceRoutes \cup {"host"}
         /\ SlotBytes(i, RouteOf(i)) \in Nat
         /\ \/ /\ phase' = "failed"
               /\ UNCHANGED <<i, routed, slot, total, deviceOutput>>
            \/ /\ SlotBytes(i, RouteOf(i)) <= SizeMax - total[RouteOf(i)]
               /\ routed' = Append(routed, RouteOf(i))
               /\ slot' = Append(slot, total[RouteOf(i)])
               /\ total' = [total EXCEPT ![RouteOf(i)] =
                              @ + SlotBytes(i, RouteOf(i))]
               /\ deviceOutput' = IF RouteOf(i) = "host" THEN deviceOutput
                                  ELSE deviceOutput + PaddedOutput(i)
               /\ Step(Len(call.frames), "direct")
<1>1. /\ phase = "slots" /\ i \in Frames
      /\ i = Len(slot) + 1 /\ i = Len(routed) + 1
  BY DEF LayFrame, SlotInv, SlotProgress, SlotType, Frames
<1>2. /\ RouteOf(i) \in DeviceRoutes \cup {"host"}
      /\ SlotBytes(i, RouteOf(i)) \in Nat
  BY <1>1, SlotFacts DEF SlotInv, Frames
<1>3. total[RouteOf(i)] \in Nat /\ SizeMax \in Nat
  BY <1>2, LayoutAssumption DEF SlotInv, SlotType
<1> QED
  BY <1>1, <1>2, <1>3 DEF LayFrame, layout, decoded, copied

\* The loops go on in order.
LEMMA LoopStep ==
  ASSUME SlotInv, SlotInv', Checked, LoopInv, CollectType, [Next]_vars
  PROVE  LoopInv'
<1> USE DEF LoopInv
<1>1. /\ call' = call /\ Frames' = Frames /\ Copies' = Copies
      /\ Frames = 1 .. Len(call.frames) /\ Copies = 1 .. Len(call.copies)
      /\ Len(call.frames) \in Nat /\ Len(call.copies) \in Nat
  BY CallKept, CopyCount DEF Frames, Copies, SlotInv, SlotType
<1>2. base \in Seq(Nat) /\ Len(base) \in Nat /\ Len(routed) \in Nat
  BY DEF CollectType, SlotInv, SlotType
<1>3. CASE Validate
  BY <1>1, <1>2, <1>3 DEF Validate, layout, decoded, SlotInv, SlotProgress
<1>4. CASE LayFrame
  <2>1. phase = "slots" /\ i = Len(routed) + 1 /\ i \in Frames
        /\ base = <<>> /\ base' = base /\ Copies # {}
    BY <1>4, LayFrameFacts
  <2>2. Len(routed') \in Nat /\ Len(base') = 0
    BY <2>1 DEF SlotInv, SlotType
  <2>3. CASE phase' = "failed"
    BY <2>1, <2>2, <2>3
  <2>4. CASE phase' # "failed"
    <3>1. /\ routed' = Append(routed, RouteOf(i))
          /\ Step(Len(call.frames), "direct")
      BY <1>4, <2>4, LayFrameFacts
    <3>2. Len(routed') = Len(routed) + 1
      BY <3>1 DEF SlotInv, SlotType
    <3> QED
      BY <1>1, <2>1, <2>2, <3>1, <3>2 DEF Step
  <2> QED
    BY <2>3, <2>4
<1>5. CASE ChooseDirect
  <2>1. /\ phase = "direct" /\ phase' = "collect"
        /\ UNCHANGED <<i, routed, base>>
    BY <1>5 DEF ChooseDirect, layout, decoded
  <2>2. i = 1 /\ base = <<>> /\ Len(routed) = Len(call.frames) /\ Copies # {}
    BY <2>1
  <2>3. Frames # {}
    BY <2>1 DEF Checked, InputFacts
  <2>4. 1 \in Frames
    BY <1>1, <2>3
  <2> QED
    BY <1>1, <1>2, <2>1, <2>2, <2>4
<1>6. CASE CollectFrame
  <2>1. /\ phase = "collect" /\ UNCHANGED <<routed>>
        /\ Step(Len(call.frames), "scratch")
    BY <1>6 DEF CollectFrame, layout
  <2>2. Len(base') = Len(base) + 1
    BY <1>2, <1>6 DEF CollectFrame, Keep, FallBack, OnHost
  <2> QED
    BY <1>1, <1>2, <2>1, <2>2 DEF Step
<1>7. CASE ShiftPivco
  <2>1. /\ phase = "scratch" /\ phase' \in {"limit", "count"}
        /\ UNCHANGED <<i, routed>>
        /\ base' = [f \in Frames |-> base'[f]]
    BY <1>7 DEF ShiftPivco, layout
  <2>2. Len(base') = Len(call.frames)
    BY <1>1, <2>1
  <2> QED
    BY <1>1, <1>2, <2>1, <2>2
<1>8. CASE CountPieces
  BY <1>1, <1>2, <1>8 DEF CountPieces, layout, decoded, Step
<1>9. CASE AddPlaceCopies
  <2>1. /\ phase = "place" /\ UNCHANGED <<base, routed>>
        /\ \/ Step(Len(call.copies), "queue")
           \/ phase' = "limit" /\ i' = i
    BY <1>9 DEF AddPlaceCopies, layout, decoded
  <2> QED
    BY <1>1, <1>2, <2>1 DEF Step
<1>10. CASE Queue \/ Fail \/ Ended \/ UNCHANGED vars
  BY <1>1, <1>2, <1>10 DEF Queue, Fail, Ended, vars, layout, decoded
<1> QED
  BY <1>3, <1>4, <1>5, <1>6, <1>7, <1>8, <1>9, <1>10 DEF Next

\* The types of what is collected.
LEMMA CollectTypeStep ==
  ASSUME SlotInv, Checked, LoopInv, CollectType, DirectInv', [Next]_vars
  PROVE  CollectType'
<1>1. /\ call' = call /\ Frames' = Frames /\ Sample' = Sample
      /\ \A f : PaddedOutput(f)' = PaddedOutput(f)
      /\ \A f : Frame(f)' = Frame(f)
  BY CallKept
<1>2. IsCall(call) /\ Budget \in Nat
  BY LayoutAssumption DEF SlotInv, SlotType, Budget
<1>3. CASE LayFrame
  <2>1. deviceOutput' \in 0 .. Budget
    <3>1. CASE deviceOutput' = deviceOutput
      BY <3>1 DEF CollectType
    <3>2. CASE deviceOutput' # deviceOutput
      <4>1. /\ RouteOf(i) # "host" /\ i \in Frames
            /\ deviceOutput' = deviceOutput + PaddedOutput(i)
        BY <1>3, <3>2, LayFrameFacts
      <4>2. PaddedOutput(i) <= Budget - deviceOutput
        BY <4>1 DEF RouteOf, Fits
      <4>3. InputFacts
        BY <1>3, LayFrameFacts DEF Checked
      <4>4. PaddedOutput(i) \in Nat
        BY <1>2, <4>1, <4>3, PaddedFacts
      <4> QED
        BY <1>2, <4>1, <4>2, <4>4 DEF CollectType
    <3> QED
      BY <3>1, <3>2
  <2> QED
    BY <1>1, <1>3, <2>1, LayFrameFacts DEF CollectType
<1>4. CASE ChooseDirect
  <2>1. /\ direct' \in BOOLEAN
        /\ UNCHANGED <<base, output, lanes, fell, deviceOutput, routed>>
        /\ out' = [f \in Frames |->
                     IF direct' /\ routed[f] \in DeviceRoutes
                     THEN Destination(f) \div Sample ELSE 0]
    BY <1>4 DEF ChooseDirect, layout, decoded
  <2>2. ASSUME NEW f \in Frames PROVE out'[f] \in Nat
    <3>1. CASE direct' /\ routed[f] \in DeviceRoutes
      BY <1>1, <2>1, <3>1 DEF DirectInv
    <3>2. CASE ~(direct' /\ routed[f] \in DeviceRoutes)
      BY <2>1, <3>2
    <3> QED
      BY <3>1, <3>2
  <2>3. out' \in [Frames -> Nat]
    BY <2>1, <2>2
  <2> QED
    BY <1>1, <2>1, <2>3 DEF CollectType
<1>5. CASE CollectFrame
  <2>1. /\ phase = "collect" /\ UNCHANGED <<routed, slot, direct, deviceOutput>>
        /\ Keep \/ FallBack \/ OnHost
    BY <1>5 DEF CollectFrame, layout
  <2>2. i \in Frames /\ i \in 1 .. Len(slot) /\ InputFacts
    BY <2>1 DEF LoopInv, Checked, SlotInv, SlotProgress, Frames
  <2>3. /\ Frame(i).decoded \in Nat /\ LaneBytes(i) \in Nat
        /\ Sample \in Nat \ {0}
    <3>1. Sample \in Nat \ {0} /\ LanePad \in Nat \ {0}
      BY <2>2, LayoutAssumption DEF InputFacts
    <3>2. Frame(i).decoded \in Nat
      BY <1>2, <2>2, FrameFacts DEF Frames
    <3>3. PICK d \in Nat : d = Frame(i).decoded \div Sample
      BY <3>1, <3>2
    <3>4. PICK m \in Nat : m = (d + LanePad - 1) \div LanePad
      BY <3>1
    <3>5. LaneBytes(i) = Sample * (m * LanePad)
      BY <3>3, <3>4 DEF LaneBytes, Multiple
    <3>6. m * LanePad \in Nat
      BY <3>1
    <3> QED
      BY <3>1, <3>2, <3>5, <3>6
  <2>4. CASE Keep
    <3>1. PICK q \in DeviceRoutes : q = routed[i]
      BY <2>4 DEF Keep
    <3>2. output[q] \in Nat /\ output[q] \div Sample \in Nat
      <4>1. output[q] \in Nat
        BY <3>1 DEF CollectType
      <4>2. PICK n \in Nat, s \in Nat \ {0} : n = output[q] /\ s = Sample
        BY <2>3, <4>1
      <4>3. n \div s \in Nat
        BY <4>2
      <4> QED
        BY <4>2, <4>3
    <3>3. /\ base' = Append(base, output[q])
          /\ output' = [output EXCEPT ![q] = @ + Frame(i).decoded]
          /\ lanes' = IF q = "pivco" THEN lanes + LaneBytes(i) ELSE lanes
          /\ fell' = fell
          /\ out' = IF direct THEN out
                    ELSE [out EXCEPT ![i] = output[q] \div Sample]
      BY <2>4, <3>1 DEF Keep
    <3>4. base' \in Seq(Nat)
      BY <3>2, <3>3 DEF CollectType
    <3>5. output' \in [DeviceRoutes \cup {"fallback"} -> Nat]
      BY <2>3, <3>1, <3>2, <3>3 DEF CollectType
    <3>6. lanes' \in Nat
      BY <2>3, <3>3 DEF CollectType
    <3>7. out' \in [Frames -> Nat]
      BY <2>2, <3>2, <3>3 DEF CollectType
    <3> QED
      BY <1>1, <2>1, <3>3, <3>4, <3>5, <3>6, <3>7 DEF CollectType
  <2>5. CASE FallBack
    <3>1. output["fallback"] \in Nat
      BY DEF CollectType
    <3>2. base' \in Seq(Nat)
      BY <2>5, <3>1 DEF FallBack, CollectType
    <3>3. output' \in [DeviceRoutes \cup {"fallback"} -> Nat]
      BY <2>3, <2>5, <3>1 DEF FallBack, CollectType
    <3> QED
      BY <1>1, <2>1, <2>2, <2>5, <3>2, <3>3 DEF FallBack, CollectType
  <2>6. CASE OnHost
    <3>1. slot[i] \in Nat
      BY <2>2 DEF SlotInv, SlotType
    <3> QED
      BY <1>1, <2>1, <2>6, <3>1 DEF OnHost, CollectType
  <2> QED
    BY <2>1, <2>4, <2>5, <2>6
<1>6. CASE ShiftPivco
  <2>1. /\ phase = "scratch"
        /\ UNCHANGED <<output, lanes, fell, direct, out, deviceOutput>>
        /\ base' = [f \in Frames |->
                      IF Route(f) = "pivco" THEN base[f] + PivcoOffset
                      ELSE base[f]]
    BY <1>6 DEF ShiftPivco, layout
  <2>2. Frames = 1 .. Len(base) /\ Len(base) \in Nat
    BY <2>1 DEF LoopInv, CollectType, Frames
  <2>3. PivcoOffset \in Nat
    <3>1. output["pfor"] \in Nat
      BY DEF CollectType, DeviceRoutes
    <3> QED
      BY <3>1, LayoutAssumption, RoundUpNat DEF PivcoOffset
  <2>4. ASSUME NEW f \in Frames PROVE base'[f] \in Nat
    BY <2>1, <2>2, <2>3, <2>4 DEF CollectType
  <2>5. base' \in [1 .. Len(base) -> Nat]
    BY <2>1, <2>2, <2>4
  <2>6. base' \in Seq(Nat)
    BY <2>2, <2>5
  <2> QED
    BY <1>1, <2>1, <2>6 DEF CollectType
<1>7. CASE Validate \/ CountPieces \/ AddPlaceCopies \/ Queue \/ Fail \/ Ended
           \/ UNCHANGED vars
  BY <1>1, <1>7 DEF Validate, CountPieces, AddPlaceCopies, Queue, Fail, Ended,
     vars, layout, decoded, CollectType
<1> QED
  BY <1>3, <1>4, <1>5, <1>6, <1>7 DEF Next

-----------------------------------------------------------------------------
(* The output of the device                                                *)

\* One more value behind those of a function.
LEMMA Extended ==
  ASSUME NEW n \in Nat, NEW u \in [0 .. n -> Nat], NEW x \in Nat
  PROVE  \E e \in [0 .. n + 1 -> Nat] :
           (\A k \in 0 .. n : e[k] = u[k]) /\ e[n + 1] = x
<1> DEFINE e == [k \in 0 .. n + 1 |-> IF k = n + 1 THEN x ELSE u[k]]
<1>1. \A k \in 0 .. n + 1 : e[k] \in Nat
  OBVIOUS
<1>2. e \in [0 .. n + 1 -> Nat]
  BY <1>1
<1>3. (\A k \in 0 .. n : e[k] = u[k]) /\ e[n + 1] = x
  OBVIOUS
<1> QED
  BY <1>2, <1>3

\* A larger factor.
LEMMA Product ==
  ASSUME NEW s \in Nat, NEW a \in Nat, NEW b \in Nat, a <= b
  PROVE  s * a \in Nat /\ s * b \in Nat /\ s * a <= s * b
<1>1. PICK d \in Nat : b = a + d
  OBVIOUS
<1>2. s * b = s * a + s * d /\ s * d \in Nat /\ s * a \in Nat
  BY <1>1
<1> QED
  BY <1>2

\* The lanes of a frame hold its output, and the padding is what was counted.
LEMMA LaneFacts ==
  ASSUME IsCall(call), InputFacts, NEW f \in Frames
  PROVE  /\ LaneBytes(f) \in Nat /\ Frame(f).decoded <= LaneBytes(f)
         /\ LaneBytes(f) <= Frame(f).decoded + LanePad * Sample
<1>1. PICK s \in Nat \ {0}, l \in Nat \ {0}, n \in Nat :
        s = Sample /\ l = LanePad /\ n = Frame(f).decoded
  BY FrameFacts, LayoutAssumption DEF InputFacts, Frames
<1>2. PICK d \in Nat : d = n \div s /\ n = s * d
  <2>1. n % s = 0
    BY <1>1 DEF InputFacts
  <2> QED
    BY <2>1
<1>3. PICK q \in Nat : q = (d + l - 1) \div l
  OBVIOUS
<1>4. PICK x \in Nat : x = q * l
  OBVIOUS
<1>5. d <= x /\ x <= d + l
  BY <1>3, <1>4
<1>6. LaneBytes(f) = s * x
  BY <1>1, <1>2, <1>3, <1>4 DEF LaneBytes, Multiple
<1>7. s * d <= s * x /\ s * x <= s * (d + l) /\ s * x \in Nat
  BY <1>5, Product
<1>8. s * (d + l) = s * d + l * s
  OBVIOUS
<1> QED
  BY <1>1, <1>2, <1>6, <1>7, <1>8

\* What a frame was given of the budget.
Reserved(f) == IF routed[f] \in DeviceRoutes THEN PaddedOutput(f) ELSE 0

\* The sums of that up to a frame; what is collected stays within the sum of
\* the frames collected.
Budgets(u) ==
  /\ u \in [0 .. Len(routed) -> Nat] /\ u[0] = 0
  /\ \A f \in 1 .. Len(routed) : u[f] = u[f - 1] + Reserved(f)
  /\ \A f \in 0 .. Len(routed) : u[f] <= deviceOutput
  /\ output["pfor"] + lanes + output["fallback"] <= u[Len(base)]

\* The device gets no more than its budget.
OutputInv ==
  /\ \A r \in DeviceRoutes : total[r] <= Budget
  /\ output["pivco"] <= lanes
  /\ \E u \in [0 .. Len(routed) -> Nat] : Budgets(u)

\* Laying out a frame.
LEMMA LayFrameOutput ==
  ASSUME SlotInv, SlotInv', Checked, LoopInv, CollectType, OutputInv,
         [Next]_vars, LayFrame
  PROVE  OutputInv'
<1>1. /\ phase = "slots" /\ i = Len(routed) + 1 /\ i \in Frames
      /\ UNCHANGED <<base, output, lanes>> /\ base = <<>>
      /\ IsCall(call) /\ InputFacts /\ call' = call
  BY LayFrameFacts DEF LoopInv, SlotInv, SlotType, Checked
<1>2. PICK n \in Nat : n = Len(routed)
  BY DEF SlotInv, SlotType
<1>3. PICK r : r = RouteOf(i) /\ r \in DeviceRoutes \cup {"host"}
  BY LayFrameFacts
<1>4. CASE phase' = "failed"
  <2>1. UNCHANGED <<routed, total, deviceOutput>>
    BY <1>4, LayFrameFacts, <1>1, <1>2 DEF Step
  <2>2. \A f : Reserved(f)' = Reserved(f)
    BY <2>1, CallKept DEF Reserved
  <2> QED
    BY <1>1, <2>1, <2>2 DEF OutputInv, Budgets
<1>5. CASE phase' # "failed"
  <2>1. /\ routed' = Append(routed, r)
        /\ total' = [total EXCEPT ![r] = @ + SlotBytes(i, r)]
        /\ deviceOutput' = IF r = "host" THEN deviceOutput
                           ELSE deviceOutput + PaddedOutput(i)
    BY <1>3, <1>5, LayFrameFacts
  <2>2. /\ Len(routed') = n + 1 /\ routed'[n + 1] = r
        /\ \A f \in 1 .. n : routed'[f] = routed[f]
    BY <1>2, <1>3, <2>1 DEF SlotInv, SlotType
  <2>3. PICK x \in Nat : x = IF r = "host" THEN 0 ELSE PaddedOutput(i)
    BY <1>1, PaddedFacts
  <2>4. Reserved(n + 1)' = x /\ \A f \in 1 .. n : Reserved(f)' = Reserved(f)
    <3>1. \A f : PaddedOutput(f)' = PaddedOutput(f)
      BY CallKept
    <3>2. r \in DeviceRoutes <=> r # "host"
      BY <1>3 DEF DeviceRoutes
    <3> QED
      BY <1>1, <1>2, <2>2, <2>3, <3>1, <3>2 DEF Reserved
  <2>5. deviceOutput' = deviceOutput + x /\ deviceOutput \in Nat
    BY <2>1, <2>3 DEF CollectType
  <2>6. PICK u \in [0 .. n -> Nat] : Budgets(u)
    BY <1>2 DEF OutputInv
  <2>7. /\ u[0] = 0 /\ \A f \in 1 .. n : u[f] = u[f - 1] + Reserved(f)
        /\ \A f \in 0 .. n : u[f] <= deviceOutput /\ u[f] \in Nat
        /\ output["pfor"] + lanes + output["fallback"] <= u[Len(base)]
    BY <1>2, <2>6 DEF Budgets
  <2>8. PICK y \in Nat : y = u[n] + x
    BY <2>7
  <2>9. PICK e \in [0 .. n + 1 -> Nat] :
          (\A f \in 0 .. n : e[f] = u[f]) /\ e[n + 1] = y
    BY Extended
  <2>10. Budgets(e)'
    <3>1. e[0] = 0
      BY <2>7, <2>9
    <3>2. ASSUME NEW f \in 1 .. n + 1
          PROVE  e[f] = e[f - 1] + Reserved(f)'
      <4>1. CASE f = n + 1
        BY <2>4, <2>8, <2>9, <4>1
      <4>2. CASE f # n + 1
        <5>1. f \in 1 .. n /\ f \in 0 .. n /\ f - 1 \in 0 .. n
          BY <4>2
        <5> QED
          BY <2>4, <2>7, <2>9, <5>1
      <4> QED
        BY <4>1, <4>2
    <3>3. ASSUME NEW f \in 0 .. n + 1 PROVE e[f] <= deviceOutput'
      <4>1. CASE f = n + 1
        BY <2>5, <2>7, <2>8, <2>9, <4>1
      <4>2. CASE f # n + 1
        <5>1. f \in 0 .. n
          BY <4>2
        <5>2. e[f] = u[f] /\ u[f] <= deviceOutput /\ u[f] \in Nat
          BY <2>7, <2>9, <5>1
        <5> QED
          BY <2>5, <5>2
      <4> QED
        BY <4>1, <4>2
    <3>4. output["pfor"] + lanes + output["fallback"] <= e[Len(base)]
      <4>1. Len(base) = 0
        BY <1>1
      <4> QED
        BY <2>7, <2>9, <4>1
    <3> QED
      BY <1>1, <2>2, <2>9, <3>1, <3>2, <3>3, <3>4 DEF Budgets
  <2>11. \A q \in DeviceRoutes : total'[q] <= Budget
    <3>1. CASE r = "host"
      BY <2>1, <3>1 DEF OutputInv, DeviceRoutes, SlotInv, SlotType
    <3>2. CASE r # "host"
      <4>1. RoundUp(Frame(i).size, SlotAlign) <= Budget - total[r]
        BY <1>3, <3>2 DEF RouteOf, Fits
      <4>2. SlotBytes(i, r) = RoundUp(Frame(i).size, SlotAlign)
        BY <3>2 DEF SlotBytes
      <4>3. SlotBytes(i, r) \in Nat /\ total[r] \in Nat /\ Budget \in Int
        <5>1. SlotBytes(i, r) \in Nat
          BY <1>3, LayFrameFacts
        <5>2. total[r] \in Nat
          BY <1>3 DEF SlotInv, SlotType
        <5>3. Budget \in Int
          BY LayoutAssumption DEF Budget
        <5> QED
          BY <5>1, <5>2, <5>3
      <4>4. total[r] + SlotBytes(i, r) <= Budget
        BY <4>1, <4>2, <4>3
      <4>5. \A q \in DeviceRoutes : q # r => total'[q] = total[q]
        BY <2>1 DEF SlotInv, SlotType
      <4>6. total'[r] = total[r] + SlotBytes(i, r)
        BY <1>3, <2>1 DEF SlotInv, SlotType
      <4> QED
        BY <4>4, <4>5, <4>6 DEF OutputInv
    <3> QED
      BY <3>1, <3>2
  <2>12. output'["pivco"] <= lanes'
    BY <1>1 DEF OutputInv
  <2> QED
    BY <2>2, <2>9, <2>10, <2>11, <2>12 DEF OutputInv
<1> QED
  BY <1>4, <1>5

\* Collecting a frame, on whichever route.
LEMMA CollectOutput ==
  ASSUME SlotInv, Checked, LoopInv, CollectType, OutputInv, [Next]_vars,
         CollectFrame
  PROVE  OutputInv'
<1>1. /\ phase = "collect" /\ UNCHANGED <<call, routed, total, deviceOutput>>
      /\ Keep \/ FallBack \/ OnHost
  BY DEF CollectFrame, layout
<1>2. PICK n \in Nat : /\ n = Len(base) /\ i = n + 1 /\ i \in Frames
                       /\ i \in 1 .. Len(routed) /\ Len(routed) \in Nat
                       /\ n \in 0 .. Len(routed)
  BY <1>1 DEF LoopInv, Frames, CollectType, SlotInv, SlotType
<1>3. PICK u \in [0 .. Len(routed) -> Nat] : Budgets(u)
  BY DEF OutputInv
<1>4. /\ u[i] = u[n] + Reserved(i) /\ u[i] <= deviceOutput
      /\ output["pfor"] + lanes + output["fallback"] <= u[n]
      /\ u[n] \in Nat /\ u[i] \in Nat /\ deviceOutput <= Budget
      /\ deviceOutput \in Nat /\ Budget \in Int
  <2>1. i - 1 = n /\ i \in 0 .. Len(routed)
    BY <1>2
  <2>2. u[i] = u[n] + Reserved(i) /\ u[i] <= deviceOutput
    BY <1>2, <1>3, <2>1 DEF Budgets
  <2>3. output["pfor"] + lanes + output["fallback"] <= u[n]
    BY <1>2, <1>3 DEF Budgets
  <2>4. u[n] \in Nat /\ u[i] \in Nat
    BY <1>2, <2>1
  <2>5. Budget \in Int
    BY LayoutAssumption DEF Budget
  <2>6. deviceOutput \in Nat /\ deviceOutput <= Budget
    BY <2>5 DEF CollectType
  <2> QED
    BY <2>2, <2>3, <2>4, <2>5, <2>6
<1>5. PICK o \in Nat, v \in Nat, k \in Nat, l \in Nat :
        /\ o = output["pfor"] /\ v = output["pivco"]
        /\ k = output["fallback"] /\ l = lanes
  BY DEF CollectType, DeviceRoutes
<1>6. o + l + k <= u[n] /\ v <= l
  BY <1>4, <1>5 DEF OutputInv
<1>7. PICK d \in Nat : d = Frame(i).decoded
  BY <1>2, FrameFacts DEF Frames, SlotInv, SlotType
<1>8. routed[i] \in DeviceRoutes =>
        /\ d <= Reserved(i) /\ LaneBytes(i) <= Reserved(i)
        /\ d <= LaneBytes(i) /\ LaneBytes(i) \in Nat /\ Reserved(i) \in Nat
  <2>1. IsCall(call) /\ InputFacts
    BY <1>1 DEF Checked, SlotInv, SlotType
  <2>2. PaddedOutput(i) \in Nat
    BY <1>2, <2>1, PaddedFacts
  <2>3. routed[i] \in DeviceRoutes => Reserved(i) = PaddedOutput(i)
    BY DEF Reserved
  <2>4. routed[i] \in DeviceRoutes => PaddedOutput(i) <= Budget
    BY <1>4, <2>2, <2>3
  <2>5. routed[i] \in DeviceRoutes =>
          PaddedOutput(i) = d + LanePad * Sample
    BY <1>2, <1>7, <2>1, <2>4, PaddedFacts
  <2>6. /\ LaneBytes(i) \in Nat /\ d <= LaneBytes(i)
        /\ LaneBytes(i) <= d + LanePad * Sample
    BY <1>2, <1>7, <2>1, LaneFacts
  <2> QED
    BY <2>2, <2>3, <2>5, <2>6
<1>9. routed[i] \in DeviceRoutes =>
        /\ o + l + k + d <= u[i] /\ o + l + k + LaneBytes(i) <= u[i]
        /\ v + d <= l + LaneBytes(i) /\ LaneBytes(i) \in Nat
  <2> SUFFICES ASSUME routed[i] \in DeviceRoutes
               PROVE  /\ o + l + k + d <= u[i]
                      /\ o + l + k + LaneBytes(i) <= u[i]
                      /\ v + d <= l + LaneBytes(i) /\ LaneBytes(i) \in Nat
    OBVIOUS
  <2>1. PICK w \in Nat, y \in Nat, s \in Nat, t \in Nat :
          /\ w = Reserved(i) /\ y = LaneBytes(i) /\ s = u[n] /\ t = u[i]
    BY <1>4, <1>8
  <2>2. /\ d <= w /\ y <= w /\ d <= y /\ t = s + w /\ o + l + k <= s
        /\ v <= l
    BY <1>4, <1>6, <1>8, <2>1
  <2>3. o + l + k + d <= t /\ o + l + k + y <= t /\ v + d <= l + y
    BY <2>2
  <2> QED
    BY <2>1, <2>3
<1>10. /\ Len(base') = n + 1
      /\ output'["pfor"] + lanes' + output'["fallback"] <= u[i]
      /\ output'["pivco"] <= lanes'
  <2>1. CASE Keep
    <3>1. PICK q \in DeviceRoutes : q = routed[i]
      BY <2>1 DEF Keep
    <3>2. /\ base' = Append(base, output[q])
          /\ output' = [output EXCEPT ![q] = @ + d]
          /\ lanes' = IF q = "pivco" THEN lanes + LaneBytes(i) ELSE lanes
      BY <1>7, <2>1, <3>1 DEF Keep
    <3>3. Len(base') = n + 1
      BY <1>2, <3>2 DEF CollectType
    <3>4. q \in {"pfor", "pivco"}
      BY DEF DeviceRoutes
    <3>5. /\ output'[q] = output[q] + d
          /\ output'["fallback"] = output["fallback"]
          /\ \A p \in DeviceRoutes : p # q => output'[p] = output[p]
      BY <3>2, <3>4 DEF CollectType, DeviceRoutes
    <3>6. CASE q = "pfor"
      <4>1. output'["pivco"] = output["pivco"] /\ lanes' = lanes
        BY <3>2, <3>5, <3>6 DEF DeviceRoutes
      <4>2. /\ output'["pfor"] = o + d /\ lanes' = l
            /\ output'["pivco"] = v /\ output'["fallback"] = k
        BY <1>5, <3>5, <3>6, <4>1
      <4>3. o + d + l + k <= u[i]
        <5>1. PICK t \in Nat : t = u[i]
          BY <1>4
        <5>2. o + l + k + d <= t
          BY <1>9, <3>1, <5>1
        <5> QED
          BY <5>1, <5>2
      <4> QED
        BY <1>6, <3>3, <4>1, <4>2, <4>3
    <3>7. CASE q = "pivco"
      <4>1. output'["pfor"] = output["pfor"] /\ lanes' = lanes + LaneBytes(i)
        BY <3>2, <3>5, <3>7 DEF DeviceRoutes
      <4>2. PICK t \in Nat, y \in Nat : t = u[i] /\ y = LaneBytes(i)
        BY <1>4, <1>9, <3>1
      <4>3. /\ output'["pfor"] = o /\ lanes' = l + y
            /\ output'["pivco"] = v + d /\ output'["fallback"] = k
        BY <1>5, <3>5, <3>7, <4>1, <4>2
      <4>4. o + (l + y) + k <= u[i] /\ v + d <= l + y
        <5>1. o + l + k + y <= t /\ v + d <= l + y
          BY <1>9, <3>1, <4>2
        <5> QED
          BY <4>2, <5>1
      <4> QED
        BY <3>3, <4>3, <4>4
    <3> QED
      BY <3>4, <3>6, <3>7
  <2>2. CASE FallBack
    <3>1. /\ output'["fallback"] = output["fallback"] + d
          /\ output'["pfor"] = output["pfor"]
          /\ output'["pivco"] = output["pivco"] /\ lanes' = lanes
      BY <1>7, <2>2 DEF FallBack, CollectType, DeviceRoutes
    <3>2. Len(base') = n + 1
      BY <1>2, <1>5, <2>2 DEF FallBack, CollectType
    <3>3. /\ output'["pfor"] = o /\ lanes' = l
          /\ output'["pivco"] = v /\ output'["fallback"] = k + d
      BY <1>5, <3>1
    <3>4. o + l + (k + d) <= u[i]
      <4>1. PICK t \in Nat : t = u[i]
        BY <1>4
      <4>2. routed[i] \in DeviceRoutes
        BY <2>2 DEF FallBack
      <4>3. o + l + k + d <= t
        BY <1>9, <4>1, <4>2
      <4> QED
        BY <4>1, <4>3
    <3> QED
      BY <1>6, <3>2, <3>3, <3>4
  <2>3. CASE OnHost
    <3>1. Len(base') = n + 1 /\ UNCHANGED <<output, lanes>>
      BY <1>2, <2>3 DEF OnHost, CollectType
    <3>2. Reserved(i) = 0
      BY <2>3 DEF OnHost, Reserved, DeviceRoutes
    <3> QED
      BY <1>4, <1>5, <1>6, <3>1, <3>2
  <2> QED
    BY <1>1, <2>1, <2>2, <2>3
<1>11. \A f : Reserved(f)' = Reserved(f)
  BY <1>1, CallKept DEF Reserved
<1>12. Budgets(u)'
  BY <1>1, <1>2, <1>3, <1>10, <1>11 DEF Budgets
<1> QED
  BY <1>1, <1>10, <1>12 DEF OutputInv

\* No step passes the budget.
LEMMA OutputStep ==
  ASSUME SlotInv, SlotInv', Checked, LoopInv, LoopInv', CollectType, OutputInv,
         [Next]_vars
  PROVE  OutputInv'
<1>1. CASE LayFrame
  BY <1>1, LayFrameOutput
<1>2. CASE CollectFrame
  BY <1>2, CollectOutput
<1>3. CASE ~LayFrame /\ ~CollectFrame
  <2>1. UNCHANGED <<routed, total, deviceOutput, output, lanes>>
    BY <1>3 DEF Next, vars, layout, decoded, Validate, ChooseDirect,
       ShiftPivco, CountPieces, AddPlaceCopies, Queue, Fail, Ended
  <2>2. Len(base') = Len(base)
    <3>1. CASE ShiftPivco
      <4>1. Len(base) = Len(call.frames) /\ Len(call.frames) \in Nat
        BY <3>1, CopyCount DEF ShiftPivco, LoopInv, SlotInv, SlotType
      <4>2. base' = [f \in Frames |-> base'[f]]
        BY <3>1 DEF ShiftPivco
      <4> QED
        BY <4>1, <4>2 DEF Frames
    <3>2. CASE ~ShiftPivco
      BY <1>3, <3>2 DEF Next, vars, layout, decoded, Validate, ChooseDirect,
         CountPieces, AddPlaceCopies, Queue, Fail, Ended
    <3> QED
      BY <3>1, <3>2
  <2>3. \A f : Reserved(f)' = Reserved(f)
    BY <2>1, CallKept DEF Reserved
  <2> QED
    BY <2>1, <2>2, <2>3 DEF OutputInv, Budgets
<1> QED
  BY <1>1, <1>2, <1>3


\* Without direct output the frames of a route are written behind each other.
OutInv ==
  /\ ~direct => \A f \in 1 .. Len(base) :
       f \notin fell /\ routed[f] \in DeviceRoutes =>
         out[f] * Sample + Frame(f).decoded <= output[routed[f]]
  /\ phase \in {"collect", "scratch"} => \A f \in 1 .. Len(base) :
       Route(f) = "pivco" => base[f] <= lanes

\* A frame is written behind what was collected of its route.
LEMMA OutStep ==
  ASSUME SlotInv, SlotInv', Checked, LoopInv, LoopInv', CollectType,
         CollectType', OutputInv', OutInv, [Next]_vars
  PROVE  OutInv'
<1>1. /\ Frames = 1 .. Len(call.frames) /\ Frames' = Frames /\ Sample' = Sample
      /\ \A f : Frame(f)' = Frame(f)
      /\ \A f \in Frames : Frame(f).decoded \in Nat
  BY CallKept, FrameFacts DEF Frames, SlotInv, SlotType
<1>2. Len(base) \in Nat /\ Len(routed) \in Nat /\ Len(base) <= Len(routed)
      /\ Len(routed) <= Len(call.frames) /\ Len(call.frames) \in Nat
  BY CopyCount DEF CollectType, SlotInv, SlotType, SlotProgress, LoopInv
<1>3. CASE LayFrame \/ ChooseDirect
  <2>1. base = <<>> /\ base' = base
    BY <1>3 DEF LayFrame, ChooseDirect, LoopInv, decoded
  <2>2. Len(base') = 0
    BY <2>1
  <2> QED
    BY <2>2 DEF OutInv
<1>4. CASE CollectFrame
  <2>1. /\ phase = "collect" /\ UNCHANGED <<routed, slot, direct>>
        /\ Keep \/ FallBack \/ OnHost
    BY <1>4 DEF CollectFrame, layout
  <2>2. PICK n \in Nat : n = Len(base) /\ i = n + 1 /\ i \in Frames
    BY <1>2, <2>1 DEF LoopInv
  <2>3. /\ Len(base') = n + 1 /\ \A f \in 1 .. n : base'[f] = base[f]
        /\ routed[i] = "pivco" /\ i \notin fell' =>
             base'[n + 1] = output["pivco"]
    <3>1. CASE Keep
      <4>1. PICK q \in DeviceRoutes : q = routed[i]
        BY <3>1 DEF Keep
      <4>2. output[q] \in Nat /\ base' = Append(base, output[q])
        BY <3>1, <4>1 DEF CollectType, Keep
      <4> QED
        BY <2>2, <4>1, <4>2 DEF CollectType
    <3>2. CASE FallBack
      <4>1. output["fallback"] \in Nat
        BY DEF CollectType
      <4> QED
        BY <2>2, <3>2, <4>1 DEF CollectType, FallBack
    <3>3. CASE OnHost
      <4>1. slot[i] \in Nat
        <5>1. i \in 1 .. Len(slot) /\ slot \in Seq(Nat)
          BY <1>1, <2>1, <2>2 DEF SlotInv, SlotType, SlotProgress, LoopInv
        <5> QED
          BY <5>1
      <4> QED
        BY <2>2, <3>3, <4>1 DEF CollectType, OnHost
    <3> QED
      BY <2>1, <3>1, <3>2, <3>3
  <2>4. /\ fell \subseteq fell' /\ fell' \subseteq fell \cup {i}
        /\ lanes <= lanes'
        /\ \A r \in DeviceRoutes : output[r] <= output'[r]
        /\ \A r \in DeviceRoutes : output'[r] \in Nat
        /\ lanes \in Nat /\ lanes' \in Nat
    <3>1. Frame(i).decoded \in Nat /\ LaneBytes(i) \in Nat
      BY <1>1, <2>1, <2>2, LaneFacts DEF Checked, SlotInv, SlotType
    <3>2. \A r \in DeviceRoutes : output[r] \in Nat /\ output'[r] \in Nat
      BY DEF CollectType
    <3>3. \A r \in DeviceRoutes : output[r] <= output'[r]
      <4>1. PICK p \in DeviceRoutes \cup {"fallback"} :
              output' = [output EXCEPT ![p] = @ + Frame(i).decoded]
                \/ output' = output
        BY <2>1 DEF Keep, FallBack, OnHost
      <4>2. ASSUME NEW r \in DeviceRoutes PROVE output[r] <= output'[r]
        <5>1. \/ output'[r] = output[r]
              \/ output'[r] = output[r] + Frame(i).decoded
          BY <4>1 DEF CollectType
        <5> QED
          BY <3>1, <3>2, <5>1
      <4> QED
        BY <4>2
    <3>4. lanes \in Nat /\ (lanes' = lanes \/ lanes' = lanes + LaneBytes(i))
      BY <2>1 DEF Keep, FallBack, OnHost, CollectType
    <3>5. fell \subseteq fell' /\ fell' \subseteq fell \cup {i}
      BY <2>1 DEF Keep, FallBack, OnHost
    <3> QED
      BY <3>1, <3>2, <3>3, <3>4, <3>5
  <2>5. ASSUME ~direct, NEW f \in 1 .. n + 1, f \notin fell',
               routed[f] \in DeviceRoutes
        PROVE  out'[f] * Sample + Frame(f).decoded <= output'[routed[f]]
    <3>1. f \in Frames /\ Sample \in Nat \ {0} /\ Frame(f).decoded \in Nat
      BY <1>1, <1>2, <2>1, <2>2 DEF Checked, InputFacts
    <3>2. CASE f = n + 1
      <4>1. Keep
        BY <2>1, <2>2, <2>5, <3>2 DEF FallBack, OnHost, DeviceRoutes
      <4>2. PICK q \in DeviceRoutes : q = routed[i]
        BY <4>1 DEF Keep
      <4>3. PICK a \in Nat : a = output[q]
        BY <4>2 DEF CollectType
      <4>4. out'[i] = a \div Sample
        BY <2>2, <2>5, <4>1, <4>2, <4>3 DEF Keep, CollectType
      <4>5. output'[q] = a + Frame(i).decoded
        BY <4>1, <4>2, <4>3 DEF Keep, CollectType
      <4>6. a \div Sample \in Nat /\ (a \div Sample) * Sample <= a
        BY <3>1, WholeSamples
      <4> QED
        BY <2>2, <3>1, <3>2, <4>2, <4>4, <4>5, <4>6
    <3>3. CASE f # n + 1
      <4>1. f \in 1 .. n /\ f \notin fell /\ f # i
        BY <2>2, <2>4, <2>5, <3>3
      <4>2. out[f] * Sample + Frame(f).decoded <= output[routed[f]]
        BY <2>2, <2>5, <4>1 DEF OutInv
      <4>3. out'[f] = out[f]
        BY <2>1, <3>1, <4>1 DEF Keep, FallBack, OnHost, CollectType
      <4>4. PICK a \in Nat, b \in Nat :
              a = output[routed[f]] /\ b = output'[routed[f]]
        BY <2>5 DEF CollectType
      <4>5. a <= b
        BY <2>4, <2>5, <4>4
      <4>6. PICK c \in Nat : c = out[f] * Sample
        BY <3>1 DEF CollectType
      <4> QED
        BY <3>1, <4>2, <4>3, <4>4, <4>5, <4>6
    <3> QED
      BY <3>2, <3>3
  <2>6. ASSUME NEW f \in 1 .. n + 1, Route(f)' = "pivco"
        PROVE  base'[f] <= lanes'
    <3>1. f \notin fell' /\ routed[f] = "pivco"
      BY <2>1, <2>6 DEF Route
    <3>2. CASE f = n + 1
      <4>1. base'[f] = output["pivco"]
        BY <2>2, <2>3, <3>1, <3>2
      <4>2. PICK a \in Nat, b \in Nat :
              a = output["pivco"] /\ b = output'["pivco"]
        BY DEF CollectType, DeviceRoutes
      <4>3. a <= b /\ b <= lanes'
        BY <2>4, <4>2 DEF DeviceRoutes, OutputInv
      <4> QED
        BY <2>4, <4>1, <4>2, <4>3
    <3>3. CASE f # n + 1
      <4>1. f \in 1 .. n /\ f \notin fell
        BY <2>4, <3>1, <3>3
      <4>2. base[f] <= lanes
        BY <2>1, <2>2, <3>1, <4>1 DEF OutInv, Route
      <4>3. base'[f] = base[f] /\ base[f] \in Nat
        BY <2>2, <2>3, <4>1 DEF CollectType
      <4> QED
        BY <2>4, <4>2, <4>3
    <3> QED
      BY <3>2, <3>3
  <2> QED
    BY <1>1, <2>1, <2>3, <2>5, <2>6 DEF OutInv
<1>5. CASE ~LayFrame /\ ~ChooseDirect /\ ~CollectFrame
  <2>1. UNCHANGED <<direct, fell, routed, out, output, lanes>>
    BY <1>5 DEF Next, vars, layout, decoded, Validate, ShiftPivco, CountPieces,
       AddPlaceCopies, Queue, Fail, Ended
  <2>2. phase' \in {"collect", "scratch"} => phase' = phase /\ base' = base
    BY <1>5 DEF Next, vars, decoded, Validate, ShiftPivco, CountPieces,
       AddPlaceCopies, Queue, Fail, Ended, Step
  <2>3. Len(base') = Len(base)
    <3>1. CASE ShiftPivco
      <4>1. phase = "scratch" /\ phase' \in {"limit", "count"}
            /\ base' = [f \in Frames |-> base'[f]]
        BY <3>1 DEF ShiftPivco
      <4>2. Len(base) = Len(call.frames)
        BY <4>1 DEF LoopInv
      <4> QED
        BY <1>1, <1>2, <4>1, <4>2
    <3>2. CASE ~ShiftPivco
      BY <1>5, <3>2 DEF Next, vars, decoded, Validate, CountPieces,
         AddPlaceCopies, Queue, Fail, Ended
    <3> QED
      BY <3>1, <3>2
  <2>4. \A f : Route(f)' = Route(f)
    BY <2>1 DEF Route
  <2> QED
    BY <1>1, <2>1, <2>2, <2>3, <2>4 DEF OutInv
<1> QED
  BY <1>3, <1>4, <1>5

-----------------------------------------------------------------------------
(* Place copies                                                            *)

\* The numbers of a piece.
Pieces ==
  [source : Nat, sourceRow : Nat, sourceStep : Nat, destination : Nat,
   destinationRow : Nat, destinationStep : Nat, width : 0 .. PlaceMaxWidth,
   rows : Nat]

\* Sequences joined, and made of a function.
LEMMA Joined ==
  ASSUME NEW S, NEW s \in Seq(S), NEW n \in Nat, NEW e \in [1 .. n -> S]
  PROVE  s \o e \in Seq(S) /\ Len(s \o e) = Len(s) + n
<1>1. e \in Seq(S) /\ Len(e) = n
  OBVIOUS
<1> QED
  BY <1>1

\* The pieces of a copy are those its rows are cut into.
LEMMA CountedPieces ==
  ASSUME NEW p \in Nat \ {0}, NEW n \in Nat \ {0}
  PROVE  /\ (n + p - 1) \div p = (n - 1) \div p + 1
         /\ (n - 1) \div p \in Nat
         /\ \A k \in 1 .. (n - 1) \div p + 1 :
              (k - 1) * p \in Nat /\ (k - 1) * p < n
<1>1. PICK m \in Nat : n = m + 1
  OBVIOUS
<1>2. PICK q \in Nat, r \in Nat : q = m \div p /\ m = p * q + r /\ r < p
  OBVIOUS
<1>3. m + p = p * (q + 1) + r
  BY <1>2
<1>4. (m + p) \div p = q + 1
  BY <1>2, <1>3
<1>5. ASSUME NEW k \in 1 .. q + 1
      PROVE  (k - 1) * p \in Nat /\ (k - 1) * p <= m
  <2>1. PICK j \in Nat : j = k - 1 /\ j <= q
    OBVIOUS
  <2>2. p * j <= p * q /\ p * j \in Nat /\ p * q \in Nat
    BY <2>1, Product
  <2>3. p * j = (k - 1) * p
    BY <2>1
  <2> QED
    BY <1>2, <2>2, <2>3
<1> QED
  BY <1>1, <1>2, <1>4, <1>5

\* What the place kernel is given are words.
LEMMA PieceType ==
  ASSUME IsCall(call), InputFacts, CollectType, NEW k \in Copies,
         CopyValid(call.copies[k]), NEW row \in Nat, row < call.copies[k].rows,
         call.copies[k].frame \in 1 .. Len(base)
  PROVE  Piece(call.copies[k], row) \in Pieces
<1> DEFINE c == call.copies[k]
<1>1. /\ c.frame \in Nat /\ c.width \in Nat /\ c.rows \in Nat
      /\ c.source \in Nat /\ c.sourceRow \in Nat /\ c.sourceStep \in Nat
      /\ c.destination \in Nat /\ c.destinationRow \in Nat
      /\ c.destinationStep \in Nat
  BY CopyFacts
<1>2. base[c.frame] \in Nat
  BY DEF CollectType
<1>3. c.width <= PlaceMaxWidth
  BY DEF CopyValid, CopyShaped
<1>4. /\ Sample \in Nat \ {0} /\ SizeMax + 1 \in Nat \ {0}
      /\ Word + 1 \in Nat \ {0} /\ PlaceMaxRows \in Nat
  <2>1. SizeMax \in Nat /\ Word \in Nat /\ GridY \in Nat /\ GroupRows \in Nat
    BY LayoutAssumption
  <2>2. GridY * GroupRows \in Nat
    BY <2>1
  <2> QED
    BY <2>1, <2>2 DEF InputFacts, PlaceMaxRows
<1> DEFINE Words(n) == (n \div Sample) % (Word + 1)
<1>5. ASSUME NEW n \in Nat PROVE Words(n) \in Nat
  <2>1. PICK s \in Nat \ {0}, w \in Nat \ {0} : s = Sample /\ w = Word + 1
    BY <1>4
  <2>2. PICK q \in Nat : q = n \div s
    OBVIOUS
  <2>3. q % w \in Nat
    OBVIOUS
  <2> QED
    BY <2>1, <2>2, <2>3
<1>6. From(c, row) \in Nat /\ To(c, row) \in Nat
  <2>1. PICK x \in Nat, y \in Nat, z \in Nat, p \in Nat, q \in Nat :
          /\ x = c.sourceRow /\ y = c.destinationRow /\ z = base[c.frame]
          /\ p = c.source /\ q = c.destination
    BY <1>1, <1>2
  <2>2. PICK a \in Nat, b \in Nat : a = z + p + row * x /\ b = q + row * y
    <3>1. row * x \in Nat /\ row * y \in Nat
      OBVIOUS
    <3> QED
      BY <3>1
  <2>3. a % (SizeMax + 1) \in Nat /\ b % (SizeMax + 1) \in Nat
    BY <1>4
  <2> QED
    BY <2>1, <2>2, <2>3 DEF From, To
<1>7. PieceRows(c, row) \in Nat
  <2>1. PICK n \in Nat, p \in Nat : n = c.rows /\ p = PlaceMaxRows /\ row < n
    BY <1>1, <1>4
  <2>2. PieceRows(c, row) = IF n - row < p THEN n - row ELSE p
    BY <2>1 DEF PieceRows
  <2> QED
    BY <2>1, <2>2
<1> HIDE DEF c
<1>8. /\ Words(From(c, row)) \in Nat /\ Words(To(c, row)) \in Nat
      /\ Words(c.sourceRow) \in Nat /\ Words(c.sourceStep) \in Nat
      /\ Words(c.destinationRow) \in Nat /\ Words(c.destinationStep) \in Nat
  BY <1>1, <1>5, <1>6
<1>9. Piece(c, row) =
        [source |-> Words(From(c, row)),
         sourceRow |-> IF PieceRows(c, row) > 1 THEN Words(c.sourceRow) ELSE 0,
         sourceStep |-> IF c.width > 1 THEN Words(c.sourceStep) ELSE 0,
         destination |-> Words(To(c, row)),
         destinationRow |->
           IF PieceRows(c, row) > 1 THEN Words(c.destinationRow) ELSE 0,
         destinationStep |->
           IF c.width > 1 THEN Words(c.destinationStep) ELSE 0,
         width |-> c.width, rows |-> PieceRows(c, row)]
  BY DEF Piece
<1> HIDE DEF Words
<1>10. Piece(c, row) \in Pieces
  BY <1>1, <1>3, <1>7, <1>8, <1>9 DEF Pieces
<1> QED
  BY <1>10 DEF c

\* The pieces a copy needs room for at a source.
Share(k, s) ==
  LET c == call.copies[k] IN
  IF Skipped(c) \/ SourceOf(c) # s THEN 0 ELSE PieceCount(c)

\* The sums of that over the copies up to the n-th, within what was counted.
Counts(v, n, s) ==
  /\ v[0] = 0 /\ \A k \in 1 .. n : v[k] = v[k - 1] + Share(k, s)
  /\ \A k \in 0 .. n : v[k] <= pieces[s]

\* Place copies are counted, then filled in: never more than were counted.
PieceInv ==
  /\ pieces \in [Sources -> Nat]
  /\ maxRows \in [Sources -> 0 .. PlaceMaxRows]
  /\ placed \in [Sources -> Seq(Pieces)]
  /\ \A s \in Sources : Len(placed[s]) <= pieces[s]
  /\ phase \in {"validate", "slots", "direct", "collect", "scratch", "count"} =>
       \A s \in Sources : placed[s] = <<>>
  /\ phase = "count" =>
       \A s \in Sources : \E v \in [0 .. i - 1 -> Nat] : Counts(v, i - 1, s)
  /\ phase = "place" =>
       \A s \in Sources : \E v \in [0 .. Len(call.copies) -> Nat] :
         Counts(v, Len(call.copies), s) /\ Len(placed[s]) <= v[i - 1]


\* A copy has one source, and is cut into at least one piece.
LEMMA SourceFacts ==
  ASSUME SlotInv, Checked, LoopInv, phase \in {"count", "place"},
         NEW k \in Copies
  PROVE  LET c == call.copies[k] IN
         /\ CopyValid(c) /\ c.frame \in Frames
         /\ SourceOf(c) \in Sources
         /\ PieceCount(c) \in Nat
         /\ PieceCount(c) = (c.rows - 1) \div PlaceMaxRows + 1
         /\ c.rows \in Nat \ {0} /\ PlaceMaxRows \in Nat \ {0}
         /\ (c.rows - 1) \div PlaceMaxRows \in Nat
<1> DEFINE c == call.copies[k]
<1>1. CopyValid(c) /\ c.frame \in Frames /\ c.rows # 0
  BY DEF Checked, CopyValid, CopyShaped
<1>2. c.rows \in Nat \ {0}
  BY <1>1, CopyFacts DEF SlotInv, SlotType
<1>3. PlaceMaxRows \in Nat \ {0}
  BY LayoutAssumption DEF PlaceMaxRows
<1>4. SourceOf(c) \in Sources
  <2>1. routed[c.frame] \in DeviceRoutes \cup {"host"}
    BY <1>1 DEF LoopInv, Frames, SlotInv, SlotType
  <2> QED
    BY <2>1 DEF SourceOf, Route, Sources, DeviceRoutes
<1>5. /\ PieceCount(c) = (c.rows - 1) \div PlaceMaxRows + 1
      /\ (c.rows - 1) \div PlaceMaxRows \in Nat
  <2>1. PICK n \in Nat \ {0}, p \in Nat \ {0} : n = c.rows /\ p = PlaceMaxRows
    BY <1>2, <1>3
  <2> QED
    BY <2>1, CountedPieces DEF PieceCount
<1> QED
  BY <1>1, <1>2, <1>3, <1>4, <1>5

\* Counting the pieces of a copy.
LEMMA CountInv ==
  ASSUME SlotInv, Checked, LoopInv, PieceInv, [Next]_vars, CountPieces
  PROVE  PieceInv'
<1> DEFINE c == call.copies[i]
           n == Len(call.copies)
<1>1. /\ phase = "count" /\ i \in Copies /\ Step(n, "place")
      /\ UNCHANGED <<call, direct, fell, routed, placed, maxRows>>
      /\ pieces' = IF Skipped(c) THEN pieces
                   ELSE [pieces EXCEPT ![SourceOf(c)] = @ + PieceCount(c)]
  BY DEF CountPieces, layout, decoded, copied, LoopInv
<1>2. SourceOf(c) \in Sources /\ PieceCount(c) \in Nat
  BY <1>1, SourceFacts
<1>3. \A s \in Sources : Share(i, s) \in Nat
  BY <1>2 DEF Share
<1>4. pieces' \in [Sources -> Nat] /\
        \A s \in Sources : pieces'[s] = pieces[s] + Share(i, s)
  <2>1. \A s \in Sources : pieces[s] \in Nat
    BY DEF PieceInv
  <2>2. CASE Skipped(c)
    BY <1>1, <2>1, <2>2 DEF Share, PieceInv
  <2>3. CASE ~Skipped(c)
    <3>1. pieces' = [pieces EXCEPT ![SourceOf(c)] = @ + PieceCount(c)]
      BY <1>1, <2>3
    <3>2. \A s \in Sources :
            Share(i, s) = IF SourceOf(c) = s THEN PieceCount(c) ELSE 0
      BY <2>3 DEF Share
    <3> HIDE DEF c
    <3> QED
      BY <1>2, <2>1, <3>1, <3>2 DEF PieceInv
  <2> QED
    BY <2>2, <2>3
<1>5. i \in 1 .. n /\ n \in Nat
  BY <1>1, CopyCount DEF Copies, SlotInv, SlotType
<1>6. \A k, s : Share(k, s)' = Share(k, s)
  BY <1>1 DEF Share, Skipped, SourceOf, Route, PieceCount
<1> HIDE DEF c, n
<1>7. PICK j \in Nat : j = i - 1 /\ j + 1 = i /\ j + 1 \in 1 .. n
  BY <1>5
<1>8. ASSUME NEW s \in Sources
      PROVE  \E e \in [0 .. j + 1 -> Nat] : Counts(e, j + 1, s)'
  <2>2. PICK v \in [0 .. j -> Nat] : Counts(v, j, s)
    BY <1>1, <1>7 DEF PieceInv
  <2>3. PICK x \in Nat : x = Share(i, s)
    BY <1>3
  <2>4. PICK y \in Nat : y = v[j] + x
    OBVIOUS
  <2>5. PICK e \in [0 .. j + 1 -> Nat] :
          (\A k \in 0 .. j : e[k] = v[k]) /\ e[j + 1] = y
    BY Extended
  <2>6. /\ v[0] = 0 /\ \A k \in 1 .. j : v[k] = v[k - 1] + Share(k, s)
        /\ \A k \in 0 .. j : v[k] <= pieces[s] /\ v[k] \in Nat
    BY <2>2 DEF Counts
  <2>7. pieces[s] \in Nat /\ pieces'[s] = pieces[s] + x
    BY <1>4, <2>3 DEF PieceInv
  <2>8. ASSUME NEW k \in 1 .. j + 1 PROVE e[k] = e[k - 1] + Share(k, s)
    <3>1. CASE k = j + 1
      BY <1>7, <2>3, <2>4, <2>5, <3>1
    <3>2. CASE k # j + 1
      <4>1. k \in 1 .. j /\ k \in 0 .. j /\ k - 1 \in 0 .. j
        BY <3>2
      <4> QED
        BY <2>5, <2>6, <4>1
    <3> QED
      BY <3>1, <3>2
  <2>9. ASSUME NEW k \in 0 .. j + 1 PROVE e[k] <= pieces'[s]
    <3>1. CASE k = j + 1
      BY <2>4, <2>5, <2>6, <2>7, <3>1
    <3>2. CASE k # j + 1
      <4>1. k \in 0 .. j
        BY <3>2
      <4>2. e[k] = v[k] /\ v[k] <= pieces[s] /\ v[k] \in Nat
        BY <2>5, <2>6, <4>1
      <4> QED
        BY <2>7, <4>2
    <3> QED
      BY <3>1, <3>2
  <2>10. e[0] = 0
    BY <2>5, <2>6
  <2>11. Counts(e, j + 1, s)'
    BY <1>6, <2>8, <2>9, <2>10 DEF Counts
  <2> QED
    BY <2>5, <2>11
<1>9. /\ placed' = placed /\ maxRows' = maxRows
      /\ \A s \in Sources : placed[s] = <<>> /\ Len(placed[s]) = 0
  BY <1>1 DEF PieceInv
<1>10. \A s \in Sources : Len(placed'[s]) <= pieces'[s]
  BY <1>4, <1>9
<1>11. CASE i = n
  <2>1. i' = 1 /\ phase' = "place" /\ Len(call'.copies) = j + 1
    BY <1>1, <1>7, <1>11 DEF Step, n
  <2>2. ASSUME NEW s \in Sources
        PROVE  \E v \in [0 .. j + 1 -> Nat] :
                 Counts(v, j + 1, s)' /\ Len(placed'[s]) <= v[0]
    <3>1. PICK v \in [0 .. j + 1 -> Nat] : Counts(v, j + 1, s)'
      BY <1>8
    <3>2. v[0] = 0
      BY <3>1 DEF Counts
    <3> QED
      BY <1>9, <3>1, <3>2
  <2>3. \A s \in Sources : \E v \in [0 .. Len(call'.copies) -> Nat] :
          Counts(v, Len(call.copies), s)' /\ Len(placed'[s]) <= v[i' - 1]
    BY <2>1, <2>2
  <2> QED
    BY <1>4, <1>9, <1>10, <2>1, <2>3 DEF PieceInv
<1>12. CASE i # n
  <2>1. i' = j + 2 /\ phase' = "count"
    BY <1>1, <1>7, <1>12 DEF Step
  <2>2. i' - 1 = j + 1
    BY <2>1
  <2>3. \A s \in Sources : \E v \in [0 .. i' - 1 -> Nat] :
          Counts(v, i - 1, s)'
    BY <1>8, <2>2
  <2> QED
    BY <1>4, <1>9, <1>10, <2>1, <2>3 DEF PieceInv
<1> QED
  BY <1>11, <1>12

\* Filling in the pieces of a copy.
LEMMA PlaceInv ==
  ASSUME SlotInv, Checked, LoopInv, CollectType, PieceInv, [Next]_vars,
         AddPlaceCopies
  PROVE  PieceInv'
<1> DEFINE c == call.copies[i]
           s == SourceOf(c)
           n == Len(call.copies)
           m == (c.rows - 1) \div PlaceMaxRows + 1
           starts == [k \in 1 .. m |-> (k - 1) * PlaceMaxRows]
           cut == [k \in 1 .. m |-> Piece(c, starts[k])]
<1>1. /\ phase = "place" /\ i \in Copies /\ i \in 1 .. n /\ n \in Nat
      /\ UNCHANGED <<call, direct, fell, routed, pieces>>
  BY CopyCount
     DEF AddPlaceCopies, layout, decoded, LoopInv, Copies, SlotInv, SlotType
<1>2. /\ CopyValid(c) /\ c.frame \in Frames /\ s \in Sources
      /\ PieceCount(c) = m /\ m \in Nat
      /\ c.rows \in Nat \ {0} /\ PlaceMaxRows \in Nat \ {0}
  BY <1>1, SourceFacts
<1>3. \/ Skipped(c) /\ Step(n, "queue") /\ UNCHANGED copied
      \/ phase' = "limit" /\ UNCHANGED <<i, copied>>
      \/ /\ ~Skipped(c) /\ Step(n, "queue")
         /\ placed' = [placed EXCEPT ![s] = @ \o cut]
         /\ maxRows' = [maxRows EXCEPT ![s] = Tallest(@, c)]
  BY DEF AddPlaceCopies
<1>11. PICK N \in Nat : N = n
  BY <1>1
<1>4. \A k, q : Share(k, q)' = Share(k, q)
  BY <1>1 DEF Share, Skipped, SourceOf, Route, PieceCount
<1>5. \A v, k, q : Counts(v, k, q)' <=> Counts(v, k, q)
  BY <1>1, <1>4 DEF Counts
<1>6. PICK j \in Nat : j = i - 1 /\ j + 1 = i /\ j + 1 <= n
  BY <1>1
<1>7. /\ \A q \in Sources : Len(placed[q]) \in Nat /\ pieces[q] \in Nat
      /\ \A q \in Sources : \E v \in [0 .. n -> Nat] :
           Counts(v, n, q) /\ Len(placed[q]) <= v[j]
  BY <1>1, <1>6 DEF PieceInv
<1>8. ASSUME NEW q \in Sources, NEW v \in [0 .. n -> Nat], Counts(v, n, q)
      PROVE  /\ v[j] \in Nat /\ v[j + 1] \in Nat
             /\ v[j + 1] = v[j] + Share(i, q) /\ v[j + 1] <= pieces[q]
  <2>1. j \in 0 .. n /\ j + 1 \in 0 .. n /\ j + 1 \in 1 .. n /\ (j + 1) - 1 = j
    BY <1>1, <1>6
  <2> QED
    BY <1>6, <1>8, <2>1 DEF Counts
<1>9. CASE UNCHANGED copied
  <2>1. placed' = placed /\ maxRows' = maxRows
    BY <1>9 DEF copied
  <2>2. CASE phase' = "limit"
    BY <1>1, <2>1, <2>2 DEF PieceInv
  <2>3. CASE phase' # "limit"
    <3>1. Step(n, "queue")
      BY <1>3, <2>3
    <3>2. phase' = "place" \/ phase' = "queue"
      BY <1>1, <3>1 DEF Step
    <3>3. CASE phase' = "queue"
      BY <1>1, <2>1, <3>3 DEF PieceInv
    <3>4. CASE phase' = "place"
      <4>1. i' - 1 = j + 1
        BY <1>1, <1>6, <3>1, <3>4 DEF Step
      <4>2. \A q \in Sources : Share(i, q) \in Nat
        BY <1>2 DEF Share
      <4>3. ASSUME NEW q \in Sources
            PROVE  \E v \in [0 .. n -> Nat] :
                     Counts(v, N, q)' /\ Len(placed'[q]) <= v[j + 1]
        <5>1. PICK v \in [0 .. n -> Nat] :
                Counts(v, n, q) /\ Len(placed[q]) <= v[j]
          BY <1>7
        <5>2. v[j] <= v[j + 1] /\ v[j] \in Nat /\ v[j + 1] \in Nat
          BY <1>8, <4>2, <5>1
        <5>3. Len(placed'[q]) <= v[j + 1]
          BY <1>7, <2>1, <5>1, <5>2
        <5> QED
          BY <1>5, <1>11, <5>1, <5>3
      <4>4. \A q \in Sources : \E v \in [0 .. Len(call'.copies) -> Nat] :
              Counts(v, Len(call.copies), q)' /\ Len(placed'[q]) <= v[i' - 1]
        BY <1>1, <1>11, <4>1, <4>3
      <4> QED
        BY <1>1, <2>1, <3>4, <4>4 DEF PieceInv
    <3> QED
      BY <3>2, <3>3, <3>4
  <2> QED
    BY <2>2, <2>3
<1>10. CASE /\ ~Skipped(c) /\ Step(n, "queue")
            /\ placed' = [placed EXCEPT ![s] = @ \o cut]
            /\ maxRows' = [maxRows EXCEPT ![s] = Tallest(@, c)]
  <2>1. cut \in [1 .. m -> Pieces]
    <3>1. ASSUME NEW k \in 1 .. m PROVE cut[k] \in Pieces
      <4>1. starts[k] \in Nat /\ starts[k] < c.rows
        <5>1. PICK a \in Nat \ {0}, p \in Nat \ {0} :
                a = c.rows /\ p = PlaceMaxRows
          BY <1>2
        <5>2. k \in 1 .. (a - 1) \div p + 1
          BY <5>1
        <5>3. (k - 1) * p \in Nat /\ (k - 1) * p < a
          BY <5>2, CountedPieces
        <5> QED
          BY <5>1, <5>3
      <4>2. IsCall(call) /\ InputFacts /\ c.frame \in 1 .. Len(base)
        BY <1>1, <1>2 DEF Checked, LoopInv, Frames, SlotInv, SlotType
      <4>3. Piece(c, starts[k]) \in Pieces
        BY <1>1, <1>2, <4>1, <4>2, PieceType
      <4> QED
        BY <4>3
    <3> HIDE DEF starts
    <3> QED
      BY <3>1
  <2>2. placed[s] \in Seq(Pieces)
    BY <1>2 DEF PieceInv
  <2>3. PICK l \in Nat : l = Len(placed[s])
    BY <1>2, <1>7
  <2> HIDE DEF cut, starts, m, s, c
  <2>4. placed[s] \o cut \in Seq(Pieces) /\ Len(placed[s] \o cut) = l + m
    BY <1>2, <2>1, <2>2, <2>3, Joined
  <2>5. placed' \in [Sources -> Seq(Pieces)]
    BY <1>2, <1>10, <2>4 DEF PieceInv
  <2>6. maxRows' \in [Sources -> 0 .. PlaceMaxRows]
    <3>1. maxRows[s] \in 0 .. PlaceMaxRows
      BY <1>2 DEF PieceInv
    <3>2. PICK a \in Nat, p \in Nat : a = c.rows /\ p = PlaceMaxRows
      BY <1>2
    <3>3. PieceRows(c, 0) \in 0 .. p
      BY <3>2 DEF PieceRows
    <3>4. Tallest(maxRows[s], c) \in 0 .. PlaceMaxRows
      BY <3>1, <3>2, <3>3 DEF Tallest
    <3> QED
      BY <1>2, <1>10, <3>4 DEF PieceInv
  <2>7. /\ placed'[s] = placed[s] \o cut
        /\ \A q \in Sources : q # s => placed'[q] = placed[q]
    BY <1>2, <1>10 DEF PieceInv
  <2>8. \A q \in Sources : Share(i, q) = IF q = s THEN m ELSE 0
    BY <1>2, <1>10 DEF Share, s, c
  <2>9. ASSUME NEW q \in Sources
        PROVE  \E v \in [0 .. n -> Nat] :
                 /\ Counts(v, N, q)' /\ Len(placed'[q]) <= v[j + 1]
                 /\ Len(placed'[q]) <= pieces[q]
    <3>1. PICK v \in [0 .. n -> Nat] : Counts(v, n, q) /\ Len(placed[q]) <= v[j]
      BY <1>7
    <3>2. /\ v[j] \in Nat /\ v[j + 1] \in Nat
          /\ v[j + 1] = v[j] + Share(i, q) /\ v[j + 1] <= pieces[q]
      BY <1>8, <3>1
    <3>3. Len(placed'[q]) = Len(placed[q]) + Share(i, q)
      <4>1. CASE q = s
        BY <2>3, <2>4, <2>7, <2>8, <4>1
      <4>2. CASE q # s
        BY <1>7, <2>7, <2>8, <4>2
      <4> QED
        BY <4>1, <4>2
    <3>4. PICK a \in Nat, b \in Nat, x \in Nat, y \in Nat :
            a = v[j] /\ b = v[j + 1] /\ x = Share(i, q) /\ y = Len(placed[q])
      BY <1>2, <1>7, <2>8, <3>2
    <3>5. y + x <= b
      BY <3>1, <3>2, <3>4
    <3>6. Len(placed'[q]) <= v[j + 1]
      BY <3>3, <3>4, <3>5
    <3>7. Len(placed'[q]) <= pieces[q]
      BY <1>7, <3>2, <3>3, <3>4, <3>5
    <3> QED
      BY <1>5, <1>11, <3>1, <3>6, <3>7
  <2>10. \A q \in Sources : Len(placed'[q]) <= pieces'[q]
    BY <1>1, <2>9
  <2>11. CASE phase' = "queue"
    BY <1>1, <2>5, <2>6, <2>10, <2>11 DEF PieceInv
  <2>12. CASE phase' # "queue"
    <3>1. phase' = "place" /\ i' - 1 = j + 1
      BY <1>1, <1>6, <1>10, <2>12 DEF Step
    <3>2. \A q \in Sources : \E v \in [0 .. Len(call'.copies) -> Nat] :
            Counts(v, Len(call.copies), q)' /\ Len(placed'[q]) <= v[i' - 1]
      BY <1>1, <1>11, <2>9, <3>1
    <3> QED
      BY <1>1, <2>5, <2>6, <2>10, <3>1, <3>2 DEF PieceInv
  <2> QED
    BY <2>11, <2>12
<1> QED
  BY <1>3, <1>9, <1>10

\* The place copies stay within what was counted.
LEMMA PieceStep ==
  ASSUME SlotInv, Checked, LoopInv, CollectType, PieceInv, [Next]_vars
  PROVE  PieceInv'
<1>1. CASE CountPieces
  BY <1>1, CountInv
<1>2. CASE AddPlaceCopies
  BY <1>2, PlaceInv
<1>3. CASE ShiftPivco
  <2>1. /\ phase = "scratch" /\ i' = 1 /\ phase' \in {"limit", "count"}
        /\ UNCHANGED <<pieces, placed, maxRows>>
    BY <1>3 DEF ShiftPivco, copied, LoopInv
  <2>2. ASSUME NEW s \in Sources
        PROVE  \E v \in [0 .. 0 -> Nat] : Counts(v, 0, s)'
    <3>1. PICK v \in [0 .. 0 -> Nat] : v[0] = 0
      <4> DEFINE z == [k \in 0 .. 0 |-> 0]
      <4>1. z \in [0 .. 0 -> Nat] /\ z[0] = 0
        OBVIOUS
      <4> QED
        BY <4>1
    <3>2. pieces'[s] \in Nat
      BY <2>1 DEF PieceInv
    <3> QED
      BY <3>1, <3>2 DEF Counts
  <2>3. \A s \in Sources :
          \E v \in [0 .. i' - 1 -> Nat] : Counts(v, i - 1, s)'
    BY <2>1, <2>2
  <2> QED
    BY <2>1, <2>3 DEF PieceInv
<1>4. CASE ~CountPieces /\ ~AddPlaceCopies /\ ~ShiftPivco /\ Next
  <2>1. UNCHANGED <<pieces, placed, maxRows>>
    BY <1>4 DEF Next, vars, copied, Validate, LayFrame, ChooseDirect,
       CollectFrame, Queue, Fail, Ended
  <2>2. \/ phase \in {"validate", "slots", "direct", "collect", "scratch",
                      "count"}
        \/ phase' \notin {"validate", "slots", "direct", "collect", "scratch",
                          "count", "place"}
        \/ UNCHANGED vars
    BY <1>4 DEF Next, Validate, LayFrame, ChooseDirect, CollectFrame, Queue,
       Fail, Ended
  <2>3. phase' \notin {"count", "place"} \/ UNCHANGED vars
    BY <1>4 DEF Next, Validate, LayFrame, ChooseDirect, CollectFrame, Queue,
       Fail, Ended, Step
  <2>4. CASE UNCHANGED vars
    <3>1. \A v, k, s : Counts(v, k, s)' <=> Counts(v, k, s)
      BY <2>4 DEF vars, layout, decoded, Counts, Share, Skipped, SourceOf,
         Route, PieceCount
    <3> QED
      BY <2>1, <2>4, <3>1 DEF vars, PieceInv
  <2>5. CASE ~UNCHANGED vars
    BY <2>1, <2>2, <2>3, <2>5 DEF PieceInv
  <2> QED
    BY <2>4, <2>5
<1>5. CASE UNCHANGED vars
  <2>1. \A v, k, s : Counts(v, k, s)' <=> Counts(v, k, s)
    BY <1>5 DEF vars, layout, decoded, copied, Counts, Share, Skipped, SourceOf,
       Route, PieceCount
  <2> QED
    BY <1>5, <2>1 DEF vars, copied, PieceInv
<1> QED
  BY <1>1, <1>2, <1>3, <1>4, <1>5

-----------------------------------------------------------------------------
(* The whole invariant, and what follows for the kernels                   *)

\* The whole invariant of a call.
IInv ==
  /\ SlotInv /\ Checked /\ DirectInv /\ LoopInv /\ CollectType
  /\ OutputInv /\ OutInv /\ PieceInv

\* A call starts with nothing laid out.
LEMMA InitInv == Init => IInv
<1> SUFFICES ASSUME Init PROVE IInv
  OBVIOUS
<1>1. SlotInv
  BY SlotInvInit
<1>2. Checked /\ DirectInv
  BY DEF Init, Checked, DirectInv
<1>3. LoopInv
  BY DEF Init, LoopInv
<1>4. Budget \in Nat
  BY LayoutAssumption DEF Budget
<1>5. CollectType
  <2>1. /\ output = [r \in DeviceRoutes \cup {"fallback"} |-> 0]
        /\ out = [f \in Frames |-> 0] /\ base = <<>>
        /\ deviceOutput = 0 /\ lanes = 0 /\ direct = FALSE /\ fell = {}
    BY DEF Init
  <2>2. base \in Seq(Nat)
    BY <2>1
  <2>6. fell \subseteq Frames
    BY <2>1
  <2>7. direct \in BOOLEAN
    BY DEF Init
  <2>3. output \in [DeviceRoutes \cup {"fallback"} -> Nat]
    BY <2>1
  <2>4. out \in [Frames -> Nat]
    BY <2>1
  <2>5. lanes \in Nat /\ deviceOutput \in 0 .. Budget
    BY <1>4, <2>1
  <2> QED
    BY <2>2, <2>3, <2>4, <2>5, <2>6, <2>7 DEF CollectType
<1>6. OutputInv
  <2> DEFINE z == [k \in 0 .. 0 |-> 0]
  <2>1. z \in [0 .. 0 -> Nat] /\ z[0] = 0 /\ \A f \in 0 .. 0 : z[f] = 0
    OBVIOUS
  <2> HIDE DEF z
  <2>2. /\ Len(routed) = 0 /\ Len(base) = 0 /\ deviceOutput = 0 /\ lanes = 0
        /\ output["pfor"] = 0 /\ output["fallback"] = 0 /\ output["pivco"] = 0
    BY DEF Init, DeviceRoutes
  <2>3. z \in [0 .. Len(routed) -> Nat]
    BY <2>1, <2>2
  <2>4. 1 .. Len(routed) = {} /\ 0 .. Len(routed) = 0 .. 0
    BY <2>2
  <2>5. Budgets(z)
    BY <2>1, <2>2, <2>3, <2>4 DEF Budgets
  <2>6. \A r \in DeviceRoutes : total[r] <= Budget
    BY <1>4 DEF Init, DeviceRoutes
  <2> QED
    BY <2>2, <2>3, <2>5, <2>6 DEF OutputInv
<1>7. OutInv
  BY DEF Init, OutInv
<1>8. PieceInv
  <2>1. PlaceMaxRows \in Nat
    BY LayoutAssumption DEF PlaceMaxRows
  <2>2. \A s \in Sources : placed[s] = <<>> /\ pieces[s] = 0
    BY DEF Init
  <2>3. placed \in [Sources -> Seq(Pieces)]
    BY DEF Init
  <2> QED
    BY <2>1, <2>2, <2>3 DEF Init, PieceInv
<1> QED
  BY <1>1, <1>2, <1>3, <1>5, <1>6, <1>7, <1>8 DEF IInv

\* Every step keeps it.
LEMMA InvStep == IInv /\ [Next]_vars => IInv'
<1> SUFFICES ASSUME IInv, [Next]_vars PROVE IInv'
  OBVIOUS
<1>1. SlotInv'
  BY LayFrameKeepsSlots, OthersKeepSlots DEF IInv
<1>2. Checked'
  BY CheckedStep DEF IInv
<1>3. LoopInv'
  BY <1>1, LoopStep DEF IInv
<1>4. DirectInv'
  BY ChooseDirectInv, OthersKeepDirect DEF IInv
<1>5. CollectType'
  BY <1>4, CollectTypeStep DEF IInv
<1>6. OutputInv'
  BY <1>1, <1>3, OutputStep DEF IInv
<1>7. OutInv'
  BY <1>1, <1>3, <1>5, <1>6, OutStep DEF IInv
<1>8. PieceInv'
  BY PieceStep DEF IInv
<1> QED
  BY <1>1, <1>2, <1>3, <1>4, <1>5, <1>6, <1>7, <1>8 DEF IInv

\* The outputs of the routes, the lanes among them, are within the budget.
Bounded ==
  /\ Budget \in Nat /\ \A r \in DOMAIN output : output[r] \in Nat
  /\ DOMAIN output = {"pfor", "pivco", "fallback"}
  /\ lanes \in Nat
  /\ output["pfor"] + lanes + output["fallback"] <= Budget
  /\ output["pivco"] <= lanes

LEMMA WithinBudget == IInv => Bounded
<1> SUFFICES ASSUME IInv PROVE Bounded
  OBVIOUS
<1>1. Budget \in Nat
  BY LayoutAssumption DEF Budget
<1>2. /\ output \in [DeviceRoutes \cup {"fallback"} -> Nat]
      /\ lanes \in Nat /\ deviceOutput \in 0 .. Budget
  BY DEF IInv, CollectType
<1>3. Len(base) \in Nat /\ Len(routed) \in Nat /\ Len(base) <= Len(routed)
  BY DEF IInv, CollectType, LoopInv, SlotInv, SlotType
<1>4. PICK u \in [0 .. Len(routed) -> Nat] : Budgets(u)
  BY DEF IInv, OutputInv
<1>5. /\ output["pfor"] + lanes + output["fallback"] <= u[Len(base)]
      /\ u[Len(base)] <= deviceOutput /\ u[Len(base)] \in Nat
  BY <1>3, <1>4 DEF Budgets
<1>6. /\ output["pfor"] \in Nat /\ output["pivco"] \in Nat
      /\ output["fallback"] \in Nat
  BY <1>2 DEF DeviceRoutes
<1> QED
  BY <1>1, <1>2, <1>5, <1>6 DEF IInv, OutputInv, DeviceRoutes, Bounded

\* PFOR's part of the scratch, rounded up, and PivCo's part with the padding of
\* its lanes end within 32 bits.
LEMMA ScratchFits ==
  ASSUME IInv
  PROVE  /\ PivcoOffset \in Nat /\ PivcoOffset + lanes <= Word
         /\ DeviceBytes <= Word
<1>1. PICK p \in Nat, l \in Nat, v \in Nat, b \in Nat :
        /\ p = output["pfor"] /\ l = lanes /\ v = output["pivco"] /\ b = Budget
        /\ p + l <= b /\ v <= l
  BY WithinBudget DEF Bounded
<1>2. PICK a \in Nat \ {0}, d \in Nat \ {0}, w \in Nat, m \in Nat, z \in Nat :
        /\ a = StagingAlign /\ d = LanePad /\ w = Word /\ m = Margin
        /\ z = SizeMax /\ b + m = w /\ w <= z /\ d + a <= m
  <2>1. /\ StagingAlign \in Nat \ {0} /\ LanePad \in Nat \ {0} /\ Word \in Nat
        /\ Margin \in Nat /\ SizeMax \in Nat /\ Word <= SizeMax
        /\ LanePad + StagingAlign <= Margin /\ Budget + Margin = Word
    BY LayoutAssumption DEF Budget
  <2> QED
    BY <1>1, <2>1
<1>3. RoundUp(p, a) \in Nat /\ RoundUp(p, a) <= p + a - 1
  <2>1. PICK q \in Nat : q = (p + a - 1) \div a
    BY <1>1, <1>2
  <2>2. q * a \in Nat /\ q * a <= p + a - 1
    BY <1>1, <1>2, <2>1
  <2>3. ~(p > z - (a - 1))
    BY <1>1, <1>2
  <2> QED
    BY <1>2, <2>1, <2>2, <2>3 DEF RoundUp, Multiple
<1>4. PICK o \in Nat : o = PivcoOffset /\ o <= p + a - 1
  BY <1>1, <1>2, <1>3 DEF PivcoOffset
<1>5. o + l <= w
  BY <1>1, <1>2, <1>4
<1>6. ResultBytes = l + d
  BY <1>1, <1>2 DEF ResultBytes
<1>7. o + l + d <= w /\ p <= w /\ 0 <= w
  BY <1>1, <1>2, <1>4
<1>8. DeviceBytes <= Word
  BY <1>1, <1>2, <1>4, <1>6, <1>7 DEF DeviceBytes
<1> QED
  BY <1>1, <1>2, <1>4, <1>5, <1>8

\* A frame the device decodes is written within the budget.
LEMMA OutputFits ==
  ASSUME IInv, phase \in {"count", "place", "queue", "done"},
         NEW f \in Frames, Route(f) \in DeviceRoutes
  PROVE  out[f] * Sample + Frame(f).decoded <= Word
<1>1. routed[f] \in DeviceRoutes /\ f \notin fell
  BY DEF Route, DeviceRoutes
<1>2. Budget \in Nat /\ Word \in Nat /\ Budget <= Word
  BY LayoutAssumption DEF Budget
<1>3. InputFacts
  BY DEF IInv, Checked
<1>4. PICK n \in Nat, x \in Nat :
        n = Frame(f).decoded /\ x = out[f] * Sample
  <2>1. Frame(f).decoded \in Nat
    BY FrameFacts DEF Frames, IInv, SlotInv, SlotType
  <2>2. out[f] \in Nat /\ Sample \in Nat
    BY <1>3 DEF IInv, CollectType, InputFacts
  <2> QED
    BY <2>1, <2>2
<1>5. CASE direct
  BY <1>1, <1>2, <1>4, <1>5 DEF IInv, DirectInv
<1>6. CASE ~direct
  <2>1. f \in 1 .. Len(base)
    BY DEF IInv, LoopInv, Frames
  <2>2. x + n <= output[routed[f]]
    BY <1>1, <1>4, <1>6, <2>1 DEF IInv, OutInv
  <2>3. /\ output["pfor"] \in Nat /\ output["pivco"] \in Nat
        /\ output["fallback"] \in Nat /\ lanes \in Nat
        /\ output["pfor"] + lanes + output["fallback"] <= Budget
        /\ output["pivco"] <= lanes
    BY WithinBudget DEF Bounded
  <2>4. output[routed[f]] \in Nat /\ output[routed[f]] <= Budget
    BY <1>1, <1>2, <2>3 DEF DeviceRoutes
  <2> QED
    BY <1>2, <1>4, <2>2, <2>4
<1> QED
  BY <1>5, <1>6

\* Every offset fits while the kernels are set up and queued.
LEMMA OffsetsFitInv == IInv => KernelOffsetsFit
<1> SUFFICES ASSUME IInv PROVE KernelOffsetsFit
  OBVIOUS
<1>1. ASSUME NEW r \in DeviceRoutes PROVE total[r] + PayloadPadding <= Word
  <2>1. total[r] \in Nat /\ total[r] <= Budget
    BY DEF IInv, OutputInv, SlotInv, SlotType
  <2> QED
    BY <2>1, LayoutAssumption DEF Budget
<1>2. ASSUME NEW s \in Sources
      PROVE  /\ Len(placed[s]) <= pieces[s]
             /\ (maxRows[s] + GroupRows - 1) \div GroupRows <= GridY
             /\ \A k \in DOMAIN placed[s] :
                  placed[s][k].width - 1 + Threads <= Word
  <2>1. Len(placed[s]) <= pieces[s]
    BY DEF IInv, PieceInv
  <2>2. (maxRows[s] + GroupRows - 1) \div GroupRows <= GridY
    <3>1. PICK g \in Nat \ {0}, y \in Nat \ {0}, n \in Nat :
            g = GroupRows /\ y = GridY /\ n = maxRows[s] /\ n <= y * g
      <4>1. GroupRows \in Nat \ {0} /\ GridY \in Nat \ {0}
        BY LayoutAssumption
      <4>2. maxRows[s] \in 0 .. GridY * GroupRows
        BY DEF IInv, PieceInv, PlaceMaxRows
      <4>3. GridY * GroupRows \in Nat
        BY <4>1
      <4> QED
        BY <4>1, <4>2, <4>3
    <3>2. PICK q \in Nat : q = (n + g - 1) \div g
      BY <3>1
    <3>3. q * g <= n + g - 1
      BY <3>1, <3>2
    <3>4. q <= y
      <4> SUFFICES ASSUME q > y PROVE FALSE
        BY <3>1, <3>2
      <4>1. y + 1 \in Nat /\ y + 1 <= q
        BY <3>1, <3>2
      <4>2. g * (y + 1) <= g * q
        BY <3>1, <3>2, <4>1, Product
      <4>3. g * (y + 1) = y * g + g /\ g * q = q * g
        BY <3>1, <3>2
      <4> QED
        BY <3>1, <3>2, <3>3, <4>2, <4>3
    <3> QED
      BY <3>1, <3>2, <3>4
  <2>3. ASSUME NEW k \in DOMAIN placed[s]
        PROVE  placed[s][k].width - 1 + Threads <= Word
    <3>1. placed[s] \in Seq(Pieces)
      BY DEF IInv, PieceInv
    <3>2. placed[s][k] \in Pieces
      BY <2>3, <3>1
    <3>3. placed[s][k].width \in 0 .. PlaceMaxWidth
      BY <3>2 DEF Pieces
    <3> QED
      BY <3>3, LayoutAssumption DEF PlaceMaxWidth
  <2> QED
    BY <2>1, <2>2, <2>3
<1> QED
  BY <1>1, <1>2, ScratchFits, OutputFits DEF KernelOffsetsFit

\* A function on the first numbers is a sequence.
LEMMA ListOf ==
  ASSUME NEW S, NEW n \in Nat, NEW f \in [1 .. n -> S] PROVE f \in Seq(S)
OBVIOUS

\* Offsets and totals stay within a size_t.
RangeInv ==
  /\ \A r \in DeviceRoutes \cup {"host"} : total[r] <= SizeMax
  /\ \A f \in 1 .. Len(base) : base[f] <= SizeMax
  /\ \A f \in Frames : out[f] <= SizeMax

\* Slots and outputs are within a size_t.
LEMMA SmallEnough ==
  ASSUME IInv, RangeInv
  PROVE  /\ \A f \in 1 .. Len(slot) : slot[f] \in 0 .. SizeMax
         /\ \A r \in DOMAIN output : output[r] \in 0 .. SizeMax
         /\ DOMAIN output = {"pfor", "pivco", "fallback"}
         /\ lanes \in 0 .. SizeMax
<1>1. /\ Budget \in Nat /\ \A r \in DOMAIN output : output[r] \in Nat
      /\ DOMAIN output = {"pfor", "pivco", "fallback"} /\ lanes \in Nat
      /\ output["pfor"] + lanes + output["fallback"] <= Budget
      /\ output["pivco"] <= lanes
  BY WithinBudget DEF Bounded
<1>2. SizeMax \in Nat /\ Budget <= SizeMax
  BY LayoutAssumption DEF Budget
<1>3. PICK p \in Nat, v \in Nat, k \in Nat, l \in Nat :
        /\ p = output["pfor"] /\ v = output["pivco"]
        /\ k = output["fallback"] /\ l = lanes
  BY <1>1
<1>4. p <= SizeMax /\ v <= SizeMax /\ k <= SizeMax /\ l <= SizeMax
  BY <1>1, <1>2, <1>3
<1>5. ASSUME NEW f \in 1 .. Len(slot) PROVE slot[f] \in 0 .. SizeMax
  <2>1. /\ slot \in Seq(Nat) /\ routed \in Seq(DeviceRoutes \cup {"host"})
        /\ Len(routed) = Len(slot) /\ Len(slot) <= Len(call.frames)
        /\ total \in [DeviceRoutes \cup {"host"} -> Nat]
        /\ IsCall(call) /\ Len(call.frames) \in Nat
    BY CopyCount DEF IInv, SlotInv, SlotType, SlotProgress
  <2>2. /\ slot[f] \in Nat /\ routed[f] \in DeviceRoutes \cup {"host"}
        /\ f \in Frames /\ f \in DOMAIN slot
    BY <1>5, <2>1 DEF Frames
  <2>3. total[routed[f]] \in Nat /\ total[routed[f]] <= SizeMax
    BY <2>1, <2>2 DEF RangeInv
  <2>4. Needs(f) \in Nat
    BY <2>1, <2>2, FrameFacts DEF Needs, Frames
  <2>5. slot[f] + Needs(f) <= total[routed[f]]
    BY <2>2 DEF IInv, SlotInv, SlotsApart
  <2> QED
    BY <1>2, <2>2, <2>3, <2>4, <2>5
<1> QED
  BY <1>1, <1>2, <1>3, <1>4, <1>5

\* No step leaves the range: what is added was compared first, or is within the
\* budget.
LEMMA RangeStep ==
  ASSUME IInv, IInv', RangeInv, [Next]_vars PROVE RangeInv'
<1>1. /\ call' = call /\ Frames' = Frames /\ Frames = 1 .. Len(call.frames)
      /\ SizeMax \in Nat /\ Budget \in Nat /\ Budget <= SizeMax
  BY CallKept, LayoutAssumption DEF Budget, Frames
<1>2. CASE LayFrame
  <2>1. /\ UNCHANGED <<out, base>> /\ RouteOf(i) \in DeviceRoutes \cup {"host"}
        /\ SlotBytes(i, RouteOf(i)) \in Nat
        /\ \/ total' = total
           \/ /\ SlotBytes(i, RouteOf(i)) <= SizeMax - total[RouteOf(i)]
              /\ total' = [total EXCEPT ![RouteOf(i)] =
                             @ + SlotBytes(i, RouteOf(i))]
    BY <1>2, LayFrameFacts DEF IInv
  <2>2. \A r \in DeviceRoutes \cup {"host"} : total[r] \in Nat
    BY DEF IInv, SlotInv, SlotType
  <2>3. ASSUME NEW r \in DeviceRoutes \cup {"host"} PROVE total'[r] <= SizeMax
    <3>1. PICK q \in DeviceRoutes \cup {"host"}, n \in Nat :
            q = RouteOf(i) /\ n = SlotBytes(i, RouteOf(i))
      BY <2>1
    <3>2. \/ total' = total
          \/ n <= SizeMax - total[q] /\ total' = [total EXCEPT ![q] = @ + n]
      BY <2>1, <3>1
    <3>3. total \in [DeviceRoutes \cup {"host"} -> Nat]
      BY DEF IInv, SlotInv, SlotType
    <3> QED
      BY <1>1, <2>2, <3>2, <3>3 DEF RangeInv
  <2> QED
    BY <1>1, <2>1, <2>3 DEF RangeInv
<1>3. CASE ChooseDirect
  <2>1. /\ UNCHANGED <<base, total>> /\ direct' \in BOOLEAN
        /\ routed' = routed
        /\ out' = [f \in Frames |->
                     IF direct' /\ routed[f] \in DeviceRoutes
                     THEN Destination(f) \div Sample ELSE 0]
    BY <1>3 DEF ChooseDirect, layout, decoded
  <2>2. ASSUME NEW f \in Frames PROVE out'[f] <= SizeMax
    <3>1. CASE direct' /\ routed[f] \in DeviceRoutes
      <4>1. out'[f] \in Nat /\ out'[f] * Sample + Frame(f).decoded <= Budget
        BY <1>1, <2>1, <3>1, CallKept DEF IInv, DirectInv
      <4>2. Frame(f).decoded \in Nat
        BY FrameFacts DEF IInv, SlotInv, SlotType, Frames
      <4>3. Sample \in Nat \ {0}
        BY <1>3 DEF ChooseDirect, IInv, Checked, InputFacts
      <4>4. PICK o \in Nat, s \in Nat \ {0}, d \in Nat :
              o = out'[f] /\ s = Sample /\ d = Frame(f).decoded
        BY <4>1, <4>2, <4>3
      <4>5. o * 1 <= o * s
        BY <4>4, Product
      <4>6. o <= o * s /\ o * s \in Nat
        BY <4>4, <4>5
      <4> QED
        BY <1>1, <4>1, <4>4, <4>6
    <3>2. CASE ~(direct' /\ routed[f] \in DeviceRoutes)
      BY <1>1, <2>1, <3>2
    <3> QED
      BY <3>1, <3>2
  <2> QED
    BY <1>1, <2>1, <2>2 DEF RangeInv
<1>4. CASE CollectFrame
  <2>1. /\ phase = "collect" /\ UNCHANGED <<routed, slot, total>>
        /\ Keep \/ FallBack \/ OnHost
    BY <1>4 DEF CollectFrame, layout
  <2>2. /\ i \in Frames /\ i \in 1 .. Len(slot) /\ Sample \in Nat \ {0}
        /\ base \in Seq(Nat)
    BY <2>1 DEF IInv, LoopInv, Checked, InputFacts, SlotInv, SlotProgress,
       Frames, CollectType
  <2>3. \A r \in DOMAIN output : output[r] \in 0 .. SizeMax
    BY SmallEnough
  <2>4. \E n \in 0 .. SizeMax : base' = Append(base, n)
    <3>1. CASE Keep
      <4>1. /\ routed[i] \in DOMAIN output
            /\ base' = Append(base, output[routed[i]])
        BY <3>1, SmallEnough DEF Keep, DeviceRoutes
      <4> QED
        BY <2>3, <4>1
    <3>2. CASE FallBack
      <4>1. /\ "fallback" \in DOMAIN output
            /\ base' = Append(base, output["fallback"])
        BY <3>2, SmallEnough DEF FallBack
      <4> QED
        BY <2>3, <4>1
    <3>3. CASE OnHost
      BY <2>2, <3>3, SmallEnough DEF OnHost
    <3> QED
      BY <2>1, <3>1, <3>2, <3>3
  <2>5. \A f \in 1 .. Len(base') : base'[f] <= SizeMax
    BY <1>1, <2>2, <2>4 DEF RangeInv
  <2>6. \A f \in Frames : out'[f] <= SizeMax
    <3>1. CASE out' = out
      BY <3>1 DEF RangeInv
    <3>2. CASE out' # out
      <4>1. PICK r \in DOMAIN output :
              out' = [out EXCEPT ![i] = output[r] \div Sample]
        BY <2>1, <3>2, SmallEnough DEF Keep, FallBack, OnHost, DeviceRoutes
      <4>2. PICK n \in Nat, s \in Nat \ {0} :
              n = output[r] /\ s = Sample /\ n <= SizeMax
        BY <1>1, <2>2, <2>3
      <4>3. PICK q \in Nat : q = n \div s
        BY <4>2
      <4>4. q <= n
        <5>1. q * s <= n
          BY <4>2, <4>3
        <5>2. q * 1 <= q * s
          BY <4>2, <4>3, Product
        <5>3. q * s \in Nat /\ q <= q * s
          BY <4>2, <4>3, <5>2
        <5> QED
          BY <4>2, <4>3, <5>1, <5>3
      <4>5. out' = [out EXCEPT ![i] = q]
        BY <4>1, <4>2, <4>3
      <4>6. out \in [Frames -> Nat]
        BY DEF IInv, CollectType
      <4> QED
        BY <1>1, <4>2, <4>4, <4>5, <4>6 DEF RangeInv
    <3> QED
      BY <3>1, <3>2
  <2> QED
    BY <1>1, <2>1, <2>5, <2>6 DEF RangeInv
<1>5. CASE ShiftPivco
  <2>1. /\ phase = "scratch" /\ UNCHANGED <<total, out>>
        /\ base' = [f \in Frames |->
                      IF Route(f) = "pivco" THEN base[f] + PivcoOffset
                      ELSE base[f]]
    BY <1>5 DEF ShiftPivco, layout
  <2>2. /\ Frames = 1 .. Len(base) /\ Len(base) \in Nat /\ base \in Seq(Nat)
        /\ lanes \in Nat
    BY <2>1 DEF IInv, LoopInv, CollectType, Frames
  <2>3. PivcoOffset \in Nat /\ PivcoOffset + lanes <= SizeMax
    <3>1. PivcoOffset \in Nat /\ PivcoOffset + lanes <= Word
      BY ScratchFits
    <3>2. Word \in Nat /\ SizeMax \in Nat /\ Word <= SizeMax
      BY LayoutAssumption
    <3> QED
      BY <2>2, <3>1, <3>2
  <2>4. ASSUME NEW f \in Frames PROVE base'[f] <= SizeMax
    <3>1. base[f] \in Nat /\ base[f] <= SizeMax
      BY <2>2 DEF RangeInv
    <3>2. CASE Route(f) = "pivco"
      <4>1. base[f] <= lanes
        BY <2>1, <2>2, <3>2 DEF IInv, OutInv
      <4>2. base'[f] = base[f] + PivcoOffset
        BY <2>1, <3>2
      <4> QED
        BY <1>1, <2>2, <2>3, <3>1, <4>1, <4>2
    <3>3. CASE Route(f) # "pivco"
      BY <2>1, <3>1, <3>3
    <3> QED
      BY <3>2, <3>3
  <2>5. DOMAIN base' = Frames /\ Len(base') = Len(base)
    BY <2>1, <2>2
  <2> QED
    BY <1>1, <2>1, <2>2, <2>4, <2>5 DEF RangeInv
<1>6. CASE Validate \/ CountPieces \/ AddPlaceCopies \/ Queue \/ Fail \/ Ended
           \/ UNCHANGED vars
  BY <1>1, <1>6 DEF Validate, CountPieces, AddPlaceCopies, Queue, Fail, Ended,
     vars, layout, decoded, RangeInv
<1> QED
  BY <1>2, <1>3, <1>4, <1>5, <1>6 DEF Next

\* The ranges of the variables.
LEMMA InRange == IInv /\ RangeInv => TypeOK
<1> SUFFICES ASSUME IInv, RangeInv PROVE TypeOK
  OBVIOUS
<1>1. /\ IsCall(call) /\ i \in Nat \ {0}
      /\ routed \in Seq(DeviceRoutes \cup {"host"}) /\ slot \in Seq(Nat)
      /\ total \in [DeviceRoutes \cup {"host"} -> Nat]
  BY DEF IInv, SlotInv, SlotType
<1>2. SizeMax \in Nat
  BY LayoutAssumption
<1>3. /\ \A f \in 1 .. Len(slot) : slot[f] \in 0 .. SizeMax
      /\ \A r \in DOMAIN output : output[r] \in 0 .. SizeMax
      /\ DOMAIN output = {"pfor", "pivco", "fallback"}
      /\ lanes \in 0 .. SizeMax
  BY SmallEnough
<1>4. slot \in Seq(0 .. SizeMax)
  <2>1. PICK n \in Nat : n = Len(slot) /\ slot \in [1 .. n -> Nat]
    BY <1>1
  <2>2. slot \in [1 .. n -> 0 .. SizeMax]
    BY <1>3, <2>1
  <2> QED
    BY <2>1, <2>2, ListOf
<1>5. base \in Seq(0 .. SizeMax)
  <2>1. base \in Seq(Nat)
    BY DEF IInv, CollectType
  <2>2. \A f \in 1 .. Len(base) : base[f] \in 0 .. SizeMax
    BY <1>2, <2>1 DEF RangeInv
  <2>3. PICK n \in Nat : n = Len(base) /\ base \in [1 .. n -> Nat]
    BY <2>1
  <2>4. base \in [1 .. n -> 0 .. SizeMax]
    BY <2>2, <2>3
  <2> QED
    BY <2>3, <2>4, ListOf
<1>6. total \in [DeviceRoutes \cup {"host"} -> 0 .. SizeMax]
  BY <1>1, <1>2 DEF RangeInv
<1>7. output \in [DeviceRoutes \cup {"fallback"} -> 0 .. SizeMax]
  BY <1>3 DEF IInv, CollectType, DeviceRoutes
<1>8. out \in [Frames -> 0 .. SizeMax]
  BY <1>2 DEF IInv, CollectType, RangeInv
<1>9. /\ deviceOutput \in 0 .. Budget /\ direct \in BOOLEAN
      /\ fell \subseteq Frames
  BY DEF IInv, CollectType
<1>10. /\ pieces \in [Sources -> Nat] /\ DOMAIN placed = Sources
       /\ maxRows \in [Sources -> 0 .. PlaceMaxRows]
  BY DEF IInv, PieceInv
<1>11. phase \in {"validate", "slots", "direct", "collect", "scratch", "count",
                  "place", "queue", "refused", "empty", "failed", "limit",
                  "done"}
  BY DEF IInv, LoopInv
<1> QED
  BY <1>1, <1>3, <1>4, <1>5, <1>6, <1>7, <1>8, <1>9, <1>10, <1>11 DEF TypeOK

\* A call starts in range.
LEMMA RangeInit == Init => RangeInv
<1> SUFFICES ASSUME Init PROVE RangeInv
  OBVIOUS
<1>1. SizeMax \in Nat /\ 0 <= SizeMax
  BY LayoutAssumption
<1>2. /\ \A r \in DeviceRoutes \cup {"host"} : total[r] = 0
      /\ \A f \in Frames : out[f] = 0
  BY DEF Init
<1>3. Len(base) = 0
  BY DEF Init
<1> QED
  BY <1>1, <1>2, <1>3 DEF RangeInv

-----------------------------------------------------------------------------
(* Refusals                                                                *)

\* The quotient that span_end compares with is exact.
LEMMA Quotient ==
  ASSUME NEW m \in Nat, NEW d \in Nat \ {0}, NEW r \in Nat
  PROVE  r > m \div d <=> d * r > m
<1>1. PICK q \in Nat : q = m \div d
  OBVIOUS
<1>2. d * q <= m /\ m < d * (q + 1) /\ d * q \in Nat /\ d * (q + 1) \in Nat
  <2>1. q * d <= m /\ m < q * d + d
    BY <1>1
  <2>2. d * q = q * d /\ d * (q + 1) = q * d + d
    OBVIOUS
  <2> QED
    BY <2>1, <2>2
<1>3. CASE r <= q
  <2>1. d * r <= d * q /\ d * r \in Nat
    BY <1>3, Product
  <2> QED
    BY <1>1, <1>2, <1>3, <2>1
<1>4. CASE r > q
  <2>1. d * (q + 1) <= d * r /\ d * r \in Nat
    BY <1>4, Product
  <2> QED
    BY <1>1, <1>2, <1>4, <2>1
<1> QED
  BY <1>3, <1>4

\* The last sample of a rectangle.
Last(o, n, r, w, s) == o + (n - 1) * r + (w - 1) * s

\* span_end is the end of the last sample, or SizeMax where that is larger.
LEMMA SpanEndFacts ==
  ASSUME Sample \in Nat \ {0}, NEW o \in Nat, o <= SizeMax,
         NEW n \in Nat \ {0}, NEW r \in Nat, NEW w \in Nat \ {0}, NEW s \in Nat
  PROVE  /\ Last(o, n, r, w, s) \in Nat
         /\ Last(o, n, r, w, s) + Sample <= SizeMax =>
              SpanEnd(o, n, r, w, s) = Last(o, n, r, w, s) + Sample
         /\ Last(o, n, r, w, s) + Sample > SizeMax =>
              SpanEnd(o, n, r, w, s) = SizeMax
<1>1. PICK m \in Nat, a \in Nat \ {0} : m = SizeMax /\ a = Sample
  BY LayoutAssumption
<1>2. PICK p \in Nat, q \in Nat : p = n - 1 /\ q = w - 1
  OBVIOUS
<1>3. PICK x \in Nat, y \in Nat : /\ x = p * r /\ y = q * s
                                 /\ x = (n - 1) * r /\ y = (w - 1) * s
  BY <1>2
<1>9. Last(o, n, r, w, s) = o + x + y
  BY <1>3 DEF Last
<1>4. n > 1 /\ r > (m - o) \div (n - 1) <=> x > m - o
  <2>1. CASE p = 0
    BY <1>1, <1>2, <1>3, <2>1
  <2>2. CASE p # 0
    <3>1. r > (m - o) \div p <=> p * r > m - o
      BY <1>1, <2>2, Quotient
    <3> QED
      BY <1>2, <1>3, <2>2, <3>1
  <2> QED
    BY <2>1, <2>2
<1>5. o + x <= m =>
        (w > 1 /\ s > (m - (o + x)) \div (w - 1) <=> y > m - (o + x))
  <2> SUFFICES ASSUME o + x <= m
               PROVE  w > 1 /\ s > (m - (o + x)) \div (w - 1) <=>
                        y > m - (o + x)
    OBVIOUS
  <2>1. CASE q = 0
    BY <1>1, <1>2, <1>3, <2>1
  <2>2. CASE q # 0
    <3>1. s > (m - (o + x)) \div q <=> q * s > m - (o + x)
      BY <1>1, <2>2, Quotient
    <3> QED
      BY <1>2, <1>3, <2>2, <3>1
  <2> QED
    BY <2>1, <2>2
<1>6. SpanEnd(o, n, r, w, s) =
        IF \/ n > 1 /\ r > (m - o) \div (n - 1)
           \/ w > 1 /\ s > (m - (o + x)) \div (w - 1)
           \/ o + x + y > m - a
        THEN m ELSE o + x + y + a
  BY <1>1, <1>3 DEF SpanEnd
<1>7. CASE x > m - o
  BY <1>1, <1>4, <1>6, <1>7, <1>9
<1>8. CASE ~(x > m - o)
  <2>1. o + x <= m
    BY <1>1, <1>8
  <2> QED
    BY <1>1, <1>4, <1>5, <1>6, <1>8, <1>9, <2>1
<1> QED
  BY <1>7, <1>8

\* No sample of a rectangle lies behind its last one.
LEMMA Farthest ==
  ASSUME NEW o \in Nat, NEW n \in Nat \ {0}, NEW r \in Nat,
         NEW w \in Nat \ {0}, NEW s \in Nat,
         NEW j \in 0 .. n - 1, NEW k \in 0 .. w - 1
  PROVE  /\ j * r \in Nat /\ k * s \in Nat
         /\ (n - 1) * r \in Nat /\ (w - 1) * s \in Nat
         /\ j * r <= (n - 1) * r /\ k * s <= (w - 1) * s
<1>1. PICK p \in Nat, q \in Nat : p = n - 1 /\ q = w - 1
  OBVIOUS
<1>2. /\ r * j <= r * p /\ r * j \in Nat /\ r * p \in Nat
      /\ s * k <= s * q /\ s * k \in Nat /\ s * q \in Nat
  BY <1>1, Product
<1>3. j * r = r * j /\ p * r = r * p /\ k * s = s * k /\ q * s = s * q
  BY <1>1
<1> QED
  BY <1>1, <1>2, <1>3

\* copies_valid finds a copy that leaves its frame or the target.
LEMMA ValidForCause ==
  ASSUME IsCall(call), InputValid, NEW k \in Copies, CopyShaped(call.copies[k])
  PROVE  ~CopyValid(call.copies[k]) <=>
           \E a \in AskedOf(call.copies[k]) :
             \/ a[1] + Sample > Frame(call.copies[k].frame).decoded
             \/ a[2] + Sample > TargetBytes
<1> DEFINE c == call.copies[k]
<1>1. /\ c.source \in 0 .. SizeMax /\ c.destination \in 0 .. SizeMax
      /\ c.sourceRow \in Nat /\ c.sourceStep \in Nat
      /\ c.destinationRow \in Nat /\ c.destinationStep \in Nat
      /\ c.rows \in Nat \ {0} /\ c.width \in Nat \ {0}
      /\ c.frame \in Frames /\ Sample \in Nat \ {0}
  <2>1. IsCopy(c)
    BY DEF IsCall, Copies
  <2>2. /\ c.width \in Nat /\ c.rows \in Nat
        /\ c.source \in Nat /\ c.sourceRow \in Nat /\ c.sourceStep \in Nat
        /\ c.destination \in Nat /\ c.destinationRow \in Nat
        /\ c.destinationStep \in Nat
    BY CopyFacts
  <2>3. c.frame \in Frames /\ c.rows # 0 /\ c.width # 0
    BY DEF CopyShaped
  <2>4. Sample \in Nat \ {0}
    BY DEF InputValid
  <2>5. c.source \in 0 .. SizeMax /\ c.destination \in 0 .. SizeMax
    BY <2>1 DEF IsCopy
  <2> HIDE DEF c
  <2> QED
    BY <2>2, <2>3, <2>4, <2>5
<1>2. PICK m \in Nat, d \in Nat, t \in Nat, z \in Nat \ {0} :
        /\ m = SizeMax /\ d = Frame(c.frame).decoded /\ t = TargetBytes
        /\ z = Sample /\ d < m /\ t < m
  <2>1. SizeMax \in Nat
    BY LayoutAssumption
  <2>2. Frame(c.frame).decoded \in 0 .. SizeMax - 1
    BY <1>1 DEF IsCall, IsFrame, Frames, Frame
  <2>3. PICK b \in Nat, z \in Nat \ {0} :
          b = call.bytes /\ z = Sample /\ b <= SizeMax - 1
    <3>1. call.bytes \in 0 .. SizeMax - 1
      BY DEF IsCall
    <3> QED
      BY <1>1, <2>1, <3>1
  <2>4. PICK q \in Nat : q = b \div z
    BY <2>3
  <2>5. q * z \in Nat /\ q * z <= b
    BY <2>3, <2>4
  <2>6. TargetBytes = q * z
    BY <2>3, <2>4 DEF TargetBytes, Multiple
  <2> QED
    BY <1>1, <2>1, <2>2, <2>3, <2>5, <2>6
<1>16. CopyShaped(c)
  OBVIOUS
<1> HIDE DEF c
<1>14. PICK o \in Nat, r \in Nat, s \in Nat :
         /\ o = c.source /\ r = c.sourceRow /\ s = c.sourceStep
         /\ o \in 0 .. SizeMax
  BY <1>1, <1>2
<1>15. PICK p \in Nat, v \in Nat, u \in Nat :
         /\ p = c.destination /\ v = c.destinationRow
         /\ u = c.destinationStep /\ p \in 0 .. SizeMax
  BY <1>1, <1>2
<1>3. PICK n \in Nat \ {0}, w \in Nat \ {0} :
        /\ o = c.source /\ r = c.sourceRow /\ s = c.sourceStep
        /\ p = c.destination /\ v = c.destinationRow /\ u = c.destinationStep
        /\ n = c.rows /\ w = c.width /\ o <= SizeMax /\ p <= SizeMax
  BY <1>1, <1>2, <1>14, <1>15
<1>4. PICK x1 \in Nat, y1 \in Nat, x2 \in Nat, y2 \in Nat :
        /\ x1 = (n - 1) * r /\ y1 = (w - 1) * s
        /\ x2 = (n - 1) * v /\ y2 = (w - 1) * u
  <2>1. 0 \in 0 .. n - 1 /\ 0 \in 0 .. w - 1
    OBVIOUS
  <2>2. (n - 1) * r \in Nat /\ (w - 1) * s \in Nat
    BY <2>1, Farthest
  <2>3. (n - 1) * v \in Nat /\ (w - 1) * u \in Nat
    BY <2>1, Farthest
  <2> QED
    BY <2>2, <2>3
<1>5. /\ SpanEnd(o, n, r, w, s) > d <=> o + x1 + y1 + z > d
      /\ SpanEnd(o, n, r, w, s) \in Int
  <2>1. Last(o, n, r, w, s) = o + x1 + y1
    BY <1>4 DEF Last
  <2>3. Sample \in Nat \ {0} /\ o <= SizeMax
    BY <1>1, <1>3
  <2>2. /\ Last(o, n, r, w, s) + Sample <= SizeMax =>
             SpanEnd(o, n, r, w, s) = Last(o, n, r, w, s) + Sample
        /\ Last(o, n, r, w, s) + Sample > SizeMax =>
             SpanEnd(o, n, r, w, s) = SizeMax
    BY <2>3, SpanEndFacts
  <2> QED
    BY <1>2, <1>3, <1>4, <2>1, <2>2
<1>6. /\ SpanEnd(p, n, v, w, u) > t <=> p + x2 + y2 + z > t
      /\ SpanEnd(p, n, v, w, u) \in Int
  <2>1. Last(p, n, v, w, u) = p + x2 + y2
    BY <1>4 DEF Last
  <2>3. Sample \in Nat \ {0} /\ p <= SizeMax
    BY <1>1, <1>3
  <2>2. /\ Last(p, n, v, w, u) + Sample <= SizeMax =>
             SpanEnd(p, n, v, w, u) = Last(p, n, v, w, u) + Sample
        /\ Last(p, n, v, w, u) + Sample > SizeMax =>
             SpanEnd(p, n, v, w, u) = SizeMax
    BY <2>3, SpanEndFacts
  <2> QED
    BY <1>2, <1>3, <1>4, <2>1, <2>2
<1>8. ~CopyValid(c) <=> o + x1 + y1 + z > d \/ p + x2 + y2 + z > t
  BY <1>2, <1>3, <1>5, <1>6, <1>16 DEF CopyValid
<1>9. AskedOf(c) = {<<o + j * r + l * s, p + j * v + l * u>> :
                      j \in 0 .. n - 1, l \in 0 .. w - 1}
  BY <1>3 DEF AskedOf
<1>10. \A j \in 0 .. n - 1, l \in 0 .. w - 1 :
         /\ o + j * r + l * s \in Nat /\ p + j * v + l * u \in Nat
         /\ o + j * r + l * s <= o + x1 + y1
         /\ p + j * v + l * u <= p + x2 + y2
  <2> SUFFICES ASSUME NEW j \in 0 .. n - 1, NEW l \in 0 .. w - 1
               PROVE  /\ o + j * r + l * s \in Nat
                      /\ p + j * v + l * u \in Nat
                      /\ o + j * r + l * s <= o + x1 + y1
                      /\ p + j * v + l * u <= p + x2 + y2
    OBVIOUS
  <2>1. /\ j * r \in Nat /\ l * s \in Nat /\ j * r <= x1 /\ l * s <= y1
    BY <1>4, Farthest
  <2>2. /\ j * v \in Nat /\ l * u \in Nat /\ j * v <= x2 /\ l * u <= y2
    BY <1>4, Farthest
  <2> QED
    BY <2>1, <2>2
<1>11. <<o + x1 + y1, p + x2 + y2>> \in AskedOf(c)
  <2>1. n - 1 \in 0 .. n - 1 /\ w - 1 \in 0 .. w - 1
    OBVIOUS
  <2> QED
    BY <1>4, <1>9, <2>1
<1>12. ASSUME o + x1 + y1 + z > d \/ p + x2 + y2 + z > t
       PROVE  \E a \in AskedOf(c) : a[1] + z > d \/ a[2] + z > t
  BY <1>11, <1>12
<1>13. ASSUME NEW a \in AskedOf(c), a[1] + z > d \/ a[2] + z > t
       PROVE  o + x1 + y1 + z > d \/ p + x2 + y2 + z > t
  <2>1. PICK j \in 0 .. n - 1, l \in 0 .. w - 1 :
          a = <<o + j * r + l * s, p + j * v + l * u>>
    BY <1>9, <1>13
  <2>2. PICK e \in Nat, g \in Nat :
          /\ e = o + j * r + l * s /\ g = p + j * v + l * u
          /\ e <= o + x1 + y1 /\ g <= p + x2 + y2
    BY <1>10
  <2>3. a[1] = e /\ a[2] = g
    BY <2>1, <2>2
  <2> QED
    BY <1>13, <2>2, <2>3
<1> QED
  BY <1>2, <1>8, <1>12, <1>13 DEF c

\* A refused call failed its checks, any other passed them.
RefusedInv ==
  phase # "validate" =>
    (phase = "refused" <=>
       ~InputValid \/ \E k \in Copies : ~CopyValid(call.copies[k]))

\* The checks are made once.
LEMMA RefusedStep ==
  ASSUME LoopInv, RefusedInv, [Next]_vars PROVE RefusedInv'
<1>1. /\ call' = call /\ Copies' = Copies
      /\ \A c : CopyValid(c)' = CopyValid(c)
  BY CallKept
<1>2. InputValid' = InputValid
  BY <1>1 DEF InputValid, Frames, Sample, Frame
<1>3. CASE Validate
  BY <1>1, <1>2, <1>3 DEF Validate, RefusedInv
<1>4. CASE ~Validate
  <2>1. /\ phase # "validate" => phase' # "validate"
        /\ phase' = "refused" <=> phase = "refused"
        /\ phase = "validate" => phase' = "validate"
    BY <1>4 DEF LoopInv, Next, vars, LayFrame, ChooseDirect, CollectFrame,
       ShiftPivco, CountPieces, AddPlaceCopies, Queue, Fail, Ended, Step
  <2> QED
    BY <1>1, <1>2, <2>1 DEF RefusedInv
<1> QED
  BY <1>3, <1>4

\* The bytes of a frame that copies read are within a size_t, and within 32 bits
\* for a frame that the device decodes.
RoomInv ==
  \A f \in 1 .. Len(base) :
    /\ Route(f) = "pivco" /\ phase \in {"collect", "scratch"} =>
         base[f] + Frame(f).decoded <= lanes
    /\ Route(f) \in DeviceRoutes => base[f] + Frame(f).decoded <= Word
    /\ base[f] + Frame(f).decoded <= SizeMax

\* A frame has its place in the output of its route or in its slot.
LEMMA CollectRoom ==
  ASSUME IInv, IInv', RangeInv, RoomInv, [Next]_vars, CollectFrame
  PROVE  RoomInv'
<1>1. /\ phase = "collect" /\ UNCHANGED <<call, routed, slot, total>>
      /\ Keep \/ FallBack \/ OnHost
  BY DEF CollectFrame, layout
<1>2. /\ \A f : Frame(f)' = Frame(f)
      /\ Word \in Nat /\ SizeMax \in Nat /\ Budget \in Nat
      /\ Budget <= Word /\ Word <= SizeMax
  BY CallKept, LayoutAssumption DEF Budget
<1>3. PICK n \in Nat : /\ n = Len(base) /\ i = n + 1 /\ i \in Frames
                       /\ i \in 1 .. Len(slot)
  BY <1>1 DEF IInv, LoopInv, CollectType, SlotInv, SlotType, SlotProgress,
     Frames
<1>4. PICK d \in Nat : d = Frame(i).decoded
  BY <1>3, FrameFacts DEF Frames, IInv, SlotInv, SlotType
<1>5. PICK x \in Nat : base' = Append(base, x)
  <2>1. /\ \A r \in DeviceRoutes \cup {"fallback"} : output[r] \in Nat
        /\ slot[i] \in Nat
    <3>1. slot \in Seq(Nat)
      BY DEF IInv, SlotInv, SlotType
    <3> QED
      BY <1>3, <3>1 DEF IInv, CollectType
  <2> QED
    BY <1>1, <2>1 DEF Keep, FallBack, OnHost
<1>6. /\ Len(base') = n + 1 /\ base'[i] = x
      /\ \A f \in 1 .. n : base'[f] = base[f]
  <2>1. base \in Seq(Nat)
    BY DEF IInv, CollectType
  <2> QED
    BY <1>3, <1>5, <2>1
<1>7. Bounded'
  BY WithinBudget, PTL
<1>8. PICK o \in Nat, v \in Nat, k \in Nat, l \in Nat :
        /\ o = output'["pfor"] /\ v = output'["pivco"]
        /\ k = output'["fallback"] /\ l = lanes'
        /\ o <= Budget /\ v <= l /\ l <= Budget /\ k <= Budget
  BY <1>2, <1>7 DEF Bounded
<1>9. output \in [DeviceRoutes \cup {"fallback"} -> Nat]
  BY DEF IInv, CollectType
<1>10. i \in 1 .. Len(routed) /\ routed[i] \in DeviceRoutes \cup {"host"}
  BY <1>3 DEF IInv, SlotInv, SlotType, SlotProgress
<1>11. i \notin fell => Route(i) = routed[i]
  BY DEF Route
<1>12. ASSUME NEW f \in 1 .. n
       PROVE  /\ Route(f)' = Route(f) /\ lanes <= lanes'
              /\ f \in 1 .. Len(base)
  <2>1. f # i
    BY <1>3
  <2>2. f \in fell' <=> f \in fell
    BY <1>1, <2>1 DEF Keep, FallBack, OnHost
  <2>3. lanes <= lanes'
    <3>1. lanes \in Nat /\ LaneBytes(i) \in Nat
      BY <1>1, <1>3, LaneFacts DEF IInv, CollectType, Checked, SlotInv, SlotType
    <3> QED
      BY <1>1, <3>1 DEF Keep, FallBack, OnHost
  <2> QED
    BY <1>1, <1>3, <2>2, <2>3 DEF Route
<1>13. ASSUME NEW f \in 1 .. n
       PROVE  /\ Route(f)' = "pivco" => base'[f] + Frame(f).decoded <= lanes'
              /\ Route(f)' \in DeviceRoutes =>
                   base'[f] + Frame(f).decoded <= Word
              /\ base'[f] + Frame(f).decoded <= SizeMax
  <2>1. base[f] \in Nat
    BY <1>3 DEF IInv, CollectType
  <2>2. Frame(f).decoded \in Nat
    <3>1. f \in Frames
      BY <1>3 DEF Frames, IInv, SlotInv, SlotType, IsCall
    <3> QED
      BY <3>1, FrameFacts DEF Frames, IInv, SlotInv, SlotType
  <2>3. lanes \in Nat /\ lanes' \in Nat
    BY <1>8 DEF IInv, CollectType
  <2> QED
    BY <1>1, <1>6, <1>12, <2>1, <2>2, <2>3 DEF RoomInv
<1>16. PICK j \in Nat : j = i
  BY <1>3
<1>14. /\ Route(j)' = "pivco" => x + d <= lanes'
       /\ Route(j)' \in DeviceRoutes => x + d <= Word
       /\ x + d <= SizeMax
  <2>1. CASE Keep
    <3>1. PICK r \in DeviceRoutes : r = routed[i]
      BY <2>1 DEF Keep
    <3>2. /\ base' = Append(base, output[r]) /\ fell' = fell
          /\ output' = [output EXCEPT ![r] = @ + d]
      BY <1>4, <2>1, <3>1 DEF Keep
    <3>3. x = output[r] /\ output'[r] = output[r] + d
      BY <1>3, <1>5, <1>6, <1>9, <3>1, <3>2 DEF IInv, CollectType
    <3>4. x + d = output'[r]
      BY <3>3
    <3>5. x + d <= Budget /\ (r = "pivco" => x + d <= lanes')
      BY <1>2, <1>8, <3>4 DEF DeviceRoutes
    <3>6. Route(j)' = r \/ Route(j)' = "fallback"
      BY <1>1, <1>16, <3>1, <3>2 DEF Route
    <3>7. Route(j)' = "pivco" => r = "pivco"
      BY <3>6
    <3> QED
      BY <1>2, <3>5, <3>7
  <2>2. CASE FallBack
    <3>1. /\ base' = Append(base, output["fallback"]) /\ i \in fell'
          /\ output' = [output EXCEPT !["fallback"] = @ + d]
      BY <1>4, <2>2 DEF FallBack
    <3>2. x = output["fallback"] /\ output'["fallback"] = output["fallback"] + d
      BY <1>3, <1>5, <1>6, <1>9, <3>1 DEF IInv, CollectType
    <3>3. x + d <= Budget
      BY <1>8, <3>2
    <3>4. Route(j)' = "fallback"
      BY <1>16, <3>1 DEF Route
    <3> QED
      BY <1>2, <3>3, <3>4 DEF DeviceRoutes
  <2>3. CASE OnHost
    <3>1. routed[i] = "host" /\ base' = Append(base, slot[i]) /\ fell' = fell
      BY <2>3 DEF OnHost
    <3>2. x = slot[i]
      BY <1>3, <1>5, <1>6, <3>1 DEF IInv, CollectType
    <3>3. slot[i] + d <= total["host"]
      BY <1>3, <1>4, <3>1 DEF IInv, SlotInv, SlotType, SlotsApart, Needs
    <3>4. total["host"] \in Nat /\ total["host"] <= SizeMax
      BY DEF RangeInv, IInv, SlotInv, SlotType
    <3>5. Route(j)' \notin DeviceRoutes
      <4>1. Route(j)' \in {"host", "fallback"}
        BY <1>1, <1>16, <3>1 DEF Route
      <4> QED
        BY <4>1 DEF DeviceRoutes
    <3> QED
      BY <1>2, <3>2, <3>3, <3>4, <3>5 DEF DeviceRoutes
  <2> QED
    BY <1>1, <2>1, <2>2, <2>3
<1>15. ASSUME NEW f \in 1 .. Len(base')
       PROVE  /\ Route(f)' = "pivco" => base'[f] + Frame(f).decoded <= lanes'
              /\ Route(f)' \in DeviceRoutes =>
                   base'[f] + Frame(f).decoded <= Word
              /\ base'[f] + Frame(f).decoded <= SizeMax
  <2>1. f \in 1 .. n \/ f = j
    BY <1>3, <1>6, <1>16
  <2>2. base'[j] = x /\ Frame(j).decoded = d
    BY <1>4, <1>6, <1>16
  <2> QED
    BY <1>13, <1>14, <2>1, <2>2
<1> QED
  BY <1>2, <1>15 DEF RoomInv

\* The frames of PivCo move behind those of PFOR.
LEMMA ShiftRoom ==
  ASSUME IInv, RoomInv, [Next]_vars, ShiftPivco PROVE RoomInv'
<1>1. /\ phase = "scratch" /\ phase' \in {"limit", "count"}
      /\ UNCHANGED <<call, fell, routed>>
      /\ base' = [f \in Frames |->
                    IF Route(f) = "pivco" THEN base[f] + PivcoOffset
                    ELSE base[f]]
  BY DEF ShiftPivco, layout
<1>2. /\ \A f : Frame(f)' = Frame(f)
      /\ \A f : Route(f)' = Route(f)
      /\ Word \in Nat /\ SizeMax \in Nat /\ Word <= SizeMax
  BY <1>1, CallKept, LayoutAssumption DEF Route
<1>3. /\ Frames = 1 .. Len(base) /\ Len(base) \in Nat /\ base \in Seq(Nat)
      /\ lanes \in Nat
  BY <1>1 DEF IInv, LoopInv, CollectType, Frames
<1>4. PivcoOffset \in Nat /\ PivcoOffset + lanes <= Word
  BY ScratchFits
<1>5. DOMAIN base' = Frames /\ Len(base') = Len(base)
  BY <1>1, <1>3
<1>6. ASSUME NEW f \in Frames
      PROVE  /\ Route(f) \in DeviceRoutes => base'[f] + Frame(f).decoded <= Word
             /\ base'[f] + Frame(f).decoded <= SizeMax
  <2>1. base[f] \in Nat /\ Frame(f).decoded \in Nat
    BY <1>3, FrameFacts DEF Frames, IInv, SlotInv, SlotType
  <2>2. CASE Route(f) = "pivco"
    <3>1. base[f] + Frame(f).decoded <= lanes
      BY <1>1, <1>3, <2>2 DEF RoomInv
    <3>2. base'[f] = base[f] + PivcoOffset
      BY <1>1, <2>2
    <3> QED
      BY <1>2, <1>3, <1>4, <2>1, <3>1, <3>2
  <2>3. CASE Route(f) # "pivco"
    BY <1>1, <1>3, <2>3 DEF RoomInv
  <2> QED
    BY <2>2, <2>3
<1> QED
  BY <1>1, <1>2, <1>3, <1>5, <1>6 DEF RoomInv

LEMMA RoomStep ==
  ASSUME IInv, IInv', RangeInv, RoomInv, [Next]_vars PROVE RoomInv'
<1>1. CASE CollectFrame
  BY <1>1, CollectRoom
<1>2. CASE ShiftPivco
  BY <1>2, ShiftRoom
<1>3. CASE LayFrame \/ ChooseDirect \/ Validate
  <2>1. base' = <<>>
    BY <1>3 DEF LayFrame, ChooseDirect, Validate, decoded, IInv, LoopInv
  <2> QED
    BY <2>1 DEF RoomInv
<1>4. CASE CountPieces \/ AddPlaceCopies \/ Queue \/ Fail \/ Ended
           \/ UNCHANGED vars
  <2>1. UNCHANGED <<call, fell, routed, base, lanes>>
    BY <1>4 DEF CountPieces, AddPlaceCopies, Queue, Fail, Ended, vars, layout,
       decoded
  <2>2. phase' \in {"collect", "scratch"} => phase' = phase
    BY <1>4 DEF CountPieces, AddPlaceCopies, Queue, Fail, Ended, vars, Step
  <2>3. /\ \A f : Frame(f)' = Frame(f)
        /\ \A f : Route(f)' = Route(f)
    BY <2>1, CallKept DEF Route
  <2> QED
    BY <2>1, <2>2, <2>3 DEF RoomInv
<1> QED
  BY <1>1, <1>2, <1>3, <1>4 DEF Next

\* A number below the modulus is its own remainder.
LEMMA SmallRemainder ==
  ASSUME NEW m \in Nat \ {0}, NEW a \in Nat, a < m PROVE a % m = a
OBVIOUS

\* The end of one more sample lies past w samples only if w come before it, and
\* not if it is within w bytes.
LEMMA WordQuotient ==
  ASSUME NEW e \in Nat, NEW z \in Nat \ {0}, NEW w \in Nat, (e + z) \div z > w
  PROVE  e \div z >= w /\ e + z > w
<1>1. PICK q \in Nat : q = (e + z) \div z /\ q * z <= e + z
  OBVIOUS
<1>2. PICK p \in Nat : p = e \div z /\ e < p * z + z
  OBVIOUS
<1>3. q >= w + 1
  BY <1>1
<1>4. z * (w + 1) <= z * q /\ z * (w + 1) \in Nat /\ z * q \in Nat
  BY <1>1, <1>3, Product
<1>5. z * w + z <= e + z /\ z * w \in Nat
  BY <1>1, <1>4
<1>6. p >= w
  <2> SUFFICES ASSUME p < w PROVE FALSE
    BY <1>2
  <2>1. z * (p + 1) <= z * w /\ z * (p + 1) = p * z + z
    BY <1>2, Product
  <2> QED
    BY <1>2, <1>5, <2>1
<1>7. 1 * (w + 1) <= z * (w + 1)
  <2>1. (w + 1) * 1 <= (w + 1) * z
    BY Product
  <2> QED
    BY <2>1
<1> QED
  BY <1>1, <1>2, <1>4, <1>5, <1>6, <1>7

\* Where a piece starts, in a size_t.
StartOf(b, o, row, r) == (b + o + row * r) % (SizeMax + 1)

\* A piece of p rows from `row` on ends with row e of its copy of n rows.
EndsAt(b, o, n, r, w, s, row, p, e) ==
  /\ SpanEnd(StartOf(b, o, row, r), p, r, w, s)
       = b + Last(o, e, r, w, s) + Sample
  /\ Last(o, e, r, w, s) \in Nat /\ Last(o, n, r, w, s) \in Nat
  /\ Last(o, e, r, w, s) <= Last(o, n, r, w, s)

\* The rows of a piece end where its copy puts them, without wrapping.
LEMMA PieceEnd ==
  ASSUME Sample \in Nat \ {0}, NEW b \in Nat, NEW o \in Nat,
         NEW n \in Nat \ {0}, NEW r \in Nat, NEW w \in Nat \ {0}, NEW s \in Nat,
         b + Last(o, n, r, w, s) + Sample <= SizeMax,
         NEW row \in Nat, NEW p \in Nat \ {0},
         NEW e \in Nat, e = row + p, e <= n
  PROVE  EndsAt(b, o, n, r, w, s, row, p, e)
<1>1. PICK m \in Nat, a \in Nat \ {0} : m = SizeMax /\ a = Sample
  BY LayoutAssumption
<1>2. PICK g \in Nat, h \in Nat, l \in Nat, v \in Nat :
        /\ g = p - 1 /\ h = w - 1 /\ l = n - 1 /\ v = e - 1
        /\ v = row + g /\ v <= l
  OBVIOUS
<1>3. PICK x \in Nat, y \in Nat, z \in Nat, t \in Nat, u \in Nat :
        /\ x = row * r /\ y = g * r /\ z = h * s /\ t = v * r /\ u = l * r
  OBVIOUS
<1>4. t = x + y
  BY <1>2, <1>3
<1>5. t <= u
  <2>1. r * v <= r * l
    BY <1>2, Product
  <2> QED
    BY <1>3, <2>1
<1>6. /\ Last(o, n, r, w, s) = o + u + z
      /\ Last(o, e, r, w, s) = o + t + z
  BY <1>2, <1>3 DEF Last
<1>7. b + o + u + z + a <= m
  BY <1>1, <1>3, <1>6
<1>8. b + o + x \in Nat /\ b + o + x <= m
  BY <1>3, <1>4, <1>5, <1>7
<1>9. StartOf(b, o, row, r) = b + o + x
  <2>1. PICK f \in Nat : f = b + o + x /\ f <= m
    BY <1>8
  <2>3. PICK a1 \in Nat \ {0} : a1 = m + 1
    OBVIOUS
  <2>4. f % a1 = f
    BY <2>1, <2>3, SmallRemainder
  <2>2. f % (m + 1) = f
    BY <2>3, <2>4
  <2> QED
    BY <1>1, <1>3, <2>1, <2>2 DEF StartOf
<1>10. PICK f \in Nat : f = b + o + x
  BY <1>8
<1>11. Last(f, p, r, w, s) = f + y + z
  BY <1>2, <1>3 DEF Last
<1>12. Last(f, p, r, w, s) + Sample <= SizeMax
  BY <1>1, <1>4, <1>5, <1>7, <1>10, <1>11
<1>13. f <= SizeMax
  BY <1>1, <1>8, <1>10
<1>14. SpanEnd(f, p, r, w, s) = Last(f, p, r, w, s) + Sample
  BY <1>12, <1>13, SpanEndFacts
<1>15. SpanEnd(StartOf(b, o, row, r), p, r, w, s)
         = SpanEnd(f, p, r, w, s)
  BY <1>9, <1>10
<1>16. b + Last(o, e, r, w, s) + Sample = Last(f, p, r, w, s) + Sample
  BY <1>1, <1>4, <1>6, <1>10, <1>11
<1> QED
  BY <1>5, <1>6, <1>14, <1>15, <1>16 DEF EndsAt

\* A span that ends within a bound below SizeMax did not saturate.
LEMMA EndWithin ==
  ASSUME Sample \in Nat \ {0}, NEW o \in Nat, o <= SizeMax,
         NEW n \in Nat \ {0}, NEW r \in Nat, NEW w \in Nat \ {0}, NEW s \in Nat,
         NEW d \in Int, d < SizeMax, SpanEnd(o, n, r, w, s) <= d
  PROVE  Last(o, n, r, w, s) + Sample <= d /\ Last(o, n, r, w, s) \in Nat
<1>1. /\ Last(o, n, r, w, s) \in Nat
      /\ Last(o, n, r, w, s) + Sample <= SizeMax =>
           SpanEnd(o, n, r, w, s) = Last(o, n, r, w, s) + Sample
      /\ Last(o, n, r, w, s) + Sample > SizeMax =>
           SpanEnd(o, n, r, w, s) = SizeMax
  BY SpanEndFacts
<1>2. SizeMax \in Nat
  BY LayoutAssumption
<1> QED
  BY <1>1, <1>2

\* A copy that passed its checks ends within its frame and the target.
LEMMA ValidEnds ==
  ASSUME IsCall(call), InputFacts, NEW k \in Copies, CopyValid(call.copies[k])
  PROVE  LET c == call.copies[k] IN
         /\ Last(c.source, c.rows, c.sourceRow, c.width, c.sourceStep) + Sample
              <= Frame(c.frame).decoded
         /\ Last(c.destination, c.rows, c.destinationRow, c.width,
                 c.destinationStep) + Sample < SizeMax
<1> DEFINE c == call.copies[k]
<1>1. PICK m \in Nat, d \in Nat, t \in Int :
        /\ m = SizeMax /\ d = Frame(c.frame).decoded /\ t = TargetBytes
        /\ d < m /\ t < m
  <2>1. SizeMax \in Nat
    BY LayoutAssumption
  <2>2. c.frame \in Frames
    BY DEF CopyValid, CopyShaped
  <2>3. Frame(c.frame).decoded \in 0 .. SizeMax - 1
    BY <2>2 DEF IsCall, IsFrame, Frames, Frame
  <2>4. call.bytes \in 0 .. SizeMax - 1
    BY DEF IsCall
  <2>5. PICK b \in Nat, z \in Nat \ {0} :
          b = call.bytes /\ z = Sample /\ b <= SizeMax - 1
    BY <2>1, <2>4 DEF InputFacts
  <2>6. PICK q \in Nat : q = b \div z
    BY <2>5
  <2>7. q * z \in Nat /\ q * z <= b
    BY <2>5, <2>6
  <2>8. TargetBytes = q * z
    BY <2>5, <2>6 DEF TargetBytes, Multiple
  <2> HIDE DEF c
  <2> QED
    BY <2>1, <2>3, <2>5, <2>7, <2>8
<1>2. /\ c.source \in Nat /\ c.source <= SizeMax
      /\ c.destination \in Nat /\ c.destination <= SizeMax
      /\ c.sourceRow \in Nat /\ c.sourceStep \in Nat
      /\ c.destinationRow \in Nat /\ c.destinationStep \in Nat
      /\ c.rows \in Nat \ {0} /\ c.width \in Nat \ {0}
      /\ Sample \in Nat \ {0}
  <2>1. IsCopy(c)
    BY DEF IsCall, Copies
  <2>2. /\ c.width \in Nat /\ c.rows \in Nat
        /\ c.source \in Nat /\ c.sourceRow \in Nat /\ c.sourceStep \in Nat
        /\ c.destination \in Nat /\ c.destinationRow \in Nat
        /\ c.destinationStep \in Nat
    BY CopyFacts
  <2>3. c.rows # 0 /\ c.width # 0
    BY DEF CopyValid, CopyShaped
  <2>4. c.source \in 0 .. SizeMax /\ c.destination \in 0 .. SizeMax
    BY <2>1 DEF IsCopy
  <2> HIDE DEF c
  <2> QED
    BY <1>1, <2>2, <2>3, <2>4 DEF InputFacts
<1>3. /\ SpanEnd(c.source, c.rows, c.sourceRow, c.width, c.sourceStep) <= d
      /\ SpanEnd(c.destination, c.rows, c.destinationRow, c.width,
                 c.destinationStep) <= t
  BY <1>1 DEF CopyValid
<1> HIDE DEF c
<1>4. /\ Last(c.source, c.rows, c.sourceRow, c.width, c.sourceStep) + Sample
           <= Frame(c.frame).decoded
      /\ Last(c.destination, c.rows, c.destinationRow, c.width,
              c.destinationStep) + Sample < SizeMax
  <2>1. PICK n \in Nat \ {0}, w \in Nat \ {0} : n = c.rows /\ w = c.width
    BY <1>2
  <2>2. PICK o \in Nat, x \in Nat, s \in Nat :
          /\ o = c.source /\ x = c.sourceRow /\ s = c.sourceStep
          /\ o <= SizeMax
    BY <1>2
  <2>3. PICK p \in Nat, v \in Nat, u \in Nat :
          /\ p = c.destination /\ v = c.destinationRow
          /\ u = c.destinationStep /\ p <= SizeMax
    BY <1>2
  <2>4. Sample \in Nat \ {0} /\ d < SizeMax /\ t < SizeMax
    BY <1>1, <1>2
  <2>5. SpanEnd(o, n, x, w, s) <= d /\ SpanEnd(p, n, v, w, u) <= t
    BY <1>3, <2>1, <2>2, <2>3
  <2>6. Last(o, n, x, w, s) + Sample <= d
    <3>1. /\ Sample \in Nat \ {0} /\ o <= SizeMax /\ d \in Int /\ d < SizeMax
          /\ SpanEnd(o, n, x, w, s) <= d
      BY <2>2, <2>4, <2>5
    <3> QED
      BY <3>1, EndWithin
  <2>7. Last(p, n, v, w, u) + Sample <= t /\ Last(p, n, v, w, u) \in Nat
    BY <2>3, <2>4, <2>5, EndWithin
  <2>8. Last(p, n, v, w, u) + Sample < SizeMax
    BY <1>1, <2>4, <2>7
  <2> QED
    BY <1>1, <2>1, <2>2, <2>3, <2>6, <2>8
<1> QED
  BY <1>4 DEF c

\* A copy that reads or writes a sample past 2^32.
TooFar(k) ==
  LET c == call.copies[k] IN
  \E a \in AskedOf(c) :
    \/ a[2] \div Sample >= Word
    \/ /\ Route(c.frame) \notin DeviceRoutes
       /\ (base[c.frame] + a[1]) \div Sample >= Word

\* A call that was given up for its size has a cause.
LimitInv ==
  phase = "limit" =>
    \/ \E s \in Sources : Len(placed[s]) > Word
    \/ \E k \in Copies : TooFar(k)

\* A piece the kernel cannot address has such a sample.
LEMMA TooLongIsTooFar ==
  ASSUME IInv, RoomInv, phase = "place", NEW j \in Copies,
         NEW row \in Nat, row < call.copies[j].rows,
         TooLong(call.copies[j], row)
  PROVE  TooFar(j)
<1> DEFINE c == call.copies[j]
<1>1. /\ CopyValid(c) /\ c.frame \in Frames /\ InputFacts /\ IsCall(call)
      /\ c.rows \in Nat \ {0} /\ PlaceMaxRows \in Nat \ {0}
  BY SourceFacts DEF IInv, Checked, SlotInv, SlotType
<1>2. /\ c.source \in Nat /\ c.sourceRow \in Nat /\ c.sourceStep \in Nat
      /\ c.destination \in Nat /\ c.destinationRow \in Nat
      /\ c.destinationStep \in Nat /\ c.width \in Nat \ {0}
  <2>1. c.width # 0
    BY <1>1 DEF CopyValid, CopyShaped
  <2> QED
    BY <1>1, <2>1, CopyFacts
<1>3. /\ Last(c.source, c.rows, c.sourceRow, c.width, c.sourceStep) + Sample
           <= Frame(c.frame).decoded
      /\ Last(c.destination, c.rows, c.destinationRow, c.width,
              c.destinationStep) + Sample < SizeMax
  BY <1>1, ValidEnds
<1>4. PICK p \in Nat \ {0} : p = PieceRows(c, row) /\ row + p <= c.rows
  <2>1. PICK n \in Nat \ {0}, m \in Nat \ {0} :
          n = c.rows /\ m = PlaceMaxRows /\ row < n
    BY <1>1
  <2> QED
    BY <2>1 DEF PieceRows
<1>5. /\ base[c.frame] \in Nat /\ Frame(c.frame).decoded \in Nat
      /\ base[c.frame] + Frame(c.frame).decoded <= SizeMax
      /\ Route(c.frame) \in DeviceRoutes =>
           base[c.frame] + Frame(c.frame).decoded <= Word
  <2>1. c.frame \in 1 .. Len(base) /\ base \in Seq(Nat)
    BY <1>1 DEF IInv, LoopInv, CollectType, Frames
  <2>2. Frame(c.frame).decoded \in Nat
    BY <1>1, FrameFacts DEF Frames
  <2> QED
    <3>1. PICK f \in 1 .. Len(base) : f = c.frame
      BY <2>1
    <3>2. /\ base[f] \in Nat /\ base[f] + Frame(f).decoded <= SizeMax
          /\ Route(f) \in DeviceRoutes => base[f] + Frame(f).decoded <= Word
      BY <2>1 DEF RoomInv
    <3> QED
      BY <2>2, <3>1, <3>2
<1>6. PICK n \in Nat \ {0}, w \in Nat \ {0}, z \in Nat \ {0}, g \in Nat :
        n = c.rows /\ w = c.width /\ z = Sample /\ g = Word /\ row + p <= n
  BY <1>1, <1>2, <1>4, LayoutAssumption DEF InputFacts
<1>7. PICK o \in Nat, r \in Nat, s \in Nat, b \in Nat, d \in Nat :
        /\ o = c.source /\ r = c.sourceRow /\ s = c.sourceStep
        /\ b = base[c.frame] /\ d = Frame(c.frame).decoded
  BY <1>2, <1>5
<1>8. PICK q \in Nat, v \in Nat, u \in Nat :
        q = c.destination /\ v = c.destinationRow /\ u = c.destinationStep
  BY <1>2
<1>16. PICK y \in Nat : y = row + p /\ y <= n
  BY <1>6
<1>9. /\ SpanEnd(StartOf(b, o, row, r), p, r, w, s)
           = b + Last(o, y, r, w, s) + Sample
      /\ Last(o, y, r, w, s) \in Nat
      /\ Last(o, y, r, w, s) + Sample <= d
  <2>1. Last(o, n, r, w, s) + Sample <= d /\ b + d <= SizeMax
    BY <1>3, <1>5, <1>6, <1>7
  <2>2. Last(o, n, r, w, s) \in Nat
    <3>1. (n - 1) * r \in Nat /\ (w - 1) * s \in Nat
      OBVIOUS
    <3> QED
      BY <3>1 DEF Last
  <2>3. b + Last(o, n, r, w, s) + Sample <= SizeMax
    BY <1>6, <2>1, <2>2, LayoutAssumption
  <2>4. Sample \in Nat \ {0} /\ y = row + p /\ y <= n
    BY <1>6, <1>16
  <2>5. EndsAt(b, o, n, r, w, s, row, p, y)
    BY <2>3, <2>4, PieceEnd
  <2> QED
    BY <1>6, <2>1, <2>2, <2>5 DEF EndsAt
<1>10. /\ SpanEnd(StartOf(0, q, row, v), p, v, w, u)
            = 0 + Last(q, y, v, w, u) + Sample
       /\ Last(q, y, v, w, u) \in Nat
  <2>1. Last(q, n, v, w, u) + Sample < SizeMax
    BY <1>3, <1>6, <1>8
  <2>2. Last(q, n, v, w, u) \in Nat
    <3>1. (n - 1) * v \in Nat /\ (w - 1) * u \in Nat
      OBVIOUS
    <3> QED
      BY <3>1 DEF Last
  <2>3. 0 + Last(q, n, v, w, u) + Sample <= SizeMax
    BY <1>6, <2>1, <2>2, LayoutAssumption
  <2>4. Sample \in Nat \ {0} /\ y = row + p /\ y <= n /\ 0 \in Nat
    BY <1>6, <1>16
  <2>5. EndsAt(0, q, n, v, w, u, row, p, y)
    BY <2>3, <2>4, PieceEnd
  <2> QED
    BY <2>5 DEF EndsAt
<1>11. PICK e \in Nat, f \in Nat :
         /\ e = Last(o, y, r, w, s) /\ f = Last(q, y, v, w, u)
         /\ e + z <= d
  BY <1>6, <1>9, <1>10
<1>12. \/ (b + e + z) \div z > g
       \/ (f + z) \div z > g
  <2>1. \/ SpanEnd(StartOf(b, o, row, r), p, r, w, s) \div Sample > Word
        \/ SpanEnd((q + row * v) % (SizeMax + 1), p, v, w, u) \div Sample
             > Word
    BY <1>4, <1>6, <1>7, <1>8 DEF TooLong, From, To, StartOf
  <2>2. (q + row * v) % (SizeMax + 1) = StartOf(0, q, row, v)
    <3>1. 0 + q + row * v = q + row * v
      OBVIOUS
    <3> QED
      BY <3>1 DEF StartOf
  <2>3. /\ SpanEnd(StartOf(b, o, row, r), p, r, w, s) = b + e + z
        /\ SpanEnd((q + row * v) % (SizeMax + 1), p, v, w, u) = f + z
    BY <1>6, <1>9, <1>10, <1>11, <2>2
  <2> QED
    BY <1>6, <2>1, <2>3
<1>13. <<e, f>> \in AskedOf(c)
  <2>1. /\ e = o + (row + p - 1) * r + (w - 1) * s
        /\ f = q + (row + p - 1) * v + (w - 1) * u
    BY <1>11, <1>16 DEF Last
  <2>2. row + p - 1 \in 0 .. c.rows - 1 /\ w - 1 \in 0 .. c.width - 1
    BY <1>6
  <2> QED
    BY <1>7, <1>8, <2>1, <2>2 DEF AskedOf
<1>14. CASE (b + e + z) \div z > g
  <2>1. (b + e) \div z >= g /\ b + e + z > g
    <3>1. PICK x \in Nat : x = b + e /\ (x + z) \div z > g
      BY <1>14
    <3> QED
      BY <3>1, WordQuotient
  <2>2. b + d > g
    BY <1>11, <2>1
  <2>3. Route(c.frame) \notin DeviceRoutes
    BY <1>5, <1>6, <1>7, <2>2
  <2> QED
    BY <1>6, <1>7, <1>13, <2>1, <2>3 DEF TooFar
<1>15. CASE (f + z) \div z > g
  <2>1. f \div z >= g
    BY <1>15, WordQuotient
  <2> QED
    BY <1>6, <1>13, <2>1 DEF TooFar
<1> QED
  BY <1>12, <1>14, <1>15

\* Only such a sample, or too many pieces, is a limit: lanes never are.
LEMMA LimitStep ==
  ASSUME IInv, RoomInv, LimitInv, [Next]_vars PROVE LimitInv'
<1> SUFFICES ASSUME phase' = "limit"
             PROVE  \/ \E s \in Sources : Len(placed'[s]) > Word
                    \/ \E k \in Copies' : TooFar(k)'
  BY DEF LimitInv
<1>1. CASE AddPlaceCopies /\ phase # "limit"
  <2> DEFINE c == call.copies[i]
             m == (c.rows - 1) \div PlaceMaxRows + 1
  <2>1. /\ phase = "place" /\ i \in Copies
        /\ UNCHANGED <<call, base, fell, routed>>
        /\ \E k \in 1 .. m : TooLong(c, (k - 1) * PlaceMaxRows)
    BY <1>1 DEF AddPlaceCopies, Step, layout, decoded, IInv, LoopInv
  <2>2. PICK k \in 1 .. m : TooLong(c, (k - 1) * PlaceMaxRows)
    BY <2>1
  <2>3. (k - 1) * PlaceMaxRows \in Nat /\ (k - 1) * PlaceMaxRows < c.rows
    <3>1. PICK a \in Nat \ {0}, p \in Nat \ {0} :
            a = c.rows /\ p = PlaceMaxRows
      BY <2>1, SourceFacts DEF IInv
    <3>2. k \in 1 .. (a - 1) \div p + 1
      BY <3>1
    <3>3. (k - 1) * p \in Nat /\ (k - 1) * p < a
      BY <3>2, CountedPieces
    <3> QED
      BY <3>1, <3>3
  <2>4. PICK j \in Copies : j = i
    BY <2>1
  <2>5. TooFar(j)
    BY <2>1, <2>2, <2>3, <2>4, TooLongIsTooFar
  <2>6. TooFar(j)' <=> TooFar(j)
    BY <2>1 DEF TooFar, AskedOf, Route, Sample
  <2>7. Copies' = Copies
    BY <2>1 DEF Copies
  <2> QED
    BY <2>5, <2>6, <2>7
<1>2. CASE ShiftPivco
  <2>1. lanes > Word - LanePad
    BY <1>2 DEF ShiftPivco
  <2>2. lanes \in Nat /\ lanes <= Budget
    <3>1. PICK p \in Nat, k \in Nat, l \in Nat :
            /\ p = output["pfor"] /\ k = output["fallback"] /\ l = lanes
            /\ p + l + k <= Budget
      BY WithinBudget DEF Bounded
    <3> QED
      BY <3>1, LayoutAssumption DEF Budget
  <2> QED
    BY <2>1, <2>2, LayoutAssumption DEF Budget
<1>3. CASE Queue /\ phase # "limit"
  BY <1>3 DEF Queue, copied
<1>4. CASE UNCHANGED vars
  <2>1. phase = "limit" /\ UNCHANGED <<call, base, fell, routed, placed>>
    BY <1>4 DEF vars, layout, decoded, copied
  <2>2. \A k : TooFar(k)' <=> TooFar(k)
    BY <2>1 DEF TooFar, AskedOf, Route, Sample
  <2>3. Copies' = Copies
    BY <2>1 DEF Copies
  <2> QED
    BY <2>1, <2>2, <2>3 DEF LimitInv
<1>5. CASE Validate \/ LayFrame \/ ChooseDirect \/ CollectFrame \/ CountPieces
           \/ Fail
  BY <1>5 DEF Validate, LayFrame, ChooseDirect, CollectFrame, CountPieces, Fail,
     Step
<1>6. (AddPlaceCopies \/ Queue) => phase # "limit"
  BY DEF AddPlaceCopies, Queue
<1> QED
  BY <1>1, <1>2, <1>3, <1>4, <1>5, <1>6 DEF Next, Ended

\* The two sides of RefusedForCause.
CauseInv == IInv /\ RangeInv /\ RoomInv /\ RefusedInv /\ LimitInv

LEMMA CauseStep == CauseInv /\ [Next]_vars => CauseInv'
<1> SUFFICES ASSUME CauseInv, [Next]_vars PROVE CauseInv'
  OBVIOUS
<1>1. IInv'
  BY InvStep DEF CauseInv
<1>2. RangeInv'
  BY <1>1, RangeStep DEF CauseInv
<1>3. RoomInv'
  BY <1>1, RoomStep DEF CauseInv
<1>4. RefusedInv'
  BY RefusedStep DEF CauseInv, IInv
<1>5. LimitInv'
  BY LimitStep DEF CauseInv
<1> QED
  BY <1>1, <1>2, <1>3, <1>4, <1>5 DEF CauseInv

LEMMA CauseInit == Init => CauseInv
<1> SUFFICES ASSUME Init PROVE CauseInv
  OBVIOUS
<1>1. IInv /\ RangeInv
  BY InitInv, RangeInit
<1>2. RefusedInv /\ LimitInv
  BY DEF Init, RefusedInv, LimitInv
<1>3. RoomInv
  <2>1. Len(base) = 0
    BY DEF Init
  <2> QED
    BY <2>1 DEF RoomInv
<1> QED
  BY <1>1, <1>2, <1>3 DEF CauseInv

LEMMA CauseIsGiven == CauseInv => RefusedForCause
<1> SUFFICES ASSUME CauseInv PROVE RefusedForCause
  OBVIOUS
<1>1. IsCall(call)
  BY DEF CauseInv, IInv, SlotInv, SlotType
<1>2. ASSUME phase # "validate", InputValid,
             \A k \in Copies : CopyShaped(call.copies[k])
      PROVE  phase = "refused" <=>
               \E k \in Copies : \E a \in AskedOf(call.copies[k]) :
                 \/ a[1] + Sample > Frame(call.copies[k].frame).decoded
                 \/ a[2] + Sample > TargetBytes
  <2>1. phase = "refused" <=> \E k \in Copies : ~CopyValid(call.copies[k])
    BY <1>2 DEF CauseInv, RefusedInv
  <2>2. \A k \in Copies :
          ~CopyValid(call.copies[k]) <=>
            \E a \in AskedOf(call.copies[k]) :
              \/ a[1] + Sample > Frame(call.copies[k].frame).decoded
              \/ a[2] + Sample > TargetBytes
    BY <1>1, <1>2, ValidForCause
  <2> QED
    BY <2>1, <2>2
<1>3. phase = "limit" =>
        \/ \E s \in Sources : Len(placed[s]) > Word
        \/ \E k \in Copies : TooFar(k)
  BY DEF CauseInv, LimitInv
<1> QED
  BY <1>2, <1>3 DEF RefusedForCause, TooFar

-----------------------------------------------------------------------------
(* Where frames lie and what is copied                                     *)

\* The loops after the pass.
Collected == {"collect", "scratch"}
Shifted == {"count", "place", "queue", "done"}

\* The frames of a route lie behind each other in its output, in whole samples,
\* and where their kernel or their capture put them.
Packed(b) ==
  \A f \in 1 .. Len(base) :
    /\ b[f] % Sample = 0
    /\ Route(f) = "host" => b[f] = slot[f]
    /\ Route(f) # "host" =>
         /\ b[f] + Frame(f).decoded <= output[Route(f)]
         /\ \A g \in f + 1 .. Len(base) :
              Route(g) = Route(f) => b[f] + Frame(f).decoded <= b[g]
    /\ Route(f) \in DeviceRoutes /\ ~direct => out[f] * Sample = b[f]

\* How far the scratch of a route lies behind the start of the scratch.
Behind(f) == IF Route(f) = "pivco" THEN PivcoOffset ELSE 0

\* Everything counts whole samples.
SamplesInv ==
  /\ fell \subseteq 1 .. Len(base)
  /\ phase = "validate" =>
       /\ total["host"] = 0
       /\ \A r \in DeviceRoutes \cup {"fallback"} : output[r] = 0
  /\ phase \notin {"validate", "refused"} =>
       /\ \A r \in DeviceRoutes \cup {"fallback"} : output[r] % Sample = 0
       /\ total["host"] % Sample = 0
       /\ \A f \in 1 .. Len(slot) : routed[f] = "host" => slot[f] % Sample = 0
       /\ \A f \in 1 .. Len(routed) :
            routed[f] \in DeviceRoutes => Sample \in {1, 2}

\* Frames lie where they were collected, those of PivCo behind those of PFOR.
BaseInv ==
  /\ phase \in Collected => Packed(base)
  /\ phase \in Shifted => Packed([f \in Frames |-> base[f] - Behind(f)])

\* A call that chose direct output may.
DirectPlaced ==
  direct =>
    /\ phase \notin {"validate", "slots", "direct"} /\ DirectTargets
    /\ \A f \in Frames : routed[f] \in DeviceRoutes =>
         out[f] = Destination(f) \div Sample

\* The first rows of the pieces of a copy.
Starts(c) ==
  {(k - 1) * PlaceMaxRows : k \in 1 .. (c.rows - 1) \div PlaceMaxRows + 1}

\* Copies that have their pieces.
Added == IF phase = "place" THEN 1 .. i - 1 ELSE Copies

\* A copy that takes samples from a source.
TakesFrom(k, s) ==
  LET c == call.copies[k] IN ~Skipped(c) /\ SourceOf(c) = s

\* The pieces of a source are those of its copies among some.
PiecesOf(s, some) ==
  /\ \A k \in some : TakesFrom(k, s) =>
       \A row \in Starts(call.copies[k]) :
         /\ \E j \in DOMAIN placed[s] :
              placed[s][j] = Piece(call.copies[k], row)
         /\ ~TooLong(call.copies[k], row)
         /\ PieceRows(call.copies[k], row) <= maxRows[s]
  /\ \A j \in DOMAIN placed[s] : \E k \in some :
       /\ TakesFrom(k, s)
       /\ \E row \in Starts(call.copies[k]) :
            placed[s][j] = Piece(call.copies[k], row)

\* Copies that were cut have their pieces, and there are no others.
PlacedInv ==
  phase \in {"place", "queue", "done"} =>
    \A s \in Sources : PiecesOf(s, Added)

\* A number without a rest is a multiple.
LEMMA Multiples ==
  ASSUME NEW n \in Nat, NEW z \in Nat \ {0}
  PROVE  n % z = 0 <=> \E m \in Nat : n = m * z
<1>1. ASSUME n % z = 0 PROVE \E m \in Nat : n = m * z
  <2>1. PICK q \in Nat : q = n \div z /\ n = (z * q) + (n % z)
    OBVIOUS
  <2>2. n = q * z
    BY <1>1, <2>1
  <2> QED
    BY <2>2
<1>2. ASSUME NEW m \in Nat, n = m * z PROVE n % z = 0
  BY <1>2, MultipleOf
<1> QED
  BY <1>1, <1>2

\* Whole samples added are whole samples.
LEMMA WholeSum ==
  ASSUME NEW z \in Nat \ {0}, NEW a \in Nat, NEW b \in Nat, a % z = 0, b % z = 0
  PROVE  (a + b) % z = 0 /\ a * b \in Nat /\ (a * b) % z = 0
<1>1. PICK p \in Nat, q \in Nat : a = p * z /\ b = q * z
  BY Multiples
<1>2. PICK m \in Nat, n \in Nat : m = p + q /\ n = p * b
  OBVIOUS
<1>3. a + b = m * z /\ a * b = n * z
  BY <1>1, <1>2
<1>4. (m * z) % z = 0 /\ (n * z) % z = 0 /\ n * z \in Nat
  BY MultipleOf
<1> QED
  BY <1>3, <1>4

\* What is laid out and collected stays in whole samples.
LEMMA SamplesStep ==
  ASSUME IInv, IInv', SamplesInv, [Next]_vars PROVE SamplesInv'
<1>1. /\ IsCall(call) /\ call' = call /\ Sample' = Sample
      /\ \A f : Frame(f)' = Frame(f)
      /\ \A f \in Frames : Frame(f).decoded \in Nat
  BY CallKept, FrameFacts DEF IInv, SlotInv, SlotType, Frames
<1>2. /\ base \in Seq(Nat) /\ Len(base) \in Nat /\ fell \subseteq Frames
      /\ output \in [DeviceRoutes \cup {"fallback"} -> Nat]
      /\ output' \in [DeviceRoutes \cup {"fallback"} -> Nat]
      /\ routed \in Seq(DeviceRoutes \cup {"host"}) /\ slot \in Seq(Nat)
      /\ total \in [DeviceRoutes \cup {"host"} -> Nat]
      /\ Len(routed) = Len(slot)
  BY DEF IInv, CollectType, SlotInv, SlotType, SlotProgress
<1>3. ASSUME phase \notin {"validate", "refused"}
      PROVE  /\ Sample \in Nat \ {0}
             /\ \A f \in Frames : Frame(f).decoded % Sample = 0
  BY <1>3 DEF IInv, Checked, InputFacts
<1>4. CASE Validate
  <2>1. /\ phase = "validate"
        /\ UNCHANGED <<fell, base, output, total, slot, routed>>
    BY <1>4 DEF Validate, layout, decoded
  <2>2. Len(slot) = 0 /\ Len(routed) = 0
    BY <1>2, <2>1 DEF IInv, SlotInv, SlotProgress
  <2>3. ASSUME phase' \notin {"validate", "refused"}
        PROVE  Sample \in Nat \ {0} /\ 0 % Sample = 0
    <3>1. Sample \in Nat \ {0}
      BY <1>1, <2>3 DEF IInv, Checked, InputFacts
    <3>2. PICK z \in Nat \ {0} : z = Sample
      BY <3>1
    <3>3. 0 % z = 0
      OBVIOUS
    <3> QED
      BY <3>1, <3>2, <3>3
  <2>4. phase' # "validate"
    BY <1>4 DEF Validate
  <2> QED
    BY <1>1, <2>1, <2>2, <2>3, <2>4 DEF SamplesInv
<1>5. CASE LayFrame
  <2>1. /\ phase = "slots" /\ phase' # "validate"
        /\ UNCHANGED <<fell, base, output>>
        /\ i \in Frames /\ i = Len(slot) + 1
    BY <1>5, LayFrameFacts DEF IInv, Step
  <2>2. PICK r \in DeviceRoutes \cup {"host"} : r = RouteOf(i)
    BY <1>5, LayFrameFacts DEF IInv
  <2>3. /\ \A f \in 1 .. Len(slot) : routed[f] = "host" => slot[f] % Sample = 0
        /\ \A f \in 1 .. Len(routed) :
             routed[f] \in DeviceRoutes => Sample \in {1, 2}
        /\ total["host"] % Sample = 0
        /\ \A q \in DeviceRoutes \cup {"fallback"} : output[q] % Sample = 0
    BY <2>1 DEF SamplesInv
  <2>4. CASE UNCHANGED <<routed, slot, total>>
    BY <1>1, <2>1, <2>3, <2>4 DEF SamplesInv
  <2>5. CASE ~UNCHANGED <<routed, slot, total>>
    <3>1. /\ routed' = Append(routed, r) /\ slot' = Append(slot, total[r])
          /\ total' = [total EXCEPT ![r] = @ + SlotBytes(i, r)]
      BY <1>5, <2>2, <2>5, LayFrameFacts DEF IInv
    <3>2. r \in DeviceRoutes => Sample \in {1, 2}
      <4>1. "host" \notin DeviceRoutes
        BY DEF DeviceRoutes
      <4>2. r \in DeviceRoutes => Device
        BY <2>2, <4>1 DEF RouteOf
      <4>3. Device => Sample <= 2 /\ Sample \in Nat \ {0}
        BY <1>3, <2>1 DEF Device
      <4> QED
        BY <4>2, <4>3
    <3>3. \A f \in 1 .. Len(slot') :
            routed'[f] = "host" => slot'[f] % Sample = 0
      BY <1>2, <2>3, <3>1
    <3>4. \A f \in 1 .. Len(routed') :
            routed'[f] \in DeviceRoutes => Sample \in {1, 2}
      BY <1>2, <2>3, <3>1, <3>2
    <3>5. total'["host"] % Sample = 0
      <4>1. CASE r = "host"
        <5>1. /\ total["host"] \in Nat
              /\ total'["host"] = total["host"] + Frame(i).decoded
          BY <1>2, <3>1, <4>1 DEF SlotBytes
        <5>2. Frame(i).decoded \in Nat /\ Frame(i).decoded % Sample = 0
              /\ Sample \in Nat \ {0}
          BY <1>1, <1>3, <2>1
        <5>3. (total["host"] + Frame(i).decoded) % Sample = 0
          BY <2>3, <5>1, <5>2, WholeSum
        <5> QED
          BY <5>1, <5>3
      <4>2. CASE r # "host"
        BY <1>2, <2>3, <3>1, <4>2
      <4> QED
        BY <4>1, <4>2
    <3> QED
      BY <1>1, <2>1, <2>3, <3>3, <3>4, <3>5 DEF SamplesInv
  <2> QED
    BY <2>4, <2>5
<1>6. CASE CollectFrame
  <2>1. /\ phase = "collect" /\ UNCHANGED <<routed, slot, total>>
        /\ Keep \/ FallBack \/ OnHost
    BY <1>6 DEF CollectFrame, layout
  <2>2. PICK n \in Nat : n = Len(base) /\ i = n + 1 /\ i \in Frames
    BY <1>2, <2>1 DEF IInv, LoopInv
  <2>3. Len(base') = n + 1 /\ phase' # "validate"
    BY <1>2, <1>6, <2>1, <2>2 DEF Keep, FallBack, OnHost, CollectFrame, Step
  <2>4. fell' \subseteq 1 .. Len(base')
    <3>1. fell \subseteq 1 .. n /\ fell' \subseteq fell \cup {i}
      BY <2>1, <2>2 DEF SamplesInv, Keep, FallBack, OnHost
    <3>2. (1 .. n) \cup {i} = 1 .. n + 1
      BY <2>2
    <3> QED
      BY <2>3, <3>1, <3>2
  <2>5. ASSUME NEW r \in DeviceRoutes \cup {"fallback"}
        PROVE  output'[r] % Sample = 0
    <3>1. output[r] % Sample = 0 /\ output[r] \in Nat
      BY <1>2, <2>1 DEF SamplesInv
    <3>2. Frame(i).decoded \in Nat /\ Frame(i).decoded % Sample = 0
          /\ Sample \in Nat \ {0}
      BY <1>1, <1>3, <2>1, <2>2
    <3>3. (output[r] + Frame(i).decoded) % Sample = 0
      BY <3>1, <3>2, WholeSum
    <3>4. output'[r] = output[r] \/ output'[r] = output[r] + Frame(i).decoded
      BY <1>2, <2>1 DEF Keep, FallBack, OnHost
    <3> QED
      BY <3>1, <3>3, <3>4
  <2> QED
    BY <1>1, <2>1, <2>3, <2>4, <2>5 DEF SamplesInv
<1>7. CASE ~Validate /\ ~LayFrame /\ ~CollectFrame
  <2>1. /\ UNCHANGED <<routed, slot, total, fell, output>>
        /\ {phase, phase'} \cap {"validate", "refused"} # {} => phase' = phase
    BY <1>7 DEF Next, vars, layout, decoded, ChooseDirect, ShiftPivco,
       CountPieces, AddPlaceCopies, Queue, Fail, Ended, Step
  <2>2. Len(base') = Len(base)
    <3>1. CASE ShiftPivco
      <4>1. phase = "scratch" /\ base' = [f \in Frames |-> base'[f]]
        BY <3>1 DEF ShiftPivco
      <4>2. Len(base) = Len(call.frames) /\ Len(call.frames) \in Nat
        BY <1>1, <4>1, CopyCount DEF IInv, LoopInv
      <4> QED
        BY <4>1, <4>2 DEF Frames
    <3>2. CASE ~ShiftPivco
      BY <1>7, <3>2 DEF Next, vars, layout, decoded, ChooseDirect,
         CountPieces, AddPlaceCopies, Queue, Fail, Ended
    <3> QED
      BY <3>1, <3>2
  <2> QED
    BY <1>1, <2>1, <2>2 DEF SamplesInv
<1> QED
  BY <1>4, <1>5, <1>6, <1>7

\* Frames that lie where they lay are packed as they were.
LEMMA PackedKept ==
  ASSUME NEW b, NEW c, Packed(b), [Next]_vars, Len(base') = Len(base),
         UNCHANGED <<fell, routed, slot, output, direct, out>>,
         \A f \in 1 .. Len(base) : c[f] = b[f], Len(base) \in Nat
  PROVE  Packed(c)'
<1>1. /\ Sample' = Sample /\ \A f : Frame(f)' = Frame(f)
      /\ \A f : Route(f)' = Route(f)
  BY CallKept DEF Route
<1>2. \A f \in 1 .. Len(base) : \A g \in f + 1 .. Len(base) : c[g] = b[g]
  OBVIOUS
<1> QED
  BY <1>1, <1>2 DEF Packed

\* A frame that is collected lies behind the others of its route.
LEMMA CollectPacked ==
  ASSUME IInv, SamplesInv, BaseInv, [Next]_vars, CollectFrame
  PROVE  Packed(base)'
<1>1. /\ phase = "collect" /\ UNCHANGED <<routed, slot, direct>>
      /\ Keep \/ FallBack \/ OnHost
      /\ Sample' = Sample /\ \A f : Frame(f)' = Frame(f)
  BY CallKept DEF CollectFrame, layout
<1>2. PICK n \in Nat, j \in Nat :
        /\ n = Len(base) /\ i = j /\ j = n + 1 /\ j \in Frames
        /\ j \in 1 .. Len(slot) /\ j \in 1 .. Len(routed)
        /\ n < Len(slot) /\ Len(slot) = Len(routed)
  BY <1>1 DEF IInv, LoopInv, CollectType, SlotInv, SlotType, SlotProgress,
     Frames
<1>3. PICK d \in Nat, z \in Nat \ {0} :
        /\ d = Frame(j).decoded /\ z = Sample /\ d % z = 0
  <2>1. Frame(j).decoded \in Nat
    BY <1>2, FrameFacts DEF Frames, IInv, SlotInv, SlotType
  <2>2. InputFacts
    BY <1>1 DEF IInv, Checked
  <2> QED
    BY <1>2, <2>1, <2>2 DEF InputFacts
<1>4. /\ base \in Seq(Nat) /\ slot \in Seq(Nat)
      /\ output \in [DeviceRoutes \cup {"fallback"} -> Nat]
      /\ out \in [Frames -> Nat]
      /\ routed \in Seq(DeviceRoutes \cup {"host"})
      /\ fell \subseteq 1 .. n /\ Packed(base)
      /\ \A r \in DeviceRoutes \cup {"fallback"} : output[r] % z = 0
      /\ \A f \in 1 .. Len(slot) : routed[f] = "host" => slot[f] % z = 0
  BY <1>1, <1>2, <1>3 DEF IInv, CollectType, SlotInv, SlotType, SamplesInv,
     BaseInv, Collected
<1>5. PICK x \in Nat :
        /\ base' = Append(base, x)
        /\ Keep => x = output[routed[j]]
        /\ FallBack => x = output["fallback"]
        /\ OnHost => x = slot[j]
  <2>1. /\ \A r \in DeviceRoutes \cup {"fallback"} : output[r] \in Nat
        /\ slot[j] \in Nat
    BY <1>2, <1>4
  <2> QED
    <3>1. CASE Keep
      <4>1. /\ base' = Append(base, output[routed[j]])
            /\ routed[j] \in DeviceRoutes
        BY <1>2, <3>1 DEF Keep
      <4> QED
        BY <2>1, <3>1, <4>1 DEF FallBack, OnHost, Keep, DeviceRoutes
    <3>2. CASE FallBack
      BY <1>2, <2>1, <3>2 DEF FallBack, OnHost, Keep, DeviceRoutes
    <3>3. CASE OnHost
      BY <1>2, <2>1, <3>3 DEF FallBack, OnHost, Keep, DeviceRoutes
    <3> QED
      BY <1>1, <3>1, <3>2, <3>3
<1>6. PICK q \in DeviceRoutes \cup {"fallback", "host"} :
        /\ q = Route(j)' /\ x % z = 0
        /\ q = "host" => x = slot[j] /\ output' = output
        /\ q # "host" => /\ x = output[q]
                         /\ output' = [output EXCEPT ![q] = @ + d]
        /\ q \in DeviceRoutes /\ ~direct => out'[j] = x \div z
  <2>1. /\ j \notin fell
        /\ "host" \notin DeviceRoutes /\ "fallback" \notin DeviceRoutes
    BY <1>2, <1>4 DEF DeviceRoutes
  <2>2. \A r \in DeviceRoutes \cup {"fallback"} : output[r] % z = 0
    BY <1>4
  <2>3. CASE Keep
    <3>1. PICK q \in DeviceRoutes : q = routed[j] /\ fell' = fell
      BY <1>2, <2>3 DEF Keep
    <3>2. q = Route(j)' /\ q # "host" /\ x = output[q] /\ x % z = 0
      BY <1>1, <1>5, <2>1, <2>2, <2>3, <3>1 DEF Route
    <3>3. output' = [output EXCEPT ![q] = @ + d]
      BY <1>2, <1>3, <2>3, <3>1 DEF Keep
    <3>4. ~direct => out'[j] = x \div z
      BY <1>2, <1>3, <1>4, <1>5, <2>3, <3>1 DEF Keep
    <3> QED
      BY <3>1, <3>2, <3>3, <3>4
  <2>4. CASE FallBack
    <3>1. Route(j)' = "fallback"
      BY <1>2, <2>4 DEF FallBack, Route
    <3>2. x = output["fallback"] /\ x % z = 0
      BY <1>5, <2>2, <2>4
    <3>3. output' = [output EXCEPT !["fallback"] = @ + d]
      BY <1>2, <1>3, <2>4 DEF FallBack
    <3> QED
      BY <2>1, <3>1, <3>2, <3>3
  <2>5. CASE OnHost
    <3>1. Route(j)' = "host" /\ routed[j] = "host"
      BY <1>1, <1>2, <2>1, <2>5 DEF OnHost, Route
    <3>2. x = slot[j] /\ x % z = 0 /\ output' = output
      BY <1>2, <1>4, <1>5, <2>5, <3>1 DEF OnHost
    <3> QED
      BY <2>1, <3>1, <3>2
  <2> QED
    BY <1>1, <2>3, <2>4, <2>5
<1>7. ASSUME NEW f \in 1 .. n
      PROVE  /\ Route(f)' = Route(f) /\ base'[f] = base[f] /\ out'[f] = out[f]
             /\ f \in 1 .. Len(base) /\ base[f] \in Nat
             /\ Frame(f).decoded \in Nat
             /\ Route(f) \in DeviceRoutes \cup {"fallback", "host"}
  <2>1. f # j /\ f \in Frames /\ f \in 1 .. Len(routed)
    <3>1. Len(call.frames) \in Nat
      BY CopyCount DEF IInv, SlotInv, SlotType
    <3> QED
      BY <1>2, <3>1 DEF Frames
  <2>2. f \in fell' <=> f \in fell
    BY <1>1, <1>2, <2>1 DEF Keep, FallBack, OnHost
  <2>3. Frame(f).decoded \in Nat
    BY <2>1, FrameFacts DEF Frames, IInv, SlotInv, SlotType
  <2>4. out'[f] = out[f]
    BY <1>1, <1>2, <1>4, <2>1 DEF Keep, FallBack, OnHost
  <2>5. routed[f] \in DeviceRoutes \cup {"host"}
    BY <1>4, <2>1
  <2>6. /\ Route(f)' = Route(f)
        /\ Route(f) \in DeviceRoutes \cup {"fallback", "host"}
    BY <1>1, <2>2, <2>5 DEF Route
  <2>7. base'[f] = base[f] /\ f \in 1 .. Len(base) /\ base[f] \in Nat
    <3>1. f \in 1 .. Len(base) /\ base \in Seq(Nat)
      BY <1>2, <1>4
    <3>2. base' = Append(base, x)
      BY <1>5
    <3> QED
      BY <3>1, <3>2
  <2> QED
    BY <2>3, <2>4, <2>6, <2>7
<1>8. /\ Len(base') = n + 1 /\ base'[j] = x
      /\ \A r \in DeviceRoutes \cup {"fallback"} :
           /\ output[r] \in Nat
           /\ output'[r] = IF r = q THEN output[r] + d ELSE output[r]
  <2>1. Len(base') = n + 1 /\ base'[j] = x
    BY <1>2, <1>4, <1>5
  <2>2. CASE q = "host"
    BY <1>4, <1>6, <2>1, <2>2 DEF DeviceRoutes
  <2>3. CASE q # "host"
    BY <1>4, <1>6, <2>1, <2>3
  <2> QED
    BY <2>2, <2>3
<1>9. ASSUME NEW f \in 1 .. n
      PROVE  /\ base'[f] % z = 0
             /\ Route(f)' = "host" => base'[f] = slot[f]
             /\ Route(f)' # "host" =>
                  /\ base'[f] + Frame(f).decoded <= output'[Route(f)']
                  /\ \A g \in f + 1 .. n + 1 :
                       Route(g)' = Route(f)' =>
                         base'[f] + Frame(f).decoded <= base'[g]
             /\ Route(f)' \in DeviceRoutes /\ ~direct => out'[f] * z = base'[f]
  <2>1. /\ Route(f)' = Route(f) /\ base'[f] = base[f] /\ out'[f] = out[f]
        /\ f \in 1 .. Len(base) /\ base[f] \in Nat
        /\ Frame(f).decoded \in Nat
        /\ Route(f) \in DeviceRoutes \cup {"fallback", "host"}
    BY <1>7
  <2>2. /\ base[f] % z = 0
        /\ Route(f) = "host" => base[f] = slot[f]
        /\ Route(f) # "host" =>
             /\ base[f] + Frame(f).decoded <= output[Route(f)]
             /\ \A g \in f + 1 .. n :
                  Route(g) = Route(f) => base[f] + Frame(f).decoded <= base[g]
        /\ Route(f) \in DeviceRoutes /\ ~direct => out[f] * z = base[f]
    BY <1>2, <1>3, <1>4, <2>1 DEF Packed
  <2>3. ASSUME Route(f) # "host"
        PROVE  base[f] + Frame(f).decoded <= output'[Route(f)]
    BY <1>3, <1>8, <2>1, <2>2, <2>3
  <2>4. ASSUME Route(f) # "host", NEW g \in f + 1 .. n + 1,
               Route(g)' = Route(f)
        PROVE  base[f] + Frame(f).decoded <= base'[g]
    <3>1. CASE g = j
      BY <1>6, <1>8, <2>2, <2>4, <3>1
    <3>2. CASE g # j
      <4>1. g \in f + 1 .. n /\ g \in 1 .. n
        BY <1>2, <3>2
      <4> QED
        BY <1>7, <2>2, <2>4, <4>1
    <3> QED
      BY <3>1, <3>2
  <2> QED
    BY <2>1, <2>2, <2>3, <2>4
<1>10. /\ base'[j] % z = 0
       /\ Route(j)' = "host" => base'[j] = slot[j]
       /\ Route(j)' # "host" => base'[j] + d <= output'[Route(j)']
       /\ Route(j)' \in DeviceRoutes /\ ~direct => out'[j] * z = base'[j]
  <2>1. (x \div z) * z = x
    <3>1. PICK m \in Nat : m = x \div z /\ x = (z * m) + (x % z)
      OBVIOUS
    <3>2. x = m * z
      BY <1>6, <3>1
    <3> QED
      BY <3>1, <3>2
  <2>2. q \in DeviceRoutes /\ ~direct => out'[j] * z = x
    BY <1>6, <2>1
  <2>3. q # "host" => x + d <= output'[q]
    BY <1>3, <1>6, <1>8
  <2> QED
    BY <1>6, <1>8, <2>2, <2>3
<1>11. ASSUME NEW f \in 1 .. n + 1
       PROVE  /\ base'[f] % z = 0
              /\ Route(f)' = "host" => base'[f] = slot[f]
              /\ Route(f)' # "host" =>
                   /\ base'[f] + Frame(f).decoded <= output'[Route(f)']
                   /\ \A g \in f + 1 .. n + 1 :
                        Route(g)' = Route(f)' =>
                          base'[f] + Frame(f).decoded <= base'[g]
              /\ Route(f)' \in DeviceRoutes /\ ~direct =>
                   out'[f] * z = base'[f]
  <2>1. CASE f = j
    <3>1. f + 1 .. n + 1 = {}
      BY <1>2, <2>1
    <3> QED
      BY <1>3, <1>10, <2>1, <3>1
  <2>2. CASE f # j
    <3>1. f \in 1 .. n
      BY <1>2, <2>2
    <3> QED
      BY <1>9, <3>1
  <2> QED
    BY <2>1, <2>2
<1>12. z = Sample' /\ Len(base') = n + 1
  BY <1>1, <1>3, <1>8
<1> QED
  BY <1>1, <1>11, <1>12 DEF Packed

\* Frames stay packed, without the scratch of PFOR that PivCo is behind.
LEMMA BaseStep ==
  ASSUME IInv, IInv', SamplesInv, BaseInv, [Next]_vars PROVE BaseInv'
<1>1. base \in Seq(Nat) /\ Len(base) \in Nat /\ base' \in Seq(Nat)
  BY DEF IInv, CollectType
<1>2. CASE CollectFrame
  <2>1. phase' \in {"collect", "scratch"}
    BY <1>2 DEF CollectFrame, Step
  <2> QED
    BY <1>2, <2>1, CollectPacked DEF BaseInv, Shifted
<1>3. CASE Validate \/ LayFrame \/ ChooseDirect
  <2>1. base' = <<>> /\ phase' \notin Shifted
    BY <1>3 DEF Validate, LayFrame, ChooseDirect, decoded, IInv, LoopInv, Step,
       Shifted
  <2>2. 1 .. Len(base') = {}
    BY <2>1
  <2>3. Packed(base)'
    BY <2>2 DEF Packed
  <2> QED
    BY <2>1, <2>3 DEF BaseInv, Shifted
<1>4. CASE ShiftPivco
  <2>1. /\ phase = "scratch" /\ phase' \in {"limit", "count"}
        /\ UNCHANGED <<call, fell, routed, slot, output, direct, out>>
        /\ base' = [f \in Frames |->
                      IF Route(f) = "pivco" THEN base[f] + PivcoOffset
                      ELSE base[f]]
    BY <1>4 DEF ShiftPivco, layout
  <2>2. Frames = 1 .. Len(base)
    BY <2>1 DEF IInv, LoopInv, Frames
  <2>3. /\ Frames' = Frames /\ DOMAIN base' = Frames /\ Len(base') = Len(base)
        /\ \A f : Behind(f)' = Behind(f)
    BY <1>1, <2>1, <2>2, CallKept DEF Behind, Route, PivcoOffset
  <2>4. PivcoOffset \in Nat
    BY ScratchFits
  <2>5. PICK b, c : b = base /\ c = [f \in Frames |-> base'[f] - Behind(f)]
    OBVIOUS
  <2>6. \A f \in 1 .. Len(base) : c[f] = b[f]
    BY <1>1, <2>1, <2>2, <2>4, <2>5 DEF Behind
  <2>7. Packed(b)
    BY <2>1, <2>5 DEF BaseInv, Collected
  <2>8. Packed(c)'
    BY <1>1, <2>1, <2>3, <2>6, <2>7, PackedKept
  <2>9. c = [f \in Frames |-> base[f] - Behind(f)]'
    BY <2>3, <2>5
  <2> QED
    BY <2>1, <2>8, <2>9 DEF BaseInv, Collected
<1>5. CASE CountPieces \/ AddPlaceCopies \/ Queue \/ Fail \/ Ended
           \/ UNCHANGED vars
  <2>1. UNCHANGED <<call, base, fell, routed, slot, output, direct, out>>
    BY <1>5 DEF CountPieces, AddPlaceCopies, Queue, Fail, Ended, vars, layout,
       decoded
  <2>2. /\ phase' \in Shifted => phase \in Shifted
        /\ phase' \in Collected => phase \in Collected
    BY <1>5 DEF CountPieces, AddPlaceCopies, Queue, Fail, Ended, vars, Step,
       Shifted, Collected
  <2>3. /\ Frames' = Frames /\ \A f : Behind(f)' = Behind(f)
    BY <2>1, CallKept DEF Behind, Route, PivcoOffset
  <2>4. PICK b, c : b = base /\ c = [f \in Frames |-> base[f] - Behind(f)]
    OBVIOUS
  <2>5. Packed(b) => Packed(b)'
    BY <1>1, <2>1, PackedKept
  <2>6. Packed(c) => Packed(c)'
    BY <1>1, <2>1, PackedKept
  <2>7. b = base' /\ c = [f \in Frames |-> base[f] - Behind(f)]'
    BY <2>1, <2>3, <2>4
  <2> QED
    BY <2>2, <2>4, <2>5, <2>6, <2>7 DEF BaseInv
<1> QED
  BY <1>2, <1>3, <1>4, <1>5 DEF Next

\* The conditions of direct output are those of the call and the routes.
LEMMA TargetsKept ==
  ASSUME [Next]_vars, routed' = routed
  PROVE  /\ DirectTargets' <=> DirectTargets
         /\ \A f : Destination(f)' = Destination(f)
<1>1. /\ Sample' = Sample /\ Frames' = Frames /\ call' = call
      /\ Copies' = Copies /\ \A f : Frame(f)' = Frame(f)
  BY CallKept
<1>2. DeviceCopies' = DeviceCopies
  BY <1>1 DEF DeviceCopies
<1>3. \A c : Whole(c)' <=> Whole(c)
  BY <1>1 DEF Whole, Contiguous
<1>4. \A f : CoveredOnce(f)' <=> CoveredOnce(f)
  BY <1>1 DEF CoveredOnce
<1>5. \A k, l : (Precedes(k, l)' <=> Precedes(k, l))
                  /\ (Apart(k, l)' <=> Apart(k, l))
  BY <1>1 DEF Precedes, Apart
<1>6. \A k : call'.copies[k] = call.copies[k]
  BY <1>1
<1>7. (\A k \in DeviceCopies : Whole(call.copies[k]))'
        <=> \A k \in DeviceCopies : Whole(call.copies[k])
  BY <1>2, <1>3, <1>6
<1>8. DirectTargets' <=> DirectTargets
  BY <1>1, <1>2, <1>4, <1>5, <1>7 DEF DirectTargets
<1>9. \A f : Destination(f)' = Destination(f)
  BY <1>1 DEF Destination
<1> QED
  BY <1>8, <1>9

\* Direct output is chosen once, where the copies put the frames.
LEMMA DirectStep ==
  ASSUME DirectPlaced, IInv, IInv', [Next]_vars PROVE DirectPlaced'
<1>1. /\ Sample' = Sample /\ Frames' = Frames /\ call' = call
      /\ Copies' = Copies /\ \A f : Frame(f)' = Frame(f)
  BY CallKept
<1>2. CASE ChooseDirect
  <2>1. /\ phase = "direct" /\ phase' = "collect" /\ routed' = routed
        /\ direct' => DirectTargets
        /\ out' = [f \in Frames |->
                     IF direct' /\ routed[f] \in DeviceRoutes
                     THEN Destination(f) \div Sample ELSE 0]
    BY <1>2 DEF ChooseDirect, layout
  <2>2. DirectTargets' <=> DirectTargets
    BY <2>1, TargetsKept
  <2>3. \A f : Destination(f)' = Destination(f)
    BY <2>1, TargetsKept
  <2> QED
    BY <1>1, <2>1, <2>2, <2>3 DEF DirectPlaced
<1>3. CASE ~ChooseDirect
  <2>1. direct' = direct
    BY <1>3 DEF Next, vars, layout, decoded, copied, Validate, LayFrame,
       CollectFrame, ShiftPivco, CountPieces, AddPlaceCopies, Queue, Fail, Ended
  <2> SUFFICES ASSUME direct PROVE DirectPlaced'
    BY <2>1 DEF DirectPlaced
  <2>2. UNCHANGED <<routed, out>>
    BY <1>3 DEF DirectPlaced, Next, vars, layout, decoded, copied, Validate,
       LayFrame, CollectFrame, Keep, FallBack, OnHost, ShiftPivco, CountPieces,
       AddPlaceCopies, Queue, Fail, Ended
  <2>3. phase' \notin {"validate", "slots", "direct"}
    BY <1>3 DEF DirectPlaced, Next, vars, Validate, LayFrame, CollectFrame,
       ShiftPivco, CountPieces, AddPlaceCopies, Queue, Fail, Ended, Step
  <2>4. DirectTargets' <=> DirectTargets
    BY <2>2, TargetsKept
  <2>5. \A f : Destination(f)' = Destination(f)
    BY <2>2, TargetsKept
  <2> QED
    BY <1>1, <2>2, <2>3, <2>4, <2>5 DEF DirectPlaced
<1> QED
  BY <1>2, <1>3

\* The parts of a sequence that was extended.
LEMMA JoinedAt ==
  ASSUME NEW S, NEW s \in Seq(S), NEW n \in Nat, NEW e \in [1 .. n -> S],
         NEW l \in Nat, l = Len(s)
  PROVE  /\ DOMAIN (s \o e) = 1 .. l + n
         /\ \A j \in 1 .. l : (s \o e)[j] = s[j]
         /\ \A j \in 1 .. n : (s \o e)[l + j] = e[j]
<1>1. e \in Seq(S) /\ Len(e) = n
  OBVIOUS
<1> QED
  BY <1>1

\* What the pieces of a copy are, while their arguments stay.
LEMMA PiecesKept ==
  ASSUME [Next]_vars, UNCHANGED <<base, direct, fell, routed>>
  PROVE  /\ \A k, s : TakesFrom(k, s)' <=> TakesFrom(k, s)
         /\ \A k, row : Piece(call.copies[k], row)' = Piece(call.copies[k], row)
         /\ \A k, row :
              TooLong(call.copies[k], row)' <=> TooLong(call.copies[k], row)
         /\ \A k : Starts(call.copies[k])' = Starts(call.copies[k])
         /\ \A k, row :
              PieceRows(call.copies[k], row)' = PieceRows(call.copies[k], row)
<1>1. call' = call /\ Sample' = Sample
  BY CallKept
<1>2. \A c, row : From(c, row)' = From(c, row) /\ To(c, row)' = To(c, row)
                    /\ PieceRows(c, row)' = PieceRows(c, row)
  BY DEF From, To, PieceRows
<1>3. \A c, row : Piece(c, row)' = Piece(c, row)
  BY <1>1, <1>2 DEF Piece
<1>4. \A c, row : TooLong(c, row)' <=> TooLong(c, row)
  BY <1>1, <1>2 DEF TooLong, SpanEnd
<1>5. \A k, s : TakesFrom(k, s)' <=> TakesFrom(k, s)
  BY <1>1 DEF TakesFrom, Skipped, SourceOf, Route
<1>6. \A c : Starts(c)' = Starts(c)
  BY DEF Starts
<1>7. \A k : call'.copies[k] = call.copies[k]
  BY <1>1
<1> QED
  BY <1>2, <1>3, <1>4, <1>5, <1>6, <1>7

\* Pieces of other copies do not matter.
LEMMA SourceKept ==
  ASSUME [Next]_vars, UNCHANGED <<base, direct, fell, routed>>,
         NEW s \in Sources, placed'[s] = placed[s], maxRows'[s] = maxRows[s],
         NEW K, NEW L, K \subseteq L, PiecesOf(s, K),
         \A k \in L \ K : ~TakesFrom(k, s)
  PROVE  PiecesOf(s, L)'
<1>1. /\ \A k : TakesFrom(k, s)' <=> TakesFrom(k, s)
      /\ \A k, row : Piece(call.copies[k], row)' = Piece(call.copies[k], row)
      /\ \A k, row :
           TooLong(call.copies[k], row)' <=> TooLong(call.copies[k], row)
      /\ \A k : Starts(call.copies[k])' = Starts(call.copies[k])
      /\ \A k, row :
           PieceRows(call.copies[k], row)' = PieceRows(call.copies[k], row)
  BY PiecesKept
<1>2. ASSUME NEW k \in L, TakesFrom(k, s), NEW row \in Starts(call.copies[k])
      PROVE  /\ \E j \in DOMAIN placed[s] :
                  placed[s][j] = Piece(call.copies[k], row)
             /\ ~TooLong(call.copies[k], row)
             /\ PieceRows(call.copies[k], row) <= maxRows[s]
  <2>1. k \in K
    BY <1>2
  <2> QED
    BY <1>2, <2>1 DEF PiecesOf
<1>3. ASSUME NEW j \in DOMAIN placed[s]
      PROVE  \E k \in L : /\ TakesFrom(k, s)
                          /\ \E row \in Starts(call.copies[k]) :
                               placed[s][j] = Piece(call.copies[k], row)
  BY <1>3 DEF PiecesOf
<1>4. ASSUME NEW k \in L, TakesFrom(k, s)',
             NEW row \in Starts(call.copies[k])'
      PROVE  /\ \E j \in DOMAIN placed[s] :
                  placed'[s][j] = Piece(call.copies[k], row)'
             /\ ~TooLong(call.copies[k], row)'
             /\ PieceRows(call.copies[k], row)' <= maxRows'[s]
  <2>1. TakesFrom(k, s) /\ row \in Starts(call.copies[k])
    BY <1>1, <1>4
  <2>2. /\ \E j \in DOMAIN placed[s] :
             placed[s][j] = Piece(call.copies[k], row)
        /\ ~TooLong(call.copies[k], row)
        /\ PieceRows(call.copies[k], row) <= maxRows[s]
    BY <1>2, <2>1
  <2>3. PICK j \in DOMAIN placed[s] : placed[s][j] = Piece(call.copies[k], row)
    BY <2>2
  <2>4. placed'[s][j] = Piece(call.copies[k], row)'
    BY <1>1, <2>3
  <2>5. ~TooLong(call.copies[k], row)'
    BY <1>1, <2>2
  <2>6. PieceRows(call.copies[k], row)' <= maxRows'[s]
    BY <1>1, <2>2
  <2> QED
    BY <2>4, <2>5, <2>6
<1>5. ASSUME NEW j \in DOMAIN placed'[s]
      PROVE  \E k \in L : /\ TakesFrom(k, s)'
                          /\ \E row \in Starts(call.copies[k])' :
                               placed'[s][j] = Piece(call.copies[k], row)'
  <2>1. placed'[s] = placed[s]
    OBVIOUS
  <2>2. PICK k \in L : /\ TakesFrom(k, s)
                       /\ \E row \in Starts(call.copies[k]) :
                            placed[s][j] = Piece(call.copies[k], row)
    BY <1>3, <1>5, <2>1
  <2>3. PICK row \in Starts(call.copies[k]) :
          placed[s][j] = Piece(call.copies[k], row)
    BY <2>2
  <2>4. /\ TakesFrom(k, s)' /\ row \in Starts(call.copies[k])'
        /\ placed'[s][j] = Piece(call.copies[k], row)'
    BY <1>1, <2>1, <2>2, <2>3
  <2> QED
    BY <2>4
<1> QED
  BY <1>4, <1>5 DEF PiecesOf

\* The rows of a piece are a number.
LEMMA RowsOfPiece ==
  ASSUME IsCall(call), NEW k \in Copies, NEW row \in Starts(call.copies[k])
  PROVE  PieceRows(call.copies[k], row) \in Int
<1>1. PICK a \in Nat, p \in Nat : a = call.copies[k].rows /\ p = PlaceMaxRows
  <2>1. PlaceMaxRows \in Nat
    BY LayoutAssumption DEF PlaceMaxRows
  <2> QED
    BY <2>1, CopyFacts
<1>2. PICK x \in Int : row = (x - 1) * p
  BY <1>1 DEF Starts
<1>3. row \in Int
  BY <1>2
<1> QED
  BY <1>1, <1>3 DEF PieceRows

\* A copy that is cut adds its pieces to those of its source.
LEMMA CopyCut ==
  ASSUME IInv, [Next]_vars, AddPlaceCopies, NEW s \in Sources,
         NEW K \in SUBSET Copies,
         NEW k \in Copies, k = i, ~Skipped(call.copies[k]),
         s = SourceOf(call.copies[k]), phase' # "limit",
         PiecesOf(s, K)
  PROVE  PiecesOf(s, K \cup {k})'
<1> DEFINE c == call.copies[k]
           m == (c.rows - 1) \div PlaceMaxRows + 1
           starts == [x \in 1 .. m |-> (x - 1) * PlaceMaxRows]
           cut == [x \in 1 .. m |-> Piece(c, starts[x])]
<1>1. /\ phase = "place" /\ UNCHANGED <<call, base, direct, fell, routed>>
      /\ placed' = [placed EXCEPT ![s] = @ \o cut]
      /\ maxRows' = [maxRows EXCEPT ![s] = Tallest(@, c)]
      /\ \A x \in 1 .. m : ~TooLong(c, starts[x])
  BY DEF AddPlaceCopies, layout, decoded
<1>2. /\ CopyValid(c) /\ c.frame \in Frames /\ m \in Nat
      /\ c.rows \in Nat \ {0} /\ PlaceMaxRows \in Nat \ {0}
  BY <1>1, SourceFacts DEF IInv
<1>3. ASSUME NEW x \in 1 .. m
      PROVE  /\ starts[x] \in Nat /\ starts[x] < c.rows
             /\ PieceRows(c, starts[x]) <= PieceRows(c, 0)
             /\ PieceRows(c, 0) \in Nat /\ PieceRows(c, starts[x]) \in Nat
  <2>1. PICK a \in Nat \ {0}, p \in Nat \ {0} : a = c.rows /\ p = PlaceMaxRows
    BY <1>2
  <2>2. x \in 1 .. (a - 1) \div p + 1
    BY <2>1
  <2>3. (x - 1) * p \in Nat /\ (x - 1) * p < a
    BY <2>2, CountedPieces
  <2>4. PICK y \in Nat : y = starts[x] /\ y < a
    BY <2>1, <2>3
  <2>5. PieceRows(c, y) <= PieceRows(c, 0) /\ PieceRows(c, 0) \in Nat
        /\ PieceRows(c, y) \in Nat
    <3>1. PieceRows(c, y) = IF a - y < p THEN a - y ELSE p
      BY <2>1 DEF PieceRows
    <3>2. PieceRows(c, 0) = IF a - 0 < p THEN a - 0 ELSE p
      BY <2>1 DEF PieceRows
    <3> HIDE DEF c
    <3> QED
      BY <2>4, <3>1, <3>2
  <2> QED
    BY <2>1, <2>4, <2>5
<1>4. cut \in [1 .. m -> Pieces]
  <2>1. ASSUME NEW x \in 1 .. m PROVE Piece(c, starts[x]) \in Pieces
    <3>1. IsCall(call) /\ InputFacts /\ c.frame \in 1 .. Len(base)
          /\ CollectType
      BY <1>1, <1>2 DEF IInv, Checked, LoopInv, Frames, SlotInv, SlotType
    <3>2. starts[x] \in Nat /\ starts[x] < c.rows
      BY <1>3
    <3> HIDE DEF starts
    <3> QED
      BY <1>2, <3>1, <3>2, PieceType
  <2> HIDE DEF starts
  <2> QED
    BY <2>1
<1>5. /\ placed[s] \in Seq(Pieces) /\ maxRows[s] \in Nat
      /\ placed \in [Sources -> Seq(Pieces)]
      /\ maxRows \in [Sources -> 0 .. PlaceMaxRows]
  BY <1>2 DEF IInv, PieceInv
<1>6. Starts(c) = {starts[x] : x \in 1 .. m}
  BY DEF Starts
<1>7. \A x \in 1 .. m : cut[x] = Piece(c, starts[x])
  OBVIOUS
<1> HIDE DEF cut, starts, m
<1>8. PICK l \in Nat : l = Len(placed[s])
  BY <1>5
<1>9. /\ DOMAIN placed[s] = 1 .. l /\ DOMAIN (placed[s] \o cut) = 1 .. l + m
      /\ \A j \in 1 .. l : (placed[s] \o cut)[j] = placed[s][j]
      /\ \A j \in 1 .. m : (placed[s] \o cut)[l + j] = cut[j]
  BY <1>2, <1>4, <1>5, <1>8, JoinedAt
<1>10. /\ DOMAIN placed'[s] = 1 .. l + m
       /\ \A j \in 1 .. l : placed'[s][j] = placed[s][j]
       /\ \A j \in 1 .. m : placed'[s][l + j] = cut[j]
  BY <1>1, <1>5, <1>9
<1>11. PICK t \in Nat : /\ t = maxRows'[s] /\ maxRows[s] <= t
                        /\ PieceRows(c, 0) <= t
  <2>1. maxRows'[s] = Tallest(maxRows[s], c)
    BY <1>1, <1>5
  <2>2. PieceRows(c, 0) \in Nat
    BY <1>2 DEF PieceRows
  <2> QED
    BY <1>5, <2>1, <2>2 DEF Tallest
<1>12. TakesFrom(k, s)
  BY DEF TakesFrom
<1> HIDE DEF c
<1>13. ASSUME NEW g \in K \cup {k}, TakesFrom(g, s),
              NEW row \in Starts(call.copies[g])
       PROVE  /\ \E j \in 1 .. l + m :
                   placed'[s][j] = Piece(call.copies[g], row)
              /\ ~TooLong(call.copies[g], row)
              /\ PieceRows(call.copies[g], row) <= t
  <2>1. CASE g \in K
    <3>1. /\ \E j \in 1 .. l : placed[s][j] = Piece(call.copies[g], row)
          /\ ~TooLong(call.copies[g], row)
          /\ PieceRows(call.copies[g], row) <= maxRows[s]
      BY <1>9, <1>13, <2>1 DEF PiecesOf
    <3>2. PICK j \in 1 .. l : placed[s][j] = Piece(call.copies[g], row)
      BY <3>1
    <3>3. j \in 1 .. l + m /\ placed'[s][j] = Piece(call.copies[g], row)
      BY <1>2, <1>10, <3>2
    <3>4. PieceRows(call.copies[g], row) <= t
      <4>1. PieceRows(call.copies[g], row) \in Int
        BY <1>13, <2>1, RowsOfPiece DEF IInv, SlotInv, SlotType
      <4> QED
        BY <1>5, <1>11, <3>1, <4>1
    <3> QED
      BY <3>1, <3>3, <3>4
  <2>2. CASE g = k
    <3>1. PICK x \in 1 .. m : row = starts[x]
      BY <1>6, <1>13, <2>2 DEF c
    <3>2. placed'[s][l + x] = Piece(c, row) /\ l + x \in 1 .. l + m
      BY <1>2, <1>7, <1>10, <3>1
    <3>3. PieceRows(c, row) <= t
      BY <1>3, <1>11, <3>1
    <3> QED
      BY <1>1, <2>2, <3>1, <3>2, <3>3 DEF c
  <2> QED
    BY <2>1, <2>2
<1>14. ASSUME NEW j \in 1 .. l + m
       PROVE  \E g \in K \cup {k} : /\ TakesFrom(g, s)
                                    /\ \E row \in Starts(call.copies[g]) :
                                         placed'[s][j] =
                                           Piece(call.copies[g], row)
  <2>1. CASE j \in 1 .. l
    <3>1. \E g \in K : /\ TakesFrom(g, s)
                       /\ \E row \in Starts(call.copies[g]) :
                            placed[s][j] = Piece(call.copies[g], row)
      BY <1>9, <2>1 DEF PiecesOf
    <3>2. placed'[s][j] = placed[s][j]
      BY <1>10, <2>1
    <3> QED
      BY <3>1, <3>2
  <2>2. CASE j \notin 1 .. l
    <3>1. PICK x \in 1 .. m : j = l + x
      <4>1. j - l \in 1 .. m
        BY <1>2, <2>2
      <4> QED
        BY <4>1
    <3>2. placed'[s][j] = Piece(c, starts[x]) /\ starts[x] \in Starts(c)
      BY <1>6, <1>7, <1>10, <3>1
    <3> QED
      BY <1>12, <3>2 DEF c
  <2> QED
    BY <2>1, <2>2
<1>15. /\ \A g : TakesFrom(g, s)' <=> TakesFrom(g, s)
       /\ \A g, row : Piece(call.copies[g], row)' = Piece(call.copies[g], row)
       /\ \A g, row :
            TooLong(call.copies[g], row)' <=> TooLong(call.copies[g], row)
       /\ \A g : Starts(call.copies[g])' = Starts(call.copies[g])
       /\ \A g, row :
            PieceRows(call.copies[g], row)' = PieceRows(call.copies[g], row)
  BY <1>1, PiecesKept
<1>16. ASSUME NEW g \in K \cup {k}, TakesFrom(g, s)',
              NEW row \in Starts(call.copies[g])'
       PROVE  /\ \E j \in DOMAIN placed'[s] :
                   placed'[s][j] = Piece(call.copies[g], row)'
              /\ ~TooLong(call.copies[g], row)'
              /\ PieceRows(call.copies[g], row)' <= maxRows'[s]
  <2>1. TakesFrom(g, s) /\ row \in Starts(call.copies[g])
    BY <1>15, <1>16
  <2>2. /\ \E j \in 1 .. l + m : placed'[s][j] = Piece(call.copies[g], row)
        /\ ~TooLong(call.copies[g], row)
        /\ PieceRows(call.copies[g], row) <= t
    BY <1>13, <2>1
  <2>3. PICK j \in 1 .. l + m : placed'[s][j] = Piece(call.copies[g], row)
    BY <2>2
  <2>4. j \in DOMAIN placed'[s] /\ placed'[s][j] = Piece(call.copies[g], row)'
    BY <1>10, <1>15, <2>3
  <2>5. ~TooLong(call.copies[g], row)'
    BY <1>15, <2>2
  <2>6. PieceRows(call.copies[g], row)' <= maxRows'[s]
    BY <1>11, <1>15, <2>2
  <2> QED
    BY <2>4, <2>5, <2>6
<1>17. ASSUME NEW j \in DOMAIN placed'[s]
       PROVE  \E g \in K \cup {k} : /\ TakesFrom(g, s)'
                                    /\ \E row \in Starts(call.copies[g])' :
                                         placed'[s][j] =
                                           Piece(call.copies[g], row)'
  <2>1. PICK g \in K \cup {k} : /\ TakesFrom(g, s)
                                /\ \E row \in Starts(call.copies[g]) :
                                     placed'[s][j] = Piece(call.copies[g], row)
    BY <1>10, <1>14, <1>17
  <2>2. PICK row \in Starts(call.copies[g]) :
          placed'[s][j] = Piece(call.copies[g], row)
    BY <2>1
  <2>3. /\ TakesFrom(g, s)' /\ row \in Starts(call.copies[g])'
        /\ placed'[s][j] = Piece(call.copies[g], row)'
    BY <1>15, <2>1, <2>2
  <2> QED
    BY <2>3
<1> QED
  BY <1>16, <1>17 DEF PiecesOf

\* Pieces are those of the copies that were cut.
LEMMA PlacedStep ==
  ASSUME IInv, IInv', PlacedInv, [Next]_vars PROVE PlacedInv'
<1>1. /\ Copies' = Copies /\ Copies = 1 .. Len(call.copies)
      /\ Len(call.copies) \in Nat /\ Len(call'.copies) = Len(call.copies)
  BY CallKept, CopyCount DEF Copies, IInv, SlotInv, SlotType
<1>2. CASE CountPieces
  <2>1. /\ phase = "count" /\ placed' = placed
        /\ phase' = "place" => i' = 1
        /\ phase' \in {"place", "count"}
    BY <1>2 DEF CountPieces, copied, Step
  <2>2. CASE phase' = "place"
    <3>1. Added' = {}
      BY <2>1, <2>2 DEF Added
    <3>2. ASSUME NEW s \in Sources PROVE PiecesOf(s, {})'
      <4>1. DOMAIN placed'[s] = {}
        BY <2>1 DEF IInv, PieceInv
      <4> QED
        BY <4>1 DEF PiecesOf
    <3> QED
      BY <3>1, <3>2 DEF PlacedInv
  <2> QED
    BY <2>1, <2>2 DEF PlacedInv
<1>3. CASE AddPlaceCopies
  <2> SUFFICES ASSUME phase' # "limit" PROVE PlacedInv'
    BY DEF PlacedInv
  <2>1. PICK k \in Copies : k = i
    BY <1>3 DEF AddPlaceCopies, IInv, LoopInv
  <2>2. /\ phase = "place" /\ UNCHANGED <<base, direct, fell, routed>>
        /\ Added = 1 .. k - 1 /\ Step(Len(call.copies), "queue")
    BY <1>3, <2>1 DEF AddPlaceCopies, layout, decoded, Added
  <2>3. Added' = Added \cup {k} /\ Added \subseteq Copies
    <3>1. k \in Nat /\ k <= Len(call.copies) /\ k >= 1
      BY <1>1
    <3>2. (1 .. k - 1) \cup {k} = 1 .. k
      BY <3>1
    <3>3. CASE k = Len(call.copies)
      <4>1. phase' = "queue"
        BY <2>1, <2>2, <3>3 DEF Step
      <4>2. Added' = 1 .. k
        BY <1>1, <3>3, <4>1 DEF Added
      <4> QED
        BY <1>1, <2>2, <3>1, <3>2, <3>3, <4>2
    <3>4. CASE k # Len(call.copies)
      <4>1. phase' = "place" /\ i' = k + 1
        BY <2>1, <2>2, <3>4 DEF Step
      <4>2. i' - 1 = k
        BY <3>1, <4>1
      <4>3. Added' = 1 .. k
        BY <4>1, <4>2 DEF Added
      <4>4. 1 .. k - 1 \subseteq 1 .. Len(call.copies)
        BY <1>1, <3>1
      <4> QED
        BY <1>1, <2>2, <3>2, <4>3, <4>4
    <3> QED
      BY <3>3, <3>4
  <2>4. \A s \in Sources : PiecesOf(s, Added)
    BY <2>2 DEF PlacedInv
  <2>5. PICK K \in SUBSET Copies : K = Added
    BY <2>3
  <2>6. ASSUME NEW s \in Sources PROVE PiecesOf(s, K \cup {k})'
    <3>1. PiecesOf(s, K)
      BY <2>4, <2>5
    <3>2. CASE TakesFrom(k, s)
      <4>1. ~Skipped(call.copies[k]) /\ s = SourceOf(call.copies[k])
        BY <3>2 DEF TakesFrom
      <4> QED
        BY <1>3, <2>1, <3>1, <4>1, CopyCut
    <3>3. CASE ~TakesFrom(k, s)
      <4>1. placed'[s] = placed[s] /\ maxRows'[s] = maxRows[s]
        <5>1. \/ UNCHANGED copied
              \/ /\ ~Skipped(call.copies[k])
                 /\ \E e : placed' =
                      [placed EXCEPT ![SourceOf(call.copies[k])] = e]
                 /\ \E e : maxRows' =
                      [maxRows EXCEPT ![SourceOf(call.copies[k])] = e]
          BY <1>3, <2>1 DEF AddPlaceCopies
        <5>2. CASE UNCHANGED copied
          BY <5>2 DEF copied
        <5>3. CASE ~Skipped(call.copies[k])
          <6>1. s # SourceOf(call.copies[k])
            BY <3>3, <5>3 DEF TakesFrom
          <6> QED
            BY <5>1, <5>2, <6>1 DEF IInv, PieceInv
        <5> QED
          BY <5>1, <5>2, <5>3
      <4>2. /\ K \subseteq K \cup {k}
            /\ \A g \in (K \cup {k}) \ K : ~TakesFrom(g, s)
        BY <3>3
      <4> QED
        BY <2>2, <3>1, <4>1, <4>2, SourceKept
    <3> QED
      BY <3>2, <3>3
  <2>7. Added' = K \cup {k}
    BY <2>3, <2>5
  <2> QED
    BY <2>6, <2>7 DEF PlacedInv
<1>4. CASE Queue \/ Ended \/ UNCHANGED vars
  <2>1. UNCHANGED <<base, direct, fell, routed, placed, maxRows>>
    BY <1>4 DEF Queue, Ended, vars, layout, decoded, copied
  <2>2. CASE phase' \in {"place", "queue", "done"}
    <3>1. phase \in {"place", "queue", "done"} /\ Added' = Added
      BY <1>1, <1>4, <2>2 DEF Queue, Ended, vars, Added
    <3>2. PICK K : K = Added
      OBVIOUS
    <3>3. ASSUME NEW s \in Sources PROVE PiecesOf(s, K)'
      <4>1. PiecesOf(s, K)
        BY <3>1, <3>2 DEF PlacedInv
      <4> QED
        BY <2>1, <4>1, SourceKept
    <3> QED
      BY <3>1, <3>2, <3>3 DEF PlacedInv
  <2> QED
    BY <2>2 DEF PlacedInv
<1>5. CASE Validate \/ LayFrame \/ ChooseDirect \/ CollectFrame \/ ShiftPivco
           \/ Fail
  <2>1. phase' \notin {"place", "queue", "done"}
    BY <1>5 DEF Validate, LayFrame, ChooseDirect, CollectFrame, ShiftPivco,
       Fail, Step
  <2> QED
    BY <2>1 DEF PlacedInv
<1> QED
  BY <1>2, <1>3, <1>4, <1>5 DEF Next

\* The invariant behind what is delivered.
LaidOut ==
  CauseInv /\ SamplesInv /\ BaseInv /\ DirectPlaced /\ PlacedInv

\* A call that queued its work.
Finished == LaidOut /\ phase = "done"

\* A frame that is decoded into the target.
Straight(f) == direct /\ Route(f) \in DeviceRoutes

\* The source that a frame is held in.
HeldIn(f) == IF Route(f) \in DeviceRoutes THEN "device" ELSE Route(f)

\* What is known of a frame in the end.
LEMMA FinishedFacts ==
  ASSUME Finished, NEW f \in Frames
  PROVE  /\ IsCall(call) /\ InputFacts /\ Sample \in Nat \ {0}
         /\ Frames = 1 .. Len(base) /\ base[f] \in Nat /\ slot[f] \in Nat
         /\ f \in DOMAIN slot /\ f \in 1 .. Len(routed) /\ Frames \subseteq Nat
         /\ routed[f] \in DeviceRoutes \cup {"host"}
         /\ Route(f) \in DeviceRoutes \cup {"host", "fallback"}
         /\ Frame(f).decoded \in Nat /\ Frame(f).decoded % Sample = 0
         /\ out[f] \in Nat /\ PivcoOffset \in Nat /\ direct \in BOOLEAN
         /\ \A r \in DeviceRoutes \cup {"fallback"} : output[r] \in Nat
         /\ total["host"] \in Nat /\ SizeMax \in Nat
<1>1. /\ IsCall(call) /\ phase = "done" /\ IInv
      /\ InputFacts /\ Sample \in Nat \ {0}
  BY DEF Finished, LaidOut, CauseInv, IInv, SlotInv, SlotType, Checked,
     InputFacts
<1>2. /\ Len(base) = Len(call.frames) /\ Len(routed) = Len(call.frames)
      /\ Len(slot) = Len(routed) /\ Len(call.frames) \in Nat
      /\ base \in Seq(Nat) /\ slot \in Seq(Nat)
      /\ routed \in Seq(DeviceRoutes \cup {"host"})
  BY <1>1, CopyCount DEF IInv, LoopInv, CollectType, SlotInv, SlotType,
     SlotProgress
<1>3. /\ Frames = 1 .. Len(base) /\ base[f] \in Nat /\ slot[f] \in Nat
      /\ f \in DOMAIN slot /\ f \in 1 .. Len(routed)
      /\ routed[f] \in DeviceRoutes \cup {"host"}
  BY <1>2 DEF Frames
<1>4. Frame(f).decoded \in Nat /\ Frame(f).decoded % Sample = 0
  BY <1>1, FrameFacts DEF Frames, InputFacts
<1>5. /\ out[f] \in Nat /\ direct \in BOOLEAN
      /\ \A r \in DeviceRoutes \cup {"fallback"} : output[r] \in Nat
      /\ total["host"] \in Nat
  BY <1>1 DEF IInv, CollectType, SlotInv, SlotType
<1>6. PivcoOffset \in Nat /\ SizeMax \in Nat
  BY <1>1, ScratchFits, LayoutAssumption
<1>7. Route(f) \in DeviceRoutes \cup {"host", "fallback"}
  BY <1>3 DEF Route
<1> QED
  BY <1>1, <1>2, <1>3, <1>4, <1>5, <1>6, <1>7

\* PivCo starts at a whole sample, behind what PFOR decodes.
LEMMA ScratchStarts ==
  ASSUME Finished, ~direct
  PROVE  /\ output["pfor"] <= PivcoOffset
         /\ Used("pivco") # {} => PivcoOffset % Sample = 0
<1>1. IInv /\ RangeInv
  BY DEF Finished, LaidOut, CauseInv
<1>2. PICK p \in Nat, m \in Nat, w \in Nat, a \in Nat \ {0}, x \in Nat :
        /\ p = output["pfor"] /\ m = SizeMax /\ w = Word /\ a = StagingAlign
        /\ x = PivcoOffset /\ p <= w /\ w <= m /\ x = RoundUp(p, a)
        /\ a % 2 = 0
  <2>1. output["pfor"] \in Nat /\ output["pfor"] <= Word
    <3>1. PICK p \in Nat, l \in Nat, k \in Nat, b \in Nat :
            /\ p = output["pfor"] /\ l = lanes /\ k = output["fallback"]
            /\ b = Budget /\ p + l + k <= b
      BY <1>1, WithinBudget DEF Bounded
    <3>2. b <= Word
      BY <3>1, LayoutAssumption DEF Budget
    <3> QED
      BY <3>1, <3>2, LayoutAssumption
  <2> QED
    BY <1>1, <2>1, ScratchFits, LayoutAssumption DEF PivcoOffset
<1>3. p <= x /\ (x < m => \E q \in Nat : x = q * a)
  <2>1. p <= SizeMax
    BY <1>2
  <2>2. /\ p <= RoundUp(p, a)
        /\ RoundUp(p, a) < SizeMax => \E q \in Nat : RoundUp(p, a) = q * a
    BY <2>1, RoundUpFacts
  <2> QED
    BY <1>2, <2>2
<1>4. ASSUME Used("pivco") # {} PROVE PivcoOffset % Sample = 0
  <2>1. x < m
    <3>1. DeviceBytes <= Word /\ DeviceBytes = PivcoOffset + ResultBytes
      BY <1>1, <1>4, ScratchFits DEF DeviceBytes
    <3>2. ResultBytes \in Nat \ {0}
      <4>1. output["pivco"] \in Nat /\ lanes \in Nat /\ LanePad \in Nat \ {0}
        BY <1>1, WithinBudget, LayoutAssumption DEF Bounded
      <4> QED
        BY <4>1 DEF ResultBytes
    <3>3. PICK y \in Nat \ {0} : y = ResultBytes
      BY <3>2
    <3>4. x + y <= w
      BY <1>2, <3>1, <3>3
    <3> QED
      BY <1>2, <3>3, <3>4
  <2>2. PICK q \in Nat : x = q * a
    BY <1>3, <2>1
  <2>3. Sample \in {1, 2}
    <3>1. PICK f \in Frames : Route(f) = "pivco"
      BY <1>4 DEF Used
    <3>2. routed[f] \in DeviceRoutes /\ f \in 1 .. Len(routed)
      BY <3>1, FinishedFacts DEF Route, DeviceRoutes
    <3> QED
      BY <3>2 DEF Finished, LaidOut, SamplesInv
  <2>4. CASE Sample = 1
    BY <1>2, <2>4
  <2>5. CASE Sample = 2
    <3>1. PICK h \in Nat : a = h * 2
      BY <1>2, Multiples
    <3>2. PICK n \in Nat : n = q * h
      OBVIOUS
    <3>3. q * (h * 2) = (q * h) * 2
      OBVIOUS
    <3>4. x = n * 2
      BY <2>2, <3>1, <3>2, <3>3
    <3> QED
      BY <1>2, <2>5, <3>4, MultipleOf
  <2> QED
    BY <2>3, <2>4, <2>5
<1> QED
  BY <1>2, <1>3, <1>4

\* Where frames lie, in whole samples, and where they end.
LEMMA FrameStarts ==
  ASSUME Finished, NEW f \in Frames, ~Straight(f)
  PROVE  /\ WrittenAt(f) = base[f] /\ base[f] % Sample = 0
         /\ base[f] + Frame(f).decoded <= SourceBytes(HeldIn(f))
         /\ Route(f) = "pfor" =>
              base[f] + Frame(f).decoded <= PivcoOffset
         /\ Route(f) = "pivco" => PivcoOffset <= base[f]
<1>1. /\ Sample \in Nat \ {0} /\ base[f] \in Nat /\ out[f] \in Nat
      /\ Route(f) \in DeviceRoutes \cup {"host", "fallback"}
      /\ Frame(f).decoded \in Nat /\ PivcoOffset \in Nat
      /\ \A r \in DeviceRoutes \cup {"fallback"} : output[r] \in Nat
      /\ f \in 1 .. Len(base) /\ f \in DOMAIN slot
  BY FinishedFacts
<1>2. PICK b : /\ b = [g \in Frames |-> base[g] - Behind(g)] /\ Packed(b)
               /\ b[f] = base[f] - Behind(f)
  BY DEF Finished, LaidOut, BaseInv, Shifted
<1>3. /\ b[f] % Sample = 0
      /\ Route(f) = "host" => b[f] = slot[f]
      /\ Route(f) # "host" => b[f] + Frame(f).decoded <= output[Route(f)]
      /\ Route(f) \in DeviceRoutes /\ ~direct => out[f] * Sample = b[f]
  BY <1>1, <1>2 DEF Packed
<1>4. CASE Route(f) = "host"
  <2>1. b[f] = base[f] /\ base[f] = slot[f]
    BY <1>1, <1>2, <1>3, <1>4 DEF Behind
  <2>2. routed[f] = "host"
    BY <1>4 DEF Route
  <2>3. slot[f] + Frame(f).decoded <= total["host"]
    BY <1>1, <2>2 DEF Finished, LaidOut, CauseInv, IInv, SlotInv, SlotsApart,
       Needs
  <2> QED
    BY <1>3, <1>4, <2>1, <2>3 DEF WrittenAt, SourceBytes, HeldIn, DeviceRoutes
<1>5. CASE Route(f) = "fallback"
  <2>1. b[f] = base[f]
    BY <1>1, <1>2, <1>5 DEF Behind
  <2> QED
    BY <1>3, <1>5, <2>1 DEF WrittenAt, SourceBytes, HeldIn, DeviceRoutes
<1>6. CASE Route(f) = "pfor"
  <2>1. b[f] = base[f] /\ ~direct
    BY <1>1, <1>2, <1>6 DEF Behind, Straight, DeviceRoutes
  <2>2. /\ out[f] * Sample = base[f]
        /\ base[f] + Frame(f).decoded <= output["pfor"]
    BY <1>3, <1>6, <2>1 DEF DeviceRoutes
  <2>3. output["pfor"] <= PivcoOffset /\ output["pfor"] \in Nat
    BY <1>1, <2>1, ScratchStarts DEF DeviceRoutes
  <2>4. base[f] + Frame(f).decoded <= DeviceBytes
    <3>1. ResultBytes \in Nat
      <4>1. output["pivco"] \in Nat /\ lanes \in Nat /\ LanePad \in Nat \ {0}
        BY WithinBudget, LayoutAssumption
           DEF Bounded, Finished, LaidOut, CauseInv
      <4> QED
        BY <4>1 DEF ResultBytes
    <3> QED
      BY <1>1, <2>1, <2>2, <2>3, <3>1 DEF DeviceBytes
  <2> QED
    BY <1>1, <1>3, <1>6, <2>1, <2>2, <2>3, <2>4
       DEF WrittenAt, SourceBytes, HeldIn, DeviceRoutes
<1>7. CASE Route(f) = "pivco"
  <2>1. ~direct /\ Behind(f) = PivcoOffset
    BY <1>7 DEF Behind, Straight, DeviceRoutes
  <2>2. PICK a \in Nat, x \in Nat, d \in Nat, z \in Nat \ {0}, v \in Nat :
          /\ a = out[f] * Sample /\ x = PivcoOffset /\ d = Frame(f).decoded
          /\ z = Sample /\ v = output["pivco"]
          /\ base[f] = x + a /\ a % z = 0 /\ a + d <= v
    <3>1. /\ out[f] * Sample \in Nat /\ output["pivco"] \in Nat
          /\ out[f] * Sample = b[f] /\ b[f] % Sample = 0
          /\ b[f] + Frame(f).decoded <= output["pivco"]
      <4>1. "pivco" \in DeviceRoutes /\ output["pivco"] \in Nat
        BY <1>1 DEF DeviceRoutes
      <4>2. PICK a \in Nat, z \in Nat : a = out[f] /\ z = Sample
        BY <1>1
      <4>3. a * z \in Nat
        OBVIOUS
      <4> QED
        BY <1>3, <1>7, <2>1, <4>1, <4>2, <4>3
    <3>2. b[f] = base[f] - PivcoOffset
      BY <1>2, <2>1
    <3>3. PICK a \in Nat, x \in Nat, y \in Nat :
            a = out[f] * Sample /\ x = PivcoOffset /\ y = base[f]
      BY <1>1, <3>1
    <3>4. y = x + a
      BY <3>1, <3>2, <3>3
    <3> QED
      BY <1>1, <3>1, <3>3, <3>4
  <2>3. x % z = 0 /\ Used("pivco") # {}
    BY <1>7, <2>1, <2>2, ScratchStarts DEF Used
  <2>4. (x + a) % z = 0
    BY <2>2, <2>3, WholeSum
  <2>5. v <= ResultBytes /\ ResultBytes \in Nat
    <3>1. lanes \in Nat /\ LanePad \in Nat \ {0}
      BY WithinBudget, LayoutAssumption
         DEF Bounded, Finished, LaidOut, CauseInv
    <3> QED
      BY <2>2, <3>1 DEF ResultBytes
  <2>6. DeviceBytes = x + ResultBytes
    BY <2>2, <2>3 DEF DeviceBytes
  <2> QED
    BY <1>7, <2>2, <2>4, <2>5, <2>6
       DEF WrittenAt, SourceBytes, HeldIn, DeviceRoutes
<1> QED
  BY <1>1, <1>4, <1>5, <1>6, <1>7 DEF DeviceRoutes

\* It holds of a call that was not looked at, and every step keeps it.
LEMMA LaidOutInit == Init => LaidOut
<1> SUFFICES ASSUME Init PROVE LaidOut
  OBVIOUS
<1>1. CauseInv
  BY CauseInit
<1>2. SamplesInv
  <2>1. phase = "validate" /\ fell = {} /\ total["host"] = 0
    BY DEF Init
  <2>2. \A r \in DeviceRoutes \cup {"fallback"} : output[r] = 0
    BY DEF Init
  <2> QED
    BY <2>1, <2>2 DEF SamplesInv
<1>3. BaseInv /\ DirectPlaced /\ PlacedInv
  BY DEF Init, BaseInv, DirectPlaced, PlacedInv, Collected, Shifted
<1> QED
  BY <1>1, <1>2, <1>3 DEF LaidOut

LEMMA LaidOutStep == LaidOut /\ [Next]_vars => LaidOut'
<1> SUFFICES ASSUME LaidOut, [Next]_vars PROVE LaidOut'
  OBVIOUS
<1>1. CauseInv' /\ IInv /\ IInv'
  BY CauseStep DEF LaidOut, CauseInv
<1>2. SamplesInv'
  BY <1>1, SamplesStep DEF LaidOut
<1>3. BaseInv'
  BY <1>1, BaseStep DEF LaidOut
<1>4. DirectPlaced'
  BY <1>1, DirectStep DEF LaidOut
<1>5. PlacedInv'
  BY <1>1, PlacedStep DEF LaidOut
<1> QED
  BY <1>1, <1>2, <1>3, <1>4, <1>5 DEF LaidOut

\* Two frames of a source share no byte of it.
LEMMA HeldApart ==
  ASSUME Finished, NEW f \in Frames, NEW g \in Frames, f < g,
         HeldIn(f) = HeldIn(g), ~Straight(f), ~Straight(g)
  PROVE  \/ base[f] + Frame(f).decoded <= base[g]
         \/ base[g] + Frame(g).decoded <= base[f]
<1>1. /\ base[f] \in Nat /\ base[g] \in Nat /\ PivcoOffset \in Nat
      /\ Route(f) \in DeviceRoutes \cup {"host", "fallback"}
      /\ Route(g) \in DeviceRoutes \cup {"host", "fallback"}
      /\ Frame(f).decoded \in Nat /\ Frame(g).decoded \in Nat
      /\ f \in 1 .. Len(base) /\ f \in DOMAIN slot
      /\ g \in 1 .. Len(base) /\ g \in DOMAIN slot
      /\ g \in f + 1 .. Len(base)
  <2>1. base \in Seq(Nat)
    BY DEF Finished, LaidOut, CauseInv, IInv, CollectType
  <2>2. Len(base) \in Nat
    BY <2>1
  <2>3. f \in 1 .. Len(base) /\ g \in 1 .. Len(base)
    BY FinishedFacts
  <2> QED
    BY <2>2, <2>3, FinishedFacts
<1>2. PICK b : /\ b = [h \in Frames |-> base[h] - Behind(h)] /\ Packed(b)
               /\ b[f] = base[f] - Behind(f) /\ b[g] = base[g] - Behind(g)
  BY DEF Finished, LaidOut, BaseInv, Shifted
<1>3. CASE Route(f) = Route(g) /\ Route(f) = "host"
  <2>1. routed[f] = "host" /\ routed[g] = "host"
    BY <1>3 DEF Route
  <2>2. slot[f] + Frame(f).decoded <= slot[g]
    BY <1>1, <2>1 DEF Finished, LaidOut, CauseInv, IInv, SlotInv, SlotsApart,
       Needs
  <2>3. b[f] = slot[f] /\ b[g] = slot[g]
    BY <1>1, <1>2, <1>3 DEF Packed
  <2>4. b[f] = base[f] /\ b[g] = base[g]
    BY <1>1, <1>2, <1>3 DEF Behind
  <2> QED
    BY <2>2, <2>3, <2>4
<1>4. CASE Route(f) = Route(g) /\ Route(f) # "host"
  <2>1. b[f] + Frame(f).decoded <= b[g]
    BY <1>1, <1>2, <1>4 DEF Packed
  <2>2. PICK h \in Nat : h = Behind(f) /\ h = Behind(g)
    BY <1>1, <1>4 DEF Behind
  <2> QED
    BY <1>1, <1>2, <2>1, <2>2
<1>5. CASE Route(f) # Route(g)
  <2>1. \/ Route(f) = "pfor" /\ Route(g) = "pivco"
        \/ Route(g) = "pfor" /\ Route(f) = "pivco"
    BY <1>1, <1>5 DEF HeldIn, DeviceRoutes
  <2>2. /\ Route(f) = "pfor" => base[f] + Frame(f).decoded <= PivcoOffset
        /\ Route(g) = "pfor" => base[g] + Frame(g).decoded <= PivcoOffset
        /\ Route(f) = "pivco" => PivcoOffset <= base[f]
        /\ Route(g) = "pivco" => PivcoOffset <= base[g]
    BY FrameStarts
  <2> QED
    BY <1>1, <2>1, <2>2
<1> QED
  BY <1>3, <1>4, <1>5

\* Frames that are apart have no sample in common.
LEMMA NoneShared ==
  ASSUME NEW z \in Nat \ {0}, NEW a \in Nat, NEW b \in Nat, NEW d \in Nat,
         NEW e \in Nat, NEW m \in Nat, NEW n \in Nat,
         m * z < d, n * z < e, a + d <= b \/ b + e <= a
  PROVE  a + m * z # b + n * z
<1>1. PICK x \in Nat, y \in Nat : x = m * z /\ y = n * z
  OBVIOUS
<1> QED
  BY <1>1

\* A sample of a frame is within it.
LEMMA SampleWithin ==
  ASSUME NEW z \in Nat \ {0}, NEW d \in Nat, d % z = 0
  PROVE  /\ d \div z \in Nat /\ d = (d \div z) * z
         /\ \A n \in Nat : n \in 0 .. d \div z - 1 <=> n * z < d
         /\ \A n \in Nat : n \in 0 .. d \div z - 1 <=> n * z + z <= d
<1>1. PICK q \in Nat : q = d \div z /\ d = q * z
  <2>1. PICK q \in Nat : q = d \div z /\ d = (z * q) + (d % z)
    OBVIOUS
  <2> QED
    BY <2>1
<1>2. ASSUME NEW n \in Nat
      PROVE  /\ n \in 0 .. q - 1 <=> n * z < d
             /\ n \in 0 .. q - 1 <=> n * z + z <= d
  <2>1. CASE n < q
    <3>1. z * (n + 1) <= z * q
      BY <2>1, Product
    <3>2. z * (n + 1) = n * z + z /\ z * q = q * z /\ n * z \in Nat
      OBVIOUS
    <3> QED
      BY <1>1, <2>1, <3>1, <3>2
  <2>2. CASE n >= q
    <3>1. z * q <= z * n
      BY <2>2, Product
    <3>2. z * q = q * z /\ z * n = n * z /\ n * z \in Nat /\ q * z \in Nat
      OBVIOUS
    <3> QED
      BY <1>1, <2>2, <3>1, <3>2
  <2> QED
    BY <2>1, <2>2
<1> QED
  BY <1>1, <1>2

\* The source holds each sample of a frame once, and only that at its place.
LEMMA HoldsOne ==
  ASSUME Finished, NEW f \in Frames, ~Straight(f), NEW j \in Samples(f)
  PROVE  Holds(HeldIn(f), base[f] \div Sample + j) = {<<f, j>>}
<1>1. PICK z \in Nat \ {0}, a \in Nat, d \in Nat :
        /\ z = Sample /\ a = base[f] /\ d = Frame(f).decoded
        /\ a % z = 0 /\ d % z = 0
  BY FinishedFacts, FrameStarts
<1>2. PICK q \in Nat : q = a \div z /\ a = q * z
  BY <1>1, SampleWithin
<1>3. PICK n \in Nat : n = q + j /\ j \in Nat
  BY <1>1, SampleWithin DEF Samples
<1>4. j * z < d /\ j * z + z <= d /\ n * z = a + j * z /\ j * z \in Nat
  <2>1. (q + j) * z = q * z + j * z /\ j * z \in Nat
    BY <1>3
  <2> QED
    BY <1>1, <1>2, <1>3, <2>1, SampleWithin DEF Samples
<1>5. ASSUME NEW g \in Frames, HeldIn(g) = HeldIn(f), NEW x \in Samples(g),
             WrittenAt(g) = (n - x) * z
      PROVE  g = f /\ x = j
  <2>1. ~Straight(g)
    <3>1. Route(f) \in DeviceRoutes \cup {"host", "fallback"}
          /\ Route(g) \in DeviceRoutes \cup {"host", "fallback"}
      BY FinishedFacts
    <3> QED
      BY <1>5, <3>1 DEF Straight, HeldIn, DeviceRoutes
  <2>2. PICK b \in Nat, e \in Nat :
          /\ b = base[g] /\ e = Frame(g).decoded /\ e % z = 0
          /\ b = (n - x) * z
    BY <1>1, <1>5, <2>1, FinishedFacts, FrameStarts
  <2>3. x \in Nat /\ x * z < e /\ x * z \in Nat
    BY <1>1, <2>2, SampleWithin DEF Samples
  <2>4. b + x * z = a + j * z
    <3>1. (n - x) * z + x * z = n * z
      BY <2>3
    <3> QED
      BY <1>4, <2>2, <3>1
  <2>5. CASE g # f
    <3>1. a + d <= b \/ b + e <= a
      <4>1. f \in Nat /\ g \in Nat
        BY FinishedFacts
      <4>2. f < g \/ g < f
        BY <2>5, <4>1
      <4> QED
        BY <1>1, <1>5, <2>1, <2>2, <4>2, HeldApart
    <3>2. a + j * z # b + x * z
      BY <1>3, <1>4, <2>3, <3>1, NoneShared
    <3> QED
      BY <2>4, <3>2
  <2>6. CASE g = f
    <3>1. x * z = j * z
      <4>1. b = a
        BY <1>1, <2>2, <2>6
      <4>2. PICK u \in Nat, v \in Nat : u = x * z /\ v = j * z
        BY <1>4, <2>3
      <4> QED
        BY <2>4, <4>1, <4>2
    <3>2. x = j
      <4>1. CASE x < j
        <5>1. z * (x + 1) <= z * j /\ z * (x + 1) = x * z + z
          BY <1>3, <2>3, <4>1, Product
        <5> QED
          BY <1>3, <2>3, <3>1, <5>1
      <4>2. CASE j < x
        <5>1. z * (j + 1) <= z * x /\ z * (j + 1) = j * z + z
          BY <1>3, <2>3, <4>2, Product
        <5> QED
          BY <1>3, <2>3, <3>1, <5>1
      <4> QED
        BY <1>3, <2>3, <4>1, <4>2
    <3> QED
      BY <2>6, <3>2
  <2> QED
    BY <2>5, <2>6
<1>6. \A g \in Frames :
        Route(g) = HeldIn(f)
          \/ (HeldIn(f) = "device" /\ Route(g) \in DeviceRoutes)
          <=> HeldIn(g) = HeldIn(f)
  <2>1. ASSUME NEW g \in Frames
        PROVE  Route(g) = HeldIn(f)
                 \/ (HeldIn(f) = "device" /\ Route(g) \in DeviceRoutes)
                   <=> HeldIn(g) = HeldIn(f)
    <3>1. Route(f) \in DeviceRoutes \cup {"host", "fallback"}
          /\ Route(g) \in DeviceRoutes \cup {"host", "fallback"}
      BY FinishedFacts
    <3> QED
      BY <3>1 DEF HeldIn, DeviceRoutes
  <2> QED
    BY <2>1
<1>7. WrittenAt(f) = (n - j) * z
  <2>1. n - j = q
    BY <1>3
  <2>2. WrittenAt(f) = base[f]
    BY FrameStarts
  <2> QED
    BY <1>1, <1>2, <2>1, <2>2
<1>8. ~Clobbered(f, n * z)
  <2>1. CASE Route(f) = "pfor"
    <3>1. a + d <= PivcoOffset /\ PivcoOffset \in Nat
      BY <1>1, <2>1, FrameStarts, FinishedFacts
    <3> QED
      BY <1>1, <1>4, <3>1 DEF Clobbered
  <2> QED
    BY <2>1 DEF Clobbered
<1>9. (n + 1) * z <= SourceBytes(HeldIn(f))
  <2>1. (n + 1) * z = n * z + z
    OBVIOUS
  <2>2. a + d <= SourceBytes(HeldIn(f))
    BY <1>1, FrameStarts
  <2>3. SourceBytes(HeldIn(f)) \in Nat
    <3>1. HeldIn(f) \in {"device", "host", "fallback"}
      BY FinishedFacts DEF HeldIn
    <3>2. output["pfor"] \in Nat /\ output["fallback"] \in Nat
          /\ total["host"] \in Nat /\ PivcoOffset \in Nat
      BY FinishedFacts DEF DeviceRoutes
    <3>3. ResultBytes \in Nat
      <4>1. output["pivco"] \in Nat /\ lanes \in Nat /\ LanePad \in Nat
        BY WithinBudget, LayoutAssumption
           DEF Bounded, Finished, LaidOut, CauseInv
      <4> QED
        BY <4>1 DEF ResultBytes
    <3> QED
      BY <3>1, <3>2, <3>3 DEF SourceBytes, DeviceBytes
  <2> QED
    BY <1>1, <1>4, <2>1, <2>2, <2>3
<1>10. Holds(HeldIn(f), n) =
         {h \in UNION {{g} \X Samples(g) : g \in {g \in Frames :
                                              HeldIn(g) = HeldIn(f)}} :
            /\ WrittenAt(h[1]) = (n - h[2]) * z
            /\ ~Clobbered(h[1], n * z)
            /\ (n + 1) * z <= SourceBytes(HeldIn(f))}
  BY <1>1, <1>6 DEF Holds
<1>11. ASSUME NEW h \in Holds(HeldIn(f), n) PROVE h = <<f, j>>
  <2>1. PICK g \in Frames : HeldIn(g) = HeldIn(f) /\ h \in {g} \X Samples(g)
    BY <1>10, <1>11
  <2>2. PICK x \in Samples(g) : h = <<g, x>>
    BY <2>1
  <2>3. WrittenAt(g) = (n - x) * z
    BY <1>10, <1>11, <2>2
  <2> QED
    BY <1>5, <2>1, <2>2, <2>3
<1>12. <<f, j>> \in Holds(HeldIn(f), n)
  <2>1. <<f, j>> \in {f} \X Samples(f)
    OBVIOUS
  <2> QED
    BY <1>7, <1>8, <1>9, <1>10, <2>1
<1> QED
  BY <1>1, <1>2, <1>3, <1>11, <1>12

-----------------------------------------------------------------------------
(* What a piece asks of the place kernel                                   *)

\* A multiple is divided exactly.
LEMMA DivideMultiple ==
  ASSUME NEW q \in Nat, NEW z \in Nat \ {0}
  PROVE  q * z \in Nat /\ (q * z) \div z = q
OBVIOUS

\* Bytes as the kernel counts them.
Words(n) == (n \div Sample) % (Word + 1)

\* The words of a step that is taken at all.
WordsOf(n, steps) == IF steps > 1 THEN Words(n) ELSE 0

\* A step whose last multiple fits is itself a word.
LEMMA StepFits ==
  ASSUME NEW z \in Nat \ {0}, z = Sample, NEW r \in Nat, NEW p \in Nat \ {0},
         (p - 1) * r <= Word, NEW j \in 0 .. p - 1
  PROVE  j * WordsOf(r * z, p) = j * r /\ j * r \in Nat
           /\ j * r <= (p - 1) * r /\ (p - 1) * r \in Nat
<1>1. PICK w \in Nat : w = Word
  BY LayoutAssumption
<1>2. PICK h \in Nat : h = p - 1 /\ j <= h /\ j \in Nat
  OBVIOUS
<1>3. r * j <= r * h /\ r * j \in Nat /\ r * h \in Nat
  BY <1>2, Product
<1>4. CASE p > 1
  <2>1. r * 1 <= r * h
    BY <1>2, <1>4, Product
  <2>2. r <= w
    BY <1>1, <1>2, <1>3, <2>1
  <2>3. r % (w + 1) = r
    <3>1. PICK m \in Nat \ {0} : m = w + 1 /\ r < m
      BY <2>2
    <3> QED
      BY <3>1, SmallRemainder
  <2>4. (r * z) \div z = r
    BY DivideMultiple
  <2>5. WordsOf(r * z, p) = r
    BY <1>1, <1>4, <2>3, <2>4 DEF WordsOf, Words
  <2> QED
    BY <1>2, <1>3, <2>5
<1>5. CASE p = 1
  <2>1. WordsOf(r * z, p) = 0 /\ j = 0
    BY <1>5 DEF WordsOf
  <2> QED
    BY <1>2, <1>3, <2>1
<1> QED
  BY <1>4, <1>5

\* Row j and column x of a piece of p rows from `row` on, in a rectangle of n
\* by w samples that starts b + o samples into its buffer; bz to sz are the
\* bytes of b, o, r and s samples.
AsksFor(z, b, o, n, r, w, s, bz, oz, rz, sz, row, p, e, j, x) ==
  /\ z \in Nat \ {0} /\ z = Sample
  /\ b \in Nat /\ o \in Nat /\ r \in Nat /\ s \in Nat
  /\ n \in Nat \ {0} /\ w \in Nat \ {0} /\ p \in Nat \ {0}
  /\ bz \in Nat /\ oz \in Nat /\ rz \in Nat /\ sz \in Nat
  /\ bz = b * z /\ oz = o * z /\ rz = r * z /\ sz = s * z
  /\ bz + Last(oz, n, rz, w, sz) + Sample <= SizeMax
  /\ row \in Nat /\ e \in Nat /\ e = row + p /\ e <= n
  /\ ~(SpanEnd(StartOf(bz, oz, row, rz), p, rz, w, sz) \div Sample > Word)
  /\ j \in 0 .. p - 1 /\ x \in 0 .. w - 1

\* The kernel finds the samples of a piece where its copy has them.
LEMMA WordAddress ==
  ASSUME NEW z, NEW b, NEW o, NEW n, NEW r, NEW w, NEW s, NEW bz, NEW oz,
         NEW rz, NEW sz, NEW row, NEW p, NEW e, NEW j, NEW x,
         AsksFor(z, b, o, n, r, w, s, bz, oz, rz, sz, row, p, e, j, x)
  PROVE  (Words(StartOf(bz, oz, row, rz)) + j * WordsOf(rz, p)
            + x * WordsOf(sz, w)) % (Word + 1)
           = b + o + (row + j) * r + x * s
<1> USE DEF AsksFor
<1>1. PICK m \in Nat, u \in Nat : m = SizeMax /\ u = Word
  BY LayoutAssumption
<1>2. PICK g \in Nat, h \in Nat, t \in Nat :
        g = p - 1 /\ h = w - 1 /\ t = row * r
  OBVIOUS
<1>3. PICK y \in Nat, v \in Nat : y = g * r /\ v = h * s
  OBVIOUS
<1>4. PICK a \in Nat : a = b + o + t
  OBVIOUS
<1>5. bz \in Nat /\ oz \in Nat /\ rz \in Nat /\ sz \in Nat
      /\ a * z \in Nat
  OBVIOUS
<1>6. EndsAt(bz, oz, n, rz, w, sz, row, p, e)
  BY <1>5, PieceEnd
<1>7. SpanEnd(StartOf(bz, oz, row, rz), p, rz, w, sz)
        = (a + y + v + 1) * z
  <2>1. SpanEnd(StartOf(bz, oz, row, rz), p, rz, w, sz)
          = bz + Last(oz, e, rz, w, sz) + z
    BY <1>6 DEF EndsAt
  <2>2. Last(oz, e, rz, w, sz)
          = oz + (row + g) * rz + h * sz
    BY <1>2 DEF Last
  <2>3. (row + g) * rz = t * z + y * z
    <3>1. (row + g) * rz = ((row + g) * r) * z
      OBVIOUS
    <3>2. (row + g) * r = t + y
      BY <1>2, <1>3
    <3> QED
      BY <3>1, <3>2
  <2>4. h * sz = v * z
    BY <1>3
  <2>5. bz + (oz + (t * z + y * z) + v * z) + z = (a + y + v + 1) * z
    BY <1>4
  <2> QED
    BY <2>1, <2>2, <2>3, <2>4, <2>5
<1>8. a + y + v + 1 <= u
  <2>1. PICK q \in Nat : q = a + y + v + 1
    OBVIOUS
  <2>2. (q * z) \div z = q
    BY DivideMultiple
  <2> QED
    BY <1>1, <1>7, <2>1, <2>2
<1>9. StartOf(bz, oz, row, rz) = a * z
  <2>1. bz + oz + row * rz = a * z
    <3>1. row * rz = t * z
      BY <1>2
    <3> QED
      BY <1>4, <3>1
  <2>2. a * z <= m
    <3>1. /\ Last(oz, e, rz, w, sz) \in Nat
          /\ Last(oz, n, rz, w, sz) \in Nat
          /\ Last(oz, e, rz, w, sz) <= Last(oz, n, rz, w, sz)
      BY <1>6 DEF EndsAt
    <3>2. bz + Last(oz, e, rz, w, sz) + z = (a + y + v + 1) * z
      BY <1>6, <1>7 DEF EndsAt
    <3>3. (a + y + v + 1) * z <= m
      BY <1>1, <1>5, <3>1, <3>2
    <3>4. (a + y + v + 1) * z = a * z + (y + v + 1) * z
          /\ (y + v + 1) * z \in Nat
      OBVIOUS
    <3> QED
      BY <1>1, <1>5, <3>3, <3>4
  <2>3. (a * z) % (m + 1) = a * z
    <3>1. PICK c \in Nat, k \in Nat \ {0} : c = a * z /\ k = m + 1 /\ c < k
      BY <1>5, <2>2
    <3> QED
      BY <3>1, SmallRemainder
  <2> QED
    BY <1>1, <2>1, <2>3 DEF StartOf
<1>10. Words(a * z) = a
  <2>1. (a * z) \div z = a
    BY DivideMultiple
  <2>2. PICK k \in Nat \ {0} : k = u + 1 /\ a < k
    BY <1>8
  <2>3. a % k = a
    BY <2>2, SmallRemainder
  <2> QED
    BY <1>1, <2>1, <2>2, <2>3 DEF Words
<1>11. /\ j * WordsOf(rz, p) = j * r /\ j * r \in Nat /\ j * r <= y
       /\ x * WordsOf(sz, w) = x * s /\ x * s \in Nat /\ x * s <= v
  <2>1. (p - 1) * r <= Word /\ (w - 1) * s <= Word
    BY <1>1, <1>2, <1>3, <1>8
  <2>2. /\ j * WordsOf(rz, p) = j * r /\ j * r \in Nat
        /\ j * r <= (p - 1) * r
    BY <2>1, StepFits
  <2>3. /\ x * WordsOf(sz, w) = x * s /\ x * s \in Nat
        /\ x * s <= (w - 1) * s
    BY <2>1, StepFits
  <2> QED
    BY <1>2, <1>3, <2>2, <2>3
<1>12. PICK c \in Nat : c = a + j * r + x * s /\ c <= u
  <2>1. PICK k \in Nat, l \in Nat : k = j * r /\ l = x * s /\ k <= y /\ l <= v
    BY <1>11
  <2> QED
    BY <1>8, <2>1
<1>13. c % (u + 1) = c
  <2>1. PICK k \in Nat \ {0} : k = u + 1 /\ c < k
    BY <1>12
  <2> QED
    BY <2>1, SmallRemainder
<1>14. b + o + (row + j) * r + x * s = c
  <2>1. (row + j) * r = t + j * r
    BY <1>2
  <2> QED
    BY <1>4, <1>12, <2>1
<1> QED
  BY <1>1, <1>9, <1>10, <1>11, <1>12, <1>13, <1>14

\* The rows that a piece starts with.
LEMMA StartsFacts ==
  ASSUME IsCall(call), NEW k \in Copies, call.copies[k].rows # 0,
         NEW row \in Starts(call.copies[k])
  PROVE  /\ row \in Nat /\ row < call.copies[k].rows
         /\ PieceRows(call.copies[k], row) \in Nat \ {0}
         /\ row + PieceRows(call.copies[k], row) <= call.copies[k].rows
<1>1. PICK a \in Nat \ {0}, p \in Nat \ {0} :
        a = call.copies[k].rows /\ p = PlaceMaxRows
  <2>1. PlaceMaxRows \in Nat \ {0}
    BY LayoutAssumption DEF PlaceMaxRows
  <2> QED
    BY <2>1, CopyFacts
<1>2. PICK x \in 1 .. (a - 1) \div p + 1 : row = (x - 1) * p
  BY <1>1 DEF Starts
<1>3. row \in Nat /\ row < a
  BY <1>2, CountedPieces
<1>4. PieceRows(call.copies[k], row) = IF a - row < p THEN a - row ELSE p
  BY <1>1 DEF PieceRows
<1> QED
  BY <1>1, <1>3, <1>4

\* The bytes of a copy are whole samples.
LEMMA WholeCopy ==
  ASSUME Finished, NEW k \in Copies
  PROVE  LET c == call.copies[k] IN
         /\ CopyValid(c) /\ c.frame \in Frames /\ Sample \in Nat \ {0}
         /\ c.rows \in Nat \ {0} /\ c.width \in Nat \ {0}
         /\ \A n \in {c.source, c.sourceRow, c.sourceStep, c.destination,
                      c.destinationRow, c.destinationStep} :
              n \in Nat /\ \E m \in Nat : n = m * Sample
<1> DEFINE c == call.copies[k]
<1>1. /\ IsCall(call) /\ CopyValid(c) /\ Sample \in Nat \ {0}
  BY DEF Finished, LaidOut, CauseInv, IInv, SlotInv, SlotType, Checked,
     InputFacts
<1>2. /\ c.frame \in Frames /\ c.rows # 0 /\ c.width # 0
      /\ \A n \in {c.source, c.sourceRow, c.sourceStep, c.destination,
                   c.destinationRow, c.destinationStep} : n % Sample = 0
  BY <1>1 DEF CopyValid, CopyShaped
<1>3. /\ c.width \in Nat /\ c.rows \in Nat
      /\ c.source \in Nat /\ c.sourceRow \in Nat /\ c.sourceStep \in Nat
      /\ c.destination \in Nat /\ c.destinationRow \in Nat
      /\ c.destinationStep \in Nat
  BY <1>1, CopyFacts
<1> HIDE DEF c
<1>4. ASSUME NEW n \in {c.source, c.sourceRow, c.sourceStep, c.destination,
                        c.destinationRow, c.destinationStep}
      PROVE  n \in Nat /\ \E m \in Nat : n = m * Sample
  <2>1. n \in Nat /\ n % Sample = 0
    BY <1>2, <1>3, <1>4
  <2> QED
    BY <1>1, <2>1, Multiples
<1> QED
  BY <1>1, <1>2, <1>3, <1>4 DEF c

\* The place kernel takes the samples of a piece where its copy asks.
LEMMA PieceFinds ==
  ASSUME Finished, NEW k \in Copies, ~Skipped(call.copies[k]),
         NEW row \in Starts(call.copies[k]), ~TooLong(call.copies[k], row),
         NEW j \in 0 .. PieceRows(call.copies[k], row) - 1,
         NEW x \in 0 .. call.copies[k].width - 1
  PROVE  LET c == call.copies[k]
             p == Piece(c, row)
         IN /\ (p.source + j * p.sourceRow + x * p.sourceStep) % (Word + 1)
                 = (base[c.frame] + c.source + (row + j) * c.sourceRow
                      + x * c.sourceStep) \div Sample
            /\ (p.destination + j * p.destinationRow + x * p.destinationStep)
                 % (Word + 1)
                 = (c.destination + (row + j) * c.destinationRow
                      + x * c.destinationStep) \div Sample
<1> DEFINE c == call.copies[k]
<1>1. /\ CopyValid(c) /\ c.frame \in Frames /\ IsCall(call) /\ InputFacts
      /\ c.rows \in Nat \ {0} /\ c.width \in Nat \ {0}
  BY WholeCopy, FinishedFacts
<1>2. PICK z \in Nat \ {0}, o \in Nat, r \in Nat, s \in Nat, q \in Nat,
           v \in Nat, u \in Nat :
        /\ z = Sample /\ c.source = o * z /\ c.sourceRow = r * z
        /\ c.sourceStep = s * z /\ c.destination = q * z
        /\ c.destinationRow = v * z /\ c.destinationStep = u * z
  <2>1. /\ Sample \in Nat \ {0}
        /\ \E m \in Nat : c.source = m * Sample
        /\ \E m \in Nat : c.sourceRow = m * Sample
        /\ \E m \in Nat : c.sourceStep = m * Sample
        /\ \E m \in Nat : c.destination = m * Sample
        /\ \E m \in Nat : c.destinationRow = m * Sample
        /\ \E m \in Nat : c.destinationStep = m * Sample
    BY WholeCopy
  <2> HIDE DEF c
  <2>2. PICK o \in Nat, r \in Nat, s \in Nat :
          /\ c.source = o * Sample /\ c.sourceRow = r * Sample
          /\ c.sourceStep = s * Sample
    BY <2>1
  <2>3. PICK q \in Nat, v \in Nat, u \in Nat :
          /\ c.destination = q * Sample /\ c.destinationRow = v * Sample
          /\ c.destinationStep = u * Sample
    BY <2>1
  <2>4. PICK z \in Nat \ {0} : z = Sample
    BY <2>1
  <2> QED
    BY <2>2, <2>3, <2>4
<1>3. ~Straight(c.frame)
  BY <1>1 DEF Skipped, SourceOf, Straight
<1>4. PICK b \in Nat : b * z = base[c.frame]
  <2>1. base[c.frame] \in Nat /\ base[c.frame] % Sample = 0
    BY <1>1, <1>3, FinishedFacts, FrameStarts
  <2> QED
    BY <1>2, <2>1, Multiples
<1>5. PICK n \in Nat \ {0}, w \in Nat \ {0}, p \in Nat \ {0}, e \in Nat :
        /\ n = c.rows /\ w = c.width /\ p = PieceRows(c, row) /\ e = row + p
        /\ row \in Nat /\ e <= n
  <2>1. /\ row \in Nat /\ PieceRows(c, row) \in Nat \ {0}
        /\ row + PieceRows(c, row) <= c.rows
    BY <1>1, StartsFacts
  <2> QED
    BY <1>1, <2>1
<1>6. PICK bz \in Nat, oz \in Nat, rz \in Nat, sz \in Nat, qz \in Nat,
           vz \in Nat, uz \in Nat, zz \in Nat :
        /\ bz = b * z /\ oz = o * z /\ rz = r * z /\ sz = s * z
        /\ qz = q * z /\ vz = v * z /\ uz = u * z /\ zz = 0 * z
  OBVIOUS
<1>7. /\ bz = base[c.frame] /\ oz = c.source /\ rz = c.sourceRow
      /\ sz = c.sourceStep /\ qz = c.destination
      /\ vz = c.destinationRow /\ uz = c.destinationStep /\ zz = 0
  BY <1>2, <1>4, <1>6
<1>8. /\ From(c, row) = StartOf(bz, oz, row, rz)
      /\ To(c, row) = StartOf(zz, qz, row, vz)
  <2>1. zz + qz + row * vz = qz + row * vz
    BY <1>5, <1>7
  <2> QED
    BY <1>7, <2>1 DEF From, To, StartOf
<1>9. /\ ~(SpanEnd(StartOf(bz, oz, row, rz), p, rz, w, sz) \div Sample > Word)
      /\ ~(SpanEnd(StartOf(zz, qz, row, vz), p, vz, w, uz) \div Sample > Word)
  BY <1>5, <1>7, <1>8 DEF TooLong
<1>10. /\ bz + Last(oz, n, rz, w, sz) + Sample <= SizeMax
       /\ zz + Last(qz, n, vz, w, uz) + Sample <= SizeMax
  <2>1. /\ Last(oz, n, rz, w, sz) + Sample <= Frame(c.frame).decoded
        /\ Last(qz, n, vz, w, uz) + Sample < SizeMax
    BY <1>1, <1>5, <1>7, ValidEnds
  <2>2. PICK f \in Frames : f = c.frame
    BY <1>1
  <2>3. base[f] + Frame(f).decoded <= SizeMax /\ Frame(f).decoded \in Nat
    BY <2>2, FinishedFacts DEF Finished, LaidOut, CauseInv, RoomInv
  <2>4. ASSUME NEW a \in Nat, NEW d \in Nat, NEW g \in Nat
        PROVE  Last(a, n, d, w, g) \in Nat
    <3>1. (n - 1) * d \in Nat /\ (w - 1) * g \in Nat
      OBVIOUS
    <3> QED
      BY <3>1 DEF Last
  <2>5. PICK l \in Nat, m \in Nat, d \in Nat, t \in Nat :
          /\ l = Last(oz, n, rz, w, sz) /\ m = Last(qz, n, vz, w, uz)
          /\ d = Frame(f).decoded /\ t = SizeMax
    <3>1. SizeMax \in Nat
      BY LayoutAssumption
    <3>2. Last(oz, n, rz, w, sz) \in Nat /\ Last(qz, n, vz, w, uz) \in Nat
      BY <2>4
    <3> QED
      BY <2>3, <3>1, <3>2
  <2> QED
    BY <1>2, <1>7, <2>1, <2>2, <2>3, <2>5
<1>11. j \in 0 .. p - 1 /\ x \in 0 .. w - 1
  BY <1>5
<1>12. z = Sample /\ e = row + p /\ e <= n /\ row \in Nat /\ 0 \in Nat
  BY <1>2, <1>5
<1>13. (Words(StartOf(bz, oz, row, rz)) + j * WordsOf(rz, p)
          + x * WordsOf(sz, w)) % (Word + 1)
         = b + o + (row + j) * r + x * s
  <2>1. AsksFor(z, b, o, n, r, w, s, bz, oz, rz, sz, row, p, e, j, x)
    BY <1>6, <1>9, <1>10, <1>11, <1>12 DEF AsksFor
  <2> QED
    BY <2>1, WordAddress
<1>14. (Words(StartOf(zz, qz, row, vz)) + j * WordsOf(vz, p)
          + x * WordsOf(uz, w)) % (Word + 1)
         = 0 + q + (row + j) * v + x * u
  <2>1. AsksFor(z, 0, q, n, v, w, u, zz, qz, vz, uz, row, p, e, j, x)
    BY <1>6, <1>9, <1>10, <1>11, <1>12 DEF AsksFor
  <2> QED
    BY <2>1, WordAddress
<1>15. /\ Piece(c, row).source = Words(From(c, row))
       /\ Piece(c, row).sourceRow = WordsOf(c.sourceRow, PieceRows(c, row))
       /\ Piece(c, row).sourceStep = WordsOf(c.sourceStep, c.width)
       /\ Piece(c, row).destination = Words(To(c, row))
       /\ Piece(c, row).destinationRow =
            WordsOf(c.destinationRow, PieceRows(c, row))
       /\ Piece(c, row).destinationStep = WordsOf(c.destinationStep, c.width)
  BY DEF Piece, Words, WordsOf
<1>16. /\ (base[c.frame] + c.source + (row + j) * c.sourceRow
             + x * c.sourceStep) \div Sample = b + o + (row + j) * r + x * s
       /\ (c.destination + (row + j) * c.destinationRow
             + x * c.destinationStep) \div Sample = q + (row + j) * v + x * u
  <2>1. PICK g \in Nat, l \in Nat, a \in Nat, d \in Nat :
          /\ a = (row + j) * r /\ g = x * s
          /\ d = (row + j) * v /\ l = x * u
    <3>1. PICK y \in Nat, t \in Nat : y = row + j /\ t = x
      BY <1>5, <1>11
    <3>2. y * r \in Nat /\ t * s \in Nat /\ y * v \in Nat /\ t * u \in Nat
      OBVIOUS
    <3> QED
      BY <3>1, <3>2
  <2>2. /\ (row + j) * (r * z) = a * z /\ x * (s * z) = g * z
        /\ (row + j) * (v * z) = d * z /\ x * (u * z) = l * z
    BY <1>5, <1>11, <2>1
  <2>3. PICK y \in Nat, t \in Nat : y = b + o + a + g /\ t = q + d + l
    OBVIOUS
  <2>4. /\ b * z + o * z + a * z + g * z = y * z
        /\ q * z + d * z + l * z = t * z
    BY <2>3
  <2>5. (y * z) \div z = y /\ (t * z) \div z = t
    BY DivideMultiple
  <2> QED
    BY <1>2, <1>4, <2>1, <2>2, <2>3, <2>4, <2>5
<1> HIDE DEF c
<1>17. 0 + q + (row + j) * v + x * u = q + (row + j) * v + x * u
  OBVIOUS
<1>18. /\ (Piece(c, row).source + j * Piece(c, row).sourceRow
             + x * Piece(c, row).sourceStep) % (Word + 1)
            = (base[c.frame] + c.source + (row + j) * c.sourceRow
                 + x * c.sourceStep) \div Sample
       /\ (Piece(c, row).destination + j * Piece(c, row).destinationRow
             + x * Piece(c, row).destinationStep) % (Word + 1)
            = (c.destination + (row + j) * c.destinationRow
                 + x * c.destinationStep) \div Sample
  BY <1>5, <1>7, <1>8, <1>13, <1>14, <1>15, <1>16, <1>17
<1> QED
  BY <1>18 DEF c

-----------------------------------------------------------------------------
(* What the place kernel moves                                             *)

\* The samples that row r and column x of a copy are taken from and put to.
TakenAt(c, r, x) ==
  (base[c.frame] + c.source + r * c.sourceRow + x * c.sourceStep) \div Sample

PutAt(c, r, x) ==
  (c.destination + r * c.destinationRow + x * c.destinationStep) \div Sample

\* Every row of a copy is in one of its pieces.
LEMMA InSomePiece ==
  ASSUME IsCall(call), NEW k \in Copies, call.copies[k].rows # 0,
         NEW r \in 0 .. call.copies[k].rows - 1
  PROVE  \E row \in Starts(call.copies[k]) :
           /\ row \in Nat
           /\ r - row \in 0 .. PieceRows(call.copies[k], row) - 1
<1>1. PICK a \in Nat \ {0}, p \in Nat \ {0} :
        a = call.copies[k].rows /\ p = PlaceMaxRows
  <2>1. PlaceMaxRows \in Nat \ {0}
    BY LayoutAssumption DEF PlaceMaxRows
  <2> QED
    BY <2>1, CopyFacts
<1>2. PICK q \in Nat, m \in Nat, y \in Nat :
        /\ q = r \div p /\ m = (a - 1) \div p /\ y = a - 1
        /\ r \in Nat /\ r <= y
  BY <1>1
<1>3. q * p <= r /\ r < q * p + p /\ q * p \in Nat
  BY <1>2
<1>4. q <= m
  <2> SUFFICES ASSUME q > m PROVE FALSE
    BY <1>2
  <2>1. p * (m + 1) <= p * q /\ p * q = q * p
    BY Product
  <2>2. y < m * p + p /\ p * (m + 1) = m * p + p /\ m * p \in Nat
    BY <1>2
  <2> QED
    BY <1>2, <1>3, <2>1, <2>2
<1>5. q * p \in Starts(call.copies[k])
  <2>1. q + 1 \in 1 .. m + 1 /\ (q + 1) - 1 = q
    BY <1>4
  <2> QED
    BY <1>1, <1>2, <2>1 DEF Starts
<1>6. PieceRows(call.copies[k], q * p) =
        IF a - q * p < p THEN a - q * p ELSE p
  BY <1>1 DEF PieceRows
<1>7. PICK t \in Nat : t = q * p
  BY <1>3
<1>8. r - t \in 0 .. PieceRows(call.copies[k], t) - 1
  BY <1>1, <1>2, <1>3, <1>6, <1>7
<1> QED
  BY <1>5, <1>7, <1>8

\* The groups of a dispatch reach every row below its maximum.
LEMMA GroupsReach ==
  ASSUME NEW n \in Nat, NEW g \in Nat \ {0}, NEW j \in Nat, j < n
  PROVE  j < ((n + g - 1) \div g) * g
<1>1. PICK a \in Nat : a = n + g - 1
  OBVIOUS
<1>2. PICK q \in Nat : q = a \div g
  OBVIOUS
<1>3. a < q * g + g /\ q * g \in Nat
  BY <1>2
<1> QED
  BY <1>1, <1>2, <1>3

\* What the pieces of a source are in the end.
LEMMA FinishedPieces ==
  ASSUME Finished, NEW s \in Sources
  PROVE  /\ PiecesOf(s, Copies)
         /\ maxRows[s] \in Nat /\ GroupRows \in Nat \ {0}
<1>1. Added = Copies /\ PiecesOf(s, Added)
  BY DEF Finished, LaidOut, PlacedInv, Added
<1> QED
  BY <1>1, LayoutAssumption
     DEF Finished, LaidOut, CauseInv, IInv, PieceInv

\* A move of the place kernel.
MoveOf(p, r, x) ==
  <<(p.source + r * p.sourceRow + x * p.sourceStep) % (Word + 1),
    (p.destination + r * p.destinationRow + x * p.destinationStep)
      % (Word + 1)>>

\* What the moves of a source are.
LEMMA MovesFacts ==
  ASSUME NEW s \in Sources, NEW m
  PROVE  m \in Moves(s) <=>
           \E n \in DOMAIN placed[s] : \E r \in 0 .. placed[s][n].rows - 1 :
             \E x \in 0 .. placed[s][n].width - 1 :
               /\ r < ((maxRows[s] + GroupRows - 1) \div GroupRows) * GroupRows
               /\ m = MoveOf(placed[s][n], r, x)
BY DEF Moves, MoveOf

\* A copy moves every sample it asks for.
LEMMA Moved ==
  ASSUME Finished, NEW s \in Sources, NEW k \in Copies, TakesFrom(k, s),
         NEW r \in 0 .. call.copies[k].rows - 1,
         NEW x \in 0 .. call.copies[k].width - 1
  PROVE  <<TakenAt(call.copies[k], r, x), PutAt(call.copies[k], r, x)>>
           \in Moves(s)
<1> DEFINE c == call.copies[k]
<1>1. IsCall(call) /\ c.rows \in Nat \ {0}
  BY WholeCopy, FinishedFacts
<1>2. PICK row \in Starts(c) :
        row \in Nat /\ r - row \in 0 .. PieceRows(c, row) - 1
  BY <1>1, InSomePiece
<1>3. ~Skipped(c)
  BY DEF TakesFrom
<1>4. /\ \E n \in DOMAIN placed[s] : placed[s][n] = Piece(c, row)
      /\ ~TooLong(c, row) /\ PieceRows(c, row) <= maxRows[s]
      /\ maxRows[s] \in Nat /\ GroupRows \in Nat \ {0}
  BY FinishedPieces DEF PiecesOf
<1>5. PICK n \in DOMAIN placed[s] : placed[s][n] = Piece(c, row)
  BY <1>4
<1>6. PICK j \in 0 .. PieceRows(c, row) - 1 : j = r - row /\ row + j = r
  BY <1>2
<1>7. j < ((maxRows[s] + GroupRows - 1) \div GroupRows) * GroupRows
  <2>1. PieceRows(c, row) \in Nat \ {0}
    BY <1>1, StartsFacts
  <2>2. PICK y \in Nat, g \in Nat \ {0} :
          y = maxRows[s] /\ g = GroupRows /\ j \in Nat /\ j < y
    BY <1>4, <1>6, <2>1
  <2> QED
    BY <2>2, GroupsReach
<1>8. Piece(c, row).rows = PieceRows(c, row) /\ Piece(c, row).width = c.width
  BY DEF Piece
<1>9. MoveOf(Piece(c, row), j, x) = <<TakenAt(c, r, x), PutAt(c, r, x)>>
  BY <1>3, <1>4, <1>6, PieceFinds DEF MoveOf, TakenAt, PutAt
<1>10. j \in 0 .. placed[s][n].rows - 1 /\ x \in 0 .. placed[s][n].width - 1
  BY <1>5, <1>6, <1>8
<1> HIDE DEF c
<1>11. <<TakenAt(c, r, x), PutAt(c, r, x)>> = MoveOf(placed[s][n], j, x)
  BY <1>5, <1>9
<1>12. <<TakenAt(c, r, x), PutAt(c, r, x)>> \in Moves(s)
  BY <1>7, <1>10, <1>11, MovesFacts
<1> QED
  BY <1>12 DEF c

\* Nothing else is moved.
LEMMA MovedFor ==
  ASSUME Finished, NEW s \in Sources, NEW m \in Moves(s)
  PROVE  \E k \in Copies : TakesFrom(k, s) /\
           \E r \in 0 .. call.copies[k].rows - 1 :
             \E x \in 0 .. call.copies[k].width - 1 :
               m = <<TakenAt(call.copies[k], r, x),
                     PutAt(call.copies[k], r, x)>>
<1>1. PICK n \in DOMAIN placed[s], j \in Nat, x \in Nat :
        /\ j \in 0 .. placed[s][n].rows - 1 /\ x \in 0 .. placed[s][n].width - 1
        /\ m = MoveOf(placed[s][n], j, x)
  BY MovesFacts
<1>2. PICK k \in Copies :
        /\ TakesFrom(k, s)
        /\ \E row \in Starts(call.copies[k]) :
             placed[s][n] = Piece(call.copies[k], row)
  BY FinishedPieces DEF PiecesOf
<1> DEFINE c == call.copies[k]
<1>3. PICK row \in Starts(c) : placed[s][n] = Piece(c, row)
  BY <1>2
<1>4. Piece(c, row).rows = PieceRows(c, row) /\ Piece(c, row).width = c.width
  BY DEF Piece
<1>5. j \in 0 .. PieceRows(c, row) - 1 /\ x \in 0 .. c.width - 1
  BY <1>1, <1>3, <1>4
<1>6. ~Skipped(c) /\ ~TooLong(c, row)
  BY <1>2, FinishedPieces DEF TakesFrom, PiecesOf
<1>7. /\ row \in Nat /\ PieceRows(c, row) \in Nat
      /\ c.rows \in Nat /\ row + PieceRows(c, row) <= c.rows
  BY WholeCopy, FinishedFacts, StartsFacts
<1>8. row + j \in 0 .. c.rows - 1
  BY <1>5, <1>7
<1>9. MoveOf(Piece(c, row), j, x)
        = <<TakenAt(c, row + j, x), PutAt(c, row + j, x)>>
  BY <1>5, <1>6, PieceFinds DEF MoveOf, TakenAt, PutAt
<1>10. m = <<TakenAt(c, row + j, x), PutAt(c, row + j, x)>>
  BY <1>1, <1>3, <1>9
<1> QED
  BY <1>2, <1>5, <1>8, <1>10

-----------------------------------------------------------------------------
(* What arrives in the target                                              *)

\* The sample of its frame that row r and column x of a copy ask for.
SampleOf(c, r, x) ==
  (c.source + r * c.sourceRow + x * c.sourceStep) \div Sample

\* A copy asks for samples of its frame, and they are taken from where the
\* frame lies.
LEMMA TakenSample ==
  ASSUME Finished, NEW k \in Copies,
         NEW r \in 0 .. call.copies[k].rows - 1,
         NEW x \in 0 .. call.copies[k].width - 1
  PROVE  LET c == call.copies[k] IN
         /\ SampleOf(c, r, x) \in Samples(c.frame)
         /\ ~Straight(c.frame) =>
              TakenAt(c, r, x) = base[c.frame] \div Sample + SampleOf(c, r, x)
<1> DEFINE c == call.copies[k]
<1>1. /\ CopyValid(c) /\ c.frame \in Frames /\ IsCall(call) /\ InputFacts
      /\ c.rows \in Nat \ {0} /\ c.width \in Nat \ {0}
      /\ Sample \in Nat \ {0}
      /\ c.source \in Nat /\ c.sourceRow \in Nat /\ c.sourceStep \in Nat
      /\ \E m \in Nat : c.source = m * Sample
      /\ \E m \in Nat : c.sourceRow = m * Sample
      /\ \E m \in Nat : c.sourceStep = m * Sample
  BY WholeCopy, FinishedFacts
<1>2. Last(c.source, c.rows, c.sourceRow, c.width, c.sourceStep) + Sample
        <= Frame(c.frame).decoded
  BY <1>1, ValidEnds
<1> HIDE DEF c
<1>3. PICK f \in Frames : f = c.frame
  BY <1>1
<1>4. PICK z \in Nat \ {0}, a \in Nat, u \in Nat, v \in Nat, n \in Nat \ {0},
           w \in Nat \ {0}, d \in Nat :
        /\ z = Sample /\ a = c.source /\ u = c.sourceRow /\ v = c.sourceStep
        /\ n = c.rows /\ w = c.width /\ d = Frame(f).decoded /\ d % z = 0
  BY <1>1, FinishedFacts
<1>5. PICK o \in Nat, y \in Nat, t \in Nat :
        a = o * z /\ u = y * z /\ v = t * z
  BY <1>1, <1>4
<1>6. PICK g \in Nat, h \in Nat :
        /\ g = r * u /\ h = x * v /\ a + g + h + z <= d
  <2>1. r \in 0 .. n - 1 /\ x \in 0 .. w - 1
    BY <1>4 DEF c
  <2>2. /\ r * u \in Nat /\ x * v \in Nat
        /\ (n - 1) * u \in Nat /\ (w - 1) * v \in Nat
        /\ r * u <= (n - 1) * u /\ x * v <= (w - 1) * v
    BY <2>1, Farthest
  <2>3. a + (n - 1) * u + (w - 1) * v + z <= d
    BY <1>2, <1>3, <1>4 DEF Last
  <2>4. PICK g \in Nat, h \in Nat, l \in Nat, m \in Nat :
          /\ g = r * u /\ h = x * v /\ l = (n - 1) * u /\ m = (w - 1) * v
          /\ g <= l /\ h <= m
    BY <2>2
  <2> QED
    BY <2>3, <2>4
<1>7. PICK q \in Nat : a + g + h = q * z
  <2>1. /\ r \in Nat /\ x \in Nat
    BY <1>1 DEF c
  <2>2. PICK l \in Nat, m \in Nat : l = r * y /\ m = x * t
    BY <2>1
  <2>3. g = l * z /\ h = m * z
    BY <1>5, <1>6, <2>1, <2>2
  <2>4. o * z + l * z + m * z = (o + l + m) * z
    OBVIOUS
  <2> QED
    BY <1>5, <2>3, <2>4
<1>8. SampleOf(c, r, x) = q
  <2>1. (q * z) \div z = q
    BY DivideMultiple
  <2> QED
    BY <1>4, <1>6, <1>7, <2>1 DEF SampleOf
<1>9. q \in Samples(f)
  <2>1. q * z + z <= d
    BY <1>6, <1>7
  <2>2. q \in 0 .. d \div z - 1
    BY <1>4, <2>1, SampleWithin
  <2> QED
    BY <1>4, <2>2 DEF Samples
<1>10. ASSUME ~Straight(f)
       PROVE  TakenAt(c, r, x) = base[f] \div Sample + q
  <2>1. base[f] \in Nat /\ base[f] % z = 0
    BY <1>4, <1>10, FinishedFacts, FrameStarts
  <2>2. PICK b \in Nat : base[f] = b * z
    BY <2>1, Multiples
  <2>3. PICK m \in Nat, l \in Nat : m = b + q /\ l = b * z
    OBVIOUS
  <2>4. b * z + q * z = (b + q) * z
    OBVIOUS
  <2>5. l + a + g + h = m * z
    BY <1>7, <2>3, <2>4
  <2>6. (m * z) \div z = m /\ (b * z) \div z = b
    BY DivideMultiple
  <2>7. TakenAt(c, r, x) = (l + a + g + h) \div z
    BY <1>3, <1>4, <1>6, <2>2, <2>3 DEF TakenAt
  <2> QED
    BY <1>4, <2>2, <2>3, <2>5, <2>6, <2>7
<1> QED
  BY <1>3, <1>8, <1>9, <1>10 DEF c

\* A frame of the device is decoded where its only copy asks for it.
LEMMA DirectOnly ==
  ASSUME IsCall(call), DirectTargets, NEW k \in Copies,
         NEW f \in Frames, f = call.copies[k].frame, routed[f] \in DeviceRoutes
  PROVE  Whole(call.copies[k]) /\ Destination(f) = call.copies[k].destination
<1>1. k \in DeviceCopies
  BY DEF DeviceCopies
<1> DEFINE S == {l \in Copies : call.copies[l].frame = f}
<1>2. IsFiniteSet(S) /\ Cardinality(S) = 1
  <2>1. IsFiniteSet(Copies)
    BY CopyCount, FS_Interval DEF Copies
  <2>2. S \in SUBSET Copies
    OBVIOUS
  <2> QED
    BY <2>1, <2>2, FS_Subset DEF DirectTargets, CoveredOnce
<1>3. PICK l : S = {l}
  BY <1>2, FS_Singleton
<1>4. S = {k}
  <2>1. k \in S
    OBVIOUS
  <2> QED
    BY <1>3, <2>1
<1>5. (CHOOSE m \in Copies : call.copies[m].frame = f) = k
  BY <1>4
<1> QED
  BY <1>1, <1>5 DEF DirectTargets, Destination

\* Such a copy asks for the samples of its frame in their order.
LEMMA StraightAsks ==
  ASSUME Finished, NEW k \in Copies, NEW f \in Frames,
         f = call.copies[k].frame, Straight(f)
  PROVE  LET c == call.copies[k] IN
         /\ \A r \in 0 .. c.rows - 1, x \in 0 .. c.width - 1 :
              PutAt(c, r, x) = out[f] + SampleOf(c, r, x)
         /\ \A j \in Samples(f) :
              \E r \in 0 .. c.rows - 1 : \E x \in 0 .. c.width - 1 :
                j = SampleOf(c, r, x)
<1> DEFINE c == call.copies[k]
<1>1. /\ IsCall(call) /\ Sample \in Nat \ {0}
      /\ c.rows \in Nat \ {0} /\ c.width \in Nat \ {0}
      /\ c.source \in Nat /\ c.sourceRow \in Nat /\ c.sourceStep \in Nat
      /\ c.destination \in Nat /\ c.destinationRow \in Nat
      /\ c.destinationStep \in Nat
      /\ \E m \in Nat : c.destination = m * Sample
  BY WholeCopy, FinishedFacts
<1>2. routed[f] \in DeviceRoutes /\ direct /\ DirectTargets
      /\ out[f] = Destination(f) \div Sample
  <2>1. direct /\ Route(f) \in DeviceRoutes
    BY DEF Straight
  <2>2. routed[f] \in DeviceRoutes
    BY <2>1 DEF Route, DeviceRoutes
  <2> QED
    BY <2>1, <2>2 DEF Finished, LaidOut, DirectPlaced
<1>3. Whole(c) /\ Destination(f) = c.destination
  BY <1>1, <1>2, DirectOnly
<1>4. /\ c.source = 0 /\ Contiguous(c)
      /\ c.width * Sample * c.rows = Frame(f).decoded
  BY <1>3 DEF Whole
<1> HIDE DEF c
<1>5. PICK z \in Nat \ {0}, n \in Nat \ {0}, w \in Nat \ {0}, q \in Nat,
           qz \in Nat :
        /\ z = Sample /\ n = c.rows /\ w = c.width
        /\ c.destination = qz /\ qz = q * z
  BY <1>1
<1>6. /\ c.width = 1 \/ (c.sourceStep = z /\ c.destinationStep = z)
      /\ c.rows = 1 \/ (c.sourceRow = w * z /\ c.destinationRow = w * z)
  BY <1>4, <1>5 DEF Contiguous
<1>7. ASSUME NEW r \in 0 .. n - 1, NEW x \in 0 .. w - 1
      PROVE  /\ SampleOf(c, r, x) = r * w + x /\ r * w + x \in Nat
             /\ PutAt(c, r, x) = q + (r * w + x)
  <2>1. PICK a \in Nat, b \in Nat : a = r * w /\ b = a + x
    OBVIOUS
  <2>2. /\ r * c.sourceRow = a * z /\ r * c.destinationRow = a * z
    <3>1. CASE c.rows = 1
      <4>1. r = 0
        BY <1>5, <3>1
      <4>2. 0 * c.sourceRow = 0 /\ 0 * c.destinationRow = 0 /\ 0 * w = 0
            /\ 0 * z = 0
        BY <1>1
      <4> QED
        BY <2>1, <4>1, <4>2
    <3>2. CASE c.sourceRow = w * z /\ c.destinationRow = w * z
      <4>1. r * (w * z) = (r * w) * z
        OBVIOUS
      <4> QED
        BY <2>1, <3>2, <4>1
    <3> QED
      BY <1>6, <3>1, <3>2
  <2>3. /\ x * c.sourceStep = x * z /\ x * c.destinationStep = x * z
    <3>1. CASE c.width = 1
      <4>1. x = 0
        BY <1>5, <3>1
      <4>2. 0 * c.sourceStep = 0 /\ 0 * c.destinationStep = 0 /\ 0 * z = 0
        BY <1>1
      <4> QED
        BY <4>1, <4>2
    <3> QED
      BY <1>6, <3>1
  <2>4. a * z + x * z = b * z /\ q * z + a * z + x * z = (q + b) * z
    BY <2>1
  <2>5. (b * z) \div z = b
    BY DivideMultiple
  <2>6. ((q + b) * z) \div z = q + b
    <3>1. PICK m \in Nat : m = q + b
      OBVIOUS
    <3> QED
      BY <3>1, DivideMultiple
  <2>7. SampleOf(c, r, x) = (0 + a * z + x * z) \div z
    BY <1>4, <1>5, <2>2, <2>3 DEF SampleOf
  <2>8. PutAt(c, r, x) = (q * z + a * z + x * z) \div z
    BY <1>5, <2>2, <2>3 DEF PutAt
  <2>9. 0 + a * z + x * z = b * z
    BY <2>4
  <2> QED
    BY <2>1, <2>4, <2>5, <2>6, <2>7, <2>8, <2>9
<1>8. out[f] = q
  <2>1. (q * z) \div z = q
    BY DivideMultiple
  <2> QED
    BY <1>2, <1>3, <1>5, <2>1
<1>9. ASSUME NEW j \in Samples(f)
      PROVE  \E r \in 0 .. n - 1 : \E x \in 0 .. w - 1 : j = SampleOf(c, r, x)
  <2>1. j \in 0 .. w * n - 1
    <3>1. PICK m \in Nat : m = w * n
      OBVIOUS
    <3>2. w * z * n = m * z
      <4>1. w * z * n = (w * n) * z
        OBVIOUS
      <4> QED
        BY <3>1, <4>1
    <3>3. (m * z) \div z = m
      BY DivideMultiple
    <3> QED
      BY <1>4, <1>5, <3>1, <3>2, <3>3 DEF Samples
  <2>2. PICK r \in Nat, x \in Nat : x < w /\ j = r * w + x
    <3>1. j \in Nat
      BY <2>1
    <3>2. PICK r \in Nat : r = j \div w
      BY <3>1
    <3>3. r * w <= j /\ j < r * w + w /\ r * w \in Nat
      BY <3>1, <3>2
    <3>4. PICK x \in Nat : x = j - r * w
      BY <3>1, <3>3
    <3> QED
      BY <3>1, <3>3, <3>4
  <2>3. r < n
    <3> SUFFICES ASSUME r >= n PROVE FALSE
      BY <2>2
    <3>1. w * n <= w * r /\ w * r = r * w
      BY Product
    <3>2. PICK g \in Nat, h \in Nat : g = w * n /\ h = r * w /\ g <= h
      BY <3>1
    <3> QED
      BY <2>1, <2>2, <3>2
  <2>4. r \in 0 .. n - 1 /\ x \in 0 .. w - 1
    BY <2>2, <2>3
  <2> QED
    BY <1>7, <2>2, <2>4
<1>10. /\ \A r \in 0 .. c.rows - 1, x \in 0 .. c.width - 1 :
            PutAt(c, r, x) = out[f] + SampleOf(c, r, x)
       /\ \A j \in Samples(f) :
            \E r \in 0 .. c.rows - 1 : \E x \in 0 .. c.width - 1 :
              j = SampleOf(c, r, x)
  BY <1>5, <1>7, <1>8, <1>9
<1> QED
  BY <1>10 DEF c

\* What the copies ask for.
LEMMA AskedFacts ==
  ASSUME NEW d
  PROVE  d \in Asked <=>
           \E k \in Copies : \E r \in 0 .. call.copies[k].rows - 1 :
             \E x \in 0 .. call.copies[k].width - 1 :
               d = <<<<call.copies[k].frame, SampleOf(call.copies[k], r, x)>>,
                     PutAt(call.copies[k], r, x)>>
<1>1. d \in Asked <=>
        \E k \in Copies : \E a \in AskedOf(call.copies[k]) :
          d = <<<<call.copies[k].frame, a[1] \div Sample>>, a[2] \div Sample>>
  BY DEF Asked
<1>2. ASSUME NEW k \in Copies
      PROVE  (\E a \in AskedOf(call.copies[k]) :
                d = <<<<call.copies[k].frame, a[1] \div Sample>>,
                      a[2] \div Sample>>)
             <=> \E r \in 0 .. call.copies[k].rows - 1 :
                   \E x \in 0 .. call.copies[k].width - 1 :
                     d = <<<<call.copies[k].frame,
                             SampleOf(call.copies[k], r, x)>>,
                           PutAt(call.copies[k], r, x)>>
  <2> DEFINE c == call.copies[k]
             Row == 0 .. c.rows - 1
             Column == 0 .. c.width - 1
             In(r, x) == c.source + r * c.sourceRow + x * c.sourceStep
             Target(r, x) == c.destination + r * c.destinationRow
                            + x * c.destinationStep
  <2>1. AskedOf(c) = {<<In(r, x), Target(r, x)>> : r \in Row, x \in Column}
    BY DEF AskedOf
  <2>2. \A r, x : /\ SampleOf(c, r, x) = In(r, x) \div Sample
                  /\ PutAt(c, r, x) = Target(r, x) \div Sample
    BY DEF SampleOf, PutAt
  <2> HIDE DEF c, Row, Column, In, Target
  <2>3. (\E a \in AskedOf(c) :
           d = <<<<c.frame, a[1] \div Sample>>, a[2] \div Sample>>)
        <=> \E r \in Row : \E x \in Column :
              d = <<<<c.frame, In(r, x) \div Sample>>,
                    Target(r, x) \div Sample>>
    <3>1. ASSUME NEW a \in AskedOf(c),
                 d = <<<<c.frame, a[1] \div Sample>>, a[2] \div Sample>>
          PROVE  \E r \in Row : \E x \in Column :
                   d = <<<<c.frame, In(r, x) \div Sample>>,
                         Target(r, x) \div Sample>>
      <4>1. PICK r \in Row, x \in Column : a = <<In(r, x), Target(r, x)>>
        BY <2>1
      <4>2. a[1] = In(r, x) /\ a[2] = Target(r, x)
        BY <4>1
      <4> QED
        BY <3>1, <4>2
    <3>2. ASSUME NEW r \in Row, NEW x \in Column,
                 d = <<<<c.frame, In(r, x) \div Sample>>,
                       Target(r, x) \div Sample>>
          PROVE  \E a \in AskedOf(c) :
                   d = <<<<c.frame, a[1] \div Sample>>, a[2] \div Sample>>
      <4>1. <<In(r, x), Target(r, x)>> \in AskedOf(c)
        BY DEF AskedOf, In, Target, Row, Column
      <4>2. PICK a \in AskedOf(c) : a = <<In(r, x), Target(r, x)>>
        BY <4>1
      <4>3. a[1] = In(r, x) /\ a[2] = Target(r, x)
        BY <4>2
      <4> QED
        BY <3>2, <4>3
    <3> QED
      BY <3>1, <3>2
  <2>4. (\E a \in AskedOf(c) :
           d = <<<<c.frame, a[1] \div Sample>>, a[2] \div Sample>>)
        <=> \E r \in Row : \E x \in Column :
              d = <<<<c.frame, SampleOf(c, r, x)>>, PutAt(c, r, x)>>
    BY <2>2, <2>3
  <2> QED
    BY <2>4 DEF c, Row, Column
<1> QED
  BY <1>1, <1>2

\* What the place kernel finds in a sample of a source.
Found(s, n) ==
  IF Holds(s, n) = {} THEN <<0, 0>>
  ELSE IF Cardinality(Holds(s, n)) > 1 THEN <<0, 1>>
  ELSE CHOOSE h \in Holds(s, n) : TRUE

\* What arrives in the target.
LEMMA DeliveredFacts ==
  ASSUME NEW d
  PROVE  d \in Delivered <=>
           \/ \E s \in Sources : \E m \in Moves(s) :
                d = <<Found(s, m[1]), m[2]>>
           \/ \E f \in Frames : /\ Straight(f)
                                /\ \E j \in Samples(f) :
                                     d = <<<<f, j>>, out[f] + j>>
<1> DEFINE Moving == {{<<Found(s, m[1]), m[2]>> : m \in Moves(s)} :
                        s \in Sources}
           Into == {{<<<<f, j>>, out[f] + j>> : j \in Samples(f)} :
                      f \in {f \in Frames : Straight(f)}}
<1>1. Delivered = (UNION Moving) \cup (UNION Into)
  BY DEF Delivered, Found, Straight
<1>2. d \in UNION Moving <=>
        \E s \in Sources : \E m \in Moves(s) : d = <<Found(s, m[1]), m[2]>>
  OBVIOUS
<1>3. d \in UNION Into <=>
        \E f \in Frames : /\ Straight(f)
                          /\ \E j \in Samples(f) : d = <<<<f, j>>, out[f] + j>>
  OBVIOUS
<1> HIDE DEF Moving, Into
<1> QED
  BY <1>1, <1>2, <1>3

\* A copy that is not skipped finds the sample that it asks for.
LEMMA FindsAsked ==
  ASSUME Finished, NEW k \in Copies, NEW s, TakesFrom(k, s),
         NEW r \in 0 .. call.copies[k].rows - 1,
         NEW x \in 0 .. call.copies[k].width - 1
  PROVE  Found(s, TakenAt(call.copies[k], r, x))
           = <<call.copies[k].frame, SampleOf(call.copies[k], r, x)>>
<1> DEFINE c == call.copies[k]
<1>1. PICK f \in Frames : f = c.frame
  BY WholeCopy
<1>2. ~Straight(f) /\ s = HeldIn(f)
  BY <1>1 DEF TakesFrom, Skipped, SourceOf, Straight, HeldIn
<1>3. PICK j \in Samples(f) :
        /\ j = SampleOf(c, r, x)
        /\ TakenAt(c, r, x) = base[f] \div Sample + j
  BY <1>1, <1>2, TakenSample
<1>4. Holds(s, TakenAt(c, r, x)) = {<<f, j>>}
  BY <1>2, <1>3, HoldsOne
<1>5. Cardinality({<<f, j>>}) = 1
  BY FS_Singleton
<1> HIDE DEF c
<1>6. Found(s, TakenAt(c, r, x)) = <<f, j>>
  <2>1. PICK h : h = <<f, j>>
    OBVIOUS
  <2>2. Holds(s, TakenAt(c, r, x)) # {}
    BY <1>4
  <2>3. ~(Cardinality(Holds(s, TakenAt(c, r, x))) > 1)
    BY <1>4, <1>5
  <2>4. (CHOOSE y \in {h} : TRUE) = h
    OBVIOUS
  <2>5. (CHOOSE y \in Holds(s, TakenAt(c, r, x)) : TRUE) = h
    BY <1>4, <2>1, <2>4
  <2> QED
    BY <2>1, <2>2, <2>3, <2>5 DEF Found
<1> QED
  BY <1>1, <1>3, <1>6 DEF c

\* What arrives is what the copies ask for.
LEMMA DeliveredIsAsked == Finished => Delivered = Asked
<1> SUFFICES ASSUME Finished PROVE Delivered = Asked
  OBVIOUS
<1>1. ASSUME NEW d \in Delivered PROVE d \in Asked
  <2>1. CASE \E s \in Sources : \E m \in Moves(s) : d = <<Found(s, m[1]), m[2]>>
    <3>1. PICK s \in Sources : \E m \in Moves(s) : d = <<Found(s, m[1]), m[2]>>
      BY <2>1
    <3>2. PICK m \in Moves(s) : d = <<Found(s, m[1]), m[2]>>
      BY <3>1
    <3>3. PICK k \in Copies : TakesFrom(k, s) /\
            \E r \in 0 .. call.copies[k].rows - 1 :
              \E x \in 0 .. call.copies[k].width - 1 :
                m = <<TakenAt(call.copies[k], r, x),
                      PutAt(call.copies[k], r, x)>>
      BY MovedFor
    <3>4. PICK r \in 0 .. call.copies[k].rows - 1 :
            \E x \in 0 .. call.copies[k].width - 1 :
              m = <<TakenAt(call.copies[k], r, x),
                    PutAt(call.copies[k], r, x)>>
      BY <3>3
    <3>5. PICK x \in 0 .. call.copies[k].width - 1 :
            m = <<TakenAt(call.copies[k], r, x), PutAt(call.copies[k], r, x)>>
      BY <3>4
    <3>6. d = <<<<call.copies[k].frame, SampleOf(call.copies[k], r, x)>>,
                PutAt(call.copies[k], r, x)>>
      BY <3>2, <3>3, <3>5, FindsAsked
    <3> QED
      BY <3>6, AskedFacts
  <2>2. ASSUME NEW f \in Frames, Straight(f), NEW j \in Samples(f),
               d = <<<<f, j>>, out[f] + j>>
        PROVE  d \in Asked
    <3>1. IsCall(call) /\ DirectTargets /\ routed[f] \in DeviceRoutes
      <4>1. direct /\ Route(f) \in DeviceRoutes
        BY <2>2 DEF Straight
      <4>2. routed[f] \in DeviceRoutes
        BY <4>1 DEF Route, DeviceRoutes
      <4> QED
        BY <4>1, <4>2, FinishedFacts DEF Finished, LaidOut, DirectPlaced
    <3>2. PICK k \in Copies : call.copies[k].frame = f
      BY <3>1, DirectPlaces DEF DeviceCopies
    <3>3. PICK r \in 0 .. call.copies[k].rows - 1 :
            \E x \in 0 .. call.copies[k].width - 1 :
              j = SampleOf(call.copies[k], r, x)
      BY <2>2, <3>2, StraightAsks
    <3>4. PICK x \in 0 .. call.copies[k].width - 1 :
            j = SampleOf(call.copies[k], r, x)
      BY <3>3
    <3>5. PutAt(call.copies[k], r, x) = out[f] + j
      BY <2>2, <3>2, <3>4, StraightAsks
    <3>6. d = <<<<call.copies[k].frame, SampleOf(call.copies[k], r, x)>>,
                PutAt(call.copies[k], r, x)>>
      BY <2>2, <3>2, <3>4, <3>5
    <3> QED
      BY <3>6, AskedFacts
  <2> QED
    BY <1>1, <2>1, <2>2, DeliveredFacts
<1>2. ASSUME NEW d \in Asked PROVE d \in Delivered
  <2>1. PICK k \in Copies : \E r \in 0 .. call.copies[k].rows - 1 :
          \E x \in 0 .. call.copies[k].width - 1 :
            d = <<<<call.copies[k].frame, SampleOf(call.copies[k], r, x)>>,
                  PutAt(call.copies[k], r, x)>>
    BY <1>2, AskedFacts
  <2>2. PICK r \in 0 .. call.copies[k].rows - 1 :
          \E x \in 0 .. call.copies[k].width - 1 :
            d = <<<<call.copies[k].frame, SampleOf(call.copies[k], r, x)>>,
                  PutAt(call.copies[k], r, x)>>
    BY <2>1
  <2>3. PICK x \in 0 .. call.copies[k].width - 1 :
          d = <<<<call.copies[k].frame, SampleOf(call.copies[k], r, x)>>,
                PutAt(call.copies[k], r, x)>>
    BY <2>2
  <2>4. PICK f \in Frames : f = call.copies[k].frame
    BY WholeCopy
  <2>5. CASE Straight(f)
    <3>1. PutAt(call.copies[k], r, x)
            = out[f] + SampleOf(call.copies[k], r, x)
      BY <2>4, <2>5, StraightAsks
    <3>2. SampleOf(call.copies[k], r, x) \in Samples(f)
      BY <2>4, TakenSample
    <3>3. d = <<<<f, SampleOf(call.copies[k], r, x)>>,
                out[f] + SampleOf(call.copies[k], r, x)>>
      BY <2>3, <2>4, <3>1
    <3> QED
      BY <2>5, <3>2, <3>3, DeliveredFacts
  <2>6. CASE ~Straight(f)
    <3>1. PICK s \in Sources : TakesFrom(k, s)
      <4>1. Route(f) \in DeviceRoutes \cup {"host", "fallback"}
        BY FinishedFacts
      <4>2. SourceOf(call.copies[k]) = HeldIn(f) /\ HeldIn(f) \in Sources
        BY <2>4, <4>1 DEF SourceOf, HeldIn, Sources
      <4>3. ~Skipped(call.copies[k])
        BY <2>4, <2>6, <4>1 DEF Skipped, SourceOf, Straight, DeviceRoutes
      <4> QED
        BY <4>2, <4>3 DEF TakesFrom
    <3>2. PICK m \in Moves(s) :
            m = <<TakenAt(call.copies[k], r, x), PutAt(call.copies[k], r, x)>>
      BY <3>1, Moved
    <3>3. Found(s, m[1])
            = <<call.copies[k].frame, SampleOf(call.copies[k], r, x)>>
      BY <3>1, <3>2, FindsAsked
    <3>4. d = <<Found(s, m[1]), m[2]>>
      BY <2>3, <3>2, <3>3
    <3> QED
      BY <3>4, DeliveredFacts
  <2> QED
    BY <2>5, <2>6
<1> QED
  BY <1>1, <1>2

\* For every call, size_t and alignment, the slots that threads capture and
\* decode into at the same time share no byte and end within what
\* geozl_gpu_decode_ex allocates for them.
THEOREM SlotsApartHolds == Spec => []SlotsApart
<1>1. SlotInv /\ [Next]_vars => SlotInv'
  BY LayFrameKeepsSlots, OthersKeepSlots
<1>2. SlotInv => SlotsApart
  BY DEF SlotInv
<1> QED
  BY <1>1, <1>2, SlotInvInit, PTL DEF Spec

\* Whatever copies the caller asks for, frames that direct_targets accepts are
\* decoded straight into parts of the target that share no sample: comparing
\* neighbours in the sorted order of the destinations is enough.
THEOREM DirectFramesApart == Spec => []DirectApart
<1>1. IInv => DirectApart
  BY DEF IInv, DirectInv, DirectApart
<1> QED
  BY <1>1, InitInv, InvStep, PTL DEF Spec

\* Whichever frames fall back or are direct, the payloads, the scratch and the
\* outputs of a batch end within 32 bits, no source gets more place copies than
\* were counted for it, and their rows and columns fit the grid.
THEOREM OffsetsFit == Spec => []KernelOffsetsFit
  BY InitInv, InvStep, OffsetsFitInv, PTL DEF Spec

\* Sums of bytes stay within a size_t, deviceOutput within its budget and the
\* rows of a place dispatch within its grid: nothing wraps on the way.
THEOREM TypeCorrect == Spec => []TypeOK
<1>1. IInv /\ RangeInv /\ [Next]_vars => (IInv /\ RangeInv)'
  BY InvStep, RangeStep
<1>2. Init => IInv /\ RangeInv
  BY InitInv, RangeInit
<1> QED
  BY <1>1, <1>2, InRange, PTL DEF Spec

\* A call is refused exactly for a copy that leaves its frame or the target,
\* whatever a size_t holds, and given up for its size only where a copy of a
\* frame the host decodes reaches past 2^32 samples or the pieces are too many:
\* the budget keeps the frames of the device and the lanes of PivCo clear of it.
THEOREM RefusedOnlyForCause == Spec => []RefusedForCause
  BY CauseInit, CauseStep, CauseIsGiven, PTL DEF Spec

\* For every call, sizes and alignments: once a call has queued its work, the
\* target gets exactly the samples its copies ask for, each from its own frame,
\* whichever frames fell back, were decoded straight into the target or lie
\* behind those of PFOR, and however the copies were cut into pieces of 32 bits.
THEOREM PlacedAsAskedHolds == Spec => []PlacedAsAsked
<1>1. LaidOut => PlacedAsAsked
  BY DeliveredIsAsked DEF Finished, PlacedAsAsked
<1> QED
  BY <1>1, LaidOutInit, LaidOutStep, PTL DEF Spec
=============================================================================
