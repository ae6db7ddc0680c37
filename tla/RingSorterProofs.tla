-------------------------- MODULE RingSorterProofs --------------------------
(***************************************************************************)
(* Theorems about RingSorter for every ring size, cell width and set of    *)
(* timestamps: the slots stay aligned with the timeline, what the sorter   *)
(* writes out is in time order and below a bound that only grows, and no   *)
(* element it accepted is lost or doubled.                                 *)
(***************************************************************************)
EXTENDS RingSorter, SequenceLemmas

-----------------------------------------------------------------------------
(* The slots of the ring. *)

\* The k-th slot after the lower bound is the slot of the k-th cell above it.
LEMMA SlotIsCell ==
    ASSUME NEW s \in Sorter, NEW bound \in Nat, s.first = bound % NumCells,
           NEW k \in 0 .. NumCells - 1
    PROVE  SlotAt(s, k) = (bound + k) % NumCells
BY RingAssumption, ModAdd DEF SlotAt

\* Walking once around the ring visits every slot, and visits it once.
LEMMA SlotOnto ==
    ASSUME NEW s \in Sorter, NEW c \in Slots
    PROVE  \E k \in 0 .. NumCells - 1 : SlotAt(s, k) = c
<1>1. s.first \in Slots
  BY DEF Sorter
<1>2. CASE c >= s.first
  <2>1. c - s.first \in 0 .. NumCells - 1 /\ SlotAt(s, c - s.first) = c
    BY RingAssumption, <1>1, <1>2 DEF SlotAt, Slots
  <2> QED BY <2>1
<1>3. CASE c < s.first
  <2>1. /\ c - s.first + NumCells \in 0 .. NumCells - 1
        /\ SlotAt(s, c - s.first + NumCells) = c
    BY RingAssumption, <1>1, <1>3 DEF SlotAt, Slots
  <2> QED BY <2>1
<1> QED BY <1>1, <1>2, <1>3 DEF Slots

\* Different steps lead to different slots.
LEMMA SlotInjective ==
    ASSUME NEW s \in Sorter, NEW k \in 0 .. NumCells - 1, NEW l \in 0 .. NumCells - 1,
           SlotAt(s, k) = SlotAt(s, l)
    PROVE  k = l
<1>1. s.first \in Slots
  BY DEF Sorter
<1> QED BY RingAssumption, <1>1 DEF SlotAt, Slots

\* A step from the lower bound stays in the ring.
LEMMA SlotInRing ==
    ASSUME NEW s \in Sorter, NEW k \in 0 .. NumCells - 1
    PROVE  SlotAt(s, k) \in Slots
<1>1. s.first \in Slots
  BY DEF Sorter
<1> QED BY RingAssumption, <1>1 DEF SlotAt, Slots
-----------------------------------------------------------------------------
(* Writing out and moving the lower bound. *)

\* WriteOutElements appends the slots from the lower bound on, in walking order,
\* leaves exactly those empty, and touches nothing else.
LEMMA WrittenOut ==
    ASSUME NEW s \in Sorter, NEW index \in Nat, Span(s, index) \in 0 .. NumCells
    PROVE  LET m == Span(s, index)
               w == WriteOutElements(s, index)
           IN  /\ w \in Sorter
               /\ w.first = s.first /\ w.second = s.second
               /\ w.fOutputData = s.fOutputData
                                  \o [j \in 1 .. m |-> s.fRingBuffer[SlotAt(s, j - 1)]]
               /\ \A k \in 0 .. NumCells - 1 : w.fRingBuffer[SlotAt(s, k)] =
                      IF k < m THEN {} ELSE s.fRingBuffer[SlotAt(s, k)]
<1> DEFINE m == Span(s, index)
           batch == [j \in 1 .. m |-> s.fRingBuffer[SlotAt(s, j - 1)]]
           ring == [c \in Slots |-> IF \E k \in 0 .. m - 1 : SlotAt(s, k) = c
                                    THEN {} ELSE s.fRingBuffer[c]]
           w == WriteOutElements(s, index)
<1>1. m \in 0 .. NumCells /\ m \in Nat
  BY RingAssumption
<1>2. /\ s.fRingBuffer \in [Slots -> SUBSET Element]
      /\ s.fOutputData \in Seq(SUBSET Element)
      /\ s.first \in Slots /\ s.second \in Nat
  BY DEF Sorter
<1>3. w = [s EXCEPT !.fOutputData = s.fOutputData \o batch, !.fRingBuffer = ring]
  BY <1>2 DEF WriteOutElements, Sorter
<1> HIDE DEF m
<1>4. \A k \in 0 .. m - 1 : k \in 0 .. NumCells - 1
  BY <1>1, RingAssumption
<1>5. batch \in Seq(SUBSET Element)
  <2>1. \A j \in 1 .. m : s.fRingBuffer[SlotAt(s, j - 1)] \in SUBSET Element
    BY <1>1, <1>2, <1>4, SlotInRing
  <2> QED BY <1>1, <2>1
<1>6. s.fOutputData \o batch \in Seq(SUBSET Element)
  BY <1>2, <1>5
<1>7. ring \in [Slots -> SUBSET Element]
  BY <1>2
<1>8. ASSUME NEW k \in 0 .. NumCells - 1
      PROVE  ring[SlotAt(s, k)] = IF k < m THEN {} ELSE s.fRingBuffer[SlotAt(s, k)]
  <2>1. SlotAt(s, k) \in Slots
    BY SlotInRing
  <2>2. CASE k < m
    BY <1>1, <2>1, <2>2
  <2>3. CASE ~(k < m)
    <3>1. ~ \E l \in 0 .. m - 1 : SlotAt(s, l) = SlotAt(s, k)
      BY <1>1, <1>4, <2>3, SlotInjective
    <3> QED BY <2>1, <2>3, <3>1
  <2> QED BY <2>2, <2>3
<1> HIDE DEF batch, ring
<1>9. /\ w \in Sorter
      /\ w.first = s.first /\ w.second = s.second
      /\ w.fOutputData = s.fOutputData \o batch
      /\ w.fRingBuffer = ring
  BY <1>2, <1>3, <1>6, <1>7 DEF Sorter
<1> QED BY <1>8, <1>9 DEF m, batch

\* Distances in time are distances in cells, because every bound is a cell edge.
LEMMA BoundInCells ==
    ASSUME NEW bound \in Nat, NEW n \in Nat, NEW time \in Nat
    PROVE  /\ CellOf(bound * CellWidth) = bound
           /\ bound * CellWidth + n * GetBufferSize \in Nat
           /\ (time >= bound * CellWidth + n * GetBufferSize)
                 <=> (CellOf(time) >= bound + n * NumCells)
<1>1. bound * CellWidth + n * GetBufferSize = CellWidth * (bound + n * NumCells)
  BY RingAssumption DEF GetBufferSize
<1>2. bound + n * NumCells \in Nat /\ CellWidth * (bound + n * NumCells) \in Nat
  BY RingAssumption
<1>3. CellOf(bound * CellWidth) = bound
  <2>1. bound * CellWidth \in Nat /\ CellWidth * bound = bound * CellWidth
    BY RingAssumption
  <2> QED BY <2>1, RingAssumption, DivUnique DEF CellOf
<1>4. (time >= CellWidth * (bound + n * NumCells)) <=> (CellOf(time) >= bound + n * NumCells)
  BY <1>2, RingAssumption, DivGe DEF CellOf
<1> QED BY <1>1, <1>2, <1>3, <1>4

\* SetLowerBound opens the ring so that the new element's cell is the last one.
LEMMA BoundSet ==
    ASSUME NEW s \in Sorter, NEW time \in Nat, CellOf(time) >= NumCells
    PROVE  LET b == CellOf(time) + 1 - NumCells
               w == SetLowerBound(s, time)
           IN  /\ b \in Nat
               /\ w \in Sorter
               /\ w.second = b * CellWidth /\ w.first = b % NumCells
               /\ w.fRingBuffer = s.fRingBuffer /\ w.fOutputData = s.fOutputData
<1> DEFINE c == CellOf(time)
           b == c + 1 - NumCells
<1>1. c \in Nat
  BY RingAssumption, DivMod DEF CellOf
<1>2. b \in Nat /\ b + NumCells = c + 1
  BY <1>1, RingAssumption
<1>3. (c + 1) * CellWidth - GetBufferSize = b * CellWidth /\ b * CellWidth \in Nat
  BY <1>1, <1>2, RingAssumption DEF GetBufferSize
<1>4. CalcIndex(time + CellWidth) = b % NumCells
  <2>1. CellOf(time + CellWidth) = c + 1
    BY RingAssumption, DivStep DEF CellOf
  <2>2. (b + NumCells) % NumCells = b % NumCells
    BY <1>2, RingAssumption, ModStep
  <2> QED BY <1>2, <2>1, <2>2 DEF CalcIndex
<1>5. b % NumCells \in Slots
  BY <1>2, RingAssumption, DivMod DEF Slots
<1> HIDE DEF b
<1>6. SetLowerBound(s, time) = [s EXCEPT !.second = b * CellWidth, !.first = b % NumCells]
  BY <1>3, <1>4 DEF SetLowerBound
<1> QED BY <1>2, <1>3, <1>5, <1>6 DEF Sorter, b

\* The sorter w is the sorter s after its first m slots were written out and its
\* lower bound was moved up to cell b.
Advanced(s, w, m, b) ==
    /\ w \in Sorter
    /\ w.second = b * CellWidth /\ w.first = b % NumCells
    /\ CellOf(w.second) = b
    /\ CellOf(s.second) + m <= b
    /\ m < NumCells => b = CellOf(s.second) + m
    /\ w.fOutputData = s.fOutputData \o [j \in 1 .. m |-> s.fRingBuffer[SlotAt(s, j - 1)]]
    /\ \A k \in 0 .. NumCells - 1 : w.fRingBuffer[SlotAt(s, k)] =
           IF k < m THEN {} ELSE s.fRingBuffer[SlotAt(s, k)]

\* The cell the lower bound moves to for an element of this time: no further
\* than needed for the element's cell to be the last of the ring.
BoundFor(s, time) == IF CellOf(time) + 1 - NumCells > CellOf(s.second)
                     THEN CellOf(time) + 1 - NumCells ELSE CellOf(s.second)

\* What AddElement does before it stores an element at or above the lower bound:
\* the first m slots are written out, and the bound moves up just far enough for
\* the element's cell to fit, by exactly m cells unless the whole ring was emptied.
LEMMA RoomMade ==
    ASSUME NEW s \in Sorter, Aligned(s), NEW time \in Nat, ~BelowLowerBound(s, time)
    PROVE  \E m \in 0 .. NumCells, b \in Nat :
              /\ Advanced(s, MakeRoom(s, time), m, b)
              /\ b <= CellOf(time) /\ CellOf(time) < b + NumCells
              /\ b = BoundFor(s, time)
<1> DEFINE bound == CellOf(s.second)
           c == CellOf(time)
           w == MakeRoom(s, time)
<1>1. s.second \in Nat /\ s.first \in Slots
  BY DEF Sorter
<1>2. bound \in Nat /\ c \in Nat
  BY <1>1, RingAssumption, DivMod DEF CellOf
<1>3. s.second = bound * CellWidth /\ s.first = bound % NumCells
  BY DEF Aligned
<1> HIDE DEF bound, c
<1>4. /\ c >= bound
      /\ (time >= s.second + GetBufferSize) <=> (c >= bound + NumCells)
      /\ (time >= s.second + 2 * GetBufferSize) <=> (c >= bound + 2 * NumCells)
  <2>1. /\ GetBufferSize \in Nat /\ 0 * GetBufferSize = 0 /\ 1 * GetBufferSize = GetBufferSize
        /\ 0 * NumCells = 0 /\ 1 * NumCells = NumCells
    BY RingAssumption DEF GetBufferSize
  <2>2. (time >= bound * CellWidth + 0 * GetBufferSize) <=> (c >= bound + 0 * NumCells)
    BY <1>2, BoundInCells DEF c
  <2>3. (time >= bound * CellWidth + 1 * GetBufferSize) <=> (c >= bound + 1 * NumCells)
    BY <1>2, BoundInCells DEF c
  <2>4. (time >= bound * CellWidth + 2 * GetBufferSize) <=> (c >= bound + 2 * NumCells)
    BY <1>2, BoundInCells DEF c
  <2>5. time >= s.second
    BY <1>1 DEF BelowLowerBound
  <2> QED BY <1>1, <1>2, <1>3, <2>1, <2>2, <2>3, <2>4, <2>5, RingAssumption
<1>5. CASE c < bound + NumCells
  <2>1. w = s
    BY <1>1, <1>2, <1>4, <1>5, RingAssumption DEF MakeRoom
  <2>2. [j \in 1 .. 0 |-> s.fRingBuffer[SlotAt(s, j - 1)]] = << >>
    OBVIOUS
  <2>3. s.fOutputData \o << >> = s.fOutputData
    BY DEF Sorter
  <2>4. 0 \in 0 .. NumCells
    BY RingAssumption
  <2>5. \A k \in 0 .. NumCells - 1 : ~(k < 0)
    BY RingAssumption
  <2>6. bound + 0 <= bound /\ bound + 0 = bound /\ bound <= c
    BY <1>2, <1>4
  <2>7. Advanced(s, s, 0, bound)
    BY <1>2, <1>3, <2>2, <2>3, <2>4, <2>5, <2>6 DEF Advanced, bound
  <2>8. bound = BoundFor(s, time)
    BY <1>2, <1>5, RingAssumption DEF BoundFor, bound, c
  <2> QED BY <1>2, <1>5, <2>1, <2>4, <2>6, <2>7, <2>8 DEF c
\* In both remaining cases a stretch of m slots is written and the bound is reset.
<1>6. ASSUME NEW index \in Nat, NEW m \in 0 .. NumCells, Span(s, index) = m,
             c >= bound + NumCells, w = SetLowerBound(WriteOutElements(s, index), time),
             bound + m <= c + 1 - NumCells,
             m < NumCells => c + 1 - NumCells = bound + m
      PROVE  \E n \in 0 .. NumCells, b \in Nat :
                Advanced(s, w, n, b) /\ b <= c /\ c < b + NumCells /\ b = BoundFor(s, time)
  <2> DEFINE b == c + 1 - NumCells
             v == WriteOutElements(s, index)
  <2>1. /\ v \in Sorter
        /\ v.fOutputData = s.fOutputData
                           \o [j \in 1 .. m |-> s.fRingBuffer[SlotAt(s, j - 1)]]
        /\ \A k \in 0 .. NumCells - 1 : v.fRingBuffer[SlotAt(s, k)] =
               IF k < m THEN {} ELSE s.fRingBuffer[SlotAt(s, k)]
    BY <1>6, WrittenOut
  <2> HIDE DEF v
  <2>2. c >= NumCells
    BY <1>2, <1>6, RingAssumption
  <2> HIDE DEF w
  <2>3. /\ b \in Nat /\ w \in Sorter
        /\ w.second = b * CellWidth /\ w.first = b % NumCells
        /\ w.fRingBuffer = v.fRingBuffer /\ w.fOutputData = v.fOutputData
    BY <1>6, <2>1, <2>2, BoundSet DEF v, c
  <2>4. CellOf(w.second) = b
    BY <2>3, BoundInCells
  <2>5. b <= c /\ c < b + NumCells
    BY <1>2, RingAssumption
  <2>6. b = BoundFor(s, time)
    BY <1>2, <1>6, RingAssumption DEF BoundFor, bound, c
  <2> HIDE DEF b
  <2>7. bound + m <= b /\ (m < NumCells => b = bound + m)
    BY <1>6 DEF b
  <2> QED BY <2>1, <2>3, <2>4, <2>5, <2>6, <2>7 DEF Advanced, bound
<1>7. CASE c >= bound + NumCells /\ c < bound + 2 * NumCells
  <2> DEFINE k == c - bound - NumCells
             index == CalcIndex(time) + 1
             m == k + 1
  <2>1. k \in 0 .. NumCells - 1 /\ c = (bound + NumCells) + k
    BY <1>2, <1>7, RingAssumption
  <2>2. (bound + NumCells) % NumCells = s.first
    BY <1>2, <1>3, RingAssumption, ModStep
  <2> HIDE DEF k
  <2>3. c % NumCells = IF s.first + k < NumCells THEN s.first + k ELSE s.first + k - NumCells
    <3>1. bound + NumCells \in Nat
      BY <1>2, RingAssumption
    <3>2. ((bound + NumCells) + k) % NumCells
             = IF ((bound + NumCells) % NumCells) + k < NumCells
               THEN ((bound + NumCells) % NumCells) + k
               ELSE ((bound + NumCells) % NumCells) + k - NumCells
      BY <2>1, <3>1, RingAssumption, ModAdd
    <3> QED BY <2>1, <2>2, <3>2
  <2>4. index = (c % NumCells) + 1
    BY DEF CalcIndex, c
  <2> HIDE DEF index
  <2>5. index \in Nat /\ m \in 0 .. NumCells /\ Span(s, index) = m
    BY <1>1, <2>1, <2>3, <2>4, RingAssumption DEF Span, Slots
  <2>6. w = SetLowerBound(WriteOutElements(s, index), time)
    BY <1>2, <1>4, <1>7, RingAssumption DEF MakeRoom, index
  <2>7. m < NumCells => c + 1 - NumCells = bound + m
    BY <1>2, <2>1, RingAssumption
  <2>8. bound + m <= c + 1 - NumCells
    BY <1>2, <2>1, RingAssumption
  <2> QED BY <1>6, <1>7, <2>5, <2>6, <2>7, <2>8 DEF bound, c
<1>8. CASE c >= bound + 2 * NumCells
  <2>1. s.first \in Nat /\ Span(s, s.first) = NumCells /\ NumCells \in 0 .. NumCells
    BY <1>1, RingAssumption DEF Span, Slots
  <2>2. w = SetLowerBound(WriteOutElements(s, s.first), time)
    BY <1>4, <1>8 DEF MakeRoom, WriteOutAll
  <2>3. bound + NumCells <= c + 1 - NumCells /\ c >= bound + NumCells
    BY <1>2, <1>8, RingAssumption
  <2>4. ~(NumCells < NumCells)
    BY RingAssumption
  <2> QED BY <1>6, <2>1, <2>2, <2>3, <2>4 DEF bound, c
<1>9. c < bound + NumCells \/ (c >= bound + NumCells /\ c < bound + 2 * NumCells)
                             \/ c >= bound + 2 * NumCells
  BY <1>2, RingAssumption
<1> QED BY <1>5, <1>7, <1>8, <1>9 DEF c
-----------------------------------------------------------------------------
(* The inductive invariant. *)

\* Cells strictly ascend along a sequence of written slots.
Ascending(W) ==
    \A i, j \in DOMAIN W : i < j => \A a \in W[i], b \in W[j] : CellOf(a.t) < CellOf(b.t)

Contents(W) == UNION {W[j] : j \in DOMAIN W}

\* The output ascends and ends below the lower bound; after FinishTask there is
\* no bound to respect any more, but nothing is left in the ring either.
OutputOrdered ==
    /\ Ascending(Written)
    /\ ~finished => \A e \in Released : CellOf(e.t) < CellOf(sorter.second)
    /\ finished => Held = {}

\* What is held or was released is what was accepted, and arrival numbers tell
\* the elements apart.
Accounted ==
    /\ \A i \in DOMAIN added : added[i].e.id = i
    /\ Held \cup Released = {added[i].e : i \in {i \in DOMAIN added : ~added[i].late}}

\* TypeOK and RingAligned alone do not bound what was written out before, and
\* the order of the output alone is not preserved without the alignment.
IInv == TypeOK /\ RingAligned /\ OutputOrdered /\ Accounted

\* Cells of the timeline are numbered from 0.
LEMMA CellIsNat ==
    ASSUME NEW time \in Nat PROVE CellOf(time) \in Nat
BY RingAssumption, DivMod DEF CellOf

\* A smaller cell is a smaller time.
LEMMA CellOrder ==
    ASSUME NEW x \in Nat, NEW y \in Nat, CellOf(x) < CellOf(y) PROVE x < y
<1> DEFINE q == CellOf(y)
<1>1. q \in Nat /\ CellOf(x) \in Nat
  BY CellIsNat
<1>2. y >= CellWidth * q /\ ~(x >= CellWidth * q) /\ CellWidth * q \in Nat
  BY <1>1, RingAssumption, DivGe DEF CellOf
<1> QED BY <1>2

\* An ascending output stays so when what is appended ascends and begins at the bound.
LEMMA AscendingAppend ==
    ASSUME NEW W \in Seq(SUBSET Element), NEW B \in Seq(SUBSET Element), NEW bound \in Nat,
           Ascending(W), Ascending(B),
           \A e \in Contents(W) : CellOf(e.t) < bound,
           \A e \in Contents(B) : bound <= CellOf(e.t)
    PROVE  Ascending(W \o B)
<1> SUFFICES ASSUME NEW i \in DOMAIN (W \o B), NEW j \in DOMAIN (W \o B), i < j,
                    NEW a \in (W \o B)[i], NEW b \in (W \o B)[j]
             PROVE  CellOf(a.t) < CellOf(b.t)
  BY DEF Ascending
<1>1. /\ Len(W) \in Nat /\ Len(B) \in Nat
      /\ i \in 1 .. Len(W) + Len(B) /\ j \in 1 .. Len(W) + Len(B)
      /\ DOMAIN W = 1 .. Len(W) /\ DOMAIN B = 1 .. Len(B)
  OBVIOUS
<1>2. CASE j <= Len(W)
  <2>1. i \in DOMAIN W /\ j \in DOMAIN W /\ (W \o B)[i] = W[i] /\ (W \o B)[j] = W[j]
    BY <1>1, <1>2
  <2> QED BY <2>1 DEF Ascending
<1>3. CASE i > Len(W)
  <2>1. /\ i - Len(W) \in DOMAIN B /\ j - Len(W) \in DOMAIN B
        /\ (W \o B)[i] = B[i - Len(W)] /\ (W \o B)[j] = B[j - Len(W)]
        /\ i - Len(W) < j - Len(W)
    BY <1>1, <1>3
  <2> QED BY <2>1 DEF Ascending
<1>4. CASE i <= Len(W) /\ j > Len(W)
  <2>1. /\ i \in DOMAIN W /\ (W \o B)[i] = W[i]
        /\ j - Len(W) \in DOMAIN B /\ (W \o B)[j] = B[j - Len(W)]
    BY <1>1, <1>4
  <2>2. a \in Contents(W) /\ b \in Contents(B)
    BY <2>1 DEF Contents
  <2>3. a \in Element /\ b \in Element
    BY <2>1
  <2>4. CellOf(a.t) \in Nat /\ CellOf(b.t) \in Nat
    BY <2>3, CellIsNat DEF Element
  <2> QED BY <2>2, <2>4
<1> QED BY <1>1, <1>2, <1>3, <1>4

\* The elements of two sequences of cells one behind the other.
LEMMA ContentsAppend ==
    ASSUME NEW W \in Seq(SUBSET Element), NEW B \in Seq(SUBSET Element)
    PROVE  Contents(W \o B) = Contents(W) \cup Contents(B)
<1>1. ASSUME NEW e \in Contents(W \o B) PROVE e \in Contents(W) \cup Contents(B)
  <2>1. PICK j \in 1 .. Len(W) + Len(B) : e \in (W \o B)[j]
    BY DEF Contents
  <2>2. CASE j <= Len(W)
    BY <2>1, <2>2 DEF Contents
  <2>3. CASE j > Len(W)
    <3>1. j - Len(W) \in DOMAIN B /\ (W \o B)[j] = B[j - Len(W)]
      BY <2>3
    <3> QED BY <2>1, <3>1 DEF Contents
  <2> QED BY <2>2, <2>3
<1>2. ASSUME NEW e \in Contents(W) PROVE e \in Contents(W \o B)
  <2>1. PICK j \in DOMAIN W : e \in W[j]
    BY DEF Contents
  <2>2. j \in DOMAIN (W \o B) /\ (W \o B)[j] = W[j]
    OBVIOUS
  <2> QED BY <2>1, <2>2 DEF Contents
<1>3. ASSUME NEW e \in Contents(B) PROVE e \in Contents(W \o B)
  <2>1. PICK j \in DOMAIN B : e \in B[j]
    BY DEF Contents
  <2>2. j + Len(W) \in DOMAIN (W \o B) /\ (W \o B)[j + Len(W)] = B[j]
    OBVIOUS
  <2> QED BY <2>1, <2>2 DEF Contents
<1> QED BY <1>1, <1>2, <1>3
\* What is in the output is an element, so it has a cell.
LEMMA ContentsTyped ==
    ASSUME NEW W \in Seq(SUBSET Element), NEW e \in Contents(W)
    PROVE  e \in Element /\ CellOf(e.t) \in Nat
<1>1. PICK j \in DOMAIN W : e \in W[j]
  BY DEF Contents
<1>2. e \in Element
  BY <1>1
<1>3. e.t \in Nat
  BY <1>2 DEF Element
<1> QED BY <1>2, <1>3, CellIsNat

-----------------------------------------------------------------------------
(* One AddElement. *)

InRing(s) == UNION {s.fRingBuffer[c] : c \in Slots}

Batch(s, m) == [j \in 1 .. m |-> s.fRingBuffer[SlotAt(s, j - 1)]]

\* The first m slots of an aligned ring come out in order.
LEMMA BatchAscends ==
    ASSUME NEW s \in Sorter, Aligned(s), NEW m \in 0 .. NumCells
    PROVE  /\ Batch(s, m) \in Seq(SUBSET Element)
           /\ Ascending(Batch(s, m))
           /\ \A e \in Contents(Batch(s, m)) : /\ CellOf(s.second) <= CellOf(e.t)
                                               /\ CellOf(e.t) < CellOf(s.second) + m
<1> DEFINE bound == CellOf(s.second)
<1>1. m \in Nat /\ bound \in Nat /\ s.fRingBuffer \in [Slots -> SUBSET Element]
  BY RingAssumption, CellIsNat DEF Sorter
<1>2. ASSUME NEW j \in 1 .. m
      PROVE  /\ j - 1 \in 0 .. NumCells - 1
             /\ s.fRingBuffer[SlotAt(s, j - 1)] \in SUBSET Element
             /\ \A e \in s.fRingBuffer[SlotAt(s, j - 1)] : CellOf(e.t) = bound + (j - 1)
  <2>1. j - 1 \in 0 .. NumCells - 1
    BY <1>1, RingAssumption
  <2> QED BY <1>1, <2>1, SlotInRing DEF Aligned
<1> HIDE DEF bound
<1>3. Batch(s, m) \in Seq(SUBSET Element) /\ DOMAIN Batch(s, m) = 1 .. m
  BY <1>1, <1>2 DEF Batch
<1>4. \A j \in 1 .. m : Batch(s, m)[j] = s.fRingBuffer[SlotAt(s, j - 1)]
  BY DEF Batch
<1>5. Ascending(Batch(s, m))
  BY <1>1, <1>2, <1>3, <1>4 DEF Ascending
<1>6. \A e \in Contents(Batch(s, m)) : bound <= CellOf(e.t) /\ CellOf(e.t) < bound + m
  BY <1>1, <1>2, <1>3, <1>4 DEF Contents
<1> QED BY <1>3, <1>5, <1>6 DEF bound

\* Writing out moves elements from the ring to the output and loses none.
LEMMA RingSplits ==
    ASSUME NEW s \in Sorter, NEW w \in Sorter, NEW m \in 0 .. NumCells,
           \A k \in 0 .. NumCells - 1 : w.fRingBuffer[SlotAt(s, k)] =
               IF k < m THEN {} ELSE s.fRingBuffer[SlotAt(s, k)]
    PROVE  InRing(s) = InRing(w) \cup Contents(Batch(s, m))
<1>1. ASSUME NEW e \in InRing(s) PROVE e \in InRing(w) \cup Contents(Batch(s, m))
  <2>1. PICK c \in Slots : e \in s.fRingBuffer[c]
    BY DEF InRing
  <2>2. PICK k \in 0 .. NumCells - 1 : SlotAt(s, k) = c
    BY SlotOnto
  <2>3. CASE k < m
    <3>1. k + 1 \in 1 .. m /\ Batch(s, m)[k + 1] = s.fRingBuffer[c]
      BY <2>2, <2>3, RingAssumption DEF Batch
    <3> QED BY <2>1, <3>1 DEF Contents, Batch
  <2>4. CASE ~(k < m)
    BY <2>1, <2>2, <2>4 DEF InRing
  <2> QED BY <2>3, <2>4
<1>2. ASSUME NEW e \in InRing(w) PROVE e \in InRing(s)
  <2>1. PICK c \in Slots : e \in w.fRingBuffer[c]
    BY DEF InRing
  <2>2. PICK k \in 0 .. NumCells - 1 : SlotAt(s, k) = c
    BY SlotOnto
  <2> QED BY <2>1, <2>2 DEF InRing
<1>3. ASSUME NEW e \in Contents(Batch(s, m)) PROVE e \in InRing(s)
  <2>1. PICK j \in 1 .. m : e \in s.fRingBuffer[SlotAt(s, j - 1)]
    BY DEF Contents, Batch
  <2>2. j - 1 \in 0 .. NumCells - 1
    BY RingAssumption
  <2> QED BY <2>1, <2>2, SlotInRing DEF InRing
<1> QED BY <1>1, <1>2, <1>3

\* The slot of a cell the ring spans is that cell's distance from the bound.
LEMMA IndexIsSlot ==
    ASSUME NEW w \in Sorter, NEW b \in Nat, w.first = b % NumCells, NEW time \in Nat,
           b <= CellOf(time), CellOf(time) < b + NumCells
    PROVE  /\ CellOf(time) - b \in 0 .. NumCells - 1
           /\ CalcIndex(time) = SlotAt(w, CellOf(time) - b)
<1>1. CellOf(time) \in Nat
  BY CellIsNat
<1>2. CellOf(time) - b \in 0 .. NumCells - 1 /\ b + (CellOf(time) - b) = CellOf(time)
  BY <1>1, RingAssumption
<1>3. SlotAt(w, CellOf(time) - b) = (b + (CellOf(time) - b)) % NumCells
  BY <1>2, SlotIsCell
<1> QED BY <1>2, <1>3 DEF CalcIndex

\* The ring stays aligned when the bound moves.
LEMMA AdvanceAligned ==
    ASSUME NEW s \in Sorter, Aligned(s), NEW w, NEW m \in 0 .. NumCells, NEW b \in Nat,
           Advanced(s, w, m, b)
    PROVE  Aligned(w)
<1> DEFINE bound == CellOf(s.second)
<1>1. bound \in Nat /\ m \in Nat /\ w \in Sorter
  <2>1. s.second \in Nat
    BY DEF Sorter
  <2>2. m \in Nat
    BY RingAssumption
  <2>3. w \in Sorter
    BY DEF Advanced
  <2> QED BY <2>1, <2>2, <2>3, CellIsNat
<1>2. s.first = bound % NumCells /\ w.first = b % NumCells
  BY DEF Aligned, Advanced
<1>3. bound + m <= b /\ (m < NumCells => b = bound + m)
  BY DEF Advanced
<1> HIDE DEF bound
<1>4. ASSUME NEW k \in 0 .. NumCells - 1, NEW e \in w.fRingBuffer[SlotAt(w, k)]
      PROVE  CellOf(e.t) = b + k
  <2>1. PICK l \in 0 .. NumCells - 1 : SlotAt(s, l) = SlotAt(w, k)
    BY <1>1, SlotInRing, SlotOnto
  <2>2. l >= m /\ e \in s.fRingBuffer[SlotAt(s, l)]
    BY <1>1, <1>4, <2>1 DEF Advanced
  <2>3. CellOf(e.t) = bound + l
    BY <2>2 DEF Aligned, bound
  <2>4. b = bound + m /\ l - m \in 0 .. NumCells - 1
    BY <1>1, <1>3, <2>2, RingAssumption
  <2>5. SlotAt(s, l) = (bound + l) % NumCells
    BY <1>1, <1>2, SlotIsCell
  <2>6. SlotAt(w, l - m) = (b + (l - m)) % NumCells
    BY <1>1, <1>2, <2>4, SlotIsCell
  <2>7. b + (l - m) = bound + l
    BY <1>1, <2>4
  <2>8. k = l - m
    BY <1>1, <2>1, <2>4, <2>5, <2>6, <2>7, SlotInjective
  <2> QED BY <1>1, <2>3, <2>4, <2>8
<1> QED BY <1>2, <1>4 DEF Aligned, Advanced

\* The elements of a set on either side of the edge of cell b.
Below(S, b) == {d \in S : CellOf(d.t) < b}
AtOrAbove(S, b) == {d \in S : CellOf(d.t) >= b}

\* AddElement keeps the ring aligned, appends ordered cells to the output and
\* accounts for the new element and for every element it moves.
LEMMA ElementAdded ==
    ASSUME NEW s \in Sorter, Aligned(s), NEW e \in Element, ~BelowLowerBound(s, e.t)
    PROVE  \E m \in 0 .. NumCells :
              LET x == AddElement(s, e)
              IN  /\ x \in Sorter /\ Aligned(x)
                  /\ x.fOutputData = s.fOutputData \o Batch(s, m)
                  /\ CellOf(s.second) + m <= CellOf(x.second)
                  /\ InRing(x) \cup Contents(Batch(s, m)) = InRing(s) \cup {e}
                  /\ CellOf(x.second) = BoundFor(s, e.t)
                  /\ Contents(Batch(s, m)) = Below(InRing(s), CellOf(x.second))
                  /\ InRing(x) = AtOrAbove(InRing(s), CellOf(x.second)) \cup {e}
<1> DEFINE w == MakeRoom(s, e.t)
           x == AddElement(s, e)
           i == CalcIndex(e.t)
<1>1. e.t \in Nat
  BY DEF Element
<1>2. PICK m \in 0 .. NumCells, b \in Nat :
          /\ Advanced(s, w, m, b) /\ b <= CellOf(e.t) /\ CellOf(e.t) < b + NumCells
          /\ b = BoundFor(s, e.t)
  BY <1>1, RoomMade
<1>3. x = [w EXCEPT !.fRingBuffer = [w.fRingBuffer EXCEPT ![i] = @ \cup {e}]]
  BY DEF AddElement
<1> HIDE DEF w
<1>4. w \in Sorter /\ w.first = b % NumCells /\ CellOf(w.second) = b /\ Aligned(w)
  BY <1>2, AdvanceAligned DEF Advanced
<1>5. CellOf(e.t) - b \in 0 .. NumCells - 1 /\ i = SlotAt(w, CellOf(e.t) - b)
  BY <1>1, <1>2, <1>4, IndexIsSlot
<1>6. i \in Slots
  BY <1>4, <1>5, SlotInRing
<1> HIDE DEF i
<1> DEFINE ring == [w.fRingBuffer EXCEPT ![i] = @ \cup {e}]
<1>7. ring \in [Slots -> SUBSET Element]
  BY <1>4, <1>6 DEF Sorter
<1>8. \A c \in Slots : ring[c] = IF c = i THEN w.fRingBuffer[c] \cup {e} ELSE w.fRingBuffer[c]
  BY <1>4 DEF Sorter
<1> HIDE DEF ring
<1>9. /\ x \in Sorter /\ x.fRingBuffer = ring
      /\ x.first = w.first /\ x.second = w.second /\ x.fOutputData = w.fOutputData
  BY <1>3, <1>4, <1>7 DEF Sorter, ring
<1> HIDE DEF x
<1>10. \A k \in 0 .. NumCells - 1 : SlotAt(x, k) = SlotAt(w, k)
  BY <1>9 DEF SlotAt
<1>11. Aligned(x)
  <2>1. ASSUME NEW k \in 0 .. NumCells - 1, NEW d \in x.fRingBuffer[SlotAt(x, k)]
        PROVE  CellOf(d.t) = CellOf(x.second) + k
    <3>1. SlotAt(w, k) \in Slots
      BY <1>4, SlotInRing
    <3>2. CASE d \in w.fRingBuffer[SlotAt(w, k)]
      BY <1>4, <1>9, <3>2 DEF Aligned
    <3>3. CASE d = e /\ SlotAt(w, k) = i
      <4>1. k = CellOf(e.t) - b
        BY <1>4, <1>5, <3>3, SlotInjective
      <4>2. CellOf(e.t) \in Nat
        BY <1>1, CellIsNat
      <4> QED BY <1>4, <1>9, <3>3, <4>1, <4>2
    <3> QED BY <1>8, <1>9, <1>10, <2>1, <3>1, <3>2, <3>3
  <2> QED BY <1>4, <1>9, <2>1 DEF Aligned
<1>12. x.fOutputData = s.fOutputData \o Batch(s, m) /\ CellOf(s.second) + m <= CellOf(x.second)
  BY <1>2, <1>4, <1>9 DEF Advanced, Batch
<1>13. InRing(x) = InRing(w) \cup {e}
  BY <1>6, <1>8, <1>9 DEF InRing
<1>14. InRing(s) = InRing(w) \cup Contents(Batch(s, m))
  BY <1>2, <1>4, RingSplits DEF Advanced
\* What was written out lies below the new bound, what stays in the ring does not.
<1>15. \A d \in InRing(w) : CellOf(d.t) >= b
  <2> SUFFICES ASSUME NEW c \in Slots, NEW d \in w.fRingBuffer[c] PROVE CellOf(d.t) >= b
    BY DEF InRing
  <2>1. PICK k \in 0 .. NumCells - 1 : SlotAt(w, k) = c
    BY <1>4, SlotOnto
  <2>2. CellOf(d.t) = b + k
    BY <1>4, <2>1 DEF Aligned
  <2> QED BY <2>2, RingAssumption
<1>16. \A d \in Contents(Batch(s, m)) : CellOf(d.t) \in Nat /\ CellOf(d.t) < b
  <2>1. /\ Batch(s, m) \in Seq(SUBSET Element)
        /\ \A d \in Contents(Batch(s, m)) : CellOf(d.t) < CellOf(s.second) + m
    BY BatchAscends
  <2>2. \A d \in Contents(Batch(s, m)) : CellOf(d.t) \in Nat
    BY <2>1, ContentsTyped
  <2>3. CellOf(s.second) \in Nat /\ m \in Nat /\ CellOf(s.second) + m <= b
    <3>1. s.second \in Nat /\ m \in Nat
      BY RingAssumption DEF Sorter
    <3>2. CellOf(s.second) \in Nat
      BY <3>1, CellIsNat
    <3> QED BY <1>2, <3>1, <3>2 DEF Advanced
  <2> QED BY <2>1, <2>2, <2>3
<1>17. /\ CellOf(x.second) = b
       /\ Contents(Batch(s, m)) = Below(InRing(s), b)
       /\ InRing(w) = AtOrAbove(InRing(s), b)
  <2>1. \A d \in InRing(w) : CellOf(d.t) \in Nat
    <3>1. \A d \in InRing(w) : d \in Element
      BY <1>4 DEF InRing, Sorter
    <3>2. \A d \in InRing(w) : d.t \in Nat
      BY <3>1 DEF Element
    <3> QED BY <3>2, CellIsNat
  <2> QED BY <1>4, <1>9, <1>14, <1>15, <1>16, <2>1 DEF Below, AtOrAbove
<1> QED BY <1>2, <1>9, <1>11, <1>12, <1>13, <1>14, <1>17 DEF x
-----------------------------------------------------------------------------
(* The specification. *)

\* The empty sequence has every type.
LEMMA EmptyTyped == ASSUME NEW S PROVE << >> \in Seq(S) /\ DOMAIN << >> = {}
OBVIOUS

\* What was written so far, and what a step appends to it.
LEMMA Appended ==
    ASSUME NEW d \in Seq(SUBSET Element), NEW o \in Seq(SUBSET Element),
           NEW B \in Seq(SUBSET Element)
    PROVE  /\ d \o o \in Seq(SUBSET Element) /\ o \o B \in Seq(SUBSET Element)
           /\ d \o (o \o B) = (d \o o) \o B
           /\ d \o (o \o B) \in Seq(SUBSET Element)
<1>1. d \o o \in Seq(SUBSET Element) /\ o \o B \in Seq(SUBSET Element)
  BY ConcatProperties
<1> QED BY <1>1, ConcatProperties, ConcatAssociative

\* Appending the emptied output changes nothing.
LEMMA NothingAppended ==
    ASSUME NEW d \in Seq(SUBSET Element)
    PROVE  d \o << >> = d
BY ConcatEmptySeq

\* DeleteOutputData touches the output only.
LEMMA OutputDeleted ==
    ASSUME NEW s \in Sorter
    PROVE  LET x == DeleteOutputData(s)
           IN  /\ x \in Sorter /\ x.fOutputData = << >>
               /\ x.fRingBuffer = s.fRingBuffer
               /\ x.first = s.first /\ x.second = s.second
<1>1. << >> \in Seq(SUBSET Element)
  BY EmptyTyped
<1> QED BY <1>1 DEF DeleteOutputData, Sorter

\* WriteOutAll empties the ring, whatever its lower bound.
LEMMA AllWritten ==
    ASSUME NEW s \in Sorter
    PROVE  /\ WriteOutAll(s) \in Sorter
           /\ WriteOutAll(s).fOutputData = s.fOutputData \o Batch(s, NumCells)
           /\ WriteOutAll(s).first = s.first /\ WriteOutAll(s).second = s.second
           /\ InRing(WriteOutAll(s)) = {}
           /\ InRing(s) = Contents(Batch(s, NumCells))
<1> DEFINE w == WriteOutAll(s)
<1>1. s.first \in Nat /\ Span(s, s.first) = NumCells /\ NumCells \in 0 .. NumCells
  BY RingAssumption DEF Sorter, Slots, Span
<1>2. /\ w \in Sorter
      /\ w.first = s.first /\ w.second = s.second
      /\ w.fOutputData = s.fOutputData \o Batch(s, NumCells)
      /\ \A k \in 0 .. NumCells - 1 : w.fRingBuffer[SlotAt(s, k)] =
             IF k < NumCells THEN {} ELSE s.fRingBuffer[SlotAt(s, k)]
  BY <1>1, WrittenOut DEF WriteOutAll, Batch
<1> HIDE DEF w
<1>3. InRing(s) = InRing(w) \cup Contents(Batch(s, NumCells))
  BY <1>1, <1>2, RingSplits
<1>4. \A c \in Slots : w.fRingBuffer[c] = {}
  BY <1>2, SlotOnto, RingAssumption
<1>5. InRing(w) = {}
  BY <1>4 DEF InRing
<1> QED BY <1>2, <1>3, <1>5 DEF w

\* The empty sorter satisfies the invariant.
LEMMA InitInvariant == Init => IInv
<1> SUFFICES ASSUME Init PROVE IInv
  OBVIOUS
<1>1. /\ sorter.fRingBuffer = [c \in Slots |-> {}]
      /\ sorter.first = 0 /\ sorter.second = 0 /\ sorter.fOutputData = << >>
      /\ added = << >> /\ delivered = << >> /\ finished = FALSE
      /\ sorter \in Sorter
  BY RingAssumption DEF Init, EmptySorter, Sorter, Slots
<1>2. CellOf(0) = 0 /\ 0 = 0 * CellWidth
  <2>1. CellWidth * 0 <= 0 /\ 0 < CellWidth * 0 + CellWidth /\ 0 * CellWidth = 0
    BY RingAssumption
  <2> QED BY <2>1, RingAssumption, DivUnique DEF CellOf
<1>3. 0 % NumCells = 0
  <2>1. NumCells * 0 <= 0 /\ 0 < NumCells * 0 + NumCells /\ 0 - NumCells * 0 = 0
    BY RingAssumption
  <2> QED BY <2>1, RingAssumption, ModUnique
<1>4. TypeOK
  BY <1>1, EmptyTyped DEF TypeOK
<1>5. RingAligned
  <2>1. \A k \in 0 .. NumCells - 1 : sorter.fRingBuffer[SlotAt(sorter, k)] = {}
    BY <1>1, SlotInRing
  <2> QED BY <1>1, <1>2, <1>3, <2>1 DEF RingAligned, Aligned
<1>6. Written = << >>
  BY <1>1 DEF Written
<1>7. Held = {} /\ Released = {}
  BY <1>1, <1>6 DEF Held, Released
<1>8. OutputOrdered
  BY <1>1, <1>6, <1>7 DEF OutputOrdered, Ascending
<1>9. Accounted
  BY <1>1, <1>7 DEF Accounted
<1> QED BY <1>4, <1>5, <1>8, <1>9 DEF IInv

\* Add: either the element is refused and nothing moves, or ElementAdded applies.
LEMMA AddPreserves ==
    ASSUME IInv, NEW time \in Times, Add(time) PROVE IInv'
<1> DEFINE e == [id |-> Len(added) + 1, t |-> time]
           entry == [e |-> e, late |-> BelowLowerBound(sorter, time)]
<1>1. /\ sorter \in Sorter /\ Aligned(sorter) /\ finished = FALSE
      /\ added \in Seq([e : Element, late : BOOLEAN])
      /\ delivered \in Seq(SUBSET Element)
  BY DEF IInv, TypeOK, RingAligned, Add
<1>2. e \in Element /\ entry \in [e : Element, late : BOOLEAN]
  BY <1>1, InputAssumption DEF Element, BelowLowerBound
<1>3. /\ sorter' = AddElement(sorter, e) /\ added' = Append(added, entry)
      /\ delivered' = delivered /\ finished' = FALSE
  BY <1>1 DEF Add
<1>4. e.t = time /\ e.id = Len(added) + 1 /\ entry.e = e
      /\ entry.late = BelowLowerBound(sorter, e.t)
  OBVIOUS
<1> HIDE DEF e, entry
<1>5. /\ added' \in Seq([e : Element, late : BOOLEAN])
      /\ DOMAIN added' = DOMAIN added \cup {Len(added) + 1}
      /\ \A i \in DOMAIN added : added'[i] = added[i]
      /\ added'[Len(added) + 1] = entry /\ Len(added) + 1 \notin DOMAIN added
  BY <1>1, <1>2, <1>3
<1>6. \A i \in DOMAIN added' : added'[i].e.id = i
  BY <1>4, <1>5 DEF IInv, Accounted
<1>7. {added'[i].e : i \in {i \in DOMAIN added' : ~added'[i].late}}
        = {added[i].e : i \in {i \in DOMAIN added : ~added[i].late}}
          \cup (IF entry.late THEN {} ELSE {e})
  BY <1>4, <1>5
<1>8. CASE BelowLowerBound(sorter, e.t)
  <2>1. sorter' = sorter
    BY <1>3, <1>8 DEF AddElement
  <2>2. Written' = Written
    BY <1>3, <2>1 DEF Written
  <2>3. Held' = Held /\ Released' = Released
    BY <2>1, <2>2 DEF Held, Released
  <2>4. TypeOK'
    BY <1>1, <1>3, <1>5, <2>1 DEF TypeOK
  <2>5. RingAligned'
    BY <1>1, <2>1 DEF RingAligned
  <2>6. OutputOrdered'
    BY <1>1, <1>3, <2>1, <2>2, <2>3 DEF IInv, OutputOrdered
  <2>7. entry.late
    BY <1>4, <1>8
  <2>8. Accounted'
    BY <1>6, <1>7, <2>3, <2>7 DEF IInv, Accounted
  <2> QED BY <2>4, <2>5, <2>6, <2>8 DEF IInv
<1>9. CASE ~BelowLowerBound(sorter, e.t)
  <2>1. PICK m \in 0 .. NumCells :
            /\ sorter' \in Sorter /\ Aligned(sorter')
            /\ sorter'.fOutputData = sorter.fOutputData \o Batch(sorter, m)
            /\ CellOf(sorter.second) + m <= CellOf(sorter'.second)
            /\ InRing(sorter') \cup Contents(Batch(sorter, m)) = InRing(sorter) \cup {e}
    BY <1>1, <1>2, <1>3, <1>9, ElementAdded
  <2>2. /\ Batch(sorter, m) \in Seq(SUBSET Element)
        /\ Ascending(Batch(sorter, m))
        /\ \A d \in Contents(Batch(sorter, m)) :
              /\ CellOf(sorter.second) <= CellOf(d.t)
              /\ CellOf(d.t) < CellOf(sorter.second) + m
    BY <1>1, BatchAscends
  <2>3. Written \in Seq(SUBSET Element) /\ sorter.fOutputData \in Seq(SUBSET Element)
    BY <1>1 DEF Written, Sorter
  <2>4. Written' = Written \o Batch(sorter, m)
    <3>1. delivered \o (sorter.fOutputData \o Batch(sorter, m))
             = (delivered \o sorter.fOutputData) \o Batch(sorter, m)
      BY <1>1, <2>2, <2>3, Appended
    <3> QED BY <1>3, <2>1, <3>1 DEF Written
  <2>5. Released = Contents(Written) /\ Released' = Contents(Written')
    BY DEF Released, Contents
  <2>6. Released' = Released \cup Contents(Batch(sorter, m))
    BY <2>2, <2>3, <2>4, <2>5, ContentsAppend
  <2>7. Held = InRing(sorter) /\ Held' = InRing(sorter')
    BY DEF Held, InRing
  <2>8. CellOf(sorter.second) \in Nat /\ CellOf(sorter'.second) \in Nat /\ m \in Nat
    BY <1>1, <2>1, CellIsNat, RingAssumption DEF Sorter
  <2>9. \A d \in Released : CellOf(d.t) < CellOf(sorter.second)
    BY <1>1 DEF IInv, OutputOrdered
  <2>10. \A d \in Released : CellOf(d.t) \in Nat
    BY <2>3, <2>5, ContentsTyped
  <2>11. Ascending(Written')
    <3>1. Ascending(Written)
      BY DEF IInv, OutputOrdered
    <3> QED BY <2>2, <2>3, <2>4, <2>5, <2>8, <2>9, <3>1, AscendingAppend
  <2>12. \A d \in Contents(Batch(sorter, m)) : CellOf(d.t) \in Nat
    BY <2>2, ContentsTyped
  <2>13. \A d \in Released' : CellOf(d.t) < CellOf(sorter'.second)
    BY <2>1, <2>2, <2>6, <2>8, <2>9, <2>10, <2>12
  <2>14. TypeOK' /\ RingAligned'
    BY <1>1, <1>3, <1>5, <2>1 DEF TypeOK, RingAligned
  <2>15. OutputOrdered'
    BY <1>3, <2>11, <2>13 DEF OutputOrdered
  <2>16. Accounted'
    BY <1>4, <1>6, <1>7, <1>9, <2>1, <2>6, <2>7 DEF IInv, Accounted
  <2> QED BY <2>14, <2>15, <2>16 DEF IInv
<1> QED BY <1>8, <1>9

\* Collect moves the output from the sorter to the task.
LEMMA CollectPreserves == ASSUME IInv, Collect PROVE IInv'
<1>1. /\ sorter \in Sorter /\ delivered \in Seq(SUBSET Element)
      /\ sorter.fOutputData \in Seq(SUBSET Element)
  BY DEF IInv, TypeOK, Sorter
<1>2. /\ sorter' \in Sorter
      /\ sorter'.fRingBuffer = sorter.fRingBuffer
      /\ sorter'.first = sorter.first /\ sorter'.second = sorter.second
      /\ sorter'.fOutputData = << >>
      /\ delivered' = delivered \o sorter.fOutputData
      /\ added' = added /\ finished' = finished
  BY <1>1, OutputDeleted DEF Collect
<1>3. Written' = Written
  <2>1. Written \in Seq(SUBSET Element)
    BY <1>1, Appended DEF Written
  <2> QED BY <1>2, <2>1, NothingAppended DEF Written
<1>4. Held' = Held /\ Released' = Released
  BY <1>2, <1>3 DEF Held, Released
<1>5. TypeOK'
  <2>1. delivered' \in Seq(SUBSET Element)
    BY <1>1, <1>2, Appended
  <2> QED BY <1>2, <2>1 DEF IInv, TypeOK
<1>6. RingAligned'
  BY <1>2 DEF IInv, RingAligned, Aligned, SlotAt
<1>7. OutputOrdered' /\ Accounted'
  BY <1>2, <1>3, <1>4 DEF IInv, OutputOrdered, Accounted
<1> QED BY <1>5, <1>6, <1>7 DEF IInv

\* Finish empties the ring behind what was written before.
LEMMA FinishPreserves == ASSUME IInv, Finish PROVE IInv'
<1> DEFINE w == WriteOutAll(sorter)
           B == Batch(sorter, NumCells)
<1>1. /\ sorter \in Sorter /\ Aligned(sorter) /\ finished = FALSE
      /\ delivered \in Seq(SUBSET Element) /\ sorter.fOutputData \in Seq(SUBSET Element)
  BY DEF IInv, TypeOK, RingAligned, Sorter, Finish
<1>2. /\ w \in Sorter /\ w.fOutputData = sorter.fOutputData \o B
      /\ w.first = sorter.first /\ w.second = sorter.second
      /\ InRing(w) = {} /\ InRing(sorter) = Contents(B)
  BY <1>1, AllWritten
<1>3. NumCells \in 0 .. NumCells
  BY RingAssumption
<1>4. /\ B \in Seq(SUBSET Element) /\ Ascending(B)
      /\ \A d \in Contents(B) : CellOf(sorter.second) <= CellOf(d.t)
  BY <1>1, <1>3, BatchAscends
<1>5. /\ delivered' = delivered \o w.fOutputData
      /\ sorter' = DeleteOutputData(w) /\ finished' = TRUE /\ added' = added
  BY DEF Finish
<1> HIDE DEF w, B
<1>6. /\ sorter' \in Sorter
      /\ sorter'.fRingBuffer = w.fRingBuffer
      /\ sorter'.first = sorter.first /\ sorter'.second = sorter.second
      /\ sorter'.fOutputData = << >>
  BY <1>2, <1>5, OutputDeleted
<1>7. Written' = Written \o B /\ Written \in Seq(SUBSET Element)
      /\ delivered' \in Seq(SUBSET Element)
  <2>1. delivered' = (delivered \o sorter.fOutputData) \o B
    <3>1. delivered \o (sorter.fOutputData \o B) = (delivered \o sorter.fOutputData) \o B
      BY <1>1, <1>4, Appended
    <3> QED BY <1>2, <1>5, <3>1
  <2>2. delivered \o sorter.fOutputData \in Seq(SUBSET Element)
        /\ delivered' \in Seq(SUBSET Element)
    BY <1>1, <1>2, <1>4, <1>5, Appended
  <2> QED BY <1>6, <2>1, <2>2, NothingAppended DEF Written
<1>8. Released = Contents(Written) /\ Released' = Contents(Written')
  BY DEF Released, Contents
<1>9. Released' = Released \cup Held /\ Held' = {}
  <2>1. Held = Contents(B) /\ Held' = InRing(w)
    BY <1>2, <1>6 DEF Held, InRing
  <2> QED BY <1>2, <1>4, <1>7, <1>8, <2>1, ContentsAppend
<1>10. \A c \in Slots : sorter'.fRingBuffer[c] = {}
  BY <1>9 DEF Held
<1>11. TypeOK'
  BY <1>5, <1>6, <1>7 DEF IInv, TypeOK
<1>12. RingAligned'
  <2>1. \A k \in 0 .. NumCells - 1 : SlotAt(sorter', k) \in Slots
    BY <1>6, SlotInRing
  <2> QED BY <1>1, <1>6, <1>10, <2>1 DEF RingAligned, Aligned
<1>13. OutputOrdered'
  <2>1. CellOf(sorter.second) \in Nat
    BY <1>1, CellIsNat DEF Sorter
  <2>2. Ascending(Written) /\ \A e \in Contents(Written) : CellOf(e.t) < CellOf(sorter.second)
    BY <1>1, <1>8 DEF IInv, OutputOrdered
  <2>3. Ascending(Written')
    BY <1>4, <1>7, <2>1, <2>2, AscendingAppend
  <2> QED BY <1>5, <1>9, <2>3 DEF OutputOrdered
<1>14. Accounted'
  BY <1>5, <1>9 DEF IInv, Accounted
<1> QED BY <1>11, <1>12, <1>13, <1>14 DEF IInv

\* The inductive invariant holds in every reachable state.
LEMMA Invariance == Spec => []IInv
<1>1. Init => IInv
  BY InitInvariant
<1>2. IInv /\ [Next]_vars => IInv'
  <2> SUFFICES ASSUME IInv, [Next]_vars PROVE IInv'
    OBVIOUS
  <2>1. ASSUME NEW time \in Times, Add(time) PROVE IInv'
    BY <2>1, AddPreserves
  <2>2. CASE Collect
    BY <2>2, CollectPreserves
  <2>3. CASE Finish
    BY <2>3, FinishPreserves
  <2>4. CASE UNCHANGED vars
    <3>1. sorter' = sorter /\ added' = added /\ delivered' = delivered /\ finished' = finished
      BY <2>4 DEF vars
    <3>2. Written' = Written
      BY <3>1 DEF Written
    <3>3. Held' = Held /\ Released' = Released
      BY <3>1, <3>2 DEF Held, Released
    <3>4. TypeOK' /\ RingAligned'
      BY <3>1 DEF IInv, TypeOK, RingAligned
    <3>5. OutputOrdered' /\ Accounted'
      BY <3>1, <3>2, <3>3 DEF IInv, OutputOrdered, Accounted
    <3> QED BY <3>4, <3>5 DEF IInv
  <2> QED BY <2>1, <2>2, <2>3, <2>4 DEF Next
<1> QED BY <1>1, <1>2, PTL DEF Spec
-----------------------------------------------------------------------------
(* What follows from the invariant. *)

\* Ascending cells are ascending times.
LEMMA OrderGivesSorted == IInv => SortedOutput
<1> SUFFICES ASSUME IInv, NEW i \in DOMAIN Written, NEW j \in DOMAIN Written, i < j,
                    NEW a \in Written[i], NEW b \in Written[j]
             PROVE  a.t < b.t
  BY DEF SortedOutput
<1>1. delivered \in Seq(SUBSET Element) /\ sorter.fOutputData \in Seq(SUBSET Element)
  BY DEF IInv, TypeOK, Sorter
<1>2. Written \in Seq(SUBSET Element)
  BY <1>1, ConcatProperties DEF Written
<1>3. a \in Element /\ b \in Element
  BY <1>2
<1>4. a.t \in Nat /\ b.t \in Nat
  BY <1>3 DEF Element
<1>5. CellOf(a.t) < CellOf(b.t)
  BY DEF IInv, OutputOrdered, Ascending
<1> QED BY <1>4, <1>5, CellOrder

\* An element is in one slot because the slots are different cells, at one
\* position of the output because the output ascends strictly, and never in
\* both because the output ends below the bound the ring begins at.
LEMMA AccountGivesOnce == IInv => ExactlyOnce
<1> SUFFICES ASSUME IInv, NEW i \in DOMAIN added
             PROVE  IF added[i].late THEN Places(added[i].e) = {}
                    ELSE \E p \in Places(added[i].e) : Places(added[i].e) = {p}
  BY DEF ExactlyOnce
<1> DEFINE e == added[i].e
           ringPlaces == {<<"ring", c>> : c \in {c \in Slots : e \in sorter.fRingBuffer[c]}}
           outPlaces == {<<"out", j>> : j \in {j \in DOMAIN Written : e \in Written[j]}}
<1>1. /\ sorter \in Sorter /\ Aligned(sorter)
      /\ delivered \in Seq(SUBSET Element) /\ sorter.fOutputData \in Seq(SUBSET Element)
  BY DEF IInv, TypeOK, RingAligned, Sorter
<1>2. Written \in Seq(SUBSET Element)
  BY <1>1, ConcatProperties DEF Written
<1>3. e \in Held <=> ringPlaces # {}
  BY DEF Held
<1>4. e \in Released <=> outPlaces # {}
  BY DEF Released
<1>5. Places(e) = ringPlaces \cup outPlaces
  BY DEF Places
<1>6. CASE added[i].late
  <2>1. ASSUME NEW j \in DOMAIN added, ~added[j].late PROVE added[j].e # e
    <3>1. added[j].e.id = j /\ added[i].e.id = i
      BY DEF IInv, Accounted
    <3> QED BY <1>6, <2>1, <3>1
  <2>2. e \notin Held \cup Released
    BY <2>1 DEF IInv, Accounted
  <2>3. Places(e) = {}
    BY <1>3, <1>4, <1>5, <2>2
  <2> QED BY <1>6, <2>3
<1>7. CASE ~added[i].late
  <2>1. e \in Held \cup Released
    BY <1>7 DEF IInv, Accounted
  <2>2. e \in Element
    <3>1. added \in Seq([e : Element, late : BOOLEAN])
      BY DEF IInv, TypeOK
    <3>2. added[i] \in [e : Element, late : BOOLEAN]
      <4>1. i \in 1 .. Len(added)
        BY <3>1, LenProperties
      <4> QED BY <3>1, <4>1, ElementOfSeq
    <3> QED BY <3>2
  <2>3. CellOf(e.t) \in Nat
    BY <2>2, CellIsNat DEF Element
  <2>4. ~(e \in Held /\ e \in Released)
    <3> SUFFICES ASSUME e \in Held, e \in Released PROVE FALSE
      OBVIOUS
    <3>1. finished = FALSE
      BY DEF IInv, OutputOrdered, TypeOK
    <3>2. CellOf(e.t) < CellOf(sorter.second)
      BY <3>1 DEF IInv, OutputOrdered
    <3>3. PICK c \in Slots : e \in sorter.fRingBuffer[c]
      BY DEF Held
    <3>4. PICK k \in 0 .. NumCells - 1 : SlotAt(sorter, k) = c
      BY <1>1, SlotOnto
    <3>5. CellOf(e.t) = CellOf(sorter.second) + k
      BY <1>1, <3>3, <3>4 DEF Aligned
    <3>6. CellOf(sorter.second) \in Nat
      BY <1>1, CellIsNat DEF Sorter
    <3> QED BY <3>2, <3>5, <3>6, RingAssumption
  <2>5. ASSUME NEW c \in Slots, NEW d \in Slots, e \in sorter.fRingBuffer[c],
               e \in sorter.fRingBuffer[d]
        PROVE  c = d
    <3>1. PICK k \in 0 .. NumCells - 1 : SlotAt(sorter, k) = c
      BY <1>1, SlotOnto
    <3>2. PICK l \in 0 .. NumCells - 1 : SlotAt(sorter, l) = d
      BY <1>1, SlotOnto
    <3>3. /\ CellOf(e.t) = CellOf(sorter.second) + k
          /\ CellOf(e.t) = CellOf(sorter.second) + l
      BY <1>1, <2>5, <3>1, <3>2 DEF Aligned
    <3>4. CellOf(sorter.second) \in Nat
      BY <1>1, CellIsNat DEF Sorter
    <3>5. k = l
      BY <3>3, <3>4, RingAssumption
    <3> QED BY <3>1, <3>2, <3>5
  <2>6. ASSUME NEW j \in DOMAIN Written, NEW l \in DOMAIN Written, e \in Written[j],
               e \in Written[l]
        PROVE  j = l
    <3>1. j \in Int /\ l \in Int
      BY <1>2
    <3>2. ~(j < l) /\ ~(l < j)
      BY <2>3, <2>6 DEF IInv, OutputOrdered, Ascending
    <3> QED BY <3>1, <3>2
  <2>7. CASE e \in Held
    <3>1. outPlaces = {}
      BY <1>4, <2>4, <2>7
    <3>2. PICK c \in Slots : e \in sorter.fRingBuffer[c]
      BY <2>7 DEF Held
    <3>3. ringPlaces = {<<"ring", c>>}
      BY <2>5, <3>2
    <3> QED BY <1>5, <1>7, <3>1, <3>3
  <2>8. CASE e \in Released
    <3>1. ringPlaces = {}
      BY <1>3, <2>4, <2>8
    <3>2. PICK j \in DOMAIN Written : e \in Written[j]
      BY <2>8 DEF Released
    <3>3. outPlaces = {<<"out", j>>}
      BY <2>6, <3>2
    <3> QED BY <1>5, <1>7, <3>1, <3>3
  <2> QED BY <2>1, <2>7, <2>8
<1> QED BY <1>6, <1>7

\* An element released is earlier than the lower bound, which is a cell edge.
LEMMA OrderGivesBelowBound == IInv => OutputBelowBound
<1> SUFFICES ASSUME IInv, ~finished, NEW e \in Released PROVE e.t < sorter.second
  BY DEF OutputBelowBound
<1>1. sorter \in Sorter /\ delivered \in Seq(SUBSET Element)
  BY DEF IInv, TypeOK
<1>2. Written \in Seq(SUBSET Element)
  BY <1>1, ConcatProperties DEF Written, Sorter
<1>3. e \in Contents(Written)
  BY DEF Released, Contents
<1>4. e.t \in Nat /\ sorter.second \in Nat
  BY <1>1, <1>2, <1>3, ContentsTyped DEF Element, Sorter
<1>5. CellOf(e.t) < CellOf(sorter.second)
  BY DEF IInv, OutputOrdered
<1> QED BY <1>4, <1>5, CellOrder

\* A later cell edge is a later time.
LEMMA EdgeOrder ==
    ASSUME NEW p \in Nat, NEW q \in Nat, p <= q PROVE p * CellWidth <= q * CellWidth
<1>1. CASE p = q
  BY <1>1, RingAssumption
<1>2. CASE p < q
  <2>1. CellWidth * p + CellWidth <= CellWidth * q
    BY <1>2, MulMono, RingAssumption
  <2> QED BY <2>1, RingAssumption
<1> QED BY <1>1, <1>2

\* Only an accepted element moves the lower bound, and it moves it up.
LEMMA BoundGrows == ASSUME IInv, [Next]_vars PROVE sorter'.second >= sorter.second
<1>1. sorter \in Sorter /\ Aligned(sorter)
  BY DEF IInv, TypeOK, RingAligned
<1>2. sorter.second \in Nat
  BY <1>1 DEF Sorter
<1>3. ASSUME NEW time \in Times, Add(time) PROVE sorter'.second >= sorter.second
  <2> DEFINE e == [id |-> Len(added) + 1, t |-> time]
  <2>1. e \in Element
    <3>1. added \in Seq([e : Element, late : BOOLEAN])
      BY DEF IInv, TypeOK
    <3>2. Len(added) + 1 \in Nat
      BY <3>1, LenProperties
    <3> QED BY <3>2, InputAssumption DEF Element
  <2>2. sorter' = AddElement(sorter, e)
    BY <1>3 DEF Add
  <2> HIDE DEF e
  <2>3. CASE BelowLowerBound(sorter, e.t)
    BY <1>2, <2>2, <2>3 DEF AddElement
  <2>4. CASE ~BelowLowerBound(sorter, e.t)
    <3>1. PICK m \in 0 .. NumCells :
              /\ sorter' \in Sorter /\ Aligned(sorter')
              /\ CellOf(sorter.second) + m <= CellOf(sorter'.second)
      BY <1>1, <2>1, <2>2, <2>4, ElementAdded
    <3>2. CellOf(sorter.second) \in Nat /\ CellOf(sorter'.second) \in Nat /\ m \in Nat
      BY <1>1, <3>1, CellIsNat, RingAssumption DEF Sorter
    <3>3. CellOf(sorter.second) * CellWidth <= CellOf(sorter'.second) * CellWidth
      BY <3>1, <3>2, EdgeOrder
    <3>4. /\ sorter.second = CellOf(sorter.second) * CellWidth
          /\ sorter'.second = CellOf(sorter'.second) * CellWidth
      BY <1>1, <3>1 DEF Aligned
    <3>5. sorter'.second \in Nat
      BY <3>1 DEF Sorter
    <3> QED BY <1>2, <3>3, <3>4, <3>5
  <2> QED BY <2>3, <2>4
<1>4. CASE Collect
  BY <1>1, <1>2, <1>4, OutputDeleted DEF Collect
<1>5. CASE Finish
  <2>1. sorter' = DeleteOutputData(WriteOutAll(sorter))
    BY <1>5 DEF Finish
  <2> QED BY <1>1, <1>2, <2>1, AllWritten, OutputDeleted
<1>6. CASE UNCHANGED vars
  BY <1>2, <1>6 DEF vars
<1> QED BY <1>3, <1>4, <1>5, <1>6 DEF Next

-----------------------------------------------------------------------------
(* The refinement of TimeSorter. *)

\* Only elements of the run are handed to the sorter.
AddedOfRun == \A i \in DOMAIN added : added[i].e \in ElementsOfRun

\* Who is refused is late in terms of cells too, because the bound is a cell edge.
LEMMA LateInCells ==
    ASSUME NEW s \in Sorter, Aligned(s), NEW time \in Nat
    PROVE  BelowLowerBound(s, time) <=> CellOf(time) < CellOf(s.second)
<1> DEFINE bound == CellOf(s.second)
           c == CellOf(time)
<1>1. s.second \in Nat /\ bound \in Nat /\ c \in Nat
  BY CellIsNat DEF Sorter
<1>2. s.second = CellWidth * bound
  BY <1>1, RingAssumption DEF Aligned
<1>3. (time >= CellWidth * bound) <=> (c >= bound)
  BY <1>1, RingAssumption, DivGe DEF CellOf
<1> HIDE DEF bound, c
<1>4. BelowLowerBound(s, time) <=> c < bound
  BY <1>1, <1>2, <1>3 DEF BelowLowerBound
<1> QED BY <1>4 DEF bound, c

\* A step adds at most the element numbered by its arrival, at a time of the run.
LEMMA AddedStaysOfRun == ASSUME IInv, AddedOfRun, [Next]_vars PROVE AddedOfRun'
<1>1. added \in Seq([e : Element, late : BOOLEAN]) /\ Len(added) \in Nat
  BY LenProperties DEF IInv, TypeOK
<1>2. ASSUME NEW time \in Times, Add(time) PROVE AddedOfRun'
  <2> DEFINE e == [id |-> Len(added) + 1, t |-> time]
             entry == [e |-> e, late |-> BelowLowerBound(sorter, time)]
  <2>1. e \in ElementsOfRun /\ entry.e = e
    BY <1>1, <1>2, InputAssumption DEF Add, ElementsOfRun
  <2>2. added' = Append(added, entry)
    BY <1>2 DEF Add
  <2> HIDE DEF entry, e
  <2> QED BY <1>1, <2>1, <2>2 DEF AddedOfRun
<1>3. CASE added' = added
  BY <1>3 DEF AddedOfRun
<1> QED BY <1>2, <1>3 DEF Next, Collect, Finish, vars

\* An element that is accepted frees exactly what lies below its bound: the freed
\* cells go to the output, the rest and the element stay in the ring.
LEMMA AcceptedMoves ==
    ASSUME IInv, NEW time \in Times, Add(time), ~BelowLowerBound(sorter, time)
    PROVE  LET e == [id |-> Len(added) + 1, t |-> time]
               b == BoundFor(sorter, time)
           IN  /\ CellOf(sorter'.second) = b
               /\ Held' = AtOrAbove(Held, b) \cup {e}
               /\ Released' = Released \cup Below(Held, b)
<1> DEFINE e == [id |-> Len(added) + 1, t |-> time]
           b == BoundFor(sorter, time)
<1>1. /\ sorter \in Sorter /\ Aligned(sorter) /\ delivered' = delivered
      /\ delivered \in Seq(SUBSET Element) /\ sorter.fOutputData \in Seq(SUBSET Element)
      /\ added \in Seq([e : Element, late : BOOLEAN])
  BY DEF IInv, TypeOK, RingAligned, Sorter, Add
<1>2. e \in Element /\ e.t = time /\ sorter' = AddElement(sorter, e)
  BY <1>1, InputAssumption DEF Element, Add
<1> HIDE DEF e
<1>3. PICK m \in 0 .. NumCells :
          /\ sorter'.fOutputData = sorter.fOutputData \o Batch(sorter, m)
          /\ CellOf(sorter'.second) = BoundFor(sorter, e.t)
          /\ Contents(Batch(sorter, m)) = Below(InRing(sorter), CellOf(sorter'.second))
          /\ InRing(sorter') = AtOrAbove(InRing(sorter), CellOf(sorter'.second)) \cup {e}
  <2>1. ~BelowLowerBound(sorter, e.t)
    BY <1>2
  <2> QED BY <1>1, <1>2, <2>1, ElementAdded
<1> HIDE DEF b
<1>4. Batch(sorter, m) \in Seq(SUBSET Element)
  BY <1>1, BatchAscends
<1>5. Written' = Written \o Batch(sorter, m) /\ Written \in Seq(SUBSET Element)
  <2>1. delivered \o sorter.fOutputData \in Seq(SUBSET Element)
        /\ delivered \o (sorter.fOutputData \o Batch(sorter, m))
             = (delivered \o sorter.fOutputData) \o Batch(sorter, m)
    BY <1>1, <1>4, Appended
  <2> QED BY <1>1, <1>3, <2>1 DEF Written
<1>6. Released = Contents(Written) /\ Released' = Contents(Written')
  BY DEF Released, Contents
<1>7. Released' = Released \cup Contents(Batch(sorter, m))
  BY <1>4, <1>5, <1>6, ContentsAppend
<1>8. Held = InRing(sorter) /\ Held' = InRing(sorter')
  BY DEF Held, InRing
<1>9. CellOf(sorter'.second) = b
  BY <1>2, <1>3 DEF b
<1> QED BY <1>3, <1>7, <1>8, <1>9 DEF e, b

\* FinishTask releases all that waits and leaves the bound alone.
LEMMA FinishMoves ==
    ASSUME IInv, Finish
    PROVE  /\ sorter'.second = sorter.second
           /\ Held' = {} /\ Released' = Released \cup Held
<1> DEFINE w == WriteOutAll(sorter)
           B == Batch(sorter, NumCells)
<1>1. /\ sorter \in Sorter /\ Aligned(sorter)
      /\ delivered \in Seq(SUBSET Element) /\ sorter.fOutputData \in Seq(SUBSET Element)
  BY DEF IInv, TypeOK, RingAligned, Sorter
<1>2. /\ w \in Sorter /\ w.fOutputData = sorter.fOutputData \o B
      /\ w.second = sorter.second /\ InRing(w) = {} /\ InRing(sorter) = Contents(B)
  BY <1>1, AllWritten
<1>3. B \in Seq(SUBSET Element)
  BY <1>1, BatchAscends, RingAssumption
<1>4. delivered' = delivered \o w.fOutputData /\ sorter' = DeleteOutputData(w)
  BY DEF Finish
<1> HIDE DEF w, B
<1>5. /\ sorter'.fRingBuffer = w.fRingBuffer
      /\ sorter'.second = sorter.second /\ sorter'.fOutputData = << >>
  BY <1>2, <1>4, OutputDeleted
<1>6. /\ delivered \o sorter.fOutputData \in Seq(SUBSET Element)
      /\ delivered' = (delivered \o sorter.fOutputData) \o B
      /\ delivered' \in Seq(SUBSET Element)
  <2>1. /\ delivered \o sorter.fOutputData \in Seq(SUBSET Element)
        /\ delivered \o (sorter.fOutputData \o B) = (delivered \o sorter.fOutputData) \o B
        /\ delivered \o (sorter.fOutputData \o B) \in Seq(SUBSET Element)
    BY <1>1, <1>3, Appended
  <2> QED BY <1>2, <1>4, <2>1
<1>7. Written' = Written \o B /\ Written \in Seq(SUBSET Element)
  BY <1>5, <1>6, NothingAppended DEF Written
<1>8. Released = Contents(Written) /\ Released' = Contents(Written')
  BY DEF Released, Contents
<1>9. Released' = Released \cup Contents(B)
  BY <1>3, <1>7, <1>8, ContentsAppend
<1>10. Held = Contents(B) /\ Held' = {}
  BY <1>2, <1>5 DEF Held, InRing
<1> QED BY <1>5, <1>9, <1>10

\* Taking the output moves it from the sorter to the task and changes no more.
LEMMA CollectMoves ==
    ASSUME IInv, Collect
    PROVE  sorter'.second = sorter.second /\ Held' = Held /\ Released' = Released
<1>1. /\ sorter \in Sorter /\ delivered \in Seq(SUBSET Element)
      /\ sorter.fOutputData \in Seq(SUBSET Element)
  BY DEF IInv, TypeOK, Sorter
<1>2. /\ sorter'.fRingBuffer = sorter.fRingBuffer
      /\ sorter'.second = sorter.second /\ sorter'.fOutputData = << >>
      /\ delivered' = delivered \o sorter.fOutputData
  BY <1>1, OutputDeleted DEF Collect
<1>3. Written \in Seq(SUBSET Element)
  BY <1>1, Appended DEF Written
<1>4. Written' = Written
  BY <1>2, <1>3, NothingAppended DEF Written
<1> QED BY <1>2, <1>4 DEF Held, Released

\* What waits in the ring is an element of the run, so the promise knows its cell.
LEMMA HeldOfRun ==
    ASSUME IInv, AddedOfRun
    PROVE  /\ Held \subseteq ElementsOfRun
           /\ \A d \in Held : [e \in ElementsOfRun |-> CellOf(e.t)][d] = CellOf(d.t)
<1>1. Held \subseteq ElementsOfRun
  BY DEF IInv, Accounted, AddedOfRun
<1> QED BY <1>1

\* The elements refused so far.
Late == {added[i].e : i \in {i \in DOMAIN added : added[i].late}}

\* AddElement accepts and refuses like the promise.
LEMMA AddKeepsPromise ==
    ASSUME IInv, AddedOfRun, NEW time \in Times, Add(time) PROVE Promise!Next
<1> DEFINE e == [id |-> Len(added) + 1, t |-> time]
           entry == [e |-> e, late |-> BelowLowerBound(sorter, time)]
<1>1. /\ added \in Seq([e : Element, late : BOOLEAN]) /\ Len(added) \in Nat
      /\ sorter \in Sorter /\ Aligned(sorter) /\ time \in Nat
  BY LenProperties, InputAssumption DEF IInv, TypeOK, RingAligned
<1>2. /\ e \in ElementsOfRun /\ e.t = time
      /\ entry.e = e /\ entry.late = BelowLowerBound(sorter, time)
  <2>1. Len(added) + 1 \in 1 .. MaxDigis
    BY <1>1, InputAssumption DEF Add
  <2> QED BY <2>1 DEF ElementsOfRun
<1>3. added' = Append(added, entry)
  BY DEF Add
<1>4. sorter' = AddElement(sorter, e) /\ delivered' = delivered
  BY DEF Add
<1>5. PICK c \in ElementsOfRun : c = e
  BY <1>2
<1>6. [d \in ElementsOfRun |-> CellOf(d.t)][c] = CellOf(time)
  BY <1>2, <1>5
<1>7. BelowLowerBound(sorter, time) <=> CellOf(time) < CellOf(sorter.second)
  BY <1>1, LateInCells
<1>8. CellOf(time) \in Nat /\ CellOf(sorter.second) \in Nat
  BY <1>1, CellIsNat DEF Sorter
<1> HIDE DEF entry
<1>9. Late' = Late \cup (IF entry.late THEN {e} ELSE {})
  BY <1>1, <1>2, <1>3 DEF Late
<1>10. CASE BelowLowerBound(sorter, time)
  <2>1. sorter' = sorter
    BY <1>2, <1>4, <1>10 DEF AddElement
  <2>2. Held' = Held /\ Released' = Released
    BY <1>4, <2>1 DEF Held, Released, Written
  <2> HIDE DEF e
  <2>3. Promise!Refuse(c)
    BY <1>2, <1>5, <1>6, <1>7, <1>9, <1>10, <2>1, <2>2 DEF Promise!Refuse, Late
  <2> QED BY <2>3 DEF Promise!Next
<1>11. CASE ~BelowLowerBound(sorter, time)
  <2> DEFINE b == BoundFor(sorter, time)
  <2>1. /\ CellOf(sorter'.second) = b
        /\ Held' = AtOrAbove(Held, b) \cup {e}
        /\ Released' = Released \cup Below(Held, b)
    BY <1>11, AcceptedMoves
  <2>2. Promise!NewHorizon(c) = b
    BY <1>6 DEF Promise!NewHorizon, BoundFor
  <2> HIDE DEF b, e
  <2>3. CellOf(time) >= CellOf(sorter.second) /\ Late' = Late
    BY <1>2, <1>7, <1>8, <1>9, <1>11
  <2>4. Promise!Accept(c)
    BY <1>5, <1>6, <2>1, <2>2, <2>3, HeldOfRun DEF Promise!Accept, Late, Below, AtOrAbove
  <2> QED BY <2>4 DEF Promise!Next
<1> QED BY <1>10, <1>11
-----------------------------------------------------------------------------
(* Why an element is refused. *)

\* Where the lower bound is, an accepted element has put it.
BoundHasCause ==
    CellOf(sorter.second) # 0 =>
        \E j \in DOMAIN added : /\ ~added[j].late
                                /\ CellOf(added[j].e.t) + 1 - NumCells = CellOf(sorter.second)

\* A refusal now is a refusal by the element that put the bound where it is.
LEMMA CauseGivesLate ==
    ASSUME IInv, BoundHasCause, NEW time \in Nat, BelowLowerBound(sorter, time)
    PROVE  \E j \in DOMAIN added : /\ ~added[j].late
                                   /\ CellOf(added[j].e.t) >= CellOf(time) + NumCells
<1> DEFINE bound == CellOf(sorter.second)
           c == CellOf(time)
<1>1. sorter \in Sorter /\ Aligned(sorter) /\ added \in Seq([e : Element, late : BOOLEAN])
  BY DEF IInv, TypeOK, RingAligned
<1>2. bound \in Nat /\ c \in Nat
  BY <1>1, CellIsNat DEF Sorter
<1>3. c < bound
  BY <1>1, LateInCells
<1>4. PICK j \in DOMAIN added : ~added[j].late /\ CellOf(added[j].e.t) + 1 - NumCells = bound
  BY <1>2, <1>3 DEF BoundHasCause
<1>5. added[j].e \in Element
  <2>1. added[j] \in [e : Element, late : BOOLEAN]
    <3>1. j \in 1 .. Len(added)
      BY <1>1, LenProperties
    <3> QED BY <1>1, <3>1, ElementOfSeq
  <2> QED BY <2>1
<1>6. CellOf(added[j].e.t) \in Nat
  BY <1>5, CellIsNat DEF Element
<1> HIDE DEF bound, c
<1>7. CellOf(added[j].e.t) >= c + NumCells
  BY <1>2, <1>3, <1>4, <1>6, RingAssumption
<1> QED BY <1>4, <1>7 DEF c

\* Both facts are kept by every step.
LEMMA LateStaysExplained ==
    ASSUME IInv, BoundHasCause, RefusedOnlyIfLate, [Next]_vars
    PROVE  BoundHasCause' /\ RefusedOnlyIfLate'
<1>1. /\ added \in Seq([e : Element, late : BOOLEAN]) /\ Len(added) \in Nat
      /\ sorter \in Sorter /\ Aligned(sorter)
  BY LenProperties DEF IInv, TypeOK, RingAligned
<1>2. ASSUME NEW time \in Times, Add(time) PROVE BoundHasCause' /\ RefusedOnlyIfLate'
  <2> DEFINE e == [id |-> Len(added) + 1, t |-> time]
             entry == [e |-> e, late |-> BelowLowerBound(sorter, time)]
             n == Len(added) + 1
  <2>1. /\ added' = Append(added, entry) /\ sorter' = AddElement(sorter, e)
        /\ time \in Nat /\ e.t = time /\ entry.e = e
        /\ entry.late = BelowLowerBound(sorter, time)
    BY <1>2, InputAssumption DEF Add
  <2> HIDE DEF entry, e
  <2>2. /\ DOMAIN added = 1 .. Len(added) /\ DOMAIN added' = 1 .. n /\ added'[n] = entry
        /\ \A j \in 1 .. Len(added) : added'[j] = added[j]
    BY <1>1, <2>1
  <2>3. CASE BelowLowerBound(sorter, time)
    <3>1. sorter' = sorter
      BY <2>1, <2>3 DEF AddElement
    <3>2. BoundHasCause'
      BY <1>1, <2>2, <3>1 DEF BoundHasCause
    <3>3. PICK j \in 1 .. Len(added) :
              ~added[j].late /\ CellOf(added[j].e.t) >= CellOf(time) + NumCells
      BY <2>1, <2>2, <2>3, CauseGivesLate
    <3>4. ASSUME NEW i \in 1 .. n, added'[i].late
          PROVE  \E k \in 1 .. i - 1 :
                    /\ ~added'[k].late
                    /\ CellOf(added'[k].e.t) >= CellOf(added'[i].e.t) + NumCells
      <4>1. CASE i = n
        <5>1. j \in 1 .. i - 1 /\ added'[j] = added[j] /\ added'[i].e.t = time
          BY <1>1, <2>1, <2>2, <4>1
        <5> QED BY <3>3, <5>1
      <4>2. CASE i # n
        <5>1. i \in 1 .. Len(added) /\ added'[i] = added[i]
          BY <1>1, <2>2, <4>2
        <5>2. PICK k \in 1 .. i - 1 :
                  ~added[k].late /\ CellOf(added[k].e.t) >= CellOf(added[i].e.t) + NumCells
          BY <2>2, <3>4, <5>1 DEF RefusedOnlyIfLate
        <5>3. added'[k] = added[k]
          BY <1>1, <2>2, <5>1
        <5> QED BY <5>1, <5>2, <5>3
      <4> QED BY <4>1, <4>2
    <3> QED BY <2>2, <3>2, <3>4 DEF RefusedOnlyIfLate
  <2>4. CASE ~BelowLowerBound(sorter, time)
    <3>1. CellOf(sorter'.second) = BoundFor(sorter, time)
      BY <1>2, <2>4, AcceptedMoves
    <3>2. BoundHasCause'
      <4>1. CASE BoundFor(sorter, time) = CellOf(sorter.second)
        BY <1>1, <2>2, <3>1, <4>1 DEF BoundHasCause
      <4>2. CASE BoundFor(sorter, time) = CellOf(time) + 1 - NumCells
        <5>1. n \in DOMAIN added' /\ ~added'[n].late /\ added'[n].e.t = time
          BY <1>1, <2>1, <2>2, <2>4
        <5> QED BY <3>1, <4>2, <5>1 DEF BoundHasCause
      <4> QED BY <4>1, <4>2 DEF BoundFor
    <3>3. ASSUME NEW i \in 1 .. n, added'[i].late
          PROVE  \E k \in 1 .. i - 1 :
                    /\ ~added'[k].late
                    /\ CellOf(added'[k].e.t) >= CellOf(added'[i].e.t) + NumCells
      <4>1. i \in 1 .. Len(added) /\ added'[i] = added[i]
        BY <1>1, <2>1, <2>2, <2>4, <3>3
      <4>2. PICK k \in 1 .. i - 1 :
                ~added[k].late /\ CellOf(added[k].e.t) >= CellOf(added[i].e.t) + NumCells
        BY <2>2, <3>3, <4>1 DEF RefusedOnlyIfLate
      <4>3. added'[k] = added[k]
        BY <1>1, <2>2, <4>1
      <4> QED BY <4>1, <4>2, <4>3
    <3> QED BY <2>2, <3>2, <3>3 DEF RefusedOnlyIfLate
  <2> QED BY <2>3, <2>4
<1>3. ASSUME added' = added, CellOf(sorter'.second) = CellOf(sorter.second)
      PROVE  BoundHasCause' /\ RefusedOnlyIfLate'
  BY <1>3 DEF BoundHasCause, RefusedOnlyIfLate
<1>4. CASE Collect
  BY <1>3, <1>4, CollectMoves DEF Collect
<1>5. CASE Finish
  BY <1>3, <1>5, FinishMoves DEF Finish
<1>6. CASE UNCHANGED vars
  BY <1>3, <1>6 DEF vars
<1> QED BY <1>2, <1>4, <1>5, <1>6 DEF Next
-----------------------------------------------------------------------------
(* The theorems. *)

\* Every value of the sorter and of the histories has its type, in every state.
THEOREM TypeCorrect == Spec => []TypeOK
<1>1. IInv => TypeOK
  BY DEF IInv
<1> QED BY <1>1, Invariance, PTL

\* The slots of FairRingSorter are consecutive cells of the timeline for every
\* ring size and cell width, through any number of wrap-arounds and jumps.
THEOREM RingStaysAligned == Spec => []RingAligned
<1>1. IInv => RingAligned
  BY DEF IInv
<1> QED BY <1>1, Invariance, PTL

\* What FairRingSorter writes out is in time order, for every input.
THEOREM OutputIsSorted == Spec => []SortedOutput
<1> QED BY OrderGivesSorted, Invariance, PTL

\* FairRingSorter neither loses nor duplicates an element it accepted.
THEOREM NothingLostOrDoubled == Spec => []ExactlyOnce
<1> QED BY AccountGivesOnce, Invariance, PTL

\* After FinishTask all that was accepted has been delivered.
THEOREM FinishDelivers == Spec => []FinishDeliversAll
<1>1. IInv => FinishDeliversAll
  BY DEF IInv, OutputOrdered, Accounted, FinishDeliversAll
<1> QED BY <1>1, Invariance, PTL

\* Nothing still in the ring, and nothing FairRingSorter would still accept, is
\* earlier than what it has written out.
THEOREM OutputStaysBelowBound == Spec => []OutputBelowBound
<1> QED BY OrderGivesBelowBound, Invariance, PTL

\* FairRingSorter's lower bound never moves back, for any order of its input.
THEOREM BoundNeverFalls == Spec => LowerBoundOnlyGrows
<1>1. IInv /\ [Next]_vars => [sorter'.second >= sorter.second]_sorter
  BY BoundGrows
<1> QED BY <1>1, Invariance, PTL DEF Spec, LowerBoundOnlyGrows

\* FairRingSorter with its wrapping index and its two ways of freeing slots is a
\* time sorter for every input: each AddElement accepts, releases and refuses
\* exactly what the promise says, FinishTask flushes, Collect is invisible.
THEOREM SorterKeepsPromise == Spec => SortsLikePromise
<1>1. Init => Promise!Init /\ AddedOfRun
  <2> SUFFICES ASSUME Init PROVE Promise!Init /\ AddedOfRun
    OBVIOUS
  <2>1. /\ added = << >> /\ Written = << >> /\ sorter.second = 0
        /\ sorter.fRingBuffer = [c \in Slots |-> {}]
    BY DEF Init, EmptySorter, Written
  <2>2. CellOf(0) = 0
    <3>1. CellWidth * 0 <= 0 /\ 0 < CellWidth * 0 + CellWidth
      BY RingAssumption
    <3> QED BY <3>1, RingAssumption, DivUnique DEF CellOf
  <2>3. Held = {} /\ Released = {} /\ DOMAIN added = {}
    BY <2>1 DEF Held, Released
  <2> QED BY <2>1, <2>2, <2>3 DEF Promise!Init, AddedOfRun
<1>2. IInv /\ AddedOfRun /\ [Next]_vars => [Promise!Next]_Promise!vars
  <2> SUFFICES ASSUME IInv, AddedOfRun, [Next]_vars PROVE [Promise!Next]_Promise!vars
    OBVIOUS
  <2>1. ASSUME NEW time \in Times, Add(time) PROVE Promise!Next
    BY <2>1, AddKeepsPromise
  <2>2. CASE Collect
    <3>1. added' = added /\ CellOf(sorter'.second) = CellOf(sorter.second)
      BY <2>2, CollectMoves DEF Collect
    <3> QED BY <2>2, <3>1, CollectMoves DEF Promise!vars
  <2>3. CASE Finish
    <3>1. added' = added /\ CellOf(sorter'.second) = CellOf(sorter.second)
      BY <2>3, FinishMoves DEF Finish
    <3>2. Promise!Flush
      BY <2>3, <3>1, FinishMoves DEF Promise!Flush
    <3> QED BY <3>2 DEF Promise!Next
  <2>4. CASE UNCHANGED vars
    BY <2>4 DEF vars, Promise!vars, Held, Released, Written
  <2> QED BY <2>1, <2>2, <2>3, <2>4 DEF Next
<1>3. IInv /\ AddedOfRun /\ [Next]_vars => AddedOfRun'
  BY AddedStaysOfRun
<1> QED BY <1>1, <1>2, <1>3, Invariance, PTL DEF Spec, SortsLikePromise, Promise!Spec

\* FairRingSorter refuses an element only when an element accepted before lies at
\* least the length of the ring above it.
THEOREM RefusesOnlyLate == Spec => []RefusedOnlyIfLate
<1>1. Init => BoundHasCause /\ RefusedOnlyIfLate
  <2> SUFFICES ASSUME Init PROVE BoundHasCause /\ RefusedOnlyIfLate
    OBVIOUS
  <2>1. DOMAIN added = {} /\ sorter.second = 0
    BY DEF Init, EmptySorter
  <2>2. CellOf(0) = 0
    <3>1. CellWidth * 0 <= 0 /\ 0 < CellWidth * 0 + CellWidth
      BY RingAssumption
    <3> QED BY <3>1, RingAssumption, DivUnique DEF CellOf
  <2> QED BY <2>1, <2>2 DEF BoundHasCause, RefusedOnlyIfLate
<1>2. IInv /\ BoundHasCause /\ RefusedOnlyIfLate /\ [Next]_vars
         => BoundHasCause' /\ RefusedOnlyIfLate'
  BY LateStaysExplained
<1> QED BY <1>1, <1>2, Invariance, PTL DEF Spec
=============================================================================
