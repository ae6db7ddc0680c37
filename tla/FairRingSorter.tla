--------------------------- MODULE FairRingSorter ---------------------------
(***************************************************************************)
(* fairroot/base/steer/FairRingSorter: a ring of NumCells cells, each      *)
(* CellWidth wide, that sorts time-stamped data which arrive out of order. *)
(*                                                                         *)
(* A cell is a multimap keyed by the timestamp, so what one cell holds     *)
(* always comes out in time order with ties in arrival order; what can go  *)
(* wrong is the order of the cells.  A cell is therefore the set of its    *)
(* elements, and fOutputData the sequence of the cells written out, one    *)
(* entry for each.  An element is its timestamp and its arrival number     *)
(* (the code stores a clone, so two equal digis are two elements).         *)
(* Timestamps are natural numbers below the range of int32; the code's are *)
(* doubles and the ones below 0 are refused by the initial lower bound.    *)
(***************************************************************************)
EXTENDS Integers, Sequences

CONSTANTS NumCells,    \* fRingBuffer.size()
          CellWidth    \* fCellWidth

ASSUME RingAssumption == NumCells \in Nat \ {0} /\ CellWidth \in Nat \ {0}

Slots == 0 .. NumCells - 1
Element == [id : Nat, t : Nat]
Sorter == [fRingBuffer : [Slots -> SUBSET Element],
           first : Slots, second : Nat,          \* fLowerBoundPointer
           fOutputData : Seq(SUBSET Element)]

GetBufferSize == CellWidth * NumCells
CellOf(time) == time \div CellWidth

\* The loop of CalcIndex subtracts the ring's size until the index fits.
CalcIndex(time) == CellOf(time) % NumCells

EmptySorter == [fRingBuffer |-> [c \in Slots |-> {}], first |-> 0, second |-> 0,
                fOutputData |-> << >>]

\* Mutant: the pointer does not wrap at the end of the ring.
SetLowerBoundUnwrapped(s, time) ==
    [s EXCEPT !.second = (CellOf(time) + 1) * CellWidth - GetBufferSize,
              !.first = CellOf(time + CellWidth)]

\* Mutant: the bound is one cell too low.
SetLowerBoundLow(s, time) ==
    [s EXCEPT !.second = CellOf(time) * CellWidth - GetBufferSize,
              !.first = CalcIndex(time + CellWidth)]

SetLowerBound(s, time) ==
    [s EXCEPT !.second = (CellOf(time) + 1) * CellWidth - GetBufferSize,
              !.first = CalcIndex(time + CellWidth)]

\* The slot k steps after the lower bound, wrapping at the end of the ring.
SlotAt(s, k) == IF s.first + k < NumCells THEN s.first + k ELSE s.first + k - NumCells

\* Mutant: a full turn is taken for an empty range.
SpanNoFullTurn(s, index) == IF s.first > index THEN NumCells - s.first + index ELSE index - s.first

\* How many slots WriteOutElements visits: the wrapped range when first >= index.
Span(s, index) == IF s.first >= index THEN NumCells - s.first + index ELSE index - s.first

\* Mutant: the slots written out are not emptied.
WriteOutElementsKept(s, index) ==
    [s EXCEPT !.fOutputData =
        @ \o [j \in 1 .. Span(s, index) |-> s.fRingBuffer[SlotAt(s, j - 1)]]]

WriteOutElements(s, index) ==
    LET n == Span(s, index)
    IN  [s EXCEPT !.fOutputData = @ \o [j \in 1 .. n |-> s.fRingBuffer[SlotAt(s, j - 1)]],
                  !.fRingBuffer = [c \in Slots |-> IF \E k \in 0 .. n - 1 : SlotAt(s, k) = c
                                                   THEN {} ELSE @[c]]]

WriteOutAll(s) == WriteOutElements(s, s.first)

\* Mutant: an element just above the buffer does not free the first slot.
MakeRoomLate(s, time) ==
    IF time >= s.second + 2 * GetBufferSize THEN SetLowerBound(WriteOutAll(s), time)
    ELSE IF time >= s.second + GetBufferSize + CellWidth
         THEN SetLowerBound(WriteOutElements(s, CalcIndex(time) + 1), time)
         ELSE s

\* Mutant: after a jump the bound stays where it was.
MakeRoomNoJump(s, time) ==
    IF time >= s.second + 2 * GetBufferSize THEN WriteOutAll(s)
    ELSE IF time >= s.second + GetBufferSize
         THEN SetLowerBound(WriteOutElements(s, CalcIndex(time) + 1), time)
         ELSE s

\* Mutant: the bound is set by every element.
MakeRoomAlways(s, time) ==
    IF time >= s.second + GetBufferSize
    THEN SetLowerBound(WriteOutElements(s, CalcIndex(time) + 1), time)
    ELSE SetLowerBound(s, time)

\* Mutant: the slot the element goes to is not written out.
MakeRoomOneLess(s, time) ==
    IF time >= s.second + 2 * GetBufferSize THEN SetLowerBound(WriteOutAll(s), time)
    ELSE IF time >= s.second + GetBufferSize
         THEN SetLowerBound(WriteOutElements(s, CalcIndex(time)), time)
         ELSE s

\* The slots AddElement frees before it stores an element of this time.
MakeRoom(s, time) ==
    IF time >= s.second + 2 * GetBufferSize THEN SetLowerBound(WriteOutAll(s), time)
    ELSE IF time >= s.second + GetBufferSize
         THEN SetLowerBound(WriteOutElements(s, CalcIndex(time) + 1), time)
         ELSE s

BelowLowerBound(s, time) == time < s.second

AddElement(s, e) ==
    IF BelowLowerBound(s, e.t) THEN s
    ELSE [MakeRoom(s, e.t) EXCEPT !.fRingBuffer[CalcIndex(e.t)] = @ \cup {e}]

DeleteOutputData(s) == [s EXCEPT !.fOutputData = << >>]

\* The lower bound is the edge of a cell of the timeline, and the slots, read from
\* it on, are the consecutive cells above it: however often the index wrapped,
\* slot k after `first' holds elements of the k-th cell above `second' only.
Aligned(s) ==
    LET bound == CellOf(s.second)
    IN  /\ s.second = bound * CellWidth
        /\ s.first = bound % NumCells
        /\ \A k \in 0 .. NumCells - 1 : \A e \in s.fRingBuffer[SlotAt(s, k)] :
               CellOf(e.t) = bound + k
=============================================================================
