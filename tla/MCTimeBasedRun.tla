--------------------------- MODULE MCTimeBasedRun ---------------------------
(***************************************************************************)
(* Two pads, up to three events and three digis.  Every time is even, so   *)
(* no digi ends exactly one tick after the last one starts, and activity   *)
(* lasts 2 or 6 ticks: digis end before, at and after the next event.  The *)
(* sorter has 4 cells of 2 ticks, the smallest that puts the write-out     *)
(* order right (with 3, SortedBranchComplete fails).  A smear of -4 takes  *)
(* the timestamp of an early digi below 0, where it is cut off, and puts   *)
(* digis of two events out of order.                                       *)
(***************************************************************************)
EXTENDS TimeBasedRun

MCGaps == {2, 4}
MCFlights == {0, 2}
MCSmears == {-4, 0}
MCActive == {2, 6}

MCSetups ==
    {[useSorter |-> TRUE, vetoes |-> FALSE, maxEvents |-> 3, maxDigis |-> 3],
     [useSorter |-> TRUE, vetoes |-> TRUE, maxEvents |-> 3, maxDigis |-> 2],
     [useSorter |-> FALSE, vetoes |-> TRUE, maxEvents |-> 3, maxDigis |-> 2]}

PadSymmetry == Permutations(Pads)
=============================================================================
