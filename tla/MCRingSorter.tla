---------------------------- MODULE MCRingSorter ----------------------------
(***************************************************************************)
(* Three cells two ticks wide, and timestamps from 0 to 14: the buffer     *)
(* spans 6 ticks, so every way AddElement can free slots occurs (inside    *)
(* the buffer, up to twice its size above the bound, beyond that), from    *)
(* every position of the lower bound in the ring.                          *)
(***************************************************************************)
EXTENDS RingSorter

MCTimes == {0, 1, 3, 5, 6, 7, 8, 11, 12, 14}
=============================================================================
