-------------------------- MODULE MCTSBufferReads ---------------------------
(***************************************************************************)
(* Up to five data, some of them at one time, laid out over four entries in *)
(* every way, empty entries at the beginning, in the middle and at the end *)
(* included; a client asks for times before, between, at and after the     *)
(* data; the task of the loop moves on by nothing, by a little or by much  *)
(* and stops before the last datum, so the loop ends with and without the  *)
(* time-out.                                                               *)
(***************************************************************************)
EXTENDS TSBufferReads

MCTimeSeqs == {<< >>, <<1>>, <<1, 3>>, <<1, 3, 3>>, <<1, 3, 3, 6>>, <<1, 2, 3, 5, 6>>}
MCLimits == 0 .. 5
MCSteps == {0, 1, 3}
=============================================================================
