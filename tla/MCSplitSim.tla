----------------------------- MODULE MCSplitSim -----------------------------
(***************************************************************************)
(* Two transport devices, two events, channels that take two messages.     *)
(* Events of two or six primaries in chunks of two: an event is one chunk  *)
(* or three, and chunks of two events are under way together.  The         *)
(* primaries 1, 2 and 5 make a secondary, so the parts differ in length and *)
(* renumbering has something to get wrong.                                 *)
(***************************************************************************)
EXTENDS SplitSim

MCSecondaries == {1, 2, 5}
MCSizes == {2, 6}
\* Chunks that are pushed; whole events that are asked for.
MCSetups == {[push |-> TRUE, chunkSize |-> 2], [push |-> FALSE, chunkSize |-> 0]}
=============================================================================
