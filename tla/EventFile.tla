------------------------------ MODULE EventFile ------------------------------
(***************************************************************************)
(* What a file of events promises, however it is cut into buffers: the     *)
(* events that are read are those that were written, whole, in their order *)
(* and each once; a reader that skips a part of the file gets later ones.  *)
(***************************************************************************)
EXTENDS Integers, Sequences

VARIABLES written,  \* the events that were put, named by their numbers
          got,      \* the events that were got
          skipping  \* a part of the file was skipped since the last Get

vars == <<written, got, skipping>>

Init == written = <<>> /\ got = <<>> /\ skipping = FALSE

\* Put and Get may be calls for several events.
Put == /\ Len(written') > Len(written) /\ written' = [n \in 1..Len(written') |-> n]
       /\ UNCHANGED <<got, skipping>>

Skip == skipping' = TRUE /\ UNCHANGED <<written, got>>

Following == IF got = <<>> THEN 1 ELSE got[Len(got)] + 1

Get == /\ \E first \in DOMAIN written, last \in DOMAIN written :
            /\ first <= last
            /\ IF skipping THEN first >= Following ELSE first = Following
            /\ got' = got \o [n \in 1..(last - first + 1) |-> first + n - 1]
       /\ skipping' = FALSE /\ UNCHANGED written

Next == Put \/ Skip \/ Get

Spec == Init /\ [][Next]_vars
=============================================================================
