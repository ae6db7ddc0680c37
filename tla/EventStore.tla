----------------------------- MODULE EventStore -----------------------------
(***************************************************************************)
(* What the distributed simulation promises to whoever starts it: the      *)
(* events are generated one after the other, each of them is stored once,  *)
(* in any order, and the run is over when all of them have been stored.    *)
(***************************************************************************)
EXTENDS Integers, Sequences, SequencesExt

CONSTANTS NofEvents

VARIABLES generated,    \* number of events generated so far
          stored,       \* the events stored, in the order of the output
          over          \* the run has ended

vars == <<generated, stored, over>>

Init == generated = 0 /\ stored = << >> /\ over = FALSE

Generate == /\ generated < NofEvents
            /\ generated' = generated + 1
            /\ UNCHANGED <<stored, over>>

Store(event) == /\ event \in 1 .. generated \ ToSet(stored)
                /\ stored' = Append(stored, event)
                /\ UNCHANGED <<generated, over>>

End == /\ Len(stored) = NofEvents
       /\ ~over
       /\ over' = TRUE
       /\ UNCHANGED <<generated, stored>>

Next == Generate \/ (\E event \in 1 .. NofEvents : Store(event)) \/ End

Spec == Init /\ [][Next]_vars /\ WF_vars(Next)
=============================================================================
