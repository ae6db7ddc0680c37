---------------------------- MODULE TimedReader -----------------------------
(***************************************************************************)
(* What a reader of time-ordered data promises: a cursor over the data in  *)
(* their order.  ReadTo(stop) gives the data from the cursor on that are   *)
(* not later than stop; ReadRange(start, stop) first moves the cursor, in  *)
(* either direction, to the first datum later than start.                  *)
(***************************************************************************)
EXTENDS Integers, Sequences

CONSTANTS Limits     \* the times a client asks for

VARIABLES times,     \* the times of the data, in order
          cursor,    \* how many data lie before the cursor
          request,   \* <<stop>> or <<start, stop>>; << >> when the client has its data
          output     \* what the request gave: the numbers of the data

vars == <<times, cursor, request, output>>

Init == cursor = 0 /\ request = << >> /\ output = << >>

\* The number of the last datum up to a limit, 0 if there is none.
LastUpTo(limit) ==
    CHOOSE n \in 0 .. Len(times) : /\ \A i \in 1 .. n : times[i] <= limit
                                   /\ n < Len(times) => times[n + 1] > limit

Give(from, to) == /\ output' = [k \in 1 .. to - from |-> from + k]
                  /\ cursor' = to
                  /\ UNCHANGED times

ReadTo(stop) ==
    /\ request = << >> /\ request' = <<stop>>
    /\ Give(cursor, IF LastUpTo(stop) > cursor THEN LastUpTo(stop) ELSE cursor)

ReadRange(start, stop) ==
    /\ request = << >> /\ request' = <<start, stop>>
    /\ LET from == LastUpTo(start)
       IN  Give(from, IF LastUpTo(stop) > from THEN LastUpTo(stop) ELSE from)

\* The client has taken the data.
Take == /\ request # << >> /\ request' = << >>
        /\ output' = << >>
        /\ UNCHANGED <<times, cursor>>

Next == \/ \E stop \in Limits : ReadTo(stop)
        \/ \E start, stop \in Limits : ReadRange(start, stop)
        \/ Take

Spec == Init /\ [][Next]_vars
=============================================================================
