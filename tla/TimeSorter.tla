----------------------------- MODULE TimeSorter -----------------------------
(***************************************************************************)
(* What a time sorter promises its clients, whatever the data structure    *)
(* behind it.  Elements are put in with a timestamp; the timeline is cut   *)
(* into cells and `horizon' is the first cell that has not been given      *)
(* away yet.  An element of cell c pulls the horizon up to c + 1 - Window; *)
(* what lies below the horizon is released at once and never mixes with    *)
(* what comes later; an element that arrives below the horizon is refused. *)
(***************************************************************************)
EXTENDS Integers

CONSTANTS Elements,   \* everything that may be put in
          Cell,       \* the cell of the timeline an element belongs to
          Window      \* number of cells the sorter holds open

VARIABLES horizon,    \* first cell still open
          waiting,    \* elements accepted and not released
          released,   \* elements released so far
          refused     \* elements that came too late

vars == <<horizon, waiting, released, refused>>

Init == /\ horizon = 0
        /\ waiting = {}
        /\ released = {}
        /\ refused = {}

NewHorizon(e) == IF Cell[e] + 1 - Window > horizon THEN Cell[e] + 1 - Window ELSE horizon

Accept(e) ==
    /\ Cell[e] >= horizon
    /\ horizon' = NewHorizon(e)
    /\ released' = released \cup {w \in waiting : Cell[w] < NewHorizon(e)}
    /\ waiting' = {w \in waiting : Cell[w] >= NewHorizon(e)} \cup {e}
    /\ UNCHANGED refused

Refuse(e) ==
    /\ Cell[e] < horizon
    /\ refused' = refused \cup {e}
    /\ UNCHANGED <<horizon, waiting, released>>

Flush ==
    /\ released' = released \cup waiting
    /\ waiting' = {}
    /\ UNCHANGED <<horizon, refused>>

Next == \/ \E e \in Elements : Accept(e) \/ Refuse(e)
        \/ Flush

Spec == Init /\ [][Next]_vars
=============================================================================
