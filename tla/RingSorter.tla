----------------------------- MODULE RingSorter -----------------------------
(***************************************************************************)
(* A FairRingSorter and the task that owns it: elements are added one by   *)
(* one in any order of their timestamps, FairRingSorterTask takes the      *)
(* sorted output at the end of each Exec and writes the rest out in        *)
(* FinishTask.                                                             *)
(***************************************************************************)
EXTENDS FairRingSorter

CONSTANTS Times,      \* timestamps the environment uses
          MaxDigis    \* bound: number of AddElement calls

ASSUME InputAssumption == Times \subseteq Nat /\ MaxDigis \in Nat

VARIABLES sorter,      \* the FairRingSorter object
          added,       \* history: elements handed to AddElement so far
          delivered,   \* history: cells the task took with GetOutputData
          finished     \* FinishTask has run, nothing is added any more

vars == <<sorter, added, delivered, finished>>

Init == /\ sorter = EmptySorter
        /\ added = << >>
        /\ delivered = << >>
        /\ finished = FALSE

\* One turn of the loop in FairRingSorterTask::Exec (and FinishTask).
Add(time) ==
    LET e == [id |-> Len(added) + 1, t |-> time]
    IN  /\ ~finished
        /\ Len(added) < MaxDigis
        /\ sorter' = AddElement(sorter, e)
        /\ added' = Append(added, [e |-> e, late |-> BelowLowerBound(sorter, time)])
        /\ UNCHANGED <<delivered, finished>>

\* The end of Exec: copy what is sorted to the output branch, forget it here.
Collect ==
    /\ ~finished
    /\ sorter.fOutputData # << >>
    /\ delivered' = delivered \o sorter.fOutputData
    /\ sorter' = DeleteOutputData(sorter)
    /\ UNCHANGED <<added, finished>>

\* The end of FinishTask: write the whole ring out and hand everything over.
Finish ==
    LET s == WriteOutAll(sorter)
    IN  /\ ~finished
        /\ delivered' = delivered \o s.fOutputData
        /\ sorter' = DeleteOutputData(s)
        /\ finished' = TRUE
        /\ UNCHANGED added

Next == \/ \E time \in Times : Add(time)
        \/ Collect
        \/ Finish

Spec == Init /\ [][Next]_vars
-----------------------------------------------------------------------------
(***************************************************************************)
(* Correctness.                                                            *)
(***************************************************************************)
Written == delivered \o sorter.fOutputData

Held == UNION {sorter.fRingBuffer[c] : c \in Slots}

Released == UNION {Written[j] : j \in DOMAIN Written}

\* The types of the sorter and of the histories.
TypeOK ==
    /\ sorter \in Sorter
    /\ added \in Seq([e : Element, late : BOOLEAN])
    /\ delivered \in Seq(SUBSET Element)
    /\ finished \in BOOLEAN

\* The ring never gets out of step with the timeline.
RingAligned == Aligned(sorter)

\* The order the sorter exists for: of two cells written out, at any time and
\* through any number of wrap-arounds, the earlier one holds the earlier times.
SortedOutput ==
    \A i, j \in DOMAIN Written : i < j =>
        \A a \in Written[i], b \in Written[j] : a.t < b.t

\* Nothing that is still in the ring, and nothing the sorter would still
\* accept, is earlier than what was written out in the course of the run.
OutputBelowBound ==
    ~finished => \A e \in Released : e.t < sorter.second

\* Where an element is: a slot of the ring or a position of the output.
Places(e) == {<<"ring", c>> : c \in {c \in Slots : e \in sorter.fRingBuffer[c]}}
             \cup {<<"out", j>> : j \in {j \in DOMAIN Written : e \in Written[j]}}

\* Every element that was not refused is in exactly one place, in the ring or in
\* the output, and a refused one is in none: no wrap-around, jump or final
\* write-out loses an element or writes it twice.
ExactlyOnce ==
    \A i \in DOMAIN added :
        IF added[i].late THEN Places(added[i].e) = {}
        ELSE \E p \in Places(added[i].e) : Places(added[i].e) = {p}

\* Data is refused only when it is out of order by more than the ring is long:
\* an element accepted before it lies at least NumCells cells above it.
RefusedOnlyIfLate ==
    \A i \in DOMAIN added : added[i].late =>
        \E j \in 1 .. i - 1 : /\ ~added[j].late
                             /\ CellOf(added[j].e.t) >= CellOf(added[i].e.t) + NumCells

\* After FinishTask the whole input that was not refused has been delivered.
FinishDeliversAll ==
    finished => \A i \in DOMAIN added : added[i].late \/ added[i].e \in Released

\* The lower bound never moves back, so an element refused once stays refused.
LowerBoundOnlyGrows == [][sorter'.second >= sorter.second]_sorter

ElementsOfRun == [id : 1 .. MaxDigis, t : Times]

Promise == INSTANCE TimeSorter WITH
               Elements <- ElementsOfRun,
               Cell <- [e \in ElementsOfRun |-> CellOf(e.t)],
               Window <- NumCells,
               horizon <- CellOf(sorter.second),
               waiting <- Held,
               released <- Released,
               refused <- {added[i].e : i \in {i \in DOMAIN added : added[i].late}}

\* The ring with its wrapping index and its two ways of freeing slots behaves as
\* the time sorter: it releases exactly what lies below the new horizon.
SortsLikePromise == Promise!Spec
=============================================================================
