---------------------------- MODULE TimeBasedRun ----------------------------
(***************************************************************************)
(* The time-based event loop of FairRunAna::Run with the parts it drives:  *)
(* the FairRootManager that empties the write-out buffers before an event  *)
(* and after the last one, a digitising task that fills a                  *)
(* FairWriteoutBuffer, a FairRingSorterTask that sorts what the buffer     *)
(* wrote out, and the tree.  The loop is one thread; each action is one    *)
(* call it makes.  A setup says whether the run has the sorter and whether *)
(* a task may veto the filling of an event, and bounds the input.          *)
(***************************************************************************)
EXTENDS FairRingSorter, FairWriteoutBuffer

CONSTANTS Setups,        \* records: useSorter, vetoes, maxEvents, maxDigis
          EventGaps,     \* distances in time between consecutive events
          Flights,       \* times of flight of a point
          Smears,        \* detector resolution added to a timestamp
          ActiveTimes    \* how long a digi stays active

ASSUME RunAssumption == /\ \A s \in Setups : /\ s.useSorter \in BOOLEAN /\ s.vetoes \in BOOLEAN
                                             /\ s.maxEvents \in Nat /\ s.maxDigis \in Nat
                        /\ EventGaps \subseteq Nat /\ Flights \subseteq Nat
                        /\ Smears \subseteq Int /\ ActiveTimes \subseteq Nat

VARIABLES setup,           \* the setup of this run
          pc,              \* where the event loop is
          eventTime,       \* FairRootManager::GetEventTime
          nEvents,         \* events read
          buffer,          \* the write-out buffer and its branch's array
          sorter,          \* the sorter task's FairRingSorter
          sortedArray,     \* the sorter task's output branch
          fFillLastData,   \* FairRootManager's flag for LastFill
          tree,            \* what the sink was filled with
          filled,          \* history: digis given to FillNewData
          vetoed,          \* history: digis in the array at vetoed events
          sorterInput      \* history: digis given to AddElement, in order

vars == <<setup, pc, eventTime, nEvents, buffer, sorter, sortedArray, fFillLastData, tree,
          filled, vetoed, sorterInput>>

UseSorter == setup.useSorter

\* Bounds: events in the input, and points in all of it.
MaxEvents == setup.maxEvents
MaxDigis == setup.maxDigis

Init == /\ setup \in Setups
        /\ pc = "loop"
        /\ eventTime = 0 /\ nEvents = 0
        /\ buffer = EmptyBuffer
        /\ sorter = EmptySorter /\ sortedArray = << >>
        /\ fFillLastData = FALSE
        /\ tree = << >>
        /\ filled = {} /\ vetoed = << >> /\ sorterInput = << >>

ReadEvent ==
    /\ pc = "loop" /\ nEvents < MaxEvents
    /\ \E gap \in EventGaps : eventTime' = eventTime + gap
    /\ nEvents' = nEvents + 1
    /\ pc' = "store"
    /\ UNCHANGED <<setup, buffer, sorter, sortedArray, fFillLastData, tree, filled, sorterInput,
                   vetoed>>

\* The last event was read, ReadEvent failed, or the user interrupted the loop.
LoopEnds ==
    /\ pc = "loop"
    /\ pc' = "drain"
    /\ UNCHANGED <<setup, eventTime, nEvents, buffer, sorter, sortedArray, fFillLastData, tree,
                   filled, sorterInput, vetoed>>

StoreWriteoutBufferData ==
    /\ pc = "store"
    /\ buffer' = WriteOutData(buffer, eventTime)
    /\ pc' = "digitize"
    /\ UNCHANGED <<setup, eventTime, nEvents, sorter, sortedArray, fFillLastData, tree, filled,
                   sorterInput, vetoed>>

\* A timestamp below zero is cut off by CalcTimeStamp.
CalcTimeStamp(time) == IF time < 0 THEN 0 ELSE time

\* One point of the event in the digitiser's Exec.
Digitize ==
    /\ pc = "digitize" /\ Cardinality(filled) < MaxDigis
    /\ \E pad \in Pads, flight \in Flights, smear \in Smears, active \in ActiveTimes :
          LET t == CalcTimeStamp(eventTime + flight + smear)
              digi == [id |-> Cardinality(filled) + 1, pad |-> pad, start |-> eventTime + flight,
                       t |-> t, active |-> t + active]
          IN  buffer' = FillNewData(buffer, digi) /\ filled' = filled \cup {digi}
    /\ UNCHANGED <<setup, pc, eventTime, nEvents, sorter, sortedArray, fFillLastData, tree,
                   sorterInput, vetoed>>

\* The loop over the input array in the sorter's Exec and FinishTask: they are
\* numbered on from the digis added before.
WithArray(s, digis) ==
    LET n == Len(sorterInput)
        added[k \in 0 .. Len(digis)] ==
            IF k = 0 THEN s ELSE AddElement(added[k - 1], [id |-> n + k, t |-> digis[k].t])
    IN  added[Len(digis)]

\* The digitiser is through; next the sorter's Exec reads the digi branch.
ExecSorter ==
    /\ pc = "digitize"
    /\ IF UseSorter
       THEN LET s == WithArray(sorter, buffer.array)
            IN  /\ sortedArray' = s.fOutputData
                /\ sorter' = DeleteOutputData(s)
                /\ sorterInput' = sorterInput \o buffer.array
       ELSE UNCHANGED <<sorter, sortedArray, sorterInput>>
    /\ pc' = "fill"
    /\ UNCHANGED <<setup, eventTime, nEvents, buffer, fFillLastData, tree, filled, vetoed>>

TreeEntry == [digis |-> buffer.array, sorted |-> sortedArray]

\* An event is not filled if a task called MarkFill(kFALSE) in it; the mark holds for
\* one event.
Fill ==
    /\ pc = "fill"
    /\ \E fMarkFill \in IF setup.vetoes THEN BOOLEAN ELSE {TRUE} :
          IF fMarkFill THEN tree' = Append(tree, TreeEntry) /\ UNCHANGED vetoed
          ELSE vetoed' = vetoed \o buffer.array /\ UNCHANGED tree
    /\ pc' = "finishEvent"
    /\ UNCHANGED <<setup, eventTime, nEvents, buffer, sorter, sortedArray, fFillLastData,
                   filled, sorterInput>>

\* DeleteOldWriteoutBufferData and the tasks' FinishEvent.
FinishEvent ==
    /\ pc = "finishEvent"
    /\ buffer' = DeleteOldData(buffer)
    /\ sortedArray' = << >>
    /\ pc' = "loop"
    /\ UNCHANGED <<setup, eventTime, nEvents, sorter, fFillLastData, tree, filled, sorterInput,
                   vetoed>>

\* The flag is taken from the buffer before the buffer is written out.
StoreAllWriteoutBufferData ==
    /\ pc = "drain"
    /\ fFillLastData' = (GetNData(buffer) > 0)
    /\ buffer' = WriteOutAllData(buffer)
    /\ pc' = "finishTask"
    /\ UNCHANGED <<setup, eventTime, nEvents, sorter, sortedArray, tree, filled, sorterInput,
                   vetoed>>

\* Mutant: the last fill is not asked for.
FinishTaskNoLastFill ==
    /\ pc = "finishTask"
    /\ LET s == WriteOutAll(WithArray(sorter, buffer.array))
       IN  /\ sortedArray' = s.fOutputData
           /\ sorter' = DeleteOutputData(s)
           /\ sorterInput' = sorterInput \o buffer.array
    /\ pc' = "lastFill"
    /\ UNCHANGED <<setup, eventTime, nEvents, buffer, fFillLastData, tree, filled, vetoed>>

FinishTask ==
    /\ pc = "finishTask"
    /\ IF UseSorter
       THEN LET s == WriteOutAll(WithArray(sorter, buffer.array))
            IN  /\ sortedArray' = s.fOutputData
                /\ sorter' = DeleteOutputData(s)
                /\ sorterInput' = sorterInput \o buffer.array
                /\ fFillLastData' = TRUE
       ELSE UNCHANGED <<sorter, sortedArray, sorterInput, fFillLastData>>
    /\ pc' = "lastFill"
    /\ UNCHANGED <<setup, eventTime, nEvents, buffer, tree, filled, vetoed>>

LastFill ==
    /\ pc = "lastFill"
    /\ tree' = IF fFillLastData THEN Append(tree, TreeEntry) ELSE tree
    /\ pc' = "done"
    /\ UNCHANGED <<setup, eventTime, nEvents, buffer, sorter, sortedArray, fFillLastData,
                   filled, sorterInput, vetoed>>

Next == \/ ReadEvent \/ LoopEnds
        \/ StoreWriteoutBufferData \/ Digitize \/ ExecSorter \/ Fill \/ FinishEvent
        \/ StoreAllWriteoutBufferData \/ FinishTask \/ LastFill

Spec == Init /\ [][Next]_vars
-----------------------------------------------------------------------------
(***************************************************************************)
(* Correctness.                                                            *)
(***************************************************************************)
TypeOK ==
    /\ pc \in {"loop", "store", "digitize", "fill", "finishEvent", "drain", "finishTask",
              "lastFill", "done"}
    /\ eventTime \in Nat /\ nEvents \in 0 .. MaxEvents
    /\ filled \subseteq Digi /\ buffer.fStartTime_map \subseteq filled
    /\ \A x \in buffer.fDeadTime_map : x.time \in Nat /\ x.digi \in filled
    /\ \A k \in DOMAIN buffer.array : buffer.array[k] \in filled
    /\ sorter.first \in Slots /\ sorter.second \in Nat
    /\ fFillLastData \in BOOLEAN

\* The search buffer and the dead-time map describe the same digis, so the error
\* `old data present in dataMap but not in deadTimeMap' never occurs and a pad
\* has at most one active digi.
MapsAgree ==
    \A p \in Pads :
        LET entries == {x \in buffer.fDeadTime_map : x.digi.pad = p}
        IN  IF buffer.fData_map[p] = -1 THEN entries = {}
            ELSE \E x \in entries : entries = {x} /\ x.time = buffer.fData_map[p]

\* The digis a detector with dead time records: one is lost in the pile-up if another,
\* which is recorded, started before it on the same pad and is still active at its start.
Recordable(digis) ==
    CHOOSE kept \in SUBSET digis :
        \A d \in digis :
            d \in kept <=> \A k \in kept : k.pad = d.pad /\ StartOrder(k, d) => k.active <= d.start

TreeDigis == FlattenSeq([k \in DOMAIN tree |-> tree[k].digis])
TreeSorted == FlattenSeq([k \in DOMAIN tree |-> tree[k].sorted])

\* What is in the array and not filled into the tree: still to be filled, or left there
\* by a run that had no last fill.
Pending == IF pc = "finishEvent" \/ (pc = "done" /\ fFillLastData) THEN << >> ELSE buffer.array

\* Buffering over event boundaries changes nothing about what is recorded: tree,
\* array and dead-time map together hold each recordable digi that left the
\* start-time map exactly once, and no digi that pile-up hides, whenever and
\* however often the loop asked the buffer for data.  A vetoed event takes the digis
\* that left the dead-time map at it, whichever events they are of, and no others.
RecordsLikeDetector ==
    LET held == {x.digi : x \in buffer.fDeadTime_map}
        all == TreeDigis \o Pending \o vetoed
    IN  /\ ToSet(all) \cup held = Recordable(filled \ buffer.fStartTime_map)
        /\ IsInjective(all) /\ ToSet(all) \cap held = {}

\* At the end of the run the buffer has been emptied.
NothingLeftInBuffer ==
    pc = "done" => buffer.fStartTime_map = {} /\ buffer.fDeadTime_map = {}

\* What the last write-out put into the array reaches the tree, in a run with a
\* sorter, whose FinishTask asks for the last fill.
LastDataStored ==
    pc = "done" /\ UseSorter => ToSet(buffer.array) \subseteq ToSet(TreeDigis)

\* Over all entries of the tree the sorted branch is in time order.
SortedBranchInOrder ==
    \A i, j \in DOMAIN TreeSorted : i < j =>
        \A a \in TreeSorted[i], b \in TreeSorted[j] : a.t < b.t

\* The digis of the tree and the sorted digis are the same, each of them once: no
\* digi is out of order by more than the sorter's buffer, none is left in it, and
\* none is given to it twice.
SortedBranchComplete ==
    pc = "done" /\ UseSorter /\ ~setup.vetoes =>
        LET cells == TreeSorted
            elements == UNION {cells[k] : k \in DOMAIN cells}
        IN  /\ {sorterInput[e.id] : e \in elements} = ToSet(TreeDigis)
            /\ Cardinality(elements) = Len(TreeDigis)

\* What the write-out buffer does to the data: its two maps describe the same digis,
\* and what is recorded is what a detector with dead time would record.
BufferRight == TypeOK /\ MapsAgree /\ RecordsLikeDetector

\* The end of the run (StoreAllWriteoutBufferData, FinishTask, LastFill) leaves no
\* data behind, neither in the buffer nor in the array.
NothingLeft == NothingLeftInBuffer /\ LastDataStored

\* The sorted branch has all digis of the tree, in the order of their times.
SortedBranch == SortedBranchInOrder /\ SortedBranchComplete
=============================================================================
