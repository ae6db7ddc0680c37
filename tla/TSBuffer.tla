------------------------------ MODULE TSBuffer ------------------------------
(***************************************************************************)
(* FairTSBufferFunctional: reads time-ordered data from the entries of a   *)
(* tree branch and hands out the data of a requested time, wherever the    *)
(* borders of the entries are.  Modelled with StopTime as stop and start   *)
(* function, the one both directions are documented for.                   *)
(*                                                                         *)
(* The data are numbered in their order: datum n has the time times[n] and *)
(* is in entry layout[n].  Entries count from 0 as in the code, arrays are *)
(* sequences of data; fInputArray is in use within a call only.  The loops *)
(* that read entry after entry are written as the entry at which they      *)
(* stop; the positions FindStartIndex returns count from 0, and -1 says    *)
(* that there is nothing.                                                  *)
(***************************************************************************)
EXTENDS Integers, Sequences, FiniteSets, FiniteSetsExt, SequencesExt

CONSTANTS NofEntries    \* entries of the branch

ASSUME EntriesAssumption == NofEntries \in Nat \ {0}

VARIABLES times, layout    \* the branch

Data == DOMAIN times

\* The ways to cut the data into entries that keep their order.
Layouts == {f \in [Data -> 0 .. NofEntries - 1] :
                \A i, j \in Data : i < j => f[i] <= f[j]}

\* The data keep their order, so an entry is a run of them.
Entry(k) == LET before == Cardinality({n \in Data : layout[n] < k})
            IN  [i \in 1 .. Cardinality({n \in Data : layout[n] = k}) |-> before + i]

Filled(k) == \E n \in Data : layout[n] = k

\* Mutant: a datum at the limit is too late already.
LaterOrAt(n, limit) == times[n] >= limit

\* StopTime::Call, the test both functions make.
Later(n, limit) == times[n] > limit

HasLater(array, limit) == \E i \in DOMAIN array : Later(array[i], limit)

EmptyTSBuffer == [fBranchIndex |-> -1, fBufferArray |-> << >>, fOutputArray |-> << >>]

\* ReadInNextFilledEntry: on to the next entry with data, or to the last one.
NextFilled(index) ==
    LET ahead == {k \in index + 1 .. NofEntries - 1 : Filled(k)}
    IN  IF ahead = {} THEN NofEntries - 1 ELSE Min(ahead)

\* Mutant: the branch index stays one behind what was read.
ReadUpToIndexBehind(b, stop) ==
    LET decisive == {k \in b.fBranchIndex + 1 .. NofEntries - 1 : HasLater(Entry(k), stop)}
        last == IF decisive = {} THEN NofEntries - 1 ELSE Min(decisive)
    IN  IF HasLater(b.fBufferArray, stop) \/ last = b.fBranchIndex THEN b
        ELSE [b EXCEPT !.fBranchIndex = last - 1,
                       !.fBufferArray = @ \o FlattenSeq([j \in 1 .. last - b.fBranchIndex |->
                                                            Entry(b.fBranchIndex + j)])]

\* Entries are read in and appended to the buffer until it holds a datum that is
\* too late, or there are no more.
ReadUpTo(b, stop) ==
    LET decisive == {k \in b.fBranchIndex + 1 .. NofEntries - 1 : HasLater(Entry(k), stop)}
        last == IF decisive = {} THEN NofEntries - 1 ELSE Min(decisive)
    IN  IF HasLater(b.fBufferArray, stop) THEN b
        ELSE [b EXCEPT !.fBranchIndex = last,
                       !.fBufferArray = @ \o FlattenSeq([j \in 1 .. last - b.fBranchIndex |->
                                                            Entry(b.fBranchIndex + j)])]

\* posBuffer where the loop of GetData stops.
StopPosition(array, stop) ==
    IF HasLater(array, stop) THEN Min({i \in DOMAIN array : Later(array[i], stop)}) - 1
    ELSE Len(array)

\* The data before posBuffer go to the output, the rest waits for the next request.
GetData(b, stop) ==
    LET read == ReadUpTo(b, stop)
        pos == StopPosition(read.fBufferArray, stop)
    IN  [read EXCEPT !.fOutputArray = @ \o SubSeq(read.fBufferArray, 1, pos),
                     !.fBufferArray = SubSeq(@, pos + 1, Len(@))]

\* The entry FindStartIndex begins with.  Backwards to one that is filled; if there
\* is none, the next one forwards is read, but fBranchIndex is not set to it.
Opening(index) ==
    LET behind == {k \in 0 .. index : Filled(k)}
    IN  IF behind # {} THEN [index |-> Max(behind), input |-> Entry(Max(behind))]
        ELSE [index |-> IF index > 0 THEN 0 ELSE index, input |-> Entry(NextFilled(index))]

\* Forwards to the first entry whose last datum is later than start.
Forwards(o, start) ==
    LET ahead == {k \in o.index + 1 .. NofEntries - 1 :
                     Filled(k) /\ Later(Last(Entry(k)), start)}
    IN  IF Later(Last(o.input), start) THEN o
        ELSE IF ahead = {} THEN [index |-> NofEntries - 1, input |-> << >>]
        ELSE [index |-> Min(ahead), input |-> Entry(Min(ahead))]

\* Backwards, datum by datum, to the first of those that are later than start.
Backwards(f, start) ==
    LET firstLater(array) == Min({i \in DOMAIN array : Later(array[i], start)}) - 1
        before == {k \in 0 .. f.index - 1 : Filled(k) /\ ~Later(Head(Entry(k)), start)}
        k == Max(before)
    IN  IF ~Later(Head(f.input), start)
        THEN [fBranchIndex |-> f.index, startIndex |-> firstLater(f.input)]
        ELSE IF before = {}
        THEN IF f.index < 0 THEN [fBranchIndex |-> f.index, startIndex |-> -1]
             ELSE [fBranchIndex |-> 0, startIndex |-> 0]
        ELSE IF Later(Last(Entry(k)), start)
        THEN [fBranchIndex |-> k, startIndex |-> firstLater(Entry(k))]
        ELSE [fBranchIndex |-> NextFilled(k), startIndex |-> 0]

FindStartIndex(index, start) ==
    LET o == Opening(index)
        f == Forwards(o, start)
    IN  IF o.input = << >> THEN [fBranchIndex |-> NofEntries - 1, startIndex |-> -1]
        ELSE IF f.input = << >> THEN [fBranchIndex |-> f.index, startIndex |-> -1]
        ELSE Backwards(f, start)

\* GetData with a start: what was buffered is forgotten and the data are read anew
\* from the start position on.
GetDataRange(b, start, stop) ==
    LET found == FindStartIndex(b.fBranchIndex, start)
        entry == Entry(found.fBranchIndex)
        from == [fBranchIndex |-> found.fBranchIndex,
                 fBufferArray |-> IF found.startIndex > -1
                                  THEN SubSeq(entry, found.startIndex + 1, Len(entry))
                                  ELSE << >>,
                 fOutputArray |-> << >>]
    IN  GetData(from, stop)

\* Mutant: data still in the buffer is forgotten.
AllEntriesRead(b) == b.fBranchIndex + 1 >= NofEntries /\ b.fOutputArray = << >>

AllDataProcessed(b) ==
    b.fBranchIndex + 1 >= NofEntries /\ b.fBufferArray = << >> /\ b.fOutputArray = << >>
=============================================================================
