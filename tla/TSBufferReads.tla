--------------------------- MODULE TSBufferReads ----------------------------
(***************************************************************************)
(* One FairTSBufferFunctional and who asks it for data: a client that, as  *)
(* event displays do through FairRootManager::GetData, asks for the data   *)
(* up to a time or of a time window in any order of their times; or the    *)
(* loop FairRunAna::RunTSBuffers, whose task asks for the data up to a     *)
(* time it moves on by itself.  The loop runs until all data are           *)
(* processed, or until the stop function finds that the same time has been *)
(* asked for too often.  The tutorial's task moves on by the same step     *)
(* each time; here a task may also stay or stop moving, which is what the  *)
(* time-out is for.  The one who asked empties the array it got.           *)
(***************************************************************************)
EXTENDS TSBuffer

CONSTANTS TimeSeqs,       \* the data a branch may have: ascending times
          Limits,         \* times that are asked for
          Steps,          \* by how much the task moves its time on
          MaxTime,        \* bound: the task's time ends here
          OpensWithRange  \* the client's first request may be for a window

ASSUME ReadsAssumption == /\ \A s \in TimeSeqs : /\ s \in Seq(Nat)
                                                 /\ \A i, j \in DOMAIN s : i <= j => s[i] <= s[j]
                          /\ Limits \subseteq Nat /\ Steps \subseteq Nat
                          /\ MaxTime \in Nat /\ 0 .. MaxTime \subseteq Limits
                          /\ OpensWithRange \in BOOLEAN

VARIABLES pc,          \* "client", or where the loop is: "exec", "test", "done"
          tsBuffer,    \* the FairTSBufferFunctional
          request,     \* what was asked for, << >> when the data were taken
          fTime,       \* the task's time
          functor,     \* the StopTime object of the loop
          sameAsked    \* history: how often in a row the last time was asked for

loop == <<fTime, functor, sameAsked>>
vars == <<times, layout, pc, tsBuffer, request, loop>>

Init == /\ times \in TimeSeqs
        /\ layout \in Layouts
        /\ pc \in {"client", "exec"}
        /\ tsBuffer = EmptyTSBuffer
        /\ request = << >>
        /\ fTime = 0
        /\ functor = [fRequestTime |-> -1, fOldTime |-> -1, fSameTimeRequestCounter |-> 0]
        /\ sameAsked = 0

Request(r, b) == /\ request = << >>
                 /\ request' = r
                 /\ tsBuffer' = b
                 /\ UNCHANGED <<times, layout, pc>>

ReadTo(stop) == /\ pc = "client"
                /\ Request(<<stop>>, GetData(tsBuffer, stop))
                /\ UNCHANGED loop

ReadRange(start, stop) ==
    /\ pc = "client"
    /\ OpensWithRange \/ tsBuffer.fBranchIndex > -1
    /\ Request(<<start, stop>>, GetDataRange(tsBuffer, start, stop))
    /\ UNCHANGED loop

\* The stop function is called, and sees the time asked for, only when there is a
\* datum to test.
Requested(b, time) ==
    IF b.fBufferArray # << >> \/ (\E k \in b.fBranchIndex + 1 .. NofEntries - 1 : Filled(k))
    THEN [functor EXCEPT !.fRequestTime = time] ELSE functor

\* Bound: the history counts no further.
MaxAsked == 11

\* The task's Exec asks for its data.
Exec ==
    /\ pc = "exec"
    /\ \E step \in Steps :
          LET time == IF fTime + step < MaxTime THEN fTime + step ELSE MaxTime
          IN  /\ Request(<<time>>, GetData(tsBuffer, time))
              /\ functor' = Requested(tsBuffer, time)
              /\ fTime' = time
              /\ sameAsked' = IF time # fTime THEN 1
                              ELSE IF sameAsked < MaxAsked THEN sameAsked + 1 ELSE MaxAsked

TakeData == /\ request # << >>
            /\ tsBuffer' = [tsBuffer EXCEPT !.fOutputArray = << >>]
            /\ request' = << >>
            /\ pc' = IF pc = "exec" THEN "test" ELSE pc
            /\ UNCHANGED <<times, layout, loop>>

\* Mutant: every request starts the count anew.
TimeOutReset(f) == [f EXCEPT !.fOldTime = f.fRequestTime, !.fSameTimeRequestCounter = 0]

\* StopTime::TimeOut; its answer is the value of fSameTimeRequestCounter > 9.
TimeOut(f) ==
    IF f.fRequestTime # f.fOldTime
    THEN [f EXCEPT !.fOldTime = f.fRequestTime, !.fSameTimeRequestCounter = 0]
    ELSE [f EXCEPT !.fSameTimeRequestCounter = @ + 1]

TimedOut(f) == f.fSameTimeRequestCounter > 9

\* The condition of the loop; TimeOut is called only if there is data left.
TestLoop ==
    /\ pc = "test"
    /\ IF AllDataProcessed(tsBuffer)
       THEN pc' = "done" /\ UNCHANGED functor
       ELSE /\ functor' = TimeOut(functor)
            /\ pc' = IF TimedOut(functor') THEN "done" ELSE "exec"
    /\ UNCHANGED <<times, layout, fTime, tsBuffer, request, sameAsked>>

Next == \/ \E stop \in Limits : ReadTo(stop)
        \/ \E start, stop \in Limits : ReadRange(start, stop)
        \/ Exec \/ TakeData \/ TestLoop

\* The loop is one thread that goes on; a client may stop asking.
Fairness == WF_vars(Exec) /\ WF_vars(TakeData) /\ WF_vars(TestLoop)

Spec == Init /\ [][Next]_vars /\ Fairness
-----------------------------------------------------------------------------
(***************************************************************************)
(* Correctness.                                                            *)
(***************************************************************************)
TypeOK ==
    /\ pc \in {"client", "exec", "test", "done"}
    /\ tsBuffer.fBranchIndex \in -1 .. NofEntries - 1
    /\ request \in {<< >>} \cup {<<stop>> : stop \in Limits} \cup (Limits \X Limits)
    /\ fTime \in 0 .. MaxTime /\ functor.fSameTimeRequestCounter \in 0 .. 10
    /\ sameAsked \in 0 .. MaxAsked

\* The data of the entries read so far.
DataRead == {n \in Data : layout[n] <= tsBuffer.fBranchIndex}

\* Buffer and output are runs of consecutive data, and the buffer ends where reading
\* has got to: no datum of an entry that was read is skipped between what was handed
\* out and what comes next (GetData and FindStartIndex leave fBranchIndex there).
BufferEndsAtBranchIndex ==
    /\ TypeOK
    /\ \A array \in {tsBuffer.fBufferArray, tsBuffer.fOutputArray} :
           \A i \in DOMAIN array : array[i] \in Data /\ array[i] = array[1] + i - 1
    /\ tsBuffer.fBufferArray # << >> => /\ Last(tsBuffer.fBufferArray) \in DataRead
                                        /\ \A n \in DataRead : n <= Last(tsBuffer.fBufferArray)

\* How many data have been handed out or passed over.
Cursor == Cardinality(DataRead) - Len(tsBuffer.fBufferArray)

Promise == INSTANCE TimedReader WITH cursor <- Cursor, output <- tsBuffer.fOutputArray

\* Buffer, branch index and start search over filled and empty entries give what a
\* cursor over the data gives for the same request: each datum of the window, in
\* order, no matter how the data are cut into entries and what was asked before.
ReadsLikeCursor == Promise!Spec

\* The loop ends early, with data left, only for a task that has asked more than
\* ten times for one time without a break.
EndsWhenProcessed == pc = "done" => Cursor = Len(times) \/ sameAsked > 10

\* The loop ends, also if the task stops asking for later data.
LoopEnds == pc = "exec" ~> pc = "done"
=============================================================================
