--------------------------- MODULE RunOnlineProofs ---------------------------
(***************************************************************************)
(* Theorems about RunOnline for every source, every tree of tasks and      *)
(* every choice of the tasks that fail: tasks and unpackers work with the  *)
(* parameters of the event's run, however events, files and runs follow    *)
(* one another; interrupts and missing files do no more than they must;    *)
(* and the events of the input are filled, in order and none left out.     *)
(***************************************************************************)
EXTENDS RunOnline, SequenceLemmas

-----------------------------------------------------------------------------
(* The inductive invariant. *)

\* The last event that was filled.
LastFilled == tree[Len(tree)]

\* What works now has the parameters of the run the framework holds.
HoldersMatch ==
    pc \notin {"init", "fatal"} /\ ~Static =>
        unpackedRun = fRunId /\ \A t \in Visited(active) : taskRun[t] = fRunId

\* The framework holds the run of the last event, until it has seen that the event just
\* read is of another one; that event was unpacked with the parameters of the last.
LastMatch ==
    tree # <<>> =>
        /\ pc # "init"
        /\ pc = "event" =>
             /\ RunChanged => fRunId = LastFilled.run
             /\ ~Static => \A d \in out : d.run = LastFilled.run
        /\ pc # "event" => pc = "fatal" \/ fRunId = LastFilled.run

RunsInv ==
    /\ active \in [Task -> BOOLEAN]
    /\ \E S : tree \in Seq(S)
    /\ HoldersMatch
    /\ LastMatch
    /\ ParametersOfRun

-----------------------------------------------------------------------------
(* The tree of tasks. *)

\* A walk of (Re)Init makes tasks inactive and never active, so that it has visited
\* whatever a later walk visits.
LEMMA InitVisits ==
    ASSUME NEW act \in [Task -> BOOLEAN], NEW errors
    PROVE /\ AfterInit(act, errors) \in [Task -> BOOLEAN]
          /\ Visited(AfterInit(act, errors)) \subseteq Visited(act)
<1> DEFINE after == AfterInit(act, errors)
<1>1. /\ after \in [Task -> BOOLEAN]
      /\ \A t \in Task : after[t] => act[t]
  BY DEF AfterInit
<1>2. \A t \in Task : Above[t] \subseteq Task
  BY DEF Above
<1> QED BY <1>1, <1>2 DEF Visited

-----------------------------------------------------------------------------
(* The steps. *)

LEMMA RunsInit == Init => RunsInv
<1> SUFFICES ASSUME Init PROVE RunsInv
  OBVIOUS
<1>1. tree = <<>> /\ pc = "init" /\ active \in [Task -> BOOLEAN]
  BY DEF Init
<1>2. tree \in Seq({}) /\ Len(tree) = 0 /\ DOMAIN tree = {}
  BY <1>1
<1>3. ParametersOfRun
  BY <1>2 DEF ParametersOfRun, TasksHaveRun, OldParametersOnlyAtFirst
<1> QED BY <1>1, <1>2, <1>3 DEF RunsInv, HoldersMatch, LastMatch

\* What was filled stays right as long as nothing is filled.
LEMMA FilledStays ==
    ASSUME RunsInv, setup' = setup, tree' = tree
    PROVE ParametersOfRun' /\ (\E S : tree' \in Seq(S)) /\ LastFilled' = LastFilled
          /\ Static' = Static
  BY DEF RunsInv, ParametersOfRun, TasksHaveRun, OldParametersOnlyAtFirst, LastFilled, Static

LEMMA RunInitStep == ASSUME RunsInv, NEW errors, RunInit(errors) PROVE RunsInv'
<1>1. /\ setup' = setup /\ tree' = tree /\ pc = "init"
      /\ fRunId' = RunId /\ unpackedRun' = RunId /\ active' = AfterInit(active, errors)
  BY DEF RunInit, output
<1>2. tree = <<>> BY <1>1 DEF RunsInv, LastMatch
<1>3. active' \in [Task -> BOOLEAN] /\ Visited(active') \subseteq Visited(active)
  BY <1>1, InitVisits DEF RunsInv
<1>4. HoldersMatch'
  <2>1. \A t \in Visited(active') : taskRun'[t] = RunId
    BY <1>3 DEF RunInit, Visited
  <2> QED BY <1>1, <2>1 DEF HoldersMatch, Visited
<1>5. LastMatch' BY <1>1, <1>2 DEF LastMatch
<1> QED BY <1>1, <1>3, <1>4, <1>5, FilledStays DEF RunsInv

LEMMA ReadNextStep == ASSUME RunsInv, ReadNext PROVE RunsInv'
<1>1. /\ setup' = setup /\ tree' = tree /\ active' = active /\ fRunId' = fRunId
      /\ unpackedRun' = unpackedRun /\ taskRun' = taskRun /\ pc = "read"
      /\ pc' \in {"event", "read"}
  BY DEF ReadNext, tasks, output
<1>2. LastFilled' = LastFilled /\ Static' = Static BY <1>1, FilledStays
<1>3. HoldersMatch' BY <1>1, <1>2 DEF RunsInv, HoldersMatch, Visited
<1>4. LastMatch'
  <2>1. \A d \in out' : d.run = unpackedRun
    BY DEF ReadNext, Reset, Unpacked
  <2>2. tree # <<>> => fRunId = LastFilled.run BY <1>1 DEF RunsInv, LastMatch
  <2>3. ~Static => unpackedRun = fRunId BY <1>1 DEF RunsInv, HoldersMatch
  <2> QED BY <1>1, <1>2, <2>1, <2>2, <2>3 DEF LastMatch, RunChanged
<1> QED BY <1>1, <1>3, <1>4, FilledStays DEF RunsInv

LEMMA ReinitStep == ASSUME RunsInv, NEW errors, Reinit(errors) PROVE RunsInv'
<1>1. /\ setup' = setup /\ tree' = tree /\ pc = "event" /\ pc' = "event"
      /\ out' = out /\ header' = header /\ fRunId' = header
  BY DEF Reinit, source, output
<1>2. LastFilled' = LastFilled /\ Static' = Static BY <1>1, FilledStays
<1>3. active' \in [Task -> BOOLEAN] /\ (~Static => Visited(active') \subseteq Visited(active))
  BY InitVisits DEF Reinit, RunsInv
<1>4. HoldersMatch'
  <2>1. ~Static => \A t \in Visited(active') : taskRun'[t] = header
    BY <1>3 DEF Reinit, NewRun, Visited
  <2> QED BY <1>1, <1>2, <2>1 DEF Reinit, NewRun, HoldersMatch, Visited
<1>5. LastMatch'
  BY <1>1, <1>2 DEF RunsInv, LastMatch, RunChanged
<1> QED BY <1>1, <1>3, <1>4, <1>5, FilledStays DEF RunsInv

LEMMA EventLoopStep == ASSUME RunsInv, EventLoop PROVE RunsInv'
<1>1. /\ setup' = setup /\ pc = "event" /\ pc' = "done" /\ active' = active
      /\ fRunId' = fRunId /\ unpackedRun' = unpackedRun /\ taskRun' = taskRun
      /\ header = fRunId /\ tree' = Append(tree, Entry)
  BY DEF EventLoop, source, tasks, RunChanged
<1>2. PICK S : tree \in Seq(S) BY DEF RunsInv
<1>3. /\ tree' \in Seq(S \cup {Entry}) /\ Len(tree') = Len(tree) + 1 /\ Len(tree) \in Nat
      /\ tree'[Len(tree) + 1] = Entry
      /\ \A k \in 1..Len(tree) : tree'[k] = tree[k]
      /\ DOMAIN tree' = 1..Len(tree') /\ DOMAIN tree = 1..Len(tree)
  <2>1. tree \in Seq(S \cup {Entry}) BY <1>2
  <2> QED BY <1>1, <2>1
<1>4. Static' = Static BY <1>1 DEF Static
<1>5. Entry.run = header /\ Entry.data = out
      /\ \A t \in Entry.tasks : t.run \in {taskRun[u] : u \in Visited(active)}
  BY DEF Entry
<1>6. TasksHaveRun'
  <2>1. ~Static => \A t \in Entry.tasks : t.run = header
    BY <1>1, <1>5 DEF RunsInv, HoldersMatch
  <2>2. \A k \in 1..Len(tree) : \A t \in tree'[k].tasks : Static \/ t.run = tree'[k].run
    BY <1>3 DEF RunsInv, ParametersOfRun, TasksHaveRun
  <2> QED BY <1>3, <1>4, <1>5, <2>1, <2>2 DEF TasksHaveRun
<1>7. OldParametersOnlyAtFirst'
  <2> SUFFICES ASSUME NEW k \in 2..Len(tree'), tree'[k].run = tree'[k - 1].run, ~Static,
                      NEW d \in tree'[k].data
               PROVE d.run = tree'[k].run
    BY <1>4 DEF OldParametersOnlyAtFirst
  <2>1. CASE k = Len(tree')
    <3>1. k - 1 \in 1..Len(tree) /\ k - 1 = Len(tree) BY <1>3, <2>1
    <3>2. tree'[k - 1] = LastFilled BY <1>3, <3>1 DEF LastFilled
    <3>3. tree # <<>> BY <3>1
    <3>4. d.run = LastFilled.run
      BY <1>1, <1>3, <1>5, <2>1, <3>3 DEF RunsInv, LastMatch
    <3> QED BY <3>2, <3>4
  <2>2. CASE k # Len(tree')
    <3>1. k \in 2..Len(tree) /\ k \in 1..Len(tree) /\ k - 1 \in 1..Len(tree) BY <1>3, <2>2
    <3>2. tree'[k] = tree[k] /\ tree'[k - 1] = tree[k - 1] BY <1>3, <3>1
    <3> QED BY <3>1, <3>2 DEF RunsInv, ParametersOfRun, OldParametersOnlyAtFirst
  <2> QED BY <2>1, <2>2
<1>8. HoldersMatch' BY <1>1, <1>4 DEF RunsInv, HoldersMatch, Visited
<1>9. LastMatch'
  <2>1. LastFilled' = Entry BY <1>3 DEF LastFilled
  <2> QED BY <1>1, <1>5, <2>1 DEF LastMatch
<1> QED BY <1>1, <1>3, <1>6, <1>7, <1>8, <1>9 DEF RunsInv, ParametersOfRun

\* The other steps leave the parameters and what was filled alone, and come neither to
\* an event nor from one.
LEMMA OtherStep ==
    ASSUME RunsInv, setup' = setup, tree' = tree, active' = active, fRunId' = fRunId,
           unpackedRun' = unpackedRun, taskRun' = taskRun,
           \/ pc' = "fatal" /\ (pc = "init" \/ pc = "event")
           \/ pc \notin {"init", "event", "fatal"} /\ pc' \notin {"init", "event", "fatal"}
           \/ pc' = pc /\ out' = out /\ header' = header
    PROVE RunsInv'
<1>1. LastFilled' = LastFilled /\ Static' = Static BY FilledStays
<1>2. HoldersMatch' BY <1>1 DEF RunsInv, HoldersMatch, Visited
<1>3. LastMatch' BY <1>1 DEF RunsInv, LastMatch, RunChanged
<1> QED BY <1>2, <1>3, FilledStays DEF RunsInv

LEMMA StepKeeps == ASSUME RunsInv, [Next]_vars PROVE RunsInv'
<1>1. CASE \E errors \in SUBSET Task : RunInit(errors) \/ Reinit(errors)
  BY <1>1, RunInitStep, ReinitStep
<1>2. CASE Run BY <1>2, OtherStep DEF Run, source, tasks, output
<1>3. CASE LoopEnds BY <1>3, OtherStep DEF LoopEnds, source, tasks, output
<1>4. CASE ReadNext BY <1>4, ReadNextStep
<1>5. CASE OpenNextFile BY <1>5, OtherStep DEF OpenNextFile, tasks, output
<1>6. CASE EndOfInput BY <1>6, OtherStep DEF EndOfInput, tasks, output
<1>7. CASE ReadWithoutChannel BY <1>7, OtherStep DEF ReadWithoutChannel, source, tasks, output
<1>8. CASE Fatal BY <1>8, OtherStep DEF Fatal, source, tasks, output
<1>9. CASE EventLoop BY <1>9, EventLoopStep
<1>10. CASE EventDone BY <1>10, OtherStep DEF EventDone, source, tasks, output
<1>11. CASE RunEnds BY <1>11, OtherStep DEF RunEnds, source, tasks, output
<1>12. CASE Finish BY <1>12, OtherStep DEF Finish, tasks
<1>13. CASE MacroFinishes BY <1>13, OtherStep DEF MacroFinishes, source, tasks, output
<1>14. CASE Interrupt BY <1>14, OtherStep DEF Interrupt, source, tasks, output
<1>15. CASE UNCHANGED vars BY <1>15, OtherStep DEF vars, source, tasks, output
<1> QED BY <1>1, <1>2, <1>3, <1>4, <1>5, <1>6, <1>7, <1>8, <1>9, <1>10, <1>11, <1>12,
           <1>13, <1>14, <1>15 DEF Next, Step

-----------------------------------------------------------------------------
(* The theorem. *)

(***************************************************************************)
(* CheckRunIdChanged, after ReadEvent has unpacked the event and before    *)
(* ExecuteTask: the tasks work on every event with the parameters of its   *)
(* run, and so do the unpackers on every event but the first of a run, for *)
(* all inputs, trees of tasks and choices of the tasks that fail.          *)
(***************************************************************************)
THEOREM OnlineParametersOfRun == Spec => []ParametersOfRun
<1>1. RunsInv => ParametersOfRun BY DEF RunsInv
<1> QED BY <1>1, RunsInit, StepKeeps, PTL DEF Spec

-----------------------------------------------------------------------------
(* Interrupts and files that cannot be opened. *)

\* The channel is closed because the first file, or one that was reached in an earlier
\* call of Run, could not be opened.
ClosedWithReason ==
    \/ ~files[1].opens
    \/ /\ \E f \in DOMAIN files : ~files[f].opens
       /\ nofRuns >= 1
       /\ pc \in {"read", "event", "done", "crashed"} => nofRuns > 1

StopsInv ==
    /\ setup \in Setups
    /\ channel.file \in Nat
    /\ channel \in [open : BOOLEAN, file : Nat, pos : Nat]
    /\ nofRuns \in Nat
    /\ pc \in {"read", "event", "done", "end"} => nofRuns >= 1
    /\ pc \notin {"init", "finished", "fatal"} /\ ~channel.open => ClosedWithReason
    /\ pc = "crashed" => ~channel.open
    /\ late \in {0, 1}
    /\ pc \in {"read", "event"} => late = 0
    /\ pc = "done" /\ late = 1 => gIsInterrupted

LEMMA StopsInit == Init => StopsInv
  BY DEF Init, StopsInv

LEMMA StopsStep == ASSUME StopsInv, [Next]_vars PROVE StopsInv'
<1>1. CASE \E errors \in SUBSET Task : RunInit(errors)
  <2>1. setup' = setup /\ nofRuns' = nofRuns /\ late' = late /\ pc' = "ready"
        /\ channel' = [channel EXCEPT !.open = files[1].opens]
    BY <1>1 DEF RunInit, loop, signal
  <2>2. files[1].opens \in BOOLEAN
    <3>1. PICK s \in Setups : s = setup BY DEF StopsInv
    <3>2. 1 \in DOMAIN s.files BY FilesAssumption
    <3>3. s.files[1].opens \in BOOLEAN BY <3>2, FilesAssumption
    <3> QED BY <3>1, <3>3 DEF files
  <2>3. channel' \in [open : BOOLEAN, file : Nat, pos : Nat] /\ channel'.file \in Nat
        /\ channel'.open = files[1].opens
    BY <2>1, <2>2 DEF StopsInv
  <2> QED BY <2>1, <2>3 DEF StopsInv, ClosedWithReason, files
<1>2. CASE \E errors \in SUBSET Task : Reinit(errors)
  BY <1>2 DEF StopsInv, Reinit, source, loop, output, ClosedWithReason, files
<1>3. CASE Run
  BY <1>3 DEF StopsInv, Run, source, tasks, output, ClosedWithReason, files
<1>4. CASE LoopEnds
  BY <1>4 DEF StopsInv, LoopEnds, source, loop, signal, ClosedWithReason, files
<1>5. CASE ReadNext
  BY <1>5 DEF StopsInv, ReadNext, signal, ClosedWithReason, files
<1>6. CASE OpenNextFile
  BY <1>6 DEF StopsInv, OpenNextFile, NextFile, loop, signal, ClosedWithReason, files
<1>7. CASE EndOfInput
  <2>1. setup' = setup /\ nofRuns' = nofRuns /\ late' = late /\ pc = "read" /\ pc' = "end"
    BY <1>7 DEF EndOfInput, loop, signal
  <2>2. channel.open /\ channel' \in [open : BOOLEAN, file : Nat, pos : Nat]
    BY <1>7 DEF EndOfInput, AtEnd, StopsInv, OpenAtEnd
  <2>3. ~channel'.open => \E f \in DOMAIN files : ~files[f].opens
    <3> SUFFICES ASSUME ~channel'.open PROVE \E f \in DOMAIN files : ~files[f].opens
      OBVIOUS
    <3>1. channel.file < Len(files) /\ ~files[channel.file + 1].opens
      BY <1>7, <2>2 DEF EndOfInput, StopsInv, OpenAtEnd, NextFile
    <3>2. DOMAIN files = 1..Len(files) /\ Len(files) \in Nat
      BY FilesAssumption DEF StopsInv, files
    <3>3. channel.file + 1 \in DOMAIN files BY <3>1, <3>2 DEF StopsInv
    <3> QED BY <3>1, <3>3
  <2> QED BY <2>1, <2>2, <2>3 DEF StopsInv, ClosedWithReason, files
<1>8. CASE ReadWithoutChannel
  BY <1>8 DEF StopsInv, ReadWithoutChannel, source, loop, signal, ClosedWithReason, files
<1>9. CASE Fatal
  BY <1>9 DEF StopsInv, Fatal, source, loop, signal
<1>10. CASE EventLoop
  BY <1>10 DEF StopsInv, EventLoop, source, loop, ClosedWithReason, files
<1>11. CASE EventDone
  <2>1. CASE Stops
    BY <1>11, <2>1 DEF StopsInv, EventDone, source, signal, ClosedWithReason, files
  <2>2. CASE ~Stops
    BY <1>11, <2>2 DEF StopsInv, EventDone, Stops, source, signal, ClosedWithReason, files
  <2> QED BY <2>1, <2>2
<1>12. CASE RunEnds
  BY <1>12 DEF StopsInv, RunEnds, source, loop, signal, ClosedWithReason, files
<1>13. CASE Finish
  BY <1>13 DEF StopsInv, Finish, loop, signal
<1>14. CASE MacroFinishes
  BY <1>14 DEF StopsInv, MacroFinishes, source, loop, signal, ClosedWithReason, files
<1>15. CASE Interrupt
  BY <1>15 DEF StopsInv, Interrupt, source, loop, ClosedWithReason, files
<1>16. CASE UNCHANGED vars
  BY <1>16 DEF StopsInv, vars, source, loop, signal, ClosedWithReason, files
<1> QED BY <1>1, <1>2, <1>3, <1>4, <1>5, <1>6, <1>7, <1>8, <1>9, <1>10, <1>11, <1>12,
           <1>13, <1>14, <1>15, <1>16 DEF Next, Step

(***************************************************************************)
(* EventLoop and FairLmdSource::ReadEvent: after an interrupt at most one  *)
(* more event is filled, and the source is read without a channel only     *)
(* where a file could not be opened, for all inputs.                       *)
(***************************************************************************)
THEOREM OnlineStopsOrderly == Spec => []StopsOrderly
<1>1. StopsInv => StopsOrderly
  BY DEF StopsInv, StopsOrderly, InterruptedSoon, CrashOnlyWithoutFile, ClosedWithReason
<1> QED BY <1>1, StopsInit, StopsStep, PTL DEF Spec

-----------------------------------------------------------------------------
(* The events of the input that are to be filled. *)

EventsOf(f) == files[f].events

\* An event of a file alone, if an unpacker knows it.
Known(f) == [e \in DOMAIN EventsOf(f) |->
                IF ReadResult(EventsOf(f)[e]) = 0 THEN <<EventsOf(f)[e]>> ELSE <<>>]

InFiles == [f \in DOMAIN files |-> IF Readable(f) THEN KnownEvents(f) ELSE <<>>]

\* How many of those events lie before an event in its file, and before a file.
EventPlaces == [f \in DOMAIN files |->
                   CHOOSE off : LiesAt(KnownEvents(f), Known(f), off, Len(EventsOf(f)))]
FilePlaces == CHOOSE off : LiesAt(Expected, InFiles, off, Len(files))

\* How many of them were read.
Place == FilePlaces[channel.file - 1] + EventPlaces[channel.file][channel.pos]

-----------------------------------------------------------------------------
(* The invariant of what is filled. *)

ReadInv ==
    /\ setup \in Setups
    /\ channel \in [open : BOOLEAN, file : DOMAIN files, pos : Nat]
    /\ channel.pos <= Len(Events)
    /\ channel.open \/ channel.pos > 0 => Readable(channel.file)
    /\ pc = "init" => channel.file = 1 /\ channel.pos = 0
    /\ pc \in {"init", "ready", "read", "event", "done", "end", "finish", "finished", "crashed", "fatal"}
    /\ active \in [Task -> BOOLEAN] /\ finished \subseteq Task
    /\ gIsInterrupted => handler

FillInv ==
    /\ IsSeq(tree) /\ Len(tree) <= Len(Expected)
    /\ \A k \in DOMAIN tree : /\ tree[k].id = Expected[k].id
                              /\ \A d \in tree[k].data : d.event = tree[k].id
    /\ pc = "event" => /\ channel.pos > 0 /\ ReadResult(Events[channel.pos]) = 0
                       /\ Place = Len(tree) + 1
                       /\ \A d \in out : d.event = Events[channel.pos].id
    /\ pc \notin {"event", "fatal"} => Place = Len(tree)

CountInv ==
    /\ IF EvStart < 0 THEN i \in Int ELSE i \in 0 .. EvEnd
    /\ EvStart >= 0 /\ pc \in {"event", "done"} => i < EvEnd
    /\ nofRuns \in Nat
    /\ nofRuns = 0 => pc \in {"init", "ready", "fatal"} /\ tree = <<>>
    /\ nofRuns = 1 /\ EvStart >= 0 =>
          /\ pc \in {"read", "event"} => Len(tree) = i - EvStart
          /\ pc = "done" => Len(tree) = i - EvStart + 1
    /\ RunComplete

FilledInv == ReadInv /\ FillInv /\ CountInv

-----------------------------------------------------------------------------
(* The places of the events. *)

LEMMA FilesOK ==
    ASSUME setup \in Setups
    PROVE /\ Len(files) \in Nat \ {0} /\ DOMAIN files = 1 .. Len(files)
          /\ IsLmd \/ Len(files) = 1
          /\ EvStart \in Int /\ EvEnd \in Int /\ (EvStart >= 0 => EvStart <= EvEnd)
          /\ \A f \in DOMAIN files :
                /\ files[f].opens \in BOOLEAN
                /\ IsSeq(EventsOf(f)) /\ Len(EventsOf(f)) \in Nat
                /\ DOMAIN EventsOf(f) = 1 .. Len(EventsOf(f))
<1>1. /\ Len(files) \in Nat \ {0} /\ DOMAIN files = 1 .. Len(files)
      /\ IsLmd \/ Len(files) = 1
      /\ EvStart \in Int /\ EvEnd \in Int /\ (EvStart >= 0 => EvStart <= EvEnd)
  BY FilesAssumption DEF files, EvStart, EvEnd, IsLmd, SourceType
<1>2. ASSUME NEW f \in DOMAIN files
      PROVE files[f].opens \in BOOLEAN /\ IsSeq(EventsOf(f)) /\ Len(EventsOf(f)) \in Nat
            /\ DOMAIN EventsOf(f) = 1 .. Len(EventsOf(f))
  <2>1. PICK s \in Setups : s = setup OBVIOUS
  <2>2. /\ s.files[f].opens \in BOOLEAN
        /\ s.files[f].events \in Seq({s.files[f].events[e] : e \in DOMAIN s.files[f].events})
    BY <2>1, FilesAssumption DEF files
  <2>3. EventsOf(f) = s.files[f].events BY <2>1 DEF EventsOf, files
  <2>4. IsSeq(EventsOf(f)) BY <2>2, <2>3 DEF IsSeq
  <2> QED BY <2>1, <2>2, <2>4, IsSeqIs DEF files
<1> QED BY <1>1, <1>2

LEMMA KnownLie ==
    ASSUME setup \in Setups, NEW f \in DOMAIN files
    PROVE /\ LiesAt(KnownEvents(f), Known(f), EventPlaces[f], Len(EventsOf(f)))
          /\ IsSeq(KnownEvents(f))
<1>1. PICK n : n = Len(EventsOf(f)) OBVIOUS
<1>2. PICK s : s = Known(f) OBVIOUS
<1>3. n \in Nat /\ DOMAIN EventsOf(f) = 1 .. n BY <1>1, FilesOK
<1>4. s \in [1 .. n -> {s[e] : e \in 1 .. n}] BY <1>2, <1>3 DEF Known
<1>5. s \in Seq({s[e] : e \in 1 .. n}) BY <1>3, <1>4
<1>6. Len(s) = n
  <2>1. DOMAIN s = 1 .. n BY <1>4
  <2> QED BY <1>3, <1>5, <2>1
<1>7. n = 0 => s = << >> BY <1>5, <1>6, EmptySeq
<1>8. \A e \in 1 .. n : IsSeq(s[e])
  <2> TAKE e \in 1 .. n
  <2>1. s[e] = << >> \/ s[e] = <<EventsOf(f)[e]>> BY <1>2, <1>3 DEF Known
  <2> QED BY <2>1, EmptyIsSeq, SingleIs
<1>9. KnownEvents(f) = FlattenSeq(s) BY <1>2 DEF KnownEvents, Known, EventsOf
<1>10. \E off : LiesAt(KnownEvents(f), s, off, n) BY <1>3, <1>6, <1>7, <1>8, <1>9, FlattenSeqParts
<1>11. EventPlaces[f] = CHOOSE off : LiesAt(KnownEvents(f), s, off, n) BY <1>1, <1>2 DEF EventPlaces
<1>12. LiesAt(KnownEvents(f), s, EventPlaces[f], n) BY <1>10, <1>11
<1>13. IsSeq(KnownEvents(f)) BY <1>12 DEF LiesAt
<1> QED BY <1>1, <1>2, <1>12, <1>13

LEMMA FilesLie ==
    ASSUME setup \in Setups
    PROVE LiesAt(Expected, InFiles, FilePlaces, Len(files))
<1>1. PICK n : n = Len(files) OBVIOUS
<1>2. PICK s : s = InFiles OBVIOUS
<1>3. n \in Nat /\ n # 0 /\ DOMAIN files = 1 .. n BY <1>1, FilesOK
<1>4. s \in [1 .. n -> {s[f] : f \in 1 .. n}] BY <1>2, <1>3 DEF InFiles
<1>5. s \in Seq({s[f] : f \in 1 .. n}) BY <1>3, <1>4
<1>6. Len(s) = n
  <2>1. DOMAIN s = 1 .. n BY <1>4
  <2> QED BY <1>3, <1>5, <2>1
<1>7. \A f \in 1 .. n : IsSeq(s[f])
  <2> TAKE f \in 1 .. n
  <2>1. s[f] = << >> \/ s[f] = KnownEvents(f) BY <1>2, <1>3 DEF InFiles
  <2>2. f \in DOMAIN files BY <1>3
  <2>3. IsSeq(KnownEvents(f)) BY <2>2, KnownLie
  <2> QED BY <2>1, <2>3, EmptyIsSeq
<1>8. Expected = FlattenSeq(s) BY <1>2 DEF Expected, InFiles
<1>9. \E off : LiesAt(Expected, s, off, n) BY <1>3, <1>6, <1>7, <1>8, FlattenSeqParts
<1>10. FilePlaces = CHOOSE off : LiesAt(Expected, s, off, n) BY <1>1, <1>2 DEF FilePlaces
<1>11. LiesAt(Expected, s, FilePlaces, n) BY <1>9, <1>10
<1> QED BY <1>1, <1>2, <1>11

\* Where the files begin and end.
LEMMA FilePlacesAre ==
    ASSUME setup \in Setups, NEW f \in DOMAIN files, NEW from, from = FilePlaces[f - 1],
           NEW to, to = FilePlaces[f], NEW e, e = Len(Expected)
    PROVE /\ from \in Nat /\ to \in Nat /\ to <= e /\ e \in Nat
          /\ f = 1 => from = 0
          /\ f = Len(files) => to = e
          /\ Readable(f) => to = from + EventPlaces[f][Len(EventsOf(f))]
          /\ ~Readable(f) => to = from
<1>1. PICK n : n = Len(files) OBVIOUS
<1>2. n \in Nat /\ f \in 1 .. n /\ f - 1 \in 0 .. n /\ f \in 0 .. n /\ n \in 0 .. n
  BY <1>1, FilesOK
<1>3. LiesAt(Expected, InFiles, FilePlaces, n) BY <1>1, FilesLie
<1>4. FilePlaces \in [0 .. n -> Nat] /\ FilePlaces[0] = 0 BY <1>3 DEF LiesAt
<1>5. e = FilePlaces[n] /\ FilePlaces[f] <= FilePlaces[n] BY <1>2, <1>3 DEF LiesAt
<1>6. to = from + Len(InFiles[f]) BY <1>2, <1>3 DEF LiesAt
<1>7. from \in Nat /\ to \in Nat /\ e \in Nat BY <1>2, <1>4, <1>5
<1>8. InFiles[f] = IF Readable(f) THEN KnownEvents(f) ELSE << >> BY DEF InFiles
<1>9. Readable(f) => to = from + EventPlaces[f][Len(EventsOf(f))]
  <2>1. LiesAt(KnownEvents(f), Known(f), EventPlaces[f], Len(EventsOf(f))) BY KnownLie
  <2>2. Len(KnownEvents(f)) = EventPlaces[f][Len(EventsOf(f))] BY <2>1 DEF LiesAt
  <2> QED BY <1>6, <1>8, <2>2
<1>10. ~Readable(f) => to = from BY <1>6, <1>7, <1>8, EmptyIsSeq
<1>11. f = 1 => from = 0 BY <1>4
<1> QED BY <1>1, <1>5, <1>7, <1>9, <1>10, <1>11

LEMMA ExpectedLen == ASSUME setup \in Setups PROVE Len(Expected) \in Nat
<1>1. PICK n : n = Len(files) OBVIOUS
<1>2. n \in Nat /\ n \in 0 .. n BY <1>1, FilesOK
<1>3. LiesAt(Expected, InFiles, FilePlaces, n) BY <1>1, FilesLie
<1> QED BY <1>2, <1>3 DEF LiesAt

\* Where the events of a file are.
LEMMA EventPlacesAre ==
    ASSUME setup \in Setups, NEW f \in DOMAIN files
    PROVE EventPlaces[f] \in [0 .. Len(EventsOf(f)) -> Nat] /\ EventPlaces[f][0] = 0
<1>1. LiesAt(KnownEvents(f), Known(f), EventPlaces[f], Len(EventsOf(f))) BY KnownLie
<1> QED BY <1>1 DEF LiesAt

LEMMA EventIs ==
    ASSUME setup \in Setups, NEW f \in DOMAIN files, NEW e \in DOMAIN EventsOf(f),
           NEW known, known <=> ReadResult(EventsOf(f)[e]) = 0,
           NEW from, from = EventPlaces[f][e - 1], NEW to, to = EventPlaces[f][e],
           NEW start, start = FilePlaces[f - 1]
    PROVE /\ from \in Nat /\ to \in Nat /\ to = from + (IF known THEN 1 ELSE 0)
          /\ known /\ Readable(f) =>
                Expected[start + to] = EventsOf(f)[e] /\ start + to <= Len(Expected)
<1>1. PICK n : n = Len(EventsOf(f)) OBVIOUS
<1>2. n \in Nat /\ e \in 1 .. n /\ e - 1 \in 0 .. n /\ e \in 0 .. n /\ n \in 0 .. n BY <1>1, FilesOK
<1>3. LiesAt(KnownEvents(f), Known(f), EventPlaces[f], n) BY <1>1, KnownLie
<1>4. from \in Nat /\ to \in Nat BY <1>2, <1>3 DEF LiesAt
<1>5. PICK s : s = Known(f)[e] OBVIOUS
<1>6. s = IF known THEN <<EventsOf(f)[e]>> ELSE << >> BY <1>5 DEF Known
<1>7. to = from + Len(s) /\ \A k \in 1 .. Len(s) : KnownEvents(f)[from + k] = s[k]
  BY <1>2, <1>3, <1>5 DEF LiesAt
<1>8. to = from + (IF known THEN 1 ELSE 0) BY <1>4, <1>6, <1>7, EmptyIsSeq, SingleIs
<1>9. ASSUME known, Readable(f)
      PROVE Expected[start + to] = EventsOf(f)[e] /\ start + to <= Len(Expected)
  <2>1. Len(s) = 1 /\ s[1] = EventsOf(f)[e] BY <1>6, <1>9, SingleIs
  <2>2. 1 \in 1 .. Len(s) /\ to = from + 1 BY <1>7, <2>1
  <2>3. KnownEvents(f)[to] = EventsOf(f)[e] BY <1>7, <2>1, <2>2
  <2>4. PICK m : m = Len(KnownEvents(f)) OBVIOUS
  <2>5. m \in Nat /\ to <= m
    <3>1. m = EventPlaces[f][n] /\ EventPlaces[f][e] <= EventPlaces[f][n]
      BY <1>2, <1>3, <2>4 DEF LiesAt
    <3>2. EventPlaces[f][n] \in Nat BY <1>2, <1>3 DEF LiesAt
    <3> QED BY <3>1, <3>2
  <2>6. to \in 1 .. m BY <1>4, <2>2, <2>5
  <2>7. PICK l : l = Len(files) OBVIOUS
  <2>8. l \in Nat /\ f \in 1 .. l /\ f - 1 \in 0 .. l /\ f \in 0 .. l BY <2>7, FilesOK
  <2>9. LiesAt(Expected, InFiles, FilePlaces, l) BY <2>7, FilesLie
  <2>10. InFiles[f] = KnownEvents(f) BY <1>9 DEF InFiles
  <2>11. Expected[start + to] = KnownEvents(f)[to]
    <3>1. \A k \in 1 .. Len(InFiles[f]) : Expected[FilePlaces[f - 1] + k] = InFiles[f][k]
      BY <2>8, <2>9 DEF LiesAt
    <3> QED BY <2>4, <2>6, <2>10, <3>1
  <2>12. start + to <= Len(Expected)
    <3>1. PICK end : end = FilePlaces[f] OBVIOUS
    <3>2. end = start + m BY <2>4, <2>8, <2>9, <2>10, <3>1 DEF LiesAt
    <3>3. PICK x : x = Len(Expected) OBVIOUS
    <3>4. start \in Nat /\ end <= x /\ x \in Nat BY <3>1, <3>3, FilePlacesAre
    <3>5. start + to <= x BY <1>4, <2>5, <3>2, <3>4
    <3> QED BY <3>3, <3>5
  <2> QED BY <2>3, <2>11, <2>12
<1> QED BY <1>4, <1>8, <1>9

\* No event is left after a file that is the last one or before one that cannot be opened.
LEMMA NoneLeft ==
    ASSUME setup \in Setups, NEW f \in DOMAIN files, f = Len(files) \/ ~files[f + 1].opens
    PROVE FilePlaces[f] = Len(Expected)
<1>1. PICK n : n = Len(files) OBVIOUS
<1>2. n \in Nat /\ f \in 1 .. n /\ n \in 1 .. n /\ DOMAIN files = 1 .. n BY <1>1, FilesOK
<1>3. FilePlaces[n] = Len(Expected)
  <2>1. LiesAt(Expected, InFiles, FilePlaces, n) BY <1>1, FilesLie
  <2> QED BY <2>1 DEF LiesAt
<1> DEFINE S == {g \in f .. n : FilePlaces[g] = FilePlaces[f]}
<1>4. f \in S BY <1>2
<1>5. ASSUME NEW g \in f .. n - 1, g \in S PROVE g + 1 \in S
  <2>1. PICK h : h = g + 1 OBVIOUS
  <2>2. h \in DOMAIN files /\ h - 1 = g /\ h \in f .. n BY <1>2, <2>1
  <2>3. f # n /\ f + 1 \in 1 .. h BY <1>2, <2>1
  <2>4. ~Readable(h) BY <1>1, <2>3 DEF Readable
  <2>5. FilePlaces[h] = FilePlaces[h - 1]
    <3>1. PICK from : from = FilePlaces[h - 1] OBVIOUS
    <3>2. PICK to : to = FilePlaces[h] OBVIOUS
    <3>3. PICK e : e = Len(Expected) OBVIOUS
    <3>4. to = from BY <2>2, <2>4, <3>1, <3>2, <3>3, FilePlacesAre
    <3> QED BY <3>1, <3>2, <3>4
  <2> QED BY <1>5, <2>1, <2>2, <2>5
<1>6. f .. n \subseteq S
  <2>1. f \in Int /\ n \in Int /\ f \in Nat BY <1>2
  <2> HIDE DEF S
  <2> QED BY <1>4, <1>5, <2>1, InductionUpTo
<1>7. n \in f .. n BY <1>2
<1> QED BY <1>3, <1>6, <1>7

LEMMA PlacesKept ==
    ASSUME setup' = setup
    PROVE /\ files' = files /\ EvStart' = EvStart /\ EvEnd' = EvEnd /\ Expected' = Expected
          /\ FilePlaces' = FilePlaces /\ EventPlaces' = EventPlaces /\ Wanted' = Wanted
          /\ (\A f : EventsOf(f)' = EventsOf(f)) /\ (\A f : Readable(f)' = Readable(f))
          /\ (\A ev : ReadResult(ev)' = ReadResult(ev))
<1>1. files' = files /\ EvStart' = EvStart /\ EvEnd' = EvEnd /\ SourceType' = SourceType
  BY DEF files, EvStart, EvEnd, SourceType
<1>2. \A ev : ReadResult(ev)' = ReadResult(ev) BY <1>1 DEF ReadResult, Seen, Matching, Called
<1>3. \A f : EventsOf(f)' = EventsOf(f) BY <1>1 DEF EventsOf
<1>4. \A f : Readable(f)' = Readable(f) BY <1>1 DEF Readable
<1>5. \A f : KnownEvents(f)' = KnownEvents(f) BY <1>1, <1>2 DEF KnownEvents
<1>6. Expected' = Expected BY <1>1, <1>4, <1>5 DEF Expected
<1>7. \A f : Known(f)' = Known(f) BY <1>2, <1>3 DEF Known
<1>8. InFiles' = InFiles BY <1>1, <1>4, <1>5 DEF InFiles
<1>9. FilePlaces' = FilePlaces BY <1>1, <1>6, <1>8 DEF FilePlaces
<1>10. EventPlaces' = EventPlaces BY <1>1, <1>3, <1>5, <1>7 DEF EventPlaces
<1>11. Wanted' = Wanted BY <1>1, <1>6 DEF Wanted
<1> QED BY <1>1, <1>2, <1>3, <1>4, <1>6, <1>9, <1>10, <1>11

-----------------------------------------------------------------------------
(* The steps, once more: what is filled. *)

LEMMA FilledInit == ASSUME Init PROVE FilledInv
<1>1. /\ pc = "init" /\ setup \in Setups /\ channel = [open |-> FALSE, file |-> 1, pos |-> 0]
      /\ active = [t \in Task |-> TRUE] /\ i = 0 /\ nofRuns = 0
      /\ handler = FALSE /\ gIsInterrupted = FALSE /\ tree = <<>> /\ finished = {}
  BY DEF Init
<1>2. 1 \in DOMAIN files /\ EvEnd \in Int /\ (EvStart >= 0 => EvEnd >= 0) /\ EvStart \in Int
  BY <1>1, FilesOK
<1>3. ReadInv
  <2>1. Len(Events) \in Nat BY <1>1, <1>2, FilesOK DEF Events, EventsOf
  <2> QED BY <1>1, <1>2, <2>1 DEF ReadInv
<1>4. FillInv
  <2>1. IsSeq(tree) /\ Len(tree) = 0 /\ DOMAIN tree = {} BY <1>1, EmptyIsSeq
  <2>2. PICK e : e = Len(Expected) OBVIOUS
  <2>3. PICK from : from = FilePlaces[1 - 1] OBVIOUS
  <2>4. PICK to : to = FilePlaces[1] OBVIOUS
  <2>5. e \in Nat /\ from = 0 BY <1>1, <1>2, <2>2, <2>3, <2>4, FilePlacesAre
  <2>6. EventPlaces[1][0] = 0 BY <1>1, <1>2, EventPlacesAre
  <2>7. channel.file = 1 /\ channel.pos = 0 BY <1>1
  <2>8. channel.file - 1 = 0 /\ 1 - 1 = 0 BY <2>7
  <2>9. FilePlaces[0] = 0 BY <2>3, <2>5, <2>8
  <2>10. Place = 0 BY <2>6, <2>7, <2>8, <2>9 DEF Place
  <2> QED BY <1>1, <2>1, <2>2, <2>5, <2>10 DEF FillInv
<1>5. CountInv BY <1>1, <1>2 DEF CountInv, RunComplete
<1> QED BY <1>3, <1>4, <1>5 DEF FilledInv

\* A step that reads nothing.
LEMMA ReadKept ==
    ASSUME ReadInv, UNCHANGED <<setup, channel>>,
           pc' \in {"init", "ready", "read", "event", "done", "end", "finish", "finished", "crashed",
                    "fatal"},
           pc' = "init" => pc = "init",
           active' \in [Task -> BOOLEAN], finished' \subseteq Task, gIsInterrupted' => handler'
    PROVE ReadInv'
<1> USE DEF ReadInv
<1>1. files' = files /\ Events' = Events BY PlacesKept DEF Events
<1>2. Readable(channel.file)' <=> Readable(channel.file) BY <1>1 DEF Readable
<1> QED BY <1>1, <1>2

\* A step that neither reads nor fills.
LEMMA FillKept ==
    ASSUME FillInv, UNCHANGED <<setup, tree>>,
           channel'.file = channel.file, channel'.pos = channel.pos,
           pc' = "event" => pc = "event" /\ out' = out,
           pc \in {"event", "fatal"} => pc' \in {"event", "fatal"}
    PROVE FillInv'
<1> USE DEF FillInv
<1>1. Expected' = Expected /\ files' = files BY PlacesKept
<1>2. Place' = Place BY PlacesKept DEF Place
<1>3. Events' = Events BY <1>1 DEF Events
<1>4. \A ev : ReadResult(ev)' = ReadResult(ev) BY PlacesKept
<1>5. /\ IsSeq(tree') /\ Len(tree') <= Len(Expected')
      /\ \A k \in DOMAIN tree' : /\ tree'[k].id = Expected'[k].id
                                 /\ \A d \in tree'[k].data : d.event = tree'[k].id
  BY <1>1
<1>6. pc' = "event" => /\ channel'.pos > 0 /\ ReadResult(Events[channel.pos])' = 0
                       /\ Place' = Len(tree') + 1
                       /\ \A d \in out' : d.event = Events'[channel'.pos].id
  BY <1>2, <1>3, <1>4
<1>7. pc' \notin {"event", "fatal"} => Place' = Len(tree') BY <1>2
<1> QED BY <1>3, <1>5, <1>6, <1>7

\* A step that does not count.
LEMMA CountKept ==
    ASSUME CountInv, UNCHANGED <<setup, tree, i, nofRuns>>,
           pc' \in {"event", "done", "read"} => pc = pc',
           pc' = "end" => pc = "end" /\ (gIsInterrupted => gIsInterrupted'),
           pc = "init" => pc' \in {"init", "ready", "fatal"},
           pc = "ready" /\ nofRuns = 0 => pc' = "ready", pc = "fatal" => pc' = "fatal"
    PROVE CountInv'
  BY PlacesKept DEF CountInv, RunComplete

\* Where the reader is when it has read all the events of a file.
LEMMA PlaceAtEnd ==
    ASSUME ReadInv, channel.open, channel.pos = Len(Events)
    PROVE Place = FilePlaces[channel.file]
<1>1. PICK f \in DOMAIN files : f = channel.file BY DEF ReadInv
<1>2. setup \in Setups /\ Readable(f) BY <1>1 DEF ReadInv
<1>3. PICK from : from = FilePlaces[f - 1] OBVIOUS
<1>4. PICK to : to = FilePlaces[f] OBVIOUS
<1>5. PICK e : e = Len(Expected) OBVIOUS
<1>6. to = from + EventPlaces[f][Len(EventsOf(f))] BY <1>2, <1>3, <1>4, <1>5, FilePlacesAre
<1>7. channel.pos = Len(EventsOf(f)) BY <1>1 DEF Events, EventsOf
<1> QED BY <1>1, <1>3, <1>4, <1>6, <1>7 DEF Place

LEMMA RunInitFills == ASSUME FilledInv, NEW errors, RunInit(errors) PROVE FilledInv'
<1>1. /\ setup' = setup /\ tree' = tree /\ finished' = finished /\ i' = i /\ nofRuns' = nofRuns
      /\ gIsInterrupted' = gIsInterrupted /\ handler' = handler /\ pc = "init" /\ pc' = "ready"
      /\ active' = AfterInit(active, errors)
      /\ channel' = [channel EXCEPT !.open = files[1].opens]
  BY DEF RunInit, loop, signal, output
<1>2. /\ channel \in [open : BOOLEAN, file : DOMAIN files, pos : Nat] /\ setup \in Setups
      /\ channel.file = 1 /\ channel.pos = 0
  BY <1>1 DEF FilledInv, ReadInv
<1>3. files[1].opens \in BOOLEAN /\ 1 \in DOMAIN files BY <1>2, FilesOK
<1>4. /\ channel' \in [open : BOOLEAN, file : DOMAIN files, pos : Nat]
      /\ channel'.file = 1 /\ channel'.pos = 0 /\ channel'.open = files[1].opens
  BY <1>1, <1>2, <1>3
<1>5. files' = files BY <1>1, PlacesKept
<1>6. Events' = Events BY <1>2, <1>4, <1>5 DEF Events
<1>7. channel'.open => Readable(channel.file)'
  <2>1. Readable(channel.file)' = \A g \in 1 .. channel'.file : files'[g].opens BY DEF Readable
  <2>2. \A g \in 1 .. 1 : g = 1 OBVIOUS
  <2> QED BY <1>4, <1>5, <2>1, <2>2
<1>8. active' \in [Task -> BOOLEAN] BY <1>1, InitVisits DEF FilledInv, ReadInv
<1>9. ReadInv' BY <1>1, <1>2, <1>4, <1>5, <1>6, <1>7, <1>8 DEF FilledInv, ReadInv
<1>10. FillInv' BY <1>1, <1>2, <1>4, FillKept DEF FilledInv
<1>11. CountInv' BY <1>1, CountKept DEF FilledInv
<1> QED BY <1>9, <1>10, <1>11 DEF FilledInv

LEMMA RunFills == ASSUME FilledInv, Run PROVE FilledInv'
<1>1. /\ UNCHANGED <<setup, channel, out, tree, finished, active, handler>>
      /\ pc = "ready" /\ pc' = "read" /\ nofRuns' = nofRuns + 1 /\ i' = EvStart
      /\ gIsInterrupted' = FALSE
  BY DEF Run, source, tasks, output
<1>2. ReadInv' BY <1>1, ReadKept DEF FilledInv, ReadInv
<1>3. FillInv' BY <1>1, FillKept DEF FilledInv
<1>4. EvStart' = EvStart /\ EvEnd' = EvEnd BY <1>1, PlacesKept
<1>5. EvStart \in Int /\ EvEnd \in Int /\ (EvStart >= 0 => EvStart <= EvEnd)
  BY FilesOK DEF FilledInv, ReadInv
<1>6. nofRuns = 0 => tree = <<>> BY DEF FilledInv, CountInv
<1>7. nofRuns \in Nat BY DEF FilledInv, CountInv
<1>8. tree = <<>> => Len(tree) = 0 BY EmptyIsSeq
<1>9. nofRuns' = 1 => Len(tree') = i' - EvStart BY <1>1, <1>5, <1>6, <1>7, <1>8
<1>10. CountInv' BY <1>1, <1>4, <1>5, <1>7, <1>9 DEF CountInv, RunComplete
<1> QED BY <1>2, <1>3, <1>10 DEF FilledInv

LEMMA LoopEndsFills == ASSUME FilledInv, LoopEnds PROVE FilledInv'
<1>1. /\ UNCHANGED <<setup, channel, out, tree, finished, active, handler, i, nofRuns, gIsInterrupted>>
      /\ pc = "read" /\ pc' = "end" /\ EvStart >= 0 /\ ~(i < EvEnd)
  <2>1. EvStart \in Int BY FilesOK DEF FilledInv, ReadInv
  <2> QED BY <2>1 DEF LoopEnds, LoopOn, source, tasks, loop, signal, output
<1>2. ReadInv' BY <1>1, ReadKept DEF FilledInv, ReadInv
<1>3. FillInv' BY <1>1, FillKept DEF FilledInv
<1>4. EvStart' = EvStart /\ EvEnd' = EvEnd /\ Wanted' = Wanted BY <1>1, PlacesKept
<1>5. EvStart \in Int /\ EvEnd \in Int BY FilesOK DEF FilledInv, ReadInv
<1>6. i \in 0 .. EvEnd /\ i = EvEnd BY <1>1, <1>5 DEF FilledInv, CountInv
<1>7. PICK e : e = Len(Expected) OBVIOUS
<1>8. PICK n : n = Len(tree) OBVIOUS
<1>9. n \in Nat /\ n <= e BY <1>7, <1>8, IsSeqIs DEF FilledInv, FillInv
<1>10. e \in Nat BY <1>7, ExpectedLen DEF FilledInv, ReadInv
<1>11. nofRuns = 1 => n = EvEnd - EvStart BY <1>1, <1>6, <1>8 DEF FilledInv, CountInv
<1>12. nofRuns = 1 => n = Wanted BY <1>1, <1>5, <1>7, <1>9, <1>10, <1>11 DEF Wanted
<1>13. RunComplete' BY <1>1, <1>4, <1>8, <1>12 DEF RunComplete
<1>14. CountInv' BY <1>1, <1>4, <1>13 DEF FilledInv, CountInv
<1> QED BY <1>2, <1>3, <1>14 DEF FilledInv

LEMMA ReadNextFills == ASSUME FilledInv, ReadNext PROVE FilledInv'
<1>1. PICK f \in DOMAIN files : f = channel.file BY DEF FilledInv, ReadInv
<1>2. PICK p \in Nat : p = channel.pos + 1 BY DEF FilledInv, ReadInv
<1>3. PICK n : n = Len(Events) OBVIOUS
<1>4. PICK ev : ev = Events[p] OBVIOUS
<1>5. /\ UNCHANGED <<setup, tree, finished, active, handler, nofRuns, gIsInterrupted>>
      /\ pc = "read" /\ channel.open /\ channel.pos < n /\ LoopOn(i)
      /\ channel' = [channel EXCEPT !.pos = @ + 1] /\ out' = Unpacked(ev)
      /\ ReadResult(ev) = 0 => pc' = "event" /\ i' = i
      /\ ReadResult(ev) # 0 => pc' = "read" /\ i' = i
  BY <1>2, <1>3, <1>4 DEF ReadNext, NotCounted, Reset, tasks, signal, output
<1>6. /\ setup \in Setups /\ Readable(f) /\ channel.pos \in Nat
      /\ channel \in [open : BOOLEAN, file : DOMAIN files, pos : Nat]
  BY <1>1, <1>5 DEF FilledInv, ReadInv
<1>7. Events = EventsOf(f) BY <1>1 DEF Events, EventsOf
<1>8. n \in Nat /\ DOMAIN EventsOf(f) = 1 .. n BY <1>3, <1>6, <1>7, FilesOK
<1>9. p \in DOMAIN EventsOf(f) /\ p - 1 = channel.pos /\ p <= n /\ p > 0
  BY <1>2, <1>5, <1>6, <1>8
<1>10. /\ channel' \in [open : BOOLEAN, file : DOMAIN files, pos : Nat]
       /\ channel'.open = channel.open /\ channel'.file = f /\ channel'.pos = p
  BY <1>1, <1>2, <1>5, <1>6
<1>11. files' = files /\ Events' = Events
  <2>1. files' = files BY <1>5, PlacesKept
  <2> QED BY <1>1, <1>10, <2>1 DEF Events
<1>12. ReadInv'
  <2>1. Readable(channel.file)' BY <1>6, <1>10, <1>11 DEF Readable
  <2> QED BY <1>3, <1>5, <1>6, <1>9, <1>10, <1>11, <2>1 DEF FilledInv, ReadInv
<1>13. PICK known : known <=> ReadResult(EventsOf(f)[p]) = 0 OBVIOUS
<1>14. PICK from : from = EventPlaces[f][p - 1] OBVIOUS
<1>15. PICK to : to = EventPlaces[f][p] OBVIOUS
<1>16. PICK start : start = FilePlaces[f - 1] OBVIOUS
<1>17. from \in Nat /\ to \in Nat /\ to = from + (IF known THEN 1 ELSE 0)
  BY <1>6, <1>9, <1>13, <1>14, <1>15, <1>16, EventIs
<1>18. PICK fend : fend = FilePlaces[f] OBVIOUS
<1>19. PICK e : e = Len(Expected) OBVIOUS
<1>20. start \in Nat BY <1>6, <1>16, <1>18, <1>19, FilePlacesAre
<1>21. Place = start + from BY <1>1, <1>9, <1>14, <1>16 DEF Place
<1>22. Place' = start + to
  <2>1. FilePlaces' = FilePlaces /\ EventPlaces' = EventPlaces BY <1>5, PlacesKept
  <2> QED BY <1>10, <1>15, <1>16, <2>1 DEF Place
<1>23. Place = Len(tree) BY <1>5 DEF FilledInv, FillInv
<1>24. FillInv'
  <2>1. known => Place' = Len(tree) + 1 BY <1>17, <1>20, <1>21, <1>22, <1>23
  <2>2. ~known => Place' = Len(tree) BY <1>17, <1>20, <1>21, <1>22, <1>23
  <2>3. known <=> ReadResult(ev) = 0 BY <1>4, <1>7, <1>13
  <2>4. pc' = "event" <=> known BY <1>5, <2>3
  <2>5. known => ReadResult(Events[channel.pos])' = 0
    <3>1. ReadResult(ev)' = ReadResult(ev) BY <1>5, PlacesKept
    <3>2. Events'[channel'.pos] = ev BY <1>4, <1>10, <1>11
    <3> QED BY <1>5, <1>4, <1>10, <1>11, <2>3, <3>1, <3>2 DEF ReadResult, Seen, Matching, Called, SourceType
  <2>6. \A d \in out' : d.event = Events'[channel'.pos].id
    BY <1>4, <1>5, <1>10, <1>11 DEF Unpacked
  <2>7. /\ IsSeq(tree') /\ Len(tree') <= Len(Expected')
        /\ \A k \in DOMAIN tree' : /\ tree'[k].id = Expected'[k].id
                                   /\ \A d \in tree'[k].data : d.event = tree'[k].id
    BY <1>5, PlacesKept DEF FilledInv, FillInv
  <2>8. channel'.pos > 0 BY <1>9, <1>10
  <2>9. pc' = "event" => /\ channel'.pos > 0 /\ ReadResult(Events[channel.pos])' = 0
                         /\ Place' = Len(tree') + 1
                         /\ \A d \in out' : d.event = Events'[channel'.pos].id
    BY <1>5, <2>1, <2>4, <2>5, <2>6, <2>8
  <2>10. pc' \notin {"event", "fatal"} => Place' = Len(tree') BY <1>5, <2>2, <2>4
  <2> QED BY <2>7, <2>9, <2>10 DEF FillInv
<1>25. CountInv'
  <2>1. EvStart' = EvStart /\ EvEnd' = EvEnd BY <1>5, PlacesKept
  <2>2. i' = i /\ pc' \in {"read", "event"} BY <1>5
  <2>3. EvStart >= 0 => i < EvEnd
    <3>1. EvStart \in Int BY <1>6, FilesOK
    <3> QED BY <1>5, <3>1 DEF LoopOn
  <2> QED BY <1>5, <2>1, <2>2, <2>3 DEF FilledInv, CountInv, RunComplete
<1> QED BY <1>12, <1>24, <1>25 DEF FilledInv

LEMMA OpenNextFileFills == ASSUME FilledInv, OpenNextFile PROVE FilledInv'
<1>1. PICK f \in DOMAIN files : f = channel.file BY DEF FilledInv, ReadInv
<1>2. PICK g : g = f + 1 OBVIOUS
<1>3. PICK n : n = Len(files) OBVIOUS
<1>4. /\ UNCHANGED <<setup, tree, pc, i, nofRuns, finished, active, handler, gIsInterrupted>>
      /\ pc = "read" /\ channel.open /\ channel.pos = Len(Events) /\ f < n /\ files[g].opens
      /\ channel' = [open |-> TRUE, file |-> g, pos |-> 0]
  BY <1>1, <1>2, <1>3 DEF OpenNextFile, AtEnd, NextFile, tasks, loop, signal, output
<1>5. setup \in Setups /\ Readable(f) BY <1>1, <1>4 DEF FilledInv, ReadInv
<1>6. n \in Nat /\ DOMAIN files = 1 .. n BY <1>3, <1>5, FilesOK
<1>7. g \in DOMAIN files /\ g - 1 = f BY <1>2, <1>4, <1>6
<1>8. files' = files BY <1>4, PlacesKept
<1>9. Readable(g)
  <2>1. \A h \in 1 .. g : h \in 1 .. f \/ h = g BY <1>2, <1>6
  <2> QED BY <1>4, <1>5, <2>1 DEF Readable
<1>10. ReadInv'
  <2>1. Readable(channel.file)' BY <1>4, <1>8, <1>9 DEF Readable
  <2>2. Len(Events') \in Nat
    <3>1. Events' = EventsOf(g) BY <1>4, <1>8 DEF Events, EventsOf
    <3> QED BY <1>5, <1>7, <3>1, FilesOK
  <2> QED BY <1>4, <1>5, <1>7, <1>8, <2>1, <2>2 DEF FilledInv, ReadInv
<1>11. FillInv'
  <2>1. Place' = Place
    <3>1. FilePlaces' = FilePlaces /\ EventPlaces' = EventPlaces BY <1>4, PlacesKept
    <3>2. PICK to : to = FilePlaces[f] OBVIOUS
    <3>3. PICK from : from = FilePlaces[f - 1] OBVIOUS
    <3>4. PICK e : e = Len(Expected) OBVIOUS
    <3>5. to \in Nat BY <1>5, <3>2, <3>3, <3>4, FilePlacesAre
    <3>6. EventPlaces[g][0] = 0 BY <1>5, <1>7, EventPlacesAre
    <3>7. Place = to BY <1>1, <1>4, <3>2, PlaceAtEnd DEF FilledInv
    <3>8. Place' = to + 0 BY <1>4, <1>7, <3>1, <3>2, <3>6 DEF Place
    <3> QED BY <3>5, <3>7, <3>8
  <2> QED BY <1>4, <2>1, PlacesKept DEF FilledInv, FillInv
<1>12. CountInv' BY <1>4, CountKept DEF FilledInv
<1> QED BY <1>10, <1>11, <1>12 DEF FilledInv

LEMMA EndOfInputFills == ASSUME FilledInv, EndOfInput PROVE FilledInv'
<1>1. PICK f \in DOMAIN files : f = channel.file BY DEF FilledInv, ReadInv
<1>2. PICK n : n = Len(files) OBVIOUS
<1>3. /\ UNCHANGED <<setup, tree, i, nofRuns, finished, active, handler, gIsInterrupted>>
      /\ pc = "read" /\ pc' = "end" /\ LoopOn(i) /\ channel.open /\ channel.pos = Len(Events)
      /\ \/ ~IsLmd /\ channel' = channel
         \/ f = n /\ channel' = [channel EXCEPT !.open = TRUE]
         \/ f < n /\ ~files[f + 1].opens /\ channel' = [channel EXCEPT !.open = FALSE]
  BY <1>1, <1>2 DEF EndOfInput, AtEnd, OpenAtEnd, NextFile, tasks, loop, signal, output
<1>4. /\ setup \in Setups /\ Readable(f)
      /\ channel \in [open : BOOLEAN, file : DOMAIN files, pos : Nat]
  BY <1>1, <1>3 DEF FilledInv, ReadInv
<1>5. n \in Nat \ {0} /\ DOMAIN files = 1 .. n /\ (IsLmd \/ n = 1) BY <1>2, <1>4, FilesOK
<1>6. /\ channel' \in [open : BOOLEAN, file : DOMAIN files, pos : Nat]
      /\ channel'.file = channel.file /\ channel'.pos = channel.pos
  BY <1>3, <1>4
<1>7. files' = files /\ Events' = Events
  <2>1. files' = files BY <1>3, PlacesKept
  <2> QED BY <1>6, <2>1 DEF Events
<1>8. ReadInv'
  <2>1. Readable(channel.file)' BY <1>1, <1>4, <1>6, <1>7 DEF Readable
  <2> QED BY <1>3, <1>6, <1>7, <2>1 DEF FilledInv, ReadInv
<1>9. FillInv' BY <1>3, <1>6, FillKept DEF FilledInv
<1>10. f = n \/ ~files[f + 1].opens
  <2>1. n = 1 => f = n BY <1>5
  <2> QED BY <1>3, <1>5, <2>1
<1>11. FilePlaces[f] = Len(Expected) BY <1>2, <1>4, <1>10, NoneLeft
<1>12. PICK e : e = Len(Expected) OBVIOUS
<1>13. Len(tree) = e BY <1>1, <1>3, <1>11, <1>12, PlaceAtEnd DEF FilledInv, FillInv
<1>14. e \in Nat BY <1>4, <1>12, ExpectedLen
<1>15. EvStart \in Int /\ EvEnd \in Int BY <1>4, FilesOK
<1>16. EvStart >= 0 => i \in 0 .. EvEnd /\ i < EvEnd
  BY <1>3, <1>15 DEF FilledInv, CountInv, LoopOn
<1>17. nofRuns = 1 /\ EvStart >= 0 => e = i - EvStart BY <1>3, <1>13 DEF FilledInv, CountInv
<1>18. nofRuns = 1 => e = Wanted BY <1>12, <1>14, <1>15, <1>16, <1>17 DEF Wanted
<1>19. Wanted' = Wanted /\ EvStart' = EvStart /\ EvEnd' = EvEnd BY <1>3, PlacesKept
<1>20. RunComplete' BY <1>3, <1>13, <1>18, <1>19 DEF RunComplete
<1>21. CountInv' BY <1>3, <1>19, <1>20 DEF FilledInv, CountInv
<1> QED BY <1>8, <1>9, <1>21 DEF FilledInv

LEMMA ReinitFills == ASSUME FilledInv, NEW errors, Reinit(errors) PROVE FilledInv'
<1>1. /\ UNCHANGED <<setup, channel, out, tree, pc, i, nofRuns, finished, gIsInterrupted>>
      /\ handler' = TRUE /\ pc = "event"
      /\ active' = IF Static THEN active ELSE AfterInit(active, errors)
  BY DEF Reinit, source, loop, output
<1>2. active' \in [Task -> BOOLEAN] BY <1>1, InitVisits DEF FilledInv, ReadInv
<1>3. ReadInv' BY <1>1, <1>2, ReadKept DEF FilledInv, ReadInv
<1>4. FillInv' BY <1>1, FillKept DEF FilledInv
<1>5. CountInv' BY <1>1, CountKept DEF FilledInv
<1> QED BY <1>3, <1>4, <1>5 DEF FilledInv

LEMMA EventLoopFills == ASSUME FilledInv, EventLoop PROVE FilledInv'
<1>1. /\ UNCHANGED <<setup, channel, out, active, i, nofRuns, finished, gIsInterrupted>>
      /\ pc = "event" /\ pc' = "done" /\ handler' = TRUE /\ tree' = Append(tree, Entry)
  BY DEF EventLoop, source, tasks, loop
<1>2. PICK f \in DOMAIN files : f = channel.file BY DEF FilledInv, ReadInv
<1>3. PICK p \in Nat : p = channel.pos BY DEF FilledInv, ReadInv
<1>4. /\ setup \in Setups /\ p > 0 /\ p <= Len(EventsOf(f)) /\ Readable(f)
      /\ Events = EventsOf(f) /\ ReadResult(EventsOf(f)[p]) = 0
      /\ \A d \in out : d.event = EventsOf(f)[p].id
  BY <1>1, <1>2, <1>3 DEF FilledInv, ReadInv, FillInv, Events, EventsOf
<1>5. p \in DOMAIN EventsOf(f)
  <2>1. Len(EventsOf(f)) \in Nat /\ DOMAIN EventsOf(f) = 1 .. Len(EventsOf(f)) BY <1>4, FilesOK
  <2> QED BY <1>4, <2>1
<1>6. ReadInv' BY <1>1, ReadKept DEF FilledInv, ReadInv
<1>7. PICK n : n = Len(tree) OBVIOUS
<1>8. IsSeq(tree) /\ n \in Nat /\ DOMAIN tree = 1 .. n BY <1>7, IsSeqIs DEF FilledInv, FillInv
<1>9. Place = n + 1 BY <1>1, <1>7 DEF FilledInv, FillInv
<1>10. Expected[n + 1] = EventsOf(f)[p] /\ n + 1 <= Len(Expected)
  <2>1. PICK known \in BOOLEAN : known OBVIOUS
  <2>2. PICK from : from = EventPlaces[f][p - 1] OBVIOUS
  <2>3. PICK to : to = EventPlaces[f][p] OBVIOUS
  <2>4. PICK start : start = FilePlaces[f - 1] OBVIOUS
  <2>5. known <=> ReadResult(EventsOf(f)[p]) = 0 BY <1>4, <2>1
  <2>6. Expected[start + to] = EventsOf(f)[p] /\ start + to <= Len(Expected)
    BY <1>4, <1>5, <2>1, <2>2, <2>3, <2>4, <2>5, EventIs
  <2>7. start + to = n + 1 BY <1>2, <1>3, <1>9, <2>3, <2>4 DEF Place
  <2> QED BY <2>6, <2>7
<1>11. Entry.id = EventsOf(f)[p].id /\ Entry.data = out BY <1>2, <1>3, <1>4 DEF Entry
<1>12. /\ IsSeq(tree') /\ Len(tree') = n + 1 /\ DOMAIN tree' = 1 .. n + 1
       /\ tree'[n + 1] = Entry /\ \A k \in 1 .. n : tree'[k] = tree[k]
  BY <1>1, <1>7, <1>8, AppendIs
<1>13. FillInv'
  <2>1. Expected' = Expected BY <1>1, PlacesKept
  <2>2. Place' = Place BY <1>1, PlacesKept DEF Place
  <2>3. ASSUME NEW k \in DOMAIN tree'
        PROVE /\ tree'[k].id = Expected'[k].id
              /\ \A d \in tree'[k].data : d.event = tree'[k].id
    <3>1. k \in 1 .. n \/ k = n + 1 BY <1>8, <1>12
    <3>2. CASE k \in 1 .. n
      <4>1. tree'[k] = tree[k] /\ k \in DOMAIN tree BY <1>8, <1>12, <3>2
      <4> QED BY <2>1, <4>1 DEF FilledInv, FillInv
    <3>3. CASE k = n + 1
      <4>1. tree'[k].id = EventsOf(f)[p].id /\ tree'[k].data = out BY <1>11, <1>12, <3>3
      <4> QED BY <1>4, <1>10, <2>1, <3>3, <4>1
    <3> QED BY <3>1, <3>2, <3>3
  <2> QED BY <1>1, <1>9, <1>10, <1>12, <2>1, <2>2, <2>3 DEF FillInv
<1>14. CountInv'
  <2>1. EvStart' = EvStart /\ EvEnd' = EvEnd BY <1>1, PlacesKept
  <2>2. nofRuns = 1 /\ EvStart >= 0 => n = i - EvStart BY <1>1, <1>7 DEF FilledInv, CountInv
  <2>3. nofRuns = 1 /\ EvStart >= 0 => Len(tree') = i - EvStart + 1 BY <1>12, <2>2
  <2>4. nofRuns # 0 BY <1>1 DEF FilledInv, CountInv
  <2> QED BY <1>1, <2>1, <2>3, <2>4 DEF FilledInv, CountInv, RunComplete
<1> QED BY <1>6, <1>13, <1>14 DEF FilledInv

LEMMA EventDoneFills == ASSUME FilledInv, EventDone PROVE FilledInv'
<1>1. /\ UNCHANGED <<setup, channel, out, tree, active, nofRuns, finished, gIsInterrupted, handler>>
      /\ pc = "done"
      /\ \/ gIsInterrupted /\ pc' = "end" /\ i' = i
         \/ pc' = "read" /\ i' = i + 1
  BY DEF EventDone, Stops, source, tasks, signal, output
<1>2. ReadInv' BY <1>1, ReadKept DEF FilledInv, ReadInv
<1>3. FillInv' BY <1>1, FillKept DEF FilledInv
<1>4. EvStart' = EvStart /\ EvEnd' = EvEnd BY <1>1, PlacesKept
<1>5. EvStart \in Int /\ EvEnd \in Int BY FilesOK DEF FilledInv, ReadInv
<1>6. /\ IF EvStart < 0 THEN i \in Int ELSE i \in 0 .. EvEnd
      /\ EvStart >= 0 => i < EvEnd
      /\ nofRuns \in Nat /\ nofRuns # 0
      /\ nofRuns = 1 /\ EvStart >= 0 => Len(tree) = i - EvStart + 1
  BY <1>1 DEF FilledInv, CountInv
<1>7. IF EvStart < 0 THEN i' \in Int ELSE i' \in 0 .. EvEnd BY <1>1, <1>5, <1>6
<1>8. pc' = "read" /\ nofRuns = 1 /\ EvStart >= 0 => Len(tree) = i' - EvStart
  BY <1>1, <1>5, <1>6
<1>9. CountInv' BY <1>1, <1>4, <1>6, <1>7, <1>8 DEF CountInv, RunComplete
<1> QED BY <1>2, <1>3, <1>9 DEF FilledInv

LEMMA FinishFills == ASSUME FilledInv, Finish PROVE FilledInv'
<1>1. /\ UNCHANGED <<setup, out, tree, active, i, nofRuns, gIsInterrupted, handler>>
      /\ pc = "finish" /\ pc' = "finished" /\ finished' = Visited(active)
      /\ channel' = [channel EXCEPT !.open = FALSE]
  BY DEF Finish, tasks, loop, signal
<1>2. channel \in [open : BOOLEAN, file : DOMAIN files, pos : Nat] BY DEF FilledInv, ReadInv
<1>3. /\ channel' \in [open : BOOLEAN, file : DOMAIN files, pos : Nat]
      /\ ~channel'.open /\ channel'.file = channel.file /\ channel'.pos = channel.pos
  BY <1>1, <1>2
<1>4. files' = files /\ Events' = Events
  <2>1. files' = files BY <1>1, PlacesKept
  <2> QED BY <1>3, <2>1 DEF Events
<1>5. ReadInv'
  <2>1. Readable(channel.file)' <=> Readable(channel.file) BY <1>3, <1>4 DEF Readable
  <2>2. finished' \subseteq Task BY <1>1 DEF Visited
  <2> QED BY <1>1, <1>3, <1>4, <2>1, <2>2 DEF FilledInv, ReadInv
<1>6. FillInv' BY <1>1, <1>3, FillKept DEF FilledInv
<1>7. CountInv' BY <1>1, CountKept DEF FilledInv
<1> QED BY <1>5, <1>6, <1>7 DEF FilledInv

\* The other steps neither read nor fill nor count.
LEMMA OtherFills ==
    ASSUME FilledInv, UNCHANGED <<setup, channel, out, tree, active, i, nofRuns, finished, handler>>,
           gIsInterrupted' => handler, gIsInterrupted => gIsInterrupted',
           \/ pc' = pc
           \/ pc \in {"init", "event"} /\ pc' = "fatal"
           \/ pc = "read" /\ pc' = "crashed"
           \/ pc = "end" /\ pc' \in {"finish", "ready"}
           \/ pc = "ready" /\ nofRuns > 0 /\ pc' = "finish"
    PROVE FilledInv'
<1>1. pc \in {"init", "ready", "read", "event", "done", "end", "finish", "finished", "crashed", "fatal"}
  BY DEF FilledInv, ReadInv
<1>2. ReadInv' BY <1>1, ReadKept DEF FilledInv, ReadInv
<1>3. FillInv' BY <1>1, FillKept DEF FilledInv
<1>4. CountInv' BY <1>1, CountKept DEF FilledInv
<1> QED BY <1>2, <1>3, <1>4 DEF FilledInv

LEMMA StepFills == ASSUME FilledInv, [Next]_vars PROVE FilledInv'
<1>1. CASE \E errors \in SUBSET Task : RunInit(errors) \/ Reinit(errors)
  BY <1>1, RunInitFills, ReinitFills
<1>2. CASE Run BY <1>2, RunFills
<1>3. CASE LoopEnds BY <1>3, LoopEndsFills
<1>4. CASE ReadNext BY <1>4, ReadNextFills
<1>5. CASE OpenNextFile BY <1>5, OpenNextFileFills
<1>6. CASE EndOfInput BY <1>6, EndOfInputFills
<1>7. CASE ReadWithoutChannel
  BY <1>7, OtherFills DEF ReadWithoutChannel, source, tasks, loop, signal, output, FilledInv, ReadInv
<1>8. CASE Fatal
  BY <1>8, OtherFills DEF Fatal, source, tasks, loop, signal, output, FilledInv, ReadInv
<1>9. CASE EventLoop BY <1>9, EventLoopFills
<1>10. CASE EventDone BY <1>10, EventDoneFills
<1>11. CASE RunEnds
  BY <1>11, OtherFills DEF RunEnds, source, tasks, loop, signal, output, FilledInv, ReadInv
<1>12. CASE Finish BY <1>12, FinishFills
<1>13. CASE MacroFinishes
  BY <1>13, OtherFills DEF MacroFinishes, source, tasks, loop, signal, output, FilledInv, ReadInv
<1>14. CASE Interrupt
  BY <1>14, OtherFills DEF Interrupt, source, tasks, loop, output, FilledInv, ReadInv
<1>15. CASE UNCHANGED vars
  BY <1>15, OtherFills DEF vars, source, tasks, loop, signal, output, FilledInv, ReadInv
<1> QED BY <1>1, <1>2, <1>3, <1>4, <1>5, <1>6, <1>7, <1>8, <1>9, <1>10, <1>11, <1>12,
           <1>13, <1>14, <1>15 DEF Next, Step

LEMMA FilledSo == ASSUME FilledInv PROVE FilledRight
<1>1. PICK e : e = Len(Expected) OBVIOUS
<1>2. PICK n : n = Len(tree) OBVIOUS
<1>3. setup \in Setups BY DEF FilledInv, ReadInv
<1>4. e \in Nat BY <1>1, <1>3, ExpectedLen
<1>5. n \in Nat /\ DOMAIN tree = 1 .. n /\ n <= e BY <1>1, <1>2, IsSeqIs DEF FilledInv, FillInv
<1>6. TypeOK
  <2>1. channel.file \in 1 .. Len(files) BY <1>3, FilesOK DEF FilledInv, ReadInv
  <2>2. channel.pos \in 0 .. Len(Events)
    <3>1. PICK f \in DOMAIN files : f = channel.file BY DEF FilledInv, ReadInv
    <3>2. Events = EventsOf(f) BY <3>1 DEF Events, EventsOf
    <3>3. Len(Events) \in Nat BY <1>3, <3>2, FilesOK
    <3> QED BY <3>3 DEF FilledInv, ReadInv
  <2> QED BY <2>1, <2>2 DEF FilledInv, ReadInv, CountInv, TypeOK
<1>7. FilledInOrder
  <2>1. Ids(tree) = [k \in 1 .. n |-> tree[k].id] BY <1>5 DEF Ids
  <2>2. DOMAIN Expected = 1 .. e
    <3>1. IsSeq(Expected) BY <1>3, FilesLie DEF LiesAt
    <3> QED BY <1>1, <3>1, IsSeqIs
  <2>3. Ids(Expected) = [k \in 1 .. e |-> Expected[k].id] BY <2>2 DEF Ids
  <2>4. Len(Ids(tree)) = n BY <1>5, <2>1
  <2>5. Len(Ids(Expected)) = e BY <1>4, <2>3
  <2>6. \A k \in 1 .. n : Ids(tree)[k] = Ids(Expected)[k]
    <3> TAKE k \in 1 .. n
    <3>1. k \in 1 .. e BY <1>4, <1>5
    <3>2. tree[k].id = Expected[k].id BY <1>5 DEF FilledInv, FillInv
    <3> QED BY <2>1, <2>3, <3>1, <3>2
  <2>7. SubSeq(Ids(tree), 1, n) = [k \in 1 .. n |-> Ids(tree)[k]] BY <1>5 DEF SubSeq
  <2>8. SubSeq(Ids(Expected), 1, n) = [k \in 1 .. n |-> Ids(Expected)[k]] BY <1>5 DEF SubSeq
  <2> QED BY <1>5, <2>4, <2>5, <2>6, <2>7, <2>8 DEF FilledInOrder, IsPrefix
<1>8. FilledFromOneEvent BY DEF FilledInv, FillInv, FilledFromOneEvent
<1>9. RunComplete BY DEF FilledInv, CountInv
<1> QED BY <1>6, <1>7, <1>8, <1>9 DEF FilledRight

(***************************************************************************)
(* Run, ReadEvent of FairLmdSource and FairMbsStreamSource, EventLoop and  *)
(* Fill: the events that are filled are those of the input that an         *)
(* unpacker knows, in order, each once and none left out, each with its    *)
(* own data alone, and a run that is not interrupted fills all it was told *)
(* to, for all inputs, limits and unpackers.                               *)
(***************************************************************************)
THEOREM OnlineFilledRight == Spec => []FilledRight
<1>1. Init => FilledInv BY FilledInit
<1>2. FilledInv /\ [Next]_vars => FilledInv' BY StepFills
<1>3. FilledInv => FilledRight BY FilledSo
<1> QED BY <1>1, <1>2, <1>3, PTL DEF Spec
=============================================================================
