------------------------------ MODULE RunOnline ------------------------------
(***************************************************************************)
(* FairRunOnline with a source of MBS data: FairLmdSource, which reads one *)
(* file after another, or FairMbsStreamSource, which reads from a server.  *)
(* An event is a sequence of subevents; FairMbsSource gives each to the    *)
(* unpackers that match it, which put data in the output branches, and the *)
(* tasks of the run then work on them.                                     *)
(*                                                                         *)
(* No task vetoes an event (MarkFill).  External: the run of an event      *)
(* comes from an unpacker of the experiment, which calls SetRunId of the   *)
(* source.                                                                 *)
(***************************************************************************)
EXTENDS Integers, Sequences, FiniteSets, SequencesExt, TaskTree

CONSTANTS Setups,     \* the inputs, sources and options considered
          Unpackers,  \* the unpackers, in the order they were added: [name, kinds]
          RunId       \* the run id that was set or generated before the first event

\* The files of a setup are a sequence, which is not empty, for a server of one element;
\* a limit of Run is not below its start.
ASSUME FilesAssumption ==
    \A s \in Setups :
        /\ Len(s.files) \in Nat \ {0} /\ DOMAIN s.files = 1..Len(s.files)
        /\ s.sourceType \in {"FairLmdSource", "FairMbsStreamSource"}
        /\ s.sourceType = "FairMbsStreamSource" => Len(s.files) = 1
        /\ \A f \in DOMAIN s.files :
              /\ s.files[f].opens \in BOOLEAN
              /\ s.files[f].events \in Seq({s.files[f].events[e] : e \in DOMAIN s.files[f].events})
        /\ s.evStart \in Int /\ s.evEnd \in Int /\ (s.evStart >= 0 => s.evStart <= s.evEnd)

\* An input is a sequence of files [opens, events], each of which ends or gives
\* an error after its events; for a server it has one element.  An event has an
\* id, its run and subevents [kind, bad], bad the unpackers whose DoUnpack fails.
VARIABLES setup,       \* the input, the source and the options of this run
          pc,
          channel,     \* fxInputChannel and fCurrentFile: [open, file, pos]
          out,         \* the output of the unpackers
          header,      \* run in the header of the event that was read
          fRunId,
          unpackedRun, \* run the unpackers have the parameters of
          active, taskRun, \* fActive of the tasks, run of their last (Re)Init
          i, nofRuns,  \* the loop variable of Run, calls of Run
          handler, gIsInterrupted, \* the handler of SIGINT is installed, and ran
          tree, finished, \* what was filled, tasks whose Finish was called
          late         \* events executed since the interrupt

source == <<setup, channel, out, header>>
tasks == <<fRunId, unpackedRun, active, taskRun>>
loop == <<i, nofRuns>>
signal == <<handler, gIsInterrupted, late>>
output == <<tree, finished>>
vars == <<pc, source, tasks, loop, signal, output>>

files == setup.files
SourceType == setup.sourceType \* "FairLmdSource" or "FairMbsStreamSource"
EvStart == setup.evStart       \* arguments of Run; EvStart < 0: no limit
EvEnd == setup.evEnd
Static == setup.static         \* SetContainerStatic
AutoFinish == setup.autoFinish \* SetAutoFinish
MaxRuns == setup.maxRuns       \* bound: calls of Run

IsLmd == SourceType = "FairLmdSource"
Events == files[channel.file].events

-----------------------------------------------------------------------------
(* The unpackers. *)

Matching(sub) == {u \in DOMAIN Unpackers : sub.kind \in Unpackers[u].kinds}

\* FairMbsSource::Unpack calls the matching unpackers in order, up to the first that fails.
Called(sub) == {u \in Matching(sub) : \A v \in Matching(sub) : v < u => v \notin sub.bad}
Seen(sub) == Matching(sub) # {} /\ Called(sub) \cap sub.bad = {}

\* FairMbsStreamSource gives up at the first subevent that is not unpacked.
Reached(ev) ==
    IF SourceType = "FairMbsStreamSource"
    THEN {s \in DOMAIN ev.subs : \A r \in 1..(s - 1) : Seen(ev.subs[r])}
    ELSE DOMAIN ev.subs

Unpacked(ev) ==
    UNION {{[event |-> ev.id, sub |-> s, unpacker |-> u, run |-> unpackedRun]
              : u \in Called(ev.subs[s]) \ ev.subs[s].bad} : s \in Reached(ev)}

\* The result of ReadEvent: 2 if the run has nothing to do with the event.
ReadResult(ev) ==
    IF SourceType = "FairMbsStreamSource"
    THEN IF \A s \in DOMAIN ev.subs : Seen(ev.subs[s]) THEN 0 ELSE 2
    ELSE IF \E s \in DOMAIN ev.subs : Seen(ev.subs[s]) THEN 0 ELSE 2

\* Mutant: the outputs are not cleared.
ResetNot == out

\* FairOnlineSource::Reset, which FairRootManager::ReadEvent calls first.
Reset == {}

-----------------------------------------------------------------------------
Init ==
    /\ pc = "init"
    /\ setup \in Setups
    /\ channel = [open |-> FALSE, file |-> 1, pos |-> 0]
    /\ out = {} /\ header = 0
    /\ fRunId = 0 /\ unpackedRun = 0
    /\ active = [t \in Task |-> TRUE] /\ taskRun = [t \in Task |-> 0]
    /\ i = 0 /\ nofRuns = 0
    /\ handler = FALSE /\ gIsInterrupted = FALSE /\ late = 0
    /\ tree = <<>> /\ finished = {}

\* FairRunOnline::Init.  It does not look at what Init of the source returned.
RunInit(errors) ==
    /\ pc = "init" /\ pc' = "ready"
    /\ channel' = [channel EXCEPT !.open = files[1].opens]
    /\ fRunId' = RunId /\ header' = RunId /\ unpackedRun' = RunId
    /\ active' = AfterInit(active, errors)
    /\ taskRun' = [t \in Task |-> IF t \in Visited(active) THEN RunId ELSE taskRun[t]]
    /\ UNCHANGED <<setup, out, loop, signal, output>>

\* FairRunOnline::Run, up to the loop.  The handler of SIGINT stays installed.
Run ==
    /\ pc = "ready" /\ nofRuns < MaxRuns
    /\ pc' = "read" /\ nofRuns' = nofRuns + 1 /\ i' = EvStart
    /\ gIsInterrupted' = FALSE /\ late' = 0
    /\ UNCHANGED <<source, tasks, handler, output>>

\* The condition of the loop, which has none if EvStart is negative.
LoopOn(n) == EvStart < 0 \/ n < EvEnd

\* The loop has come to its end.
LoopEnds ==
    /\ pc = "read" /\ ~LoopOn(i) /\ pc' = "end"
    /\ UNCHANGED <<source, tasks, loop, signal, output>>

\* i -= 1; continue: the event does not count, and nobody looks for an interrupt.
NotCounted == i

\* ReadEvent returns an event.
ReadNext ==
    /\ pc = "read" /\ LoopOn(i) /\ channel.open /\ channel.pos < Len(Events)
    /\ LET ev == Events[channel.pos + 1]
       IN  /\ channel' = [channel EXCEPT !.pos = @ + 1]
           /\ out' = Reset \cup Unpacked(ev)
           /\ header' = ev.run
           /\ IF ReadResult(ev) = 0 THEN pc' = "event" /\ UNCHANGED i
                                    ELSE pc' = "read" /\ i' = NotCounted
    /\ UNCHANGED <<setup, tasks, nofRuns, signal, output>>

AtEnd == channel.open /\ channel.pos = Len(Events)

\* Mutant: the file that ended is opened again.
NextFileSame == channel.file

\* fCurrentFile counts the files opened: it is the next file's place in the list.
NextFile == channel.file + 1

\* FairLmdSource::ReadEvent at the end of a file, or at an error in it, goes
\* on with the next one.
OpenNextFile ==
    /\ pc = "read" /\ LoopOn(i) /\ AtEnd /\ IsLmd
    /\ channel.file < Len(files) /\ files[NextFile].opens
    /\ channel' = [open |-> TRUE, file |-> NextFile, pos |-> 0]
    /\ out' = Reset
    /\ UNCHANGED <<pc, setup, header, tasks, loop, signal, output>>

\* After the last file the channel stays as it is until Finish.
OpenAtEnd == TRUE

\* ReadEvent returns 1.  If the next file cannot be opened there is no channel any more.
EndOfInput ==
    /\ pc = "read" /\ LoopOn(i) /\ AtEnd /\ pc' = "end"
    /\ \/ ~IsLmd /\ UNCHANGED channel
       \/ IsLmd /\ channel.file = Len(files) /\ channel' = [channel EXCEPT !.open = OpenAtEnd]
       \/ /\ IsLmd /\ channel.file < Len(files) /\ ~files[NextFile].opens
          /\ channel' = [channel EXCEPT !.open = FALSE]
    /\ out' = Reset
    /\ UNCHANGED <<setup, header, tasks, loop, signal, output>>

\* f_evt_get_event of no channel.
ReadWithoutChannel ==
    /\ pc = "read" /\ LoopOn(i) /\ ~channel.open /\ pc' = "crashed"
    /\ UNCHANGED <<source, tasks, loop, signal, output>>

-----------------------------------------------------------------------------
(* EventLoop. *)

\* Mutant: only the first run of the source is taken.
RunChangedNot == FALSE

\* CheckRunIdChanged.
RunChanged == header # fRunId

\* The parameters a task or an unpacker has after ReInit.
NewRun(old) == IF Static THEN old ELSE header

\* CheckRunIdChanged: new parameters, then the unpackers, then the tasks.
Reinit(errors) ==
    /\ pc = "event" /\ RunChanged
    /\ fRunId' = header
    /\ unpackedRun' = NewRun(unpackedRun)
    /\ active' = IF Static THEN active ELSE AfterInit(active, errors)
    /\ taskRun' = [t \in Task |-> IF t \in Visited(active) THEN NewRun(taskRun[t]) ELSE taskRun[t]]
    /\ handler' = TRUE
    /\ UNCHANGED <<pc, source, loop, gIsInterrupted, late, output>>

\* (Re)Init of the unpackers, or of a task with kFATAL, ends the program.
Fatal ==
    /\ pc = "init" \/ (pc = "event" /\ RunChanged /\ ~Static)
    /\ pc' = "fatal"
    /\ UNCHANGED <<source, tasks, loop, signal, output>>

\* What Fill writes: the outputs of the unpackers and the work of the tasks.
Entry == [id |-> Events[channel.pos].id, run |-> header, data |-> out,
          tasks |-> {[task |-> t, run |-> taskRun[t]] : t \in Visited(active)}]

\* ExecuteTask, Fill and FinishEvent.
EventLoop ==
    /\ pc = "event" /\ ~RunChanged
    /\ tree' = Append(tree, Entry)
    /\ late' = IF gIsInterrupted THEN late + 1 ELSE 0
    /\ handler' = TRUE /\ pc' = "done"
    /\ UNCHANGED <<source, tasks, loop, gIsInterrupted, finished>>

\* Mutant: the interrupt is not looked at.
StopsNever == FALSE

\* The end of EventLoop and of the body of the loop in Run.
Stops == gIsInterrupted

EventDone ==
    /\ pc = "done"
    /\ IF Stops THEN pc' = "end" /\ UNCHANGED i ELSE pc' = "read" /\ i' = i + 1
    /\ UNCHANGED <<source, tasks, nofRuns, signal, output>>

\* After the loop; Finish is called by Run or by the macro.
RunEnds ==
    /\ pc = "end" /\ pc' = IF AutoFinish THEN "finish" ELSE "ready"
    /\ UNCHANGED <<source, tasks, loop, signal, output>>

MacroFinishes ==
    /\ pc = "ready" /\ nofRuns > 0 /\ ~AutoFinish /\ pc' = "finish"
    /\ UNCHANGED <<source, tasks, loop, signal, output>>

\* FinishTask of the tasks, and the source is closed.
Finish ==
    /\ pc = "finish" /\ pc' = "finished"
    /\ finished' = Visited(active)
    /\ channel' = [channel EXCEPT !.open = FALSE]
    /\ UNCHANGED <<setup, out, header, tasks, loop, signal, tree>>

\* handler_ctrlc
Interrupt ==
    /\ handler /\ ~gIsInterrupted /\ pc \in {"read", "event", "done"}
    /\ gIsInterrupted' = TRUE
    /\ UNCHANGED <<pc, source, tasks, loop, handler, late, output>>

Step == \/ \E errors \in SUBSET Task : RunInit(errors) \/ Reinit(errors)
        \/ Run \/ LoopEnds \/ ReadNext \/ OpenNextFile \/ EndOfInput \/ ReadWithoutChannel
        \/ Fatal \/ EventLoop \/ EventDone \/ RunEnds \/ Finish

Next == Step \/ MacroFinishes \/ Interrupt

\* Fairness: the run is one thread; the user need not send an interrupt nor end the macro.
Spec == Init /\ [][Next]_vars /\ WF_vars(Step)

-----------------------------------------------------------------------------
\* Every variable has its type.
TypeOK ==
    /\ pc \in {"init", "ready", "read", "event", "done", "end", "finish", "finished", "crashed", "fatal"}
    /\ channel.file \in 1..Len(files) /\ channel.pos \in 0..Len(Events)
    /\ active \in [Task -> BOOLEAN] /\ finished \subseteq Task
    /\ IF EvStart < 0 THEN i \in Int ELSE i \in 0..EvEnd
    /\ gIsInterrupted => handler

\* The events the run should fill: those a ReadEvent returns with 0, in the
\* files before the first that cannot be opened.
Readable(f) == \A g \in 1..f : files[g].opens
KnownEvents(f) ==
    LET events == files[f].events
    IN  FlattenSeq([e \in DOMAIN events |->
                       IF ReadResult(events[e]) = 0 THEN <<events[e]>> ELSE <<>>])
Expected == FlattenSeq([f \in DOMAIN files |-> IF Readable(f) THEN KnownEvents(f) ELSE <<>>])

Ids(events) == [k \in DOMAIN events |-> events[k].id]

\* Whatever happens, events are filled in the order of the input, each once
\* and none left out (OpenNextFile and ReadEvent of FairLmdSource).
FilledInOrder == IsPrefix(Ids(tree), Ids(Expected))

\* A run that was not interrupted filled as many events as it was told to, or
\* all there are: an event that no unpacker knows does not count.
Wanted == IF EvStart >= 0 /\ EvEnd - EvStart < Len(Expected) THEN EvEnd - EvStart ELSE Len(Expected)
RunComplete == pc = "end" /\ nofRuns = 1 /\ ~gIsInterrupted => Len(tree) = Wanted

\* What is filled with an event was unpacked from it and from no other.
FilledFromOneEvent == \A k \in DOMAIN tree : \A d \in tree[k].data : d.event = tree[k].id

\* A task that works on an event has got the parameters of the event's run,
\* unless they were said to be static.
TasksHaveRun == \A k \in DOMAIN tree : \A t \in tree[k].tasks : Static \/ t.run = tree[k].run

\* The unpackers work on an event before the change of the run is seen, so
\* those of the first event of a run have old parameters; but only of the first.
OldParametersOnlyAtFirst ==
    \A k \in 2..Len(tree) : tree[k].run = tree[k - 1].run =>
        Static \/ \A d \in tree[k].data : d.run = tree[k].run

\* After an interrupt at most one more event is filled.
InterruptedSoon == late <= 1

\* The source is read without a channel only if the first file could not be
\* opened, or when Run is called once more after a file could not be.
CrashOnlyWithoutFile ==
    pc = "crashed" => ~files[1].opens \/ (nofRuns > 1 /\ \E f \in DOMAIN files : ~files[f].opens)

\* A run of a finite input comes to its end.
RunStops == pc = "read" ~> pc \in {"end", "fatal", "crashed"}

\* The output has the events of the input, in order, each with its own data and none
\* missing.
FilledRight == TypeOK /\ FilledInOrder /\ RunComplete /\ FilledFromOneEvent

\* Tasks and unpackers work with the parameters of the event's run, the unpackers but
\* for the first event of a run.
ParametersOfRun == TasksHaveRun /\ OldParametersOnlyAtFirst

\* An interrupt and a file that cannot be opened do no more than they must.
StopsOrderly == InterruptedSoon /\ CrashOnlyWithoutFile
=============================================================================
