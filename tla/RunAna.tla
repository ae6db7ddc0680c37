------------------------------- MODULE RunAna -------------------------------
(***************************************************************************)
(* FairRunAna with a source of files: FairFileSource, a chain of files and *)
(* the chains of friends next to it, or FairMixedSource, which mixes the   *)
(* events of signal chains into those of a background chain.  The tasks of *)
(* the run work on each event that was read.                               *)
(*                                                                         *)
(* The files hold simulated events, which have a FairMCEventHeader and no  *)
(* FairEventHeader.  No task vetoes an event (TimeBasedRun has that), and  *)
(* the friends have the layout of no other chain of the input.             *)
(***************************************************************************)
EXTENDS Integers, Sequences, FiniteSets, SequencesExt

CONSTANTS Setups,   \* the inputs and the calls considered
          Draws     \* bound: Uniform(0, 1) gives u / Draws, u in 1..Draws

\* An event has an id, the run and the time t its header names.  The times of
\* the setup's deltas make a time instead, if there are any.
VARIABLES setup,
          pc,
          data,        \* what the last GetEntry left in the branches: [main, friends]
          outHeader,   \* fOutHeader of the mixed source
          fCurrentEntry, \* next entry of the background (0) and of each signal
          fEventTime, fCurrentEntryNo, fTimeforEntryNo,
          fEvtHeader,  \* the header of the run
          fCurrentTime,
          fRunId, taskRun, \* run of the last Reinit of the parameters and the tasks
          i, range,    \* the loop variable, its bounds [from, to, endless]
          gFRAIsInterrupted,
          seen, tree   \* what the tasks worked on, what was filled

times == <<fEventTime, fCurrentEntryNo, fTimeforEntryNo>>
source == <<data, outHeader, fCurrentEntry, times>>
header == <<fEvtHeader, fCurrentTime>>
parameters == <<fRunId, taskRun>>
output == <<seen, tree>>
vars == <<setup, pc, source, header, parameters, i, range, gFRAIsInterrupted, output>>

IsMixed == setup.source = "FairMixedSource"
Method == setup.method \* "Run", "RunEventReco", "RunSingleEntry" or "RunMQ"

-----------------------------------------------------------------------------
(* The chains. *)

\* fInChain, or fBackgroundChain: the first file and those added to it, in order.
Chain == FlattenSeq(setup.files)

\* There is an event, and a mixed run is told to take its run from a chain that has one.
ASSUME SetupsAssumption ==
    \A s \in Setups :
        LET chain == FlattenSeq(s.files)
            naming == IF s.runFrom = 0 THEN chain ELSE s.signals[s.runFrom].events
        IN  /\ Len(chain) \in Nat \ {0}
            /\ s.method \in {"Run", "RunEventReco", "RunSingleEntry", "RunMQ"}
            /\ s.start \in Nat /\ s.entries \in Seq(Nat)
            /\ Len(s.friends) \in Nat /\ DOMAIN s.friends = 1..Len(s.friends)
            /\ \A n \in 1..Len(s.friends) : s.friends[n].events \in Seq(Int)
            /\ s.source = "FairMixedSource" => Len(naming) \in Nat \ {0}

\* The rate of a signal is set, and is not 0.
ASSUME SignalsAssumption ==
    \A s \in Setups :
        /\ Len(s.signals) \in Nat /\ DOMAIN s.signals = 1..Len(s.signals)
        /\ \A n \in 1..Len(s.signals) : /\ s.signals[n].background \in Nat \ {0}
                                        /\ Len(s.signals[n].events) \in Nat
        /\ s.byTime => s.meanTime \in Nat \ {0}

\* A file that was added as a friend more than once counts once.
EachOnce(files) ==
    LET list[n \in 0..Len(files)] ==
          IF n = 0 THEN <<>>
          ELSE IF Contains(list[n - 1], files[n]) THEN list[n - 1]
          ELSE Append(list[n - 1], files[n])
    IN  list[Len(files)]

FriendFiles == EachOnce(setup.friends)

\* Mutant: every friend file makes a chain of its own.
AddFriendFileAlone(levels, file) ==
    Append(levels, [layout |-> file.layout, events |-> file.events])

\* The loop over fInputLevel does not stop at the level that has the file's layout,
\* so that the file goes to the chain of the last level.
AddFriendFile(levels, file) ==
    IF \E l \in DOMAIN levels : levels[l].layout = file.layout
    THEN [levels EXCEPT ![Len(levels)].events = @ \o file.events]
    ELSE Append(levels, [layout |-> file.layout, events |-> file.events])

\* fFriendTypeList.
ChainsOf(files) ==
    LET chains[n \in 0..Len(files)] ==
          IF n = 0 THEN <<>> ELSE AddFriendFile(chains[n - 1], files[n])
    IN  chains[Len(files)]

FriendChains == ChainsOf(FriendFiles)

\* TChain::GetEntry: past the end of a chain its branches keep what they had.
Entry(e, old) ==
    IF e < Len(Chain)
    THEN [main |-> Chain[e + 1],
          friends |-> [l \in DOMAIN FriendChains |->
                         LET events == FriendChains[l].events
                         IN  IF e < Len(events) THEN events[e + 1] ELSE old.friends[l]]]
    ELSE old

Signal == DOMAIN setup.signals

\* Entry e of the background (c = 0) or of a signal.
MixedEntry(c, e, old) ==
    LET events == IF c = 0 THEN Chain ELSE setup.signals[c].events
    IN  IF e < Len(events) THEN [main |-> events[e + 1], friends |-> <<>>] ELSE old

\* fSignalBGN: BGWindowWidthNo, or BGWindowWidthTime with the mean time of the events.
Ratio(s) == IF setup.byTime THEN [num |-> setup.meanTime, den |-> setup.signals[s].background]
                            ELSE [num |-> 1, den |-> setup.signals[s].background + 1]

\* The signal whose ratio is the first not below the number drawn, or the background.
Chosen(u) ==
    LET hits == {s \in Signal : u * Ratio(s).den <= Draws * Ratio(s).num}
    IN  IF hits = {} THEN 0 ELSE CHOOSE s \in hits : \A r \in hits : s <= r

\* CheckMaxEventNo.  A signal that is too rich for the background allows more events
\* than the background has.
SignalMax(s) ==
    LET r == Ratio(s)
        max == (Len(setup.signals[s].events) * r.den) \div r.num
    IN  IF max > Len(Chain) THEN Len(Chain) + (Len(Chain) * r.num) \div r.den ELSE max

Lowest(end, limits) ==
    LET max[n \in 0..Len(limits)] ==
          IF n = 0 THEN end
          ELSE IF max[n - 1] = 0 \/ max[n - 1] > limits[n] THEN limits[n] ELSE max[n - 1]
    IN  max[Len(limits)]

CheckMaxEventNo(end) ==
    IF IsMixed THEN Lowest(end, [s \in Signal |-> SignalMax(s)])
    ELSE IF end # 0 THEN end ELSE Len(Chain)

-----------------------------------------------------------------------------
(* The times. *)

\* What is drawn is positive: exponential, or uniform and 0 with probability 0.
ASSUME TimesAssumption ==
    \A s \in Setups : s.deltas \subseteq Nat \ {0} /\ s.gap \in Nat

Sampled == setup.deltas # {}
HasBeam == setup.beam >= 0
InGap(t) == HasBeam /\ t % (setup.beam + setup.gap) > setup.beam

\* Mutant: a time in the gap is not drawn again.
SetEventTimeAnyhow(t) == {t + d : d \in setup.deltas}

\* SetEventTime: the times it can give after t.  It draws again while the beam is off,
\* and comes out of the gap after at most gap + 1 draws.
SetEventTime(t) ==
    LET reach[n \in 0..(setup.gap + 1)] ==
          IF n = 0 THEN {t + d : d \in setup.deltas}
          ELSE {u + d : u \in {v \in reach[n - 1] : InGap(v)}, d \in setup.deltas}
    IN  {u \in UNION {reach[n] : n \in 0..(setup.gap + 1)} : ~InGap(u)}

\* GetEventTime of the file source for entry e: it draws once for an entry.
FileTimes(e) == IF fTimeforEntryNo = e THEN {fEventTime} ELSE SetEventTime(fEventTime)

\* ReadEvent of the mixed source draws first and sets the entry number after it, so
\* that GetEventTime draws once more.
MixedTimes(e) ==
    IF fCurrentEntryNo = e THEN SetEventTime(fEventTime)
    ELSE UNION {SetEventTime(t) : t \in SetEventTime(fEventTime)}

-----------------------------------------------------------------------------
Header(run, entry, file, time) == [run |-> run, entry |-> entry, file |-> file, time |-> time]

\* FillEventHeader of the source, for the data and the time it has.
FileHeader(d, t) == Header(d.main.run, d.main.id, 0, t)
EmptyHeader == Header(0, 0, 0, 0)

Init ==
    /\ pc = "init" /\ setup \in Setups
    /\ data = [main |-> [id |-> 0, run |-> 0, t |-> 0],
               friends |-> [l \in DOMAIN FriendChains |-> 0]]
    /\ outHeader = EmptyHeader
    /\ fCurrentEntry = [c \in 0..Len(setup.signals) |-> 0]
    /\ fEventTime = 0 /\ fCurrentEntryNo = 0
    /\ fTimeforEntryNo = IF IsMixed THEN 0 ELSE -1
    /\ fEvtHeader = EmptyHeader /\ fCurrentTime = 0
    /\ fRunId = 0 /\ taskRun = 0
    /\ i = 0 /\ range = [from |-> 0, to |-> 0, endless |-> FALSE]
    /\ gFRAIsInterrupted = FALSE
    /\ seen = <<>> /\ tree = <<>>

\* FairRunAna::Init: SpecifyRunId reads the first entry of the chain that names the run.
RunInit ==
    /\ pc = "init" /\ pc' = "ready"
    /\ IF IsMixed
       THEN /\ data' = MixedEntry(setup.runFrom, 0, data)
            /\ outHeader' = [outHeader EXCEPT !.run = data'.main.run]
            /\ fEvtHeader' = outHeader'
            /\ UNCHANGED times
       ELSE /\ data' = Entry(0, data)
            /\ UNCHANGED <<outHeader, fCurrentEntryNo>>
            /\ IF Sampled THEN fEventTime' \in FileTimes(0) /\ fTimeforEntryNo' = 0
                          ELSE fEventTime' = data'.main.t /\ UNCHANGED fTimeforEntryNo
            /\ fEvtHeader' = FileHeader(data', fEventTime')
    /\ fRunId' = fEvtHeader'.run /\ taskRun' = fEvtHeader'.run
    /\ UNCHANGED <<setup, fCurrentEntry, fCurrentTime, i, range, gFRAIsInterrupted, output>>

-----------------------------------------------------------------------------
(* The loops. *)

\* The arguments of Run and RunEventReco: with no end, the start is the number of
\* events, and with an end of -1 there is no limit.
EventRange(start, end) ==
    LET max == CheckMaxEventNo(end)
        Least(m) == IF m < max THEN m ELSE max
    IN  IF max = -1 THEN [from |-> start, to |-> end, endless |-> TRUE]
        ELSE IF end # 0 THEN [from |-> start, to |-> Least(end), endless |-> FALSE]
        ELSE [from |-> 0, to |-> IF start = 0 THEN max ELSE Least(start), endless |-> FALSE]

Start ==
    /\ pc = "ready" /\ pc' = "loop"
    /\ range' = IF Method \in {"Run", "RunEventReco"} THEN EventRange(setup.start, setup.end)
                ELSE [from |-> 0, to |-> Len(setup.entries), endless |-> FALSE]
    /\ i' = range'.from
    /\ gFRAIsInterrupted' = FALSE
    /\ UNCHANGED <<setup, source, header, parameters, output>>

LoopOn == i < range.to \/ (range.endless /\ Method = "Run")
Stopped == gFRAIsInterrupted /\ Method = "Run"

\* The entry asked for: RunSingleEntry and RunMQ are called for one entry after another.
Asked == IF Method \in {"Run", "RunEventReco"} THEN i ELSE setup.entries[i + 1]

\* ReadEvent of the file source.
FileRead(e) ==
    /\ data' = Entry(e, data)
    /\ fCurrentEntryNo' = e
    /\ IF Sampled THEN fEventTime' \in FileTimes(e) /\ fTimeforEntryNo' = e
                  ELSE fEventTime' = data'.main.t /\ UNCHANGED fTimeforEntryNo
    /\ UNCHANGED <<outHeader, fCurrentEntry>>

Advance(c) == [fCurrentEntry EXCEPT ![c] = @ + 1]

\* ReadEvent of the mixed source, which does not look at the end of a chain.
MixedRead(e) ==
    \E u \in 1..Draws :
        LET c == Chosen(u)
        IN  /\ data' = MixedEntry(c, fCurrentEntry[c], data)
            /\ fCurrentEntry' = Advance(c)
            /\ fCurrentEntryNo' = e
            /\ IF Sampled THEN fEventTime' \in MixedTimes(e) ELSE fEventTime' = data'.main.t
            /\ fTimeforEntryNo' = IF Sampled THEN e ELSE fCurrentEntryNo
            /\ outHeader' = Header(outHeader.run, fCurrentEntry[c], c, fEventTime')

SourceHeader == IF IsMixed THEN outHeader' ELSE FileHeader(data', fEventTime')

\* Mutant: the run is looked at before the header is filled.
CheckRunIdChangedEarly(new) ==
    /\ fRunId' = fEvtHeader.run
    /\ taskRun' = IF fEvtHeader.run = fRunId \/ setup.static THEN taskRun ELSE fEvtHeader.run

\* CheckRunIdChanged, Reinit and ReInitTask, for the run in the header.
CheckRunIdChanged(new) ==
    /\ fRunId' = new
    /\ taskRun' = IF new = fRunId \/ setup.static THEN taskRun ELSE new

\* ReadEvent of the file source returns 1, which only Run looks at.
AtEnd == ~IsMixed /\ LoopOn /\ Asked >= Len(Chain)

\* The event is read.  Run fills the header before it looks at the run, the others do
\* so after the tasks.
ReadEvent ==
    /\ pc = "loop" /\ LoopOn /\ ~Stopped /\ (AtEnd => Method # "Run")
    /\ pc' = "event"
    /\ IF IsMixed THEN MixedRead(Asked) ELSE FileRead(Asked)
    /\ fCurrentTime' = SourceHeader.time
    /\ fEvtHeader' = IF Method = "Run" THEN SourceHeader ELSE fEvtHeader
    /\ CheckRunIdChanged(fEvtHeader'.run)
    /\ UNCHANGED <<setup, i, range, gFRAIsInterrupted, output>>

Loaded == [event |-> data.main, friends |-> data.friends, time |-> fCurrentTime, run |-> taskRun]
LoadedHeader == IF IsMixed THEN outHeader ELSE FileHeader(data, fEventTime)

\* ExecuteTask, the rest of the header, and Fill, which RunEventReco and RunMQ leave out.
Execute ==
    /\ pc = "event" /\ pc' = "loop"
    /\ seen' = Append(seen, Loaded)
    /\ fEvtHeader' = LoadedHeader
    /\ tree' = IF Method \in {"Run", "RunSingleEntry"}
               THEN Append(tree, [event |-> data.main, friends |-> data.friends,
                                  header |-> fEvtHeader'])
               ELSE tree
    /\ i' = i + 1
    /\ UNCHANGED <<setup, source, fCurrentTime, parameters, range, gFRAIsInterrupted>>

\* The loop is left: at its end, when ReadEvent finds none, or after an interrupt.
Finish ==
    /\ pc = "loop" /\ (~LoopOn \/ Stopped \/ (AtEnd /\ Method = "Run"))
    /\ pc' = "end"
    /\ IF LoopOn /\ ~Stopped
       THEN FileRead(Asked) /\ fCurrentTime' = SourceHeader.time
       ELSE UNCHANGED <<source, fCurrentTime>>
    /\ UNCHANGED <<setup, fEvtHeader, parameters, i, range, gFRAIsInterrupted, output>>

\* FRA_handler_ctrlc, which Run installs in its loop.
Interrupt ==
    /\ pc = "event" /\ Method = "Run" /\ gFRAIsInterrupted' = TRUE
    /\ UNCHANGED <<setup, pc, source, header, parameters, i, range, output>>

Next == RunInit \/ Start \/ ReadEvent \/ Execute \/ Finish \/ Interrupt

Spec == Init /\ [][Next]_vars

-----------------------------------------------------------------------------
(* What the caller asked for. *)

WantedFrom == IF setup.end = 0 THEN 0 ELSE setup.start
WantedTo ==
    IF setup.end > 0 THEN setup.end
    ELSE IF setup.end = 0 /\ setup.start > 0 THEN setup.start ELSE Len(Chain)

\* The entry the k-th event should be, and how many events there should be.
WantedEntry(k) ==
    IF Method \in {"Run", "RunEventReco"} THEN WantedFrom + k - 1 ELSE setup.entries[k]
WantedEvents ==
    IF Method \in {"RunSingleEntry", "RunMQ"} THEN Len(setup.entries)
    ELSE Cardinality({e \in WantedFrom..(WantedTo - 1) : Method = "Run" => e < Len(Chain)})

\* All parts of the event, and its header if it was filled.
Whole(k) ==
    LET s == seen[k]
    IN  /\ Len(s.friends) = Cardinality({f.layout : f \in ToSet(setup.friends)})
        /\ \A l \in DOMAIN s.friends : s.friends[l] = s.event.id
        /\ k \in DOMAIN tree =>
             tree[k] = [event |-> s.event, friends |-> s.friends,
                        header |-> Header(s.event.run, s.event.id, 0, s.time)]

FilesRight ==
    /\ \A k \in DOMAIN seen :
         /\ WantedEntry(k) < Len(Chain) => seen[k].event = Chain[WantedEntry(k) + 1]
         /\ Whole(k)
    /\ pc = "end" /\ ~gFRAIsInterrupted => Len(seen) = WantedEvents

MixedRight ==
    /\ \A k \in DOMAIN tree :
         LET h == tree[k].header
             events == IF h.file = 0 THEN Chain ELSE setup.signals[h.file].events
         IN  /\ h.entry = Cardinality({j \in 1..(k - 1) : tree[j].header.file = h.file})
             /\ h.entry < Len(events) => tree[k].event = events[h.entry + 1]
             /\ h.time = seen[k].time
    /\ Method = "Run" => Len(tree) <= IF setup.end = 0 THEN CheckMaxEventNo(0) ELSE setup.end

(***************************************************************************)
(* The tasks of FairRunAna work on the events that were asked for, each    *)
(* once, in order, with the data of all its friends, and what is filled    *)
(* has the header of that event.  A mixed run takes the entries of every   *)
(* chain in order, and the header names the chain and the entry the data   *)
(* are from, as long as that chain has entries.                            *)
(***************************************************************************)
EventsAsked == IF IsMixed THEN MixedRight ELSE FilesRight

(***************************************************************************)
(* SetEventTime and GetEventTime: times that are drawn grow from event to  *)
(* event, none is in a gap of the beam, and the file source draws once for *)
(* an entry however often the time is asked for; other times are those of  *)
(* the files.                                                              *)
(***************************************************************************)
TimesRight ==
    \A k \in DOMAIN seen :
        IF ~Sampled THEN seen[k].time = seen[k].event.t
        ELSE /\ ~InGap(seen[k].time)
             /\ k > 1 /\ ~IsMixed /\ WantedEntry(k) = WantedEntry(k - 1) =>
                  seen[k].time = seen[k - 1].time
             /\ k > 1 /\ (IsMixed \/ WantedEntry(k) # WantedEntry(k - 1)) =>
                  /\ seen[k].time > seen[k - 1].time
                  /\ ~IsMixed /\ ~HasBeam => seen[k].time - seen[k - 1].time \in setup.deltas

\* The run of the event before the k-th, or of the first of the chain.
RunBefore(k) == IF k = 1 THEN Chain[1].run ELSE seen[k - 1].event.run

(***************************************************************************)
(* CheckRunIdChanged: the tasks work on an event with the parameters of    *)
(* its run, or of the first run if the containers are static; a mixed run  *)
(* has the run of the chain it was told to take it from.  RunEventReco,    *)
(* RunSingleEntry and RunMQ look at the header before it is filled, so     *)
(* that they may be one event late, but are never later.                   *)
(***************************************************************************)
ParametersOfRun ==
    \A k \in DOMAIN seen :
        IF IsMixed THEN seen[k].run = MixedEntry(setup.runFrom, 0, data).main.run
        ELSE IF setup.static THEN seen[k].run = Chain[1].run
        ELSE \/ seen[k].run = seen[k].event.run
             \/ Method # "Run" /\ seen[k].run = RunBefore(k)
=============================================================================
