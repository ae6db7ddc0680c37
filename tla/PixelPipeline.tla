---------------------------- MODULE PixelPipeline ----------------------------
(***************************************************************************)
(* The reconstruction of the pixel detector example as devices: digis that *)
(* PixelDigiWriteToFile or PixelDigiWriteToBinFile divided over files, a   *)
(* FairMQPixelSampler for each file, FairMQPixelTaskProcessors that find   *)
(* hits, a FairMQPixelMerger that joins the parts of an event, and the     *)
(* FairMQPixelFileSink, which may acknowledge what it stored.              *)
(*                                                                         *)
(* A digi is a record [event, station, no]; the hit made of it is named by *)
(* the digi.  Devices are joined by queues of bounded length.              *)
(***************************************************************************)
EXTENDS Integers, Sequences, FiniteSets, SequencesExt

CONSTANTS Setups,      \* the topologies, options and inputs considered
          QueueLength  \* bound: messages in a queue

\* Events are known by run and entry (PixelEventHeader); each sampler has processors
\* of its own.
ASSUME SetupAssumption ==
    /\ QueueLength \in Nat \ {0}
    /\ \A s \in Setups :
          /\ s.nofFiles \in Nat \ {0} /\ s.maxIndex \in Int
          /\ s.sourceType \in {"FairFileSource", "PixelDigiSource", "PixelDigiBinSource"}
          /\ s.acks \in BOOLEAN /\ s.merging \in BOOLEAN
          /\ s.events \in Seq({s.events[i] : i \in DOMAIN s.events})
          /\ \A i \in DOMAIN s.events :
                /\ s.events[i].run \in Nat /\ s.events[i].entry \in Nat
                /\ IsFiniteSet(s.events[i].digis)
          /\ \A i, j \in DOMAIN s.events :
                s.events[i].run = s.events[j].run /\ s.events[i].entry = s.events[j].entry => i = j
          /\ \A p, q \in 0..(s.nofFiles - 1) :
                s.feeds[p] # {} /\ (p # q => s.feeds[p] \cap s.feeds[q] = {})

VARIABLES setup,    \* the topology, options and input of this run
          sampler,  \* the samplers and their sources
          toProc,   \* messages on their way to a processor
          toMerger, \* messages a processor has sent
          merger,   \* fNofPartsPerEventMap and fObjectMap
          toSink,   \* messages the merger has sent
          tree      \* what the sink filled

vars == <<setup, sampler, toProc, toMerger, merger, toSink, tree>>

Events == setup.events         \* what was digitised: Events[i] = [run, entry, digis]
NofFiles == setup.nofFiles     \* files the digis are divided over: one, or one a station
SourceType == setup.sourceType \* "FairFileSource", "PixelDigiSource" or "PixelDigiBinSource"
MaxIndex == setup.maxIndex     \* option of the samplers, negative for all events
Acks == setup.acks             \* the samplers have an ack channel
Merging == setup.merging       \* there is a merger before the sink
NofParts == NofFiles           \* parts of an event for the merger (fNofParts)
Feeds == setup.feeds           \* Feeds[p]: the processors of the sampler of file p

Files == 0..(NofFiles - 1)
Processors == UNION {Feeds[p] : p \in Files}

Message(run, entry, part, digis) == [run |-> run, entry |-> entry, part |-> part, digis |-> digis]

----------------------------------------------------------------------------
(***************************************************************************)
(* The files.                                                              *)
(***************************************************************************)
FileToSave(d) == IF NofFiles = 1 THEN 0 ELSE d.station - 1

DigisIn(i, p) == {d \in Events[i].digis : FileToSave(d) = p}

\* PixelDigiWriteToFile::Exec: the lines of an event.
EventLines(i, p) ==
    <<[type |-> "begin", run |-> Events[i].run, entry |-> Events[i].entry]>>
    \o [k \in 1..Cardinality(DigisIn(i, p)) |->
          [type |-> "digi", digi |-> SetToSeq(DigisIn(i, p))[k]]]
    \o <<[type |-> "end"]>>

\* PixelDigiWriteToBinFile::Exec: a head with the number of digis, and those.
EventBlock(i, p) == Message(Events[i].run, Events[i].entry, p, DigisIn(i, p))

Lines == [p \in Files |-> FlattenSeq([i \in DOMAIN Events |-> EventLines(i, p)])]
Blocks == [p \in Files |-> [i \in DOMAIN Events |-> EventBlock(i, p)]]

----------------------------------------------------------------------------
(***************************************************************************)
(* The sources: ReadEvent gives the source after it, with what it read.    *)
(***************************************************************************)
Source == [at |-> 1, event |-> Message(0, 0, 0, {}), ok |-> TRUE]

EndOfFile(s) == [s EXCEPT !.ok = FALSE]

\* PixelDigiSource: the loop goes on only after a line "EVENT END".
ReadLines(s, p) ==
    LET ends == s.at <= Len(Lines[p]) /\ Lines[p][s.at].type = "end"
        at == IF ends THEN s.at + 1 ELSE s.at
    IN IF at > Len(Lines[p]) THEN EndOfFile(s)
       ELSE LET line == Lines[p][at]
            IN [s EXCEPT !.at = at + 1,
                         !.event = IF line.type = "begin"
                                   THEN Message(line.run, line.entry, p, {})
                                   ELSE [@ EXCEPT !.digis = {line.digi}]]

\* PixelDigiBinSource: a head and its digis.
ReadBlock(s, p) ==
    IF s.at > Len(Blocks[p]) THEN EndOfFile(s)
    ELSE [s EXCEPT !.at = @ + 1, !.event = Blocks[p][s.at]]

\* FairFileSource: the entry with the number of the sampler's counter.
ReadEntry(s, p, i) ==
    IF i >= Len(Blocks[p]) THEN EndOfFile(s)
    ELSE [s EXCEPT !.event = Blocks[p][i + 1]]

ReadEvent(s, p, i) ==
    CASE SourceType = "PixelDigiSource" -> ReadLines(s, p)
      [] SourceType = "PixelDigiBinSource" -> ReadBlock(s, p)
      [] SourceType = "FairFileSource" -> ReadEntry(s, p, i)

CheckMaxEventNo(p) == IF SourceType = "FairFileSource" THEN Len(Blocks[p]) ELSE -1

----------------------------------------------------------------------------
(***************************************************************************)
(* The sampler.                                                            *)
(***************************************************************************)
\* FairMQPixelSampler::InitTask and PreRun.
NewSampler(p) ==
    [source |-> Source, fEventCounter |-> 0,
     fMaxIndex |-> IF MaxIndex < 0 THEN CheckMaxEventNo(p) ELSE MaxIndex,
     running |-> TRUE, done |-> FALSE, listening |-> Acks, numAcks |-> 0, acks |-> 0]

Init == /\ setup \in Setups
        /\ sampler = [p \in Files |-> NewSampler(p)]
        /\ toProc = [q \in Processors |-> << >>]
        /\ toMerger = [q \in Processors |-> << >>]
        /\ merger = [parts |-> [k \in {} |-> 0], buffer |-> {}]
        /\ toSink = << >>
        /\ tree = << >>

\* ConditionalRun of an event: it goes to one of the sampler's processors.
ConditionalRun(p) ==
    /\ sampler[p].running
    /\ sampler[p].fEventCounter # sampler[p].fMaxIndex
    /\ LET read == ReadEvent(sampler[p].source, p, sampler[p].fEventCounter)
       IN /\ read.ok
          /\ \E q \in Feeds[p] :
               /\ Len(toProc[q]) < QueueLength
               /\ toProc' = [toProc EXCEPT ![q] = Append(@, read.event)]
          /\ sampler' = [sampler EXCEPT ![p].source = read, ![p].fEventCounter = @ + 1]
    /\ UNCHANGED <<setup, toMerger, merger, toSink, tree>>

\* ConditionalRun returns false: all events, or no more in the source.
StopRunning(p) ==
    /\ sampler[p].running
    /\ \/ sampler[p].fEventCounter = sampler[p].fMaxIndex
       \/ ~ReadEvent(sampler[p].source, p, sampler[p].fEventCounter).ok
    /\ sampler' = [sampler EXCEPT ![p].running = FALSE]
    /\ UNCHANGED <<setup, toProc, toMerger, merger, toSink, tree>>

\* Mutant: an acknowledgement more is waited for.
ListeningLong(s, numAcks) == numAcks <= s.fMaxIndex

Listening(s, numAcks) == numAcks < s.fMaxIndex

\* The thread of ListenForAcks receives an acknowledgement.
ListenForAcks(p) ==
    /\ sampler[p].listening /\ sampler[p].acks > 0
    /\ sampler' = [sampler EXCEPT ![p].acks = @ - 1, ![p].numAcks = @ + 1,
                                  ![p].listening = Listening(sampler[p], sampler[p].numAcks + 1)]
    /\ UNCHANGED <<setup, toProc, toMerger, merger, toSink, tree>>

\* PostRun joins the thread.
PostRun(p) ==
    /\ ~sampler[p].running /\ ~sampler[p].listening /\ ~sampler[p].done
    /\ sampler' = [sampler EXCEPT ![p].done = TRUE]
    /\ UNCHANGED <<setup, toProc, toMerger, merger, toSink, tree>>

----------------------------------------------------------------------------
\* FairMQPixelTaskProcessor::ProcessData; its parameters are in ParameterServer.
ProcessData(q) ==
    /\ toProc[q] # << >> /\ Len(toMerger[q]) < QueueLength
    /\ toMerger' = [toMerger EXCEPT ![q] = Append(@, Head(toProc[q]))]
    /\ toProc' = [toProc EXCEPT ![q] = Tail(@)]
    /\ UNCHANGED <<setup, sampler, merger, toSink, tree>>

----------------------------------------------------------------------------
(***************************************************************************)
(* The merger.                                                             *)
(***************************************************************************)
EvRIPair(msg) == <<msg.entry, msg.run>>

Buffered(msg) == \E b \in merger.buffer : EvRIPair(b) = EvRIPair(msg) /\ b.part = msg.part

ReceivedParts(msg) ==
    IF EvRIPair(msg) \in DOMAIN merger.parts THEN merger.parts[EvRIPair(msg)] + 1 ELSE 1

CountPart(msg) ==
    [k \in DOMAIN merger.parts \cup {EvRIPair(msg)} |->
        IF k = EvRIPair(msg) THEN ReceivedParts(msg) ELSE merger.parts[k]]

\* The arrays are compared by the addresses of their names, and the array of
\* another part has a name of its own.
SameName(a, b) == a.part = b.part

OtherParts(msg) ==
    {b \in merger.buffer : EvRIPair(b) = EvRIPair(msg) /\ b.part \in (0..(NofParts - 1)) \ {msg.part}}

Absorbed(msg) ==
    [msg EXCEPT !.digis = @ \cup UNION {b.digis : b \in {b \in OtherParts(msg) : SameName(msg, b)}}]

\* Mutant: a part that comes twice is counted twice.
SkipsPartNever(msg) == FALSE

SkipsPart(msg) == Buffered(msg)

\* Mutants: the parts are left in the buffer; an event is taken for complete
\* one part too late or too early.
EraseMergedNot(msg) == merger.buffer

EraseMerged(msg) == merger.buffer \ OtherParts(msg)

IsLastPartLate(msg) == ReceivedParts(msg) > NofParts

IsLastPartEarly(msg) == ReceivedParts(msg) >= NofParts - 1

IsLastPart(msg) == ReceivedParts(msg) = NofParts

\* FairMQPixelMerger::MergeData
MergeData(q) ==
    /\ Merging /\ toMerger[q] # << >> /\ Len(toSink) < QueueLength
    /\ LET msg == Head(toMerger[q])
       IN CASE SkipsPart(msg) -> UNCHANGED <<merger, toSink>>
            [] ~SkipsPart(msg) /\ ~IsLastPart(msg) ->
                 /\ merger' = [parts |-> CountPart(msg), buffer |-> merger.buffer \cup {msg}]
                 /\ UNCHANGED toSink
            [] ~SkipsPart(msg) /\ IsLastPart(msg) ->
                 /\ merger' = [parts |-> CountPart(msg), buffer |-> EraseMerged(msg)]
                 /\ toSink' = Append(toSink, Absorbed(msg))
    /\ toMerger' = [toMerger EXCEPT ![q] = Tail(@)]
    /\ UNCHANGED <<setup, sampler, toProc, tree>>

\* FairMQPixelFileSink::StoreData fills the tree and acknowledges.
Fill(msg) ==
    /\ tree' = Append(tree, msg)
    /\ sampler' = IF Acks THEN [sampler EXCEPT ![0].acks = @ + 1] ELSE sampler

StoreMerged ==
    /\ toSink # << >>
    /\ Fill(Head(toSink)) /\ toSink' = Tail(toSink)
    /\ UNCHANGED <<setup, toProc, toMerger, merger>>

StoreProcessed(q) ==
    /\ ~Merging /\ toMerger[q] # << >>
    /\ Fill(Head(toMerger[q])) /\ toMerger' = [toMerger EXCEPT ![q] = Tail(@)]
    /\ UNCHANGED <<setup, toProc, merger, toSink>>

Next == \/ \E p \in Files : ConditionalRun(p) \/ StopRunning(p) \/ ListenForAcks(p) \/ PostRun(p)
        \/ \E q \in Processors : ProcessData(q) \/ MergeData(q) \/ StoreProcessed(q)
        \/ StoreMerged

\* While a device or a thread can go on, one of them does.  More is not needed:
\* no behaviour is infinite, so a device that can go on has its turn.
Fairness == WF_vars(Next)

Spec == Init /\ [][Next]_vars /\ Fairness
----------------------------------------------------------------------------
Messages == [run : Nat, entry : Nat, part : Files,
             digis : SUBSET UNION {Events[i].digis : i \in DOMAIN Events}]

TypeOK ==
    /\ \A q \in Processors : toProc[q] \in Seq(Messages) /\ toMerger[q] \in Seq(Messages)
    /\ merger.buffer \subseteq Messages
    /\ \A k \in DOMAIN merger.parts :
           merger.parts[k] \in IF SourceType = "PixelDigiSource" THEN Nat ELSE 1..NofParts
    /\ tree \in Seq(Messages)

IsEvent(msg, i) == msg.run = Events[i].run /\ msg.entry = Events[i].entry

Stored(i) == \E k \in DOMAIN tree : IsEvent(tree[k], i)

\* No event is stored twice, however the parts of the events interleave.
StoredOnce ==
    \A j, k \in DOMAIN tree : j # k => ~(tree[j].run = tree[k].run /\ tree[j].entry = tree[k].entry)

\* An event is stored with digis of its own only, and not before every sampler
\* has sent its part of that event.
StoredWhenComplete ==
    \A k \in DOMAIN tree : \E i \in DOMAIN Events :
        /\ IsEvent(tree[k], i)
        /\ tree[k].digis \subseteq Events[i].digis
        /\ \A p \in Files : sampler[p].fEventCounter >= i

\* The merger keeps parts of events that are not complete yet, no others; but a
\* text source may go on with parts of an event that was sent on.
BufferOnlyOpenEvents ==
    SourceType # "PixelDigiSource" => \A b \in merger.buffer : merger.parts[EvRIPair(b)] < NofParts

\* An event is stored with all its digis.
StoredWhole ==
    \A k \in DOMAIN tree : \E i \in DOMAIN Events :
        IsEvent(tree[k], i) /\ tree[k].digis = Events[i].digis

\* Without a merger an event is stored with all its digis.
StoredWholeUnmerged == Merging \/ StoredWhole

\* Every event that the option max-index does not cut off is stored in the end.
StoresEveryEvent ==
    <>(\A i \in DOMAIN Events : MaxIndex < 0 \/ i <= MaxIndex => Stored(i))

\* Every sampler ends, also one that waits for acknowledgements, unless the
\* option max-index is above the number of events.
SamplersEnd ==
    <>((Acks => MaxIndex <= Len(Events)) => \A p \in Files : sampler[p].done)

\* What the sink stores and what the merger holds back: each event once, when it is
\* complete, whole where nothing is merged, and nothing of an event already sent.
StoredRight ==
    TypeOK /\ StoredOnce /\ StoredWhenComplete /\ StoredWholeUnmerged /\ BufferOnlyOpenEvents
=============================================================================
